---------------------------- MODULE CoreLogicProofs ----------------------------
(***************************************************************************)
(* Proofs about CoreLogic, for any number of threads, logics and messages  *)
(* and any first size of the table: every logic in the table is found by   *)
(* its id, ids are never given twice, and the counts are exact.            *)
(*                                                                         *)
(* LiveIsFound looks at one id at a time and is not inductive.  WellFiled  *)
(* says of the whole table that each logic is at the place of its id and   *)
(* nowhere else; it survives the doubling because two logics that meet in  *)
(* the new table would have met in the old one.  For the counts,           *)
(* NotOwnedTwice says why the thread that brings a count to 0 is not       *)
(* removing a logic its creator still has.                                 *)
(***************************************************************************)
EXTENDS CoreLogic, CommonLemmas

Statuses == {"none", "live", "removed"}

(* Table sl of sz places files exactly the logics that are live. *)
WellFiled(sl, sz) ==
    /\ sz \in Nat /\ sl \in [0 .. sz - 1 -> Logics \cup {NULL}]
    /\ \A k \in 0 .. sz - 1 : sl[k] # NULL =>
            status[sl[k]] = "live" /\ logic_id[sl[k]] % sz = k
    /\ \A l \in Logics : status[l] = "live" => sz > 0 /\ sl[logic_id[l] % sz] = l

TableTypes ==
    /\ allocid \in Nat /\ logic_id \in [Logics -> Nat] /\ status \in [Logics -> Statuses]

IdsBelow ==
    \A l \in Logics : status[l] # "none" => logic_id[l] < allocid /\ slot_size > 0

TableInv == TableTypes /\ WellFiled(slot, slot_size) /\ IdsBelow

-------------------------------------------------------------------------------
(* A table has room for corelogic_store_reg exactly if a place is empty.   *)
LEMMA RoomMeansEmpty ==
    ASSUME NEW sz \in Nat \ {0}, NEW sl, allocid \in Nat
    PROVE  Room(sl, sz) # {} <=> \E k \in 0 .. sz - 1 : sl[k] = NULL
<1>1. ASSUME NEW k \in 0 .. sz - 1, sl[k] = NULL PROVE Room(sl, sz) # {}
  <2>1. PICK i \in 0 .. sz - 1 : (i + allocid) % sz = k
    BY EveryPlacePassed
  <2>2. i \in Room(sl, sz)
    BY <1>1, <2>1 DEF Room, Hash
  <2>3. QED  BY <2>2
<1>2. ASSUME NEW i \in Room(sl, sz) PROVE \E k \in 0 .. sz - 1 : sl[k] = NULL
  <2>1. i \in 0 .. sz - 1 /\ sl[(i + allocid) % sz] = NULL
    BY <1>2 DEF Room, Hash
  <2>2. (i + allocid) % sz \in 0 .. sz - 1
    BY <2>1, ModDef
  <2>3. QED  BY <2>1, <2>2
<1>3. QED  BY <1>1, <1>2

(* The offset corelogic_store_reg takes is one with room. *)
LEMMA MinRoom ==
    ASSUME NEW sz \in Nat \ {0}, NEW sl, Room(sl, sz) # {}
    PROVE  Min(Room(sl, sz)) \in Room(sl, sz)
<1>1. Room(sl, sz) \in SUBSET Nat
  BY DEF Room
<1>2. \E x \in Room(sl, sz) : \A y \in Room(sl, sz) : x <= y
  BY <1>1, LeastNatural
<1>3. QED  BY <1>2 DEF Min

(* The doubled table of a full one files the same logics ... *)
LEMMA ResizeFiles ==
    ASSUME TableTypes, WellFiled(slot, slot_size), slot_size > 0,
           \A k \in 0 .. slot_size - 1 : slot[k] # NULL
    PROVE  /\ WellFiled(corelogic_store_resize(slot, slot_size), 2 * slot_size)
           /\ \E k \in 0 .. 2 * slot_size - 1 :
                corelogic_store_resize(slot, slot_size)[k] = NULL
<1> DEFINE n == slot_size
           all_ == {slot[i] : i \in 0 .. n - 1}
           at(h) == {k \in all_ : logic_id[k] % (2 * n) = h}
           new == corelogic_store_resize(slot, slot_size)
<1>1. n \in Nat \ {0} /\ 2 * n \in Nat \ {0} /\ n * 2 = 2 * n
  BY DEF WellFiled
<1>2. \A k \in all_ : k \in Logics /\ status[k] = "live" /\ logic_id[k] \in Nat /\ slot[logic_id[k] % n] = k
  BY LogicsFinite DEF WellFiled, TableTypes
<1>3. \A l \in Logics : status[l] = "live" => l \in all_
  <2>1. TAKE l \in Logics
  <2>2. HAVE status[l] = "live"
  <2>3. slot[logic_id[l] % n] = l /\ logic_id[l] % n \in 0 .. n - 1
    BY <1>1, <2>2, ModDef DEF WellFiled, TableTypes
  <2>4. QED  BY <2>3
<1>4. new = [h \in 0 .. 2 * n - 1 |-> IF at(h) = {} THEN NULL ELSE CHOOSE k \in at(h) : TRUE]
  BY <1>1 DEF corelogic_store_resize, Hash
<1> HIDE DEF new, all_
<1>5. \A h : \A j, k \in at(h) : j = k
  <2>1. TAKE h
  <2>2. TAKE j, k \in at(h)
  <2>3. (logic_id[j] % (2 * n)) % n = logic_id[j] % n /\ (logic_id[k] % (2 * n)) % n = logic_id[k] % n
    BY <1>1, <1>2, ModDouble
  <2>4. logic_id[j] % n = logic_id[k] % n
    BY <2>3
  <2>5. QED  BY <1>2, <2>4
<1>6. \A h \in 0 .. 2 * n - 1 : new[h] # NULL => new[h] \in at(h)
  BY <1>4
<1>7. \A h \in 0 .. 2 * n - 1 : \A k \in at(h) : new[h] = k
  BY <1>4, <1>5
<1>8. WellFiled(new, 2 * n)
  <2>1. new \in [0 .. 2 * n - 1 -> Logics \cup {NULL}]
    BY <1>2, <1>4, <1>6
  <2>2. \A k \in 0 .. 2 * n - 1 : new[k] # NULL =>
            status[new[k]] = "live" /\ logic_id[new[k]] % (2 * n) = k
    BY <1>2, <1>6
  <2>3. \A l \in Logics : status[l] = "live" => new[logic_id[l] % (2 * n)] = l
    <3>1. TAKE l \in Logics
    <3>2. HAVE status[l] = "live"
    <3>3. l \in at(logic_id[l] % (2 * n)) /\ logic_id[l] % (2 * n) \in 0 .. 2 * n - 1
      <4>1. l \in all_ /\ logic_id[l] \in Nat
        BY <1>2, <1>3, <3>2
      <4>2. \A m \in Nat \ {0} : logic_id[l] % m \in 0 .. m - 1
        BY <4>1, ModDef
      <4>3. QED  BY <1>1, <4>1, <4>2
    <3>4. QED  BY <1>7, <3>3
  <2>4. QED  BY <1>1, <2>1, <2>2, <2>3 DEF WellFiled
<1>9. \E k \in 0 .. 2 * n - 1 : new[k] = NULL
  <2>1. SUFFICES ASSUME new[0] # NULL, new[n] # NULL PROVE FALSE
    BY <1>1
  <2>2. new[0] \in at(0) /\ new[n] \in at(n)
    BY <1>1, <1>6, <2>1
  <2>3. /\ logic_id[new[0]] % (2 * n) = 0 /\ logic_id[new[n]] % (2 * n) = n
        /\ new[0] \in all_ /\ new[n] \in all_
    BY <2>2
  <2>4. 0 % n = 0 /\ n % n = 0
    BY <1>1, ModSmall, Z3
  <2>5. logic_id[new[0]] % n = 0 /\ logic_id[new[n]] % n = 0
    <3>1. \A k \in all_ : (logic_id[k] % (2 * n)) % n = logic_id[k] % n
      BY <1>1, <1>2, ModDouble
    <3>2. QED  BY <2>3, <2>4, <3>1
  <2>6. new[0] = new[n]
    BY <1>2, <2>3, <2>5
  <2>7. QED  BY <1>1, <2>3, <2>6
<1>10. QED  BY <1>8, <1>9 DEF new

(* ... and the first table is empty. *)
LEMMA FirstTable ==
    ASSUME WellFiled(slot, slot_size), slot_size = 0
    PROVE  /\ WellFiled(corelogic_store_resize(slot, slot_size), DEFAULT_SLOT_SIZE)
           /\ \A k \in 0 .. DEFAULT_SLOT_SIZE - 1 :
                corelogic_store_resize(slot, slot_size)[k] = NULL
<1>1. {slot[i] : i \in 0 .. slot_size - 1} = {}
  OBVIOUS
<1>2. corelogic_store_resize(slot, slot_size) = [h \in 0 .. DEFAULT_SLOT_SIZE - 1 |-> NULL]
  BY <1>1 DEF corelogic_store_resize
<1>3. \A l \in Logics : status[l] # "live"
  BY DEF WellFiled
<1>4. QED  BY <1>2, <1>3, SlotSize DEF WellFiled

-------------------------------------------------------------------------------
(* corelogic_store_reg gives the new logic a handle that is at least       *)
(* allocid and files it at an empty place, in the old or a larger table.   *)
LEMMA Registers ==
    ASSUME TableInv, NEW l \in Logics, status[l] = "none", corelogic_store_reg(l),
           status' = [status EXCEPT ![l] = "live"]
    PROVE  /\ TableInv'
           /\ logic_id'[l] >= allocid
           /\ \A k \in Logics \ {l} : logic_id'[k] = logic_id[k]
<1> DEFINE full == Room(slot, slot_size) = {}
           sl == IF full THEN corelogic_store_resize(slot, slot_size) ELSE slot
           sz == Cardinality(DOMAIN sl)
           handle == Min(Room(sl, sz)) + allocid
<1>1. TableTypes /\ WellFiled(slot, slot_size) /\ IdsBelow
  BY DEF TableInv
<1>2. sz \in Nat \ {0} /\ WellFiled(sl, sz) /\ \E k \in 0 .. sz - 1 : sl[k] = NULL
  <2>1. \A m \in Nat : Cardinality(0 .. m - 1) = m
    BY FS_Interval
  <2>2. CASE ~full
    <3>1. sl = slot /\ DOMAIN sl = 0 .. slot_size - 1 /\ slot_size \in Nat
      BY <1>1, <2>2 DEF WellFiled
    <3>2. sz = slot_size
      BY <2>1, <3>1
    <3>3. slot_size # 0
      BY <2>2 DEF Room
    <3>4. QED  BY <1>1, <2>2, <3>1, <3>2, <3>3, RoomMeansEmpty DEF TableTypes
  <2>3. CASE full /\ slot_size = 0
    <3>1. sl = corelogic_store_resize(slot, slot_size)
      BY <2>3
    <3>2. WellFiled(sl, DEFAULT_SLOT_SIZE) /\ \A k \in 0 .. DEFAULT_SLOT_SIZE - 1 : sl[k] = NULL
      BY <1>1, <2>3, <3>1, FirstTable
    <3>3. DOMAIN sl = 0 .. DEFAULT_SLOT_SIZE - 1
      BY <3>2 DEF WellFiled
    <3>4. sz = DEFAULT_SLOT_SIZE
      BY <2>1, <3>3, SlotSize
    <3>5. QED  BY <3>2, <3>4, SlotSize
  <2>4. CASE full /\ slot_size # 0
    <3>1. sl = corelogic_store_resize(slot, slot_size) /\ slot_size \in Nat \ {0}
      BY <1>1, <2>4 DEF WellFiled
    <3>2. \A k \in 0 .. slot_size - 1 : slot[k] # NULL
      BY <1>1, <2>4, <3>1, RoomMeansEmpty DEF TableTypes
    <3>3. WellFiled(sl, 2 * slot_size) /\ \E k \in 0 .. 2 * slot_size - 1 : sl[k] = NULL
      BY <1>1, <3>1, <3>2, ResizeFiles
    <3>4. DOMAIN sl = 0 .. 2 * slot_size - 1
      BY <3>3 DEF WellFiled
    <3>5. sz = 2 * slot_size
      BY <2>1, <3>1, <3>4
    <3>6. QED  BY <3>1, <3>3, <3>5
  <2>5. QED  BY <2>2, <2>3, <2>4
<1>3. /\ logic_id' = [logic_id EXCEPT ![l] = handle]
      /\ slot' = [sl EXCEPT ![handle % sz] = l]
      /\ slot_size' = sz /\ allocid' = handle + 1
  BY DEF corelogic_store_reg, Hash
<1> HIDE DEF sl, sz
<1>4. Min(Room(sl, sz)) \in Room(sl, sz)
  BY <1>1, <1>2, RoomMeansEmpty, MinRoom DEF TableTypes
<1>5. handle \in Nat /\ handle >= allocid /\ sl[handle % sz] = NULL
  <2> DEFINE m == Min(Room(sl, sz))
  <2>1. m \in 0 .. sz - 1 /\ sl[(m + allocid) % sz] = NULL
    BY <1>4 DEF Room, Hash
  <2> HIDE DEF m
  <2>2. m + allocid \in Nat /\ m + allocid >= allocid
    BY <1>1, <1>2, <2>1 DEF TableTypes
  <2>3. QED  BY <2>1, <2>2 DEF m
<1> HIDE DEF handle
<1>6. handle % sz \in 0 .. sz - 1
  BY <1>2, <1>5, ModDef
<1>7. /\ logic_id'[l] = handle /\ \A k \in Logics \ {l} : logic_id'[k] = logic_id[k]
      /\ status'[l] = "live" /\ \A k \in Logics \ {l} : status'[k] = status[k]
      /\ logic_id' \in [Logics -> Nat] /\ status' \in [Logics -> Statuses]
  BY <1>1, <1>3, <1>5 DEF TableTypes, Statuses
<1>8. TableTypes'
  BY <1>3, <1>5, <1>7 DEF TableTypes
<1>9. IdsBelow'
  <2>1. \A k \in Logics : status'[k] # "none" => logic_id'[k] < handle + 1
    BY <1>1, <1>5, <1>7 DEF IdsBelow, TableTypes
  <2>2. QED  BY <1>2, <1>3, <2>1 DEF IdsBelow
<1>10. WellFiled(slot, slot_size)'
  <2>1. /\ slot' \in [0 .. sz - 1 -> Logics \cup {NULL}]
        /\ slot'[handle % sz] = l
        /\ \A k \in 0 .. sz - 1 : k # handle % sz => slot'[k] = sl[k]
    BY <1>2, <1>3, <1>6 DEF WellFiled
  <2>2. \A k \in 0 .. sz - 1 : slot'[k] # NULL =>
            status'[slot'[k]] = "live" /\ logic_id'[slot'[k]] % sz = k
    <3>1. TAKE k \in 0 .. sz - 1
    <3>2. HAVE slot'[k] # NULL
    <3>3. CASE k = handle % sz
      BY <1>7, <2>1, <3>3
    <3>4. CASE k # handle % sz
      <4>1. sl[k] # NULL /\ sl[k] \in Logics /\ status[sl[k]] = "live" /\ logic_id[sl[k]] % sz = k
        BY <1>2, <2>1, <3>2, <3>4 DEF WellFiled
      <4>2. sl[k] # l
        BY <4>1
      <4>3. QED  BY <1>7, <2>1, <3>4, <4>1, <4>2
    <3>5. QED  BY <3>3, <3>4
  <2>3. \A k \in Logics : status'[k] = "live" => slot'[logic_id'[k] % sz] = k
    <3>1. TAKE k \in Logics
    <3>2. HAVE status'[k] = "live"
    <3>3. CASE k = l
      BY <1>7, <2>1, <3>3
    <3>4. CASE k # l
      <4>1. sl[logic_id[k] % sz] = k /\ logic_id[k] \in Nat
        BY <1>1, <1>2, <1>7, <3>2, <3>4 DEF WellFiled, TableTypes
      <4>2. logic_id[k] % sz \in 0 .. sz - 1
        BY <1>2, <4>1, ModDef
      <4>3. logic_id[k] % sz # handle % sz
        BY <1>5, <4>1, LogicsFinite
      <4>4. QED  BY <1>7, <2>1, <3>4, <4>1, <4>2, <4>3
    <3>5. QED  BY <3>3, <3>4
  <2>4. slot_size' = sz /\ sz \in Nat /\ sz > 0
    BY <1>2, <1>3
  <2>5. \A k \in Logics : status'[k] = "live" =>
            slot_size' > 0 /\ slot'[logic_id'[k] % slot_size'] = k
    BY <2>3, <2>4
  <2>6. QED  BY <2>1, <2>2, <2>4, <2>5, Zenon DEF WellFiled
<1>11. QED  BY <1>5, <1>7, <1>8, <1>9, <1>10 DEF TableInv

-------------------------------------------------------------------------------
(* A thread between grub and the end of a release has a logic in hand, and *)
(* an idle one has none.                                                   *)
Hands ==
    \A t \in Threads :
        /\ pc[t] = "idle" => lgc[t] = NULL
        /\ pc[t] # "idle" /\ dead = "no" => lgc[t] \in Logics

(* Who removes a logic does not take it from its creator. *)
NotOwnedTwice ==
    \A t \in Threads : pc[t] \in {"lock", "free"} /\ lgc[t] \in Logics => ~owned[lgc[t]]

(* No reference of a logic that does not exist yet, and no message to it.  *)
NoneUnused ==
    \A l \in Logics : status[l] = "none" => ref[l] = 0 /\ ~owned[l] /\ queued[l] = 0

(* A logic in hand has been registered. *)
InHandExists ==
    \A t \in Threads : lgc[t] \in Logics => status[lgc[t]] # "none"

Counted ==
    \A l \in Logics :
        ref[l] = Cardinality(Holders(l)) + leaked[l] + (IF owned[l] THEN 1 ELSE 0)

OwnedLive == \A l \in Logics : owned[l] => status[l] = "live"

Types ==
    /\ ref \in [Logics -> Int]
    /\ owned \in [Logics -> BOOLEAN] /\ leaked \in [Logics -> Nat]
    /\ queued \in [Logics -> Nat] /\ lgc \in [Threads -> Logics \cup {NULL}]
    /\ pc \in [Threads -> {"idle", "post", "dec", "lock", "free", "call"}]
    /\ dead \in {"no", "assert", "fault"}

IInv ==
    /\ TableInv /\ Types /\ Hands /\ NotOwnedTwice /\ NoneUnused /\ InHandExists
    /\ Counted /\ OwnedLive

(* Holders(l) changes by the one thread that takes a step. *)
LEMMA HoldersChange ==
    ASSUME NEW t \in Threads, NEW l \in Logics,
           \A u \in Threads \ {t} : pc'[u] = pc[u] /\ lgc'[u] = lgc[u]
    PROVE  /\ Cardinality(Holders(l)) \in Nat /\ Cardinality(Holders(l)') \in Nat
           /\ t \in Holders(l) => Cardinality(Holders(l)) >= 1
           /\ t \in Holders(l) /\ t \in Holders(l)' =>
                Cardinality(Holders(l)') = Cardinality(Holders(l))
           /\ t \notin Holders(l) /\ t \notin Holders(l)' =>
                Cardinality(Holders(l)') = Cardinality(Holders(l))
           /\ t \in Holders(l) /\ t \notin Holders(l)' =>
                Cardinality(Holders(l)') = Cardinality(Holders(l)) - 1
           /\ t \notin Holders(l) /\ t \in Holders(l)' =>
                Cardinality(Holders(l)') = Cardinality(Holders(l)) + 1
<1>1. Holders(l) \subseteq Threads
  BY DEF Holders
<1>2. IsFiniteSet(Holders(l))
  BY <1>1, FS_Subset, ThreadsFinite
<1>3. Holders(l)' \ {t} = Holders(l) \ {t}
  BY DEF Holders
<1>4. t \in Holders(l) => Cardinality(Holders(l)) >= 1
  BY <1>2, FS_CardinalityType, FS_EmptySet
<1>5. QED  BY <1>2, <1>3, <1>4, OneChanges

(* The holders of a logic stay when the thread that takes a step is not one *)
(* of them, before or after.                                               *)
LEMMA HoldersKept ==
    ASSUME NEW t \in Threads, NEW l \in Logics,
           \A u \in Threads \ {t} : pc'[u] = pc[u] /\ lgc'[u] = lgc[u],
           t \notin Holders(l), t \notin Holders(l)'
    PROVE  Holders(l)' = Holders(l)
BY DEF Holders

(* What corelogic_grub finds is in the table. *)
LEMMA FoundIsLive ==
    ASSUME TableInv, slot_size > 0, NEW i \in Nat, Found(i) # {}
    PROVE  (CHOOSE l \in Found(i) : TRUE) \in {k \in Logics : status[k] = "live"}
<1>1. i % slot_size \in 0 .. slot_size - 1
  BY ModDef DEF TableInv, WellFiled
<1>2. slot[i % slot_size] # NULL /\ Found(i) = {slot[i % slot_size]}
  BY DEF Found, Hash
<1>3. slot[i % slot_size] \in Logics /\ status[slot[i % slot_size]] = "live"
  BY <1>1, <1>2 DEF TableInv, WellFiled
<1>4. QED  BY <1>2, <1>3

(* Steps that leave the table alone. *)
LEMMA TableKept ==
    ASSUME TableInv, UNCHANGED <<store, fields>>
    PROVE  TableInv'
BY DEF TableInv, TableTypes, WellFiled, IdsBelow, store, fields

-------------------------------------------------------------------------------
(* corelogic_new keeps the invariant. *)
LEMMA NewKeeps ==
    ASSUME IInv, NEW t \in Threads, NEW l \in Logics, corelogic_new(t, l)
    PROVE  IInv'
<1>1. /\ status[l] = "none" /\ status' = [status EXCEPT ![l] = "live"]
      /\ ref' = [ref EXCEPT ![l] = 1] /\ owned' = [owned EXCEPT ![l] = TRUE]
      /\ corelogic_store_reg(l) /\ pc[t] = "idle" /\ dead = "no"
      /\ leaked' = leaked /\ queued' = queued /\ lgc' = lgc /\ dead' = dead
      /\ pc' = [pc EXCEPT ![t] = "idle"]
  BY DEF corelogic_new, Goto, mail
<1>2. pc' = pc
  BY <1>1 DEF IInv, Types
<1>3. TableInv'
  BY <1>1, Registers DEF IInv
<1>4. status \in [Logics -> Statuses]
  BY DEF IInv, TableInv, TableTypes
<1>5. \A k \in Logics : Cardinality(Holders(k)) \in Nat /\ Holders(k)' = Holders(k)
  BY <1>1, <1>2, HoldersChange DEF Holders
<1>6. Types'
  BY <1>1, <1>2 DEF IInv, Types
<1>7. Hands'
  BY <1>1, <1>2 DEF IInv, Hands
<1>8. Cardinality(Holders(l)) = 0 /\ leaked[l] = 0
  BY <1>1, <1>5 DEF IInv, Counted, NoneUnused, Types
<1>9. NotOwnedTwice'
  <2>1. SUFFICES ASSUME NEW u \in Threads, pc[u] \in {"lock", "free"}, lgc[u] \in Logics
                 PROVE  ~owned'[lgc[u]]
    BY <1>1, <1>2 DEF NotOwnedTwice
  <2>2. ~owned[lgc[u]]
    BY <2>1 DEF IInv, NotOwnedTwice
  <2>3. status[lgc[u]] # "none"
    BY <2>1 DEF IInv, InHandExists
  <2>4. QED  BY <1>1, <2>1, <2>2, <2>3 DEF IInv, Types
<1>10. NoneUnused'
  BY <1>1, <1>4 DEF IInv, NoneUnused, Types
<1>11. Counted'
  BY <1>1, <1>5, <1>8 DEF IInv, Counted, Types
<1>12. OwnedLive'
  BY <1>1, <1>4 DEF IInv, OwnedLive, Types
<1>13. InHandExists'
  BY <1>1, <1>2, <1>4 DEF IInv, InHandExists
<1>14. QED
  BY <1>3, <1>6, <1>7, <1>9, <1>10, <1>11, <1>12, <1>13 DEF IInv

(* A thread that takes a logic with corelogic_grub, in warp_post or in     *)
(* default_logicmsg_handler, keeps the invariant.                          *)
LEMMA GrubKeeps ==
    ASSUME IInv, NEW t \in Threads, NEW l \in Logics, status[l] # "none",
           Found(logic_id[l]) # {}, corelogic_grub(t, logic_id[l]),
           pc[t] = "idle", NEW to \in {"post", "call"}, pc' = [pc EXCEPT ![t] = to],
           queued' = queued \/ (queued[l] > 0 /\ queued' = [queued EXCEPT ![l] = @ - 1]),
           dead' = dead, UNCHANGED <<store, fields, counts>>
    PROVE  IInv'
<1> DEFINE g == CHOOSE k \in Found(logic_id[l]) : TRUE
<1>1. slot_size > 0 /\ logic_id[l] \in Nat
  BY DEF IInv, TableInv, IdsBelow, TableTypes
<1>2. g \in Logics /\ status[g] = "live"
  BY <1>1, FoundIsLive DEF IInv
<1>3. ref' = [ref EXCEPT ![g] = @ + 1] /\ lgc' = [lgc EXCEPT ![t] = g]
  BY DEF corelogic_grub
<1> HIDE DEF g
<1>4. TableInv'
  BY TableKept DEF IInv
<1>5. queued' \in [Logics -> Nat]
  BY DEF IInv, Types
<1>6. Types'
  <2>1. ref' \in [Logics -> Int] /\ lgc' \in [Threads -> Logics \cup {NULL}]
    BY <1>2, <1>3 DEF IInv, Types
  <2>2. pc' \in [Threads -> {"idle", "post", "dec", "lock", "free", "call"}]
    BY DEF IInv, Types
  <2>3. QED  BY <1>5, <2>1, <2>2 DEF IInv, Types, counts
<1>7. Hands'
  BY <1>2, <1>3 DEF IInv, Hands, Types
<1>8. NotOwnedTwice'
  BY <1>3 DEF IInv, NotOwnedTwice, Types, counts
<1>9. NoneUnused'
  BY <1>2, <1>3 DEF IInv, NoneUnused, Types, counts, fields
<1>10. InHandExists'
  BY <1>2, <1>3 DEF IInv, InHandExists, Types, fields
<1>11. Counted'
  <2>1. lgc[t] = NULL
    BY DEF IInv, Hands
  <2>2. \A k \in Logics : t \notin Holders(k) /\ (t \in Holders(k)' <=> k = g)
    BY <1>2, <1>3, <2>1, LogicsFinite DEF Holders, IInv, Types
  <2>3. \A u \in Threads \ {t} : pc'[u] = pc[u] /\ lgc'[u] = lgc[u]
    BY <1>3 DEF IInv, Types
  <2>4. ASSUME NEW k \in Logics
       PROVE  /\ Cardinality(Holders(k)) \in Nat
              /\ Cardinality(Holders(k)') = Cardinality(Holders(k)) + (IF k = g THEN 1 ELSE 0)
    <3>1. t \notin Holders(k) /\ (t \in Holders(k)' <=> k = g)
      BY <2>2
    <3>2. Cardinality(Holders(k)) \in Nat /\ Cardinality(Holders(k)') \in Nat
      BY <2>3, HoldersChange
    <3>3. CASE k = g
      BY <2>3, <3>1, <3>2, <3>3, HoldersChange
    <3>4. CASE k # g
      <4>1. Holders(k)' = Holders(k)
        BY <2>3, <3>1, <3>4, HoldersKept
      <4>2. QED  BY <3>2, <3>4, <4>1
    <3>5. QED  BY <3>3, <3>4
  <2>5. \A k \in Logics : ref'[k] = ref[k] + (IF k = g THEN 1 ELSE 0)
    <3>1. ref \in [Logics -> Int]
      BY DEF IInv, Types
    <3>2. QED  BY <1>2, <1>3, <3>1
  <2>6. \A k \in Logics : leaked[k] \in Nat
    BY DEF IInv, Types
  <2>7. ASSUME NEW k \in Logics
        PROVE  ref'[k] = Cardinality(Holders(k)') + leaked'[k] + (IF owned'[k] THEN 1 ELSE 0)
    <3>1. ref[k] = Cardinality(Holders(k)) + leaked[k] + (IF owned[k] THEN 1 ELSE 0)
      BY DEF IInv, Counted
    <3>2. leaked' = leaked /\ owned' = owned
      BY DEF counts
    <3>3. QED  BY <2>4, <2>5, <2>6, <3>1, <3>2
  <2>8. QED  BY <2>7 DEF Counted
<1>12. OwnedLive'
  BY DEF IInv, OwnedLive, counts, fields
<1>13. QED
  BY <1>4, <1>6, <1>7, <1>8, <1>9, <1>10, <1>11, <1>12 DEF IInv

(* warp_post keeps the invariant, also where it follows what grub did not  *)
(* set.                                                                    *)
LEMMA PostKeeps ==
    ASSUME IInv, NEW t \in Threads, NEW l \in Logics, warp_post(t, l)
    PROVE  IInv'
<1>1. /\ status[l] # "none" /\ pc[t] = "idle" /\ pc' = [pc EXCEPT ![t] = "post"]
      /\ queued' = queued /\ UNCHANGED <<store, fields, counts>>
  BY DEF warp_post, Goto
<1>2. CASE Found(logic_id[l]) # {}
  <2>1. corelogic_grub(t, logic_id[l]) /\ dead' = dead
    BY <1>2 DEF warp_post
  <2>2. QED  BY <1>1, <1>2, <2>1, GrubKeeps
<1>3. CASE Found(logic_id[l]) = {}
  <2>1. dead' = "fault" /\ ref' = ref /\ lgc' = lgc
    BY <1>3 DEF warp_post
  <2>2. TableInv'
    BY <1>1, TableKept DEF IInv
  <2>3. lgc[t] = NULL
    BY <1>1 DEF IInv, Hands
  <2>4. \A k \in Logics : Holders(k)' = Holders(k)
    BY <1>1, <2>1, <2>3, LogicsFinite DEF Holders, IInv, Types
  <2>5. Types' /\ NoneUnused' /\ InHandExists' /\ OwnedLive'
    BY <1>1, <2>1 DEF IInv, Types, NoneUnused, InHandExists, OwnedLive, counts, fields
  <2>6. Hands' /\ NotOwnedTwice'
    BY <1>1, <2>1 DEF IInv, Types, Hands, NotOwnedTwice, counts
  <2>7. Counted'
    BY <1>1, <2>1, <2>4 DEF IInv, Counted, counts
  <2>8. QED  BY <2>2, <2>5, <2>6, <2>7 DEF IInv
<1>4. QED  BY <1>2, <1>3

(* So does default_logicmsg_handler. *)
LEMMA HandlerKeeps ==
    ASSUME IInv, NEW t \in Threads, NEW l \in Logics, logicmsg_handler(t, l)
    PROVE  IInv'
<1>1. /\ queued[l] > 0 /\ queued' = [queued EXCEPT ![l] = @ - 1]
      /\ UNCHANGED <<store, fields, counts>>
  BY DEF logicmsg_handler
<1>2. status[l] # "none" /\ queued' \in [Logics -> Nat]
  BY <1>1 DEF IInv, NoneUnused, Types
<1>3. CASE Found(logic_id[l]) # {}
  <2>1. /\ pc[t] = "idle" /\ pc' = [pc EXCEPT ![t] = "call"]
        /\ corelogic_grub(t, logic_id[l]) /\ dead' = dead
    BY <1>3 DEF logicmsg_handler, Goto
  <2>2. QED  BY <1>1, <1>2, <1>3, <2>1, GrubKeeps
<1>4. CASE Found(logic_id[l]) = {}
  <2>1. /\ pc[t] = "idle" /\ pc' = [pc EXCEPT ![t] = "idle"] /\ dead = "no"
        /\ dead' \in {"no", "fault"} /\ ref' = ref /\ lgc' = lgc
    BY <1>4 DEF logicmsg_handler, Goto
  <2>2. pc' = pc
    BY <2>1 DEF IInv, Types
  <2>3. TableInv'
    BY <1>1, TableKept DEF IInv
  <2>4. Types' /\ NoneUnused' /\ InHandExists' /\ OwnedLive'
    BY <1>1, <1>2, <2>1, <2>2 DEF IInv, Types, NoneUnused, InHandExists, OwnedLive, counts, fields
  <2>5. Hands' /\ NotOwnedTwice' /\ Counted'
    BY <1>1, <2>1, <2>2 DEF IInv, Hands, NotOwnedTwice, Counted, Holders, counts
  <2>6. QED  BY <2>3, <2>4, <2>5 DEF IInv
<1>5. QED  BY <1>3, <1>4

(* The message is posted. *)
LEMMA PostPostKeeps ==
    ASSUME IInv, NEW t \in Threads, warp_post_post(t)
    PROVE  IInv'
<1>1. /\ pc[t] = "post" /\ pc' = [pc EXCEPT ![t] = "dec"] /\ dead = "no" /\ dead' = dead
      /\ queued' = [queued EXCEPT ![lgc[t]] = @ + 1] /\ lgc' = lgc /\ ref' = ref
      /\ UNCHANGED <<store, fields, counts>>
  BY DEF warp_post_post, Goto
<1>2. lgc[t] \in Logics /\ status[lgc[t]] # "none"
  BY <1>1 DEF IInv, Hands, InHandExists
<1>3. TableInv'
  BY <1>1, TableKept DEF IInv
<1>4. \A k \in Logics : Holders(k)' = Holders(k)
  BY <1>1 DEF Holders, IInv, Types
<1>5. Types'
  BY <1>1, <1>2 DEF IInv, Types, counts
<1>6. NoneUnused' /\ InHandExists' /\ OwnedLive'
  BY <1>1, <1>2 DEF IInv, Types, NoneUnused, InHandExists, OwnedLive, counts, fields
<1>7. Hands' /\ NotOwnedTwice'
  BY <1>1, <1>2 DEF IInv, Types, Hands, NotOwnedTwice, counts
<1>8. Counted'
  BY <1>1, <1>4 DEF IInv, Counted, counts
<1>9. QED  BY <1>3, <1>5, <1>6, <1>7, <1>8 DEF IInv

(* The creator's reference becomes one of the releasing thread. *)
LEMMA MainReleaseKeeps ==
    ASSUME IInv, NEW t \in Threads, NEW l \in Logics, main_release(t, l)
    PROVE  IInv'
<1>1. /\ owned[l] /\ pc[t] = "idle" /\ pc' = [pc EXCEPT ![t] = "dec"] /\ dead' = dead
      /\ owned' = [owned EXCEPT ![l] = FALSE] /\ lgc' = [lgc EXCEPT ![t] = l]
      /\ ref' = ref /\ leaked' = leaked /\ queued' = queued /\ UNCHANGED <<store, fields>>
  BY DEF main_release, Goto, mail
<1>2. status[l] = "live" /\ lgc[t] = NULL
  BY <1>1 DEF IInv, OwnedLive, Hands
<1>3. TableInv'
  BY <1>1, TableKept DEF IInv
<1>4. Types'
  BY <1>1 DEF IInv, Types
<1>5. NoneUnused' /\ OwnedLive'
  BY <1>1, <1>2 DEF IInv, Types, NoneUnused, OwnedLive, fields
<1>6. InHandExists' /\ Hands'
  BY <1>1, <1>2 DEF IInv, Types, InHandExists, Hands, fields
<1>7. NotOwnedTwice'
  BY <1>1 DEF IInv, Types, NotOwnedTwice
<1>8. Counted'
  <2>1. \A k \in Logics : t \notin Holders(k) /\ (t \in Holders(k)' <=> k = l)
    BY <1>1, <1>2, LogicsFinite DEF Holders, IInv, Types
  <2>2. \A u \in Threads \ {t} : pc'[u] = pc[u] /\ lgc'[u] = lgc[u]
    BY <1>1 DEF IInv, Types
  <2>3. ASSUME NEW k \in Logics
       PROVE  /\ Cardinality(Holders(k)) \in Nat
              /\ Cardinality(Holders(k)') = Cardinality(Holders(k)) + (IF k = l THEN 1 ELSE 0)
    <3>1. t \notin Holders(k) /\ (t \in Holders(k)' <=> k = l)
      BY <2>1
    <3>2. Cardinality(Holders(k)) \in Nat /\ Cardinality(Holders(k)') \in Nat
      BY <2>2, HoldersChange
    <3>3. CASE k = l
      BY <2>2, <3>1, <3>2, <3>3, HoldersChange
    <3>4. CASE k # l
      <4>1. Holders(k)' = Holders(k)
        BY <2>2, <3>1, <3>4, HoldersKept
      <4>2. QED  BY <3>2, <3>4, <4>1
    <3>5. QED  BY <3>3, <3>4
  <2>4. \A k \in Logics : leaked[k] \in Nat
    BY DEF IInv, Types
  <2>5. QED  BY <1>1, <2>3, <2>4, SMTT(30) DEF IInv, Counted, Types
<1>9. QED  BY <1>3, <1>4, <1>5, <1>6, <1>7, <1>8 DEF IInv

(* The decrement: who brings the count to 0 knows that the creator has     *)
(* released the logic.                                                     *)
LEMMA ReleaseKeeps ==
    ASSUME IInv, NEW t \in Threads, corelogic_release(t)
    PROVE  IInv'
<1> DEFINE l == lgc[t]
           last == ref[l] - 1 = 0
<1>1. /\ pc[t] = "dec" /\ pc' = [pc EXCEPT ![t] = IF last THEN "lock" ELSE "idle"]
      /\ dead = "no" /\ dead' = dead /\ ref' = [ref EXCEPT ![l] = @ - 1]
      /\ lgc' = IF last THEN lgc ELSE [lgc EXCEPT ![t] = NULL]
      /\ queued' = queued /\ UNCHANGED <<store, fields, counts>>
  BY DEF corelogic_release, Goto, mail
<1>2. l \in Logics /\ status[l] # "none" /\ t \in Holders(l)
  BY <1>1 DEF IInv, Hands, InHandExists, Holders
<1>3. \A u \in Threads \ {t} : pc'[u] = pc[u] /\ lgc'[u] = lgc[u]
  BY <1>1 DEF IInv, Types
<1>4. \A k \in Logics : t \notin Holders(k)' /\ (t \in Holders(k) <=> k = l)
  BY <1>1, <1>2 DEF Holders, IInv, Types
<1>5. ASSUME NEW k \in Logics
     PROVE  /\ Cardinality(Holders(k)) \in Nat
            /\ Cardinality(Holders(k)') = Cardinality(Holders(k)) - (IF k = l THEN 1 ELSE 0)
  <2>1. t \notin Holders(k)' /\ (t \in Holders(k) <=> k = l)
    BY <1>4
  <2>2. Cardinality(Holders(k)) \in Nat /\ Cardinality(Holders(k)') \in Nat
    BY <1>3, HoldersChange
  <2>3. CASE k = l
    BY <1>3, <2>1, <2>2, <2>3, HoldersChange
  <2>4. CASE k # l
    <3>1. Holders(k)' = Holders(k)
      BY <1>3, <2>1, <2>4, HoldersKept
    <3>2. QED  BY <2>2, <2>4, <3>1
  <2>5. QED  BY <2>3, <2>4
<1>6. Cardinality(Holders(l)) >= 1
  BY <1>2, HoldersChange, <1>3
<1>7. TableInv'
  BY <1>1, TableKept DEF IInv
<1>8. ref[l] \in Int /\ (last => ~owned[l])
  BY <1>2, <1>5, <1>6 DEF IInv, Counted, Types
<1> HIDE DEF last
<1>9. Types'
  <2>1. ref' \in [Logics -> Int] /\ lgc' \in [Threads -> Logics \cup {NULL}]
    BY <1>1, <1>2 DEF IInv, Types
  <2>2. pc' \in [Threads -> {"idle", "post", "dec", "lock", "free", "call"}]
    BY <1>1 DEF IInv, Types
  <2>3. QED  BY <1>1, <2>1, <2>2 DEF IInv, Types, counts
<1>10. NoneUnused' /\ OwnedLive'
  BY <1>1, <1>2 DEF IInv, Types, NoneUnused, OwnedLive, counts, fields
<1>11. InHandExists'
  BY <1>1, LogicsFinite DEF IInv, Types, InHandExists, fields
<1>12. Hands'
  BY <1>1, <1>2 DEF IInv, Types, Hands
<1>13. NotOwnedTwice'
  BY <1>1, <1>8 DEF IInv, Types, NotOwnedTwice, counts
<1>14. Counted'
  <2>1. \A k \in Logics : ref'[k] = ref[k] - (IF k = l THEN 1 ELSE 0)
    <3>1. ref \in [Logics -> Int] /\ ref' = [ref EXCEPT ![l] = @ - 1]
      BY <1>1 DEF IInv, Types
    <3>2. QED  BY <1>2, <3>1
  <2>2. \A k \in Logics : leaked[k] \in Nat
    BY DEF IInv, Types
  <2>3. ASSUME NEW k \in Logics
        PROVE  ref'[k] = Cardinality(Holders(k)') + leaked'[k] + (IF owned'[k] THEN 1 ELSE 0)
    <3>1. ref[k] = Cardinality(Holders(k)) + leaked[k] + (IF owned[k] THEN 1 ELSE 0)
      BY DEF IInv, Counted
    <3>2. leaked' = leaked /\ owned' = owned
      BY <1>1 DEF counts
    <3>3. QED  BY <1>5, <2>1, <2>2, <3>1, <3>2
  <2>4. QED  BY <2>3 DEF Counted
<1>15. QED  BY <1>7, <1>9, <1>10, <1>11, <1>12, <1>13, <1>14 DEF IInv

(* The removal under the write lock empties the place of that logic only.  *)
LEMMA RemoveKeeps ==
    ASSUME IInv, NEW t \in Threads, release_remove(t)
    PROVE  IInv'
<1> DEFINE l == lgc[t]
           h == logic_id[l] % slot_size
<1>1. /\ pc[t] = "lock" /\ pc' = [pc EXCEPT ![t] = "free"] /\ dead = "no"
      /\ ref' = ref /\ lgc' = lgc /\ queued' = queued
      /\ UNCHANGED <<slot_size, allocid, logic_id, counts>>
  BY DEF release_remove, Goto, mail
<1>2. l \in Logics /\ status[l] # "none" /\ ~owned[l]
  BY <1>1 DEF IInv, Hands, InHandExists, NotOwnedTwice
<1>3. slot_size \in Nat \ {0} /\ logic_id[l] \in Nat
  <2>1. slot_size \in Nat /\ logic_id[l] \in Nat
    BY <1>2 DEF IInv, TableInv, TableTypes, WellFiled
  <2>2. slot_size > 0
    BY <1>2 DEF IInv, TableInv, IdsBelow
  <2>3. QED  BY <2>1, <2>2
<1>4. h \in 0 .. slot_size - 1
  BY <1>3, ModDef
<1>5. CASE slot[h] = l
  <2>1. slot' = [slot EXCEPT ![h] = NULL] /\ status' = [status EXCEPT ![l] = "removed"] /\ dead' = dead
    BY <1>5 DEF release_remove, Hash
  <2> HIDE DEF h
  <2>2. /\ slot' \in [0 .. slot_size - 1 -> Logics \cup {NULL}]
        /\ slot'[h] = NULL /\ \A k \in 0 .. slot_size - 1 : k # h => slot'[k] = slot[k]
        /\ status' \in [Logics -> Statuses] /\ status'[l] = "removed"
        /\ \A k \in Logics : k # l => status'[k] = status[k]
    BY <1>2, <1>4, <2>1 DEF IInv, TableInv, TableTypes, WellFiled, Statuses
  <2>3. \A k \in 0 .. slot_size - 1 : slot'[k] # NULL =>
            slot'[k] \in Logics /\ slot'[k] # l /\ status[slot'[k]] = "live" /\ logic_id[slot'[k]] % slot_size = k
    <3>1. TAKE k \in 0 .. slot_size - 1
    <3>2. HAVE slot'[k] # NULL
    <3>3. k # h /\ slot'[k] = slot[k] /\ slot[k] \in Logics
      BY <2>2, <3>2 DEF IInv, TableInv, WellFiled
    <3>4. status[slot[k]] = "live" /\ logic_id[slot[k]] % slot_size = k
      BY <3>2, <3>3 DEF IInv, TableInv, WellFiled
    <3>5. slot[k] # l
      BY <3>3, <3>4 DEF h
    <3>6. QED  BY <3>3, <3>4, <3>5
  <2>4. \A k \in Logics : status'[k] = "live" => slot'[logic_id[k] % slot_size] = k
    <3>1. TAKE k \in Logics
    <3>2. HAVE status'[k] = "live"
    <3>3. k # l /\ status[k] = "live"
      BY <2>2, <3>2
    <3>4. slot[logic_id[k] % slot_size] = k /\ logic_id[k] \in Nat
      BY <3>3 DEF IInv, TableInv, WellFiled, TableTypes
    <3>5. logic_id[k] % slot_size \in 0 .. slot_size - 1 /\ logic_id[k] % slot_size # h
      BY <1>3, <1>5, <3>3, <3>4, ModDef
    <3>6. QED  BY <2>2, <3>4, <3>5
  <2>5. WellFiled(slot, slot_size)'
    <3>1. slot_size' = slot_size /\ logic_id' = logic_id
      BY <1>1
    <3>2. slot_size \in Nat /\ slot_size > 0
      BY <1>3
    <3>3. slot' \in [0 .. slot_size - 1 -> Logics \cup {NULL}]
      BY <2>2
    <3>4. slot_size' \in Nat /\ slot' \in [0 .. slot_size' - 1 -> Logics \cup {NULL}]
      BY <3>1, <3>2, <3>3
    <3>5. \A k \in 0 .. slot_size' - 1 : slot'[k] # NULL =>
            status'[slot'[k]] = "live" /\ logic_id'[slot'[k]] % slot_size' = k
      BY <2>2, <2>3, <3>1
    <3>6. \A k \in Logics : status'[k] = "live" =>
            slot_size' > 0 /\ slot'[logic_id'[k] % slot_size'] = k
      BY <2>4, <3>1, <3>2
    <3>7. QED  BY <3>4, <3>5, <3>6, Zenon DEF WellFiled
  <2>6. TableInv'
    BY <1>1, <1>2, <2>2, <2>5 DEF IInv, TableInv, TableTypes, IdsBelow
  <2>7. \A k \in Logics : Holders(k)' = Holders(k)
    BY <1>1 DEF Holders, IInv, Types
  <2>8. Types' /\ Hands'
    <3>1. Types'
      BY <1>1, <2>1 DEF IInv, Types, counts
    <3>2. Hands'
      BY <1>1, <1>2, <2>1 DEF IInv, Types, Hands
    <3>3. QED  BY <3>1, <3>2
  <2>9. NotOwnedTwice' /\ Counted'
    BY <1>1, <2>7, <1>2 DEF IInv, Types, NotOwnedTwice, Counted, counts
  <2>10. NoneUnused' /\ InHandExists' /\ OwnedLive'
    <3>1. \A k \in Logics : status'[k] = "none" <=> status[k] = "none"
      BY <1>2, <2>2
    <3>2. NoneUnused' /\ InHandExists'
      BY <1>1, <3>1 DEF IInv, NoneUnused, InHandExists, counts
    <3>3. OwnedLive'
      BY <1>1, <1>2, <2>2 DEF IInv, OwnedLive, counts
    <3>4. QED  BY <3>2, <3>3
  <2>11. QED  BY <2>6, <2>8, <2>9, <2>10 DEF IInv
<1>6. CASE slot[h] # l
  <2>1. dead' = "assert" /\ slot' = slot /\ status' = status
    BY <1>6 DEF release_remove, Hash
  <2>2. TableInv'
    BY <1>1, <2>1, TableKept DEF IInv, store, fields
  <2>3. \A k \in Logics : Holders(k)' = Holders(k)
    BY <1>1 DEF Holders, IInv, Types
  <2>4. Types' /\ Hands'
    <3>1. Types'
      BY <1>1, <2>1 DEF IInv, Types, counts
    <3>2. Hands'
      BY <1>1, <1>2, <2>1 DEF IInv, Types, Hands
    <3>3. QED  BY <3>1, <3>2
  <2>5. NotOwnedTwice' /\ Counted'
    BY <1>1, <2>3, <1>2 DEF IInv, Types, NotOwnedTwice, Counted, counts
  <2>6. NoneUnused' /\ InHandExists' /\ OwnedLive'
    BY <1>1, <2>1 DEF IInv, Types, NoneUnused, InHandExists, OwnedLive, counts
  <2>7. QED  BY <2>2, <2>4, <2>5, <2>6 DEF IInv
<1>7. QED  BY <1>5, <1>6

(* Following the unset `mod` ends the model. *)
LEMMA FreeKeeps ==
    ASSUME IInv, NEW t \in Threads, release_free(t)
    PROVE  IInv'
<1>1. /\ pc[t] = "free" /\ pc' = [pc EXCEPT ![t] = "free"] /\ dead' = "fault"
      /\ ref' = ref /\ lgc' = lgc /\ queued' = queued /\ UNCHANGED <<store, fields, counts>>
  BY DEF release_free, Goto, mail
<1>2. pc' = pc
  BY <1>1 DEF IInv, Types
<1>3. TableInv'
  BY <1>1, TableKept DEF IInv
<1>4. Types' /\ Hands' /\ NotOwnedTwice'
  BY <1>1, <1>2 DEF IInv, Types, Hands, NotOwnedTwice, counts
<1>5. NoneUnused' /\ InHandExists' /\ OwnedLive' /\ Counted'
  BY <1>1, <1>2 DEF IInv, NoneUnused, InHandExists, OwnedLive, Counted, Holders, counts, fields
<1>6. QED  BY <1>3, <1>4, <1>5 DEF IInv

(* The reference of a handler that returns is kept for good. *)
LEMMA ReturnKeeps ==
    ASSUME IInv, NEW t \in Threads, handler_return(t)
    PROVE  IInv'
<1> DEFINE l == lgc[t]
<1>1. /\ pc[t] = "call" /\ pc' = [pc EXCEPT ![t] = "idle"] /\ dead = "no" /\ dead' = dead
      /\ leaked' = [leaked EXCEPT ![l] = @ + 1] /\ lgc' = [lgc EXCEPT ![t] = NULL]
      /\ ref' = ref /\ owned' = owned /\ queued' = queued /\ UNCHANGED <<store, fields>>
  BY DEF handler_return, Goto, mail
<1>2. l \in Logics
  BY <1>1 DEF IInv, Hands
<1>3. TableInv'
  BY <1>1, TableKept DEF IInv
<1>4. Types'
  BY <1>1, <1>2 DEF IInv, Types
<1>5. NoneUnused' /\ OwnedLive'
  BY <1>1 DEF IInv, NoneUnused, OwnedLive, fields
<1>6. InHandExists' /\ Hands'
  BY <1>1, LogicsFinite DEF IInv, Types, InHandExists, Hands, fields
<1>7. NotOwnedTwice'
  BY <1>1 DEF IInv, Types, NotOwnedTwice
<1>8. Counted'
  <2>1. \A k \in Logics : t \notin Holders(k)' /\ (t \in Holders(k) <=> k = l)
    BY <1>1, <1>2 DEF Holders, IInv, Types
  <2>2. \A u \in Threads \ {t} : pc'[u] = pc[u] /\ lgc'[u] = lgc[u]
    BY <1>1 DEF IInv, Types
  <2>3. ASSUME NEW k \in Logics
       PROVE  /\ Cardinality(Holders(k)) \in Nat
              /\ Cardinality(Holders(k)') = Cardinality(Holders(k)) - (IF k = l THEN 1 ELSE 0)
    <3>1. t \notin Holders(k)' /\ (t \in Holders(k) <=> k = l)
      BY <2>1
    <3>2. Cardinality(Holders(k)) \in Nat /\ Cardinality(Holders(k)') \in Nat
      BY <2>2, HoldersChange
    <3>3. CASE k = l
      BY <2>2, <3>1, <3>2, <3>3, HoldersChange
    <3>4. CASE k # l
      <4>1. Holders(k)' = Holders(k)
        BY <2>2, <3>1, <3>4, HoldersKept
      <4>2. QED  BY <3>2, <3>4, <4>1
    <3>5. QED  BY <3>3, <3>4
  <2>4. \A k \in Logics : leaked[k] \in Nat /\ leaked'[k] = leaked[k] + (IF k = l THEN 1 ELSE 0)
    BY <1>1, <1>2 DEF IInv, Types
  <2>5. ASSUME NEW k \in Logics
        PROVE  ref'[k] = Cardinality(Holders(k)') + leaked'[k] + (IF owned'[k] THEN 1 ELSE 0)
    <3>1. ref[k] = Cardinality(Holders(k)) + leaked[k] + (IF owned[k] THEN 1 ELSE 0)
      BY DEF IInv, Counted
    <3>2. ref' = ref /\ owned' = owned
      BY <1>1
    <3>3. CASE k = l
      BY <2>3, <2>4, <3>1, <3>2, <3>3
    <3>4. CASE k # l
      BY <2>3, <2>4, <3>1, <3>2, <3>4
    <3>5. QED  BY <3>3, <3>4
  <2>6. QED  BY <2>5 DEF Counted
<1>9. QED  BY <1>3, <1>4, <1>5, <1>6, <1>7, <1>8 DEF IInv

-------------------------------------------------------------------------------
(* The static store of corelogic.c begins without a table and without logics. *)
LEMMA InitInv == Init => IInv
<1>1. SUFFICES ASSUME Init PROVE IInv
  OBVIOUS
<1>2. TableInv
  <2>1. slot \in [0 .. slot_size - 1 -> Logics \cup {NULL}]
    BY <1>1 DEF Init
  <2>2. QED  BY <1>1, <2>1 DEF Init, TableInv, TableTypes, WellFiled, IdsBelow, Statuses
<1>3. \A l \in Logics : Holders(l) = {}
  BY <1>1 DEF Init, Holders
<1>4. Types /\ Hands /\ NotOwnedTwice
  BY <1>1 DEF Init, Types, Hands, NotOwnedTwice
<1>5. NoneUnused /\ InHandExists /\ OwnedLive
  BY <1>1, LogicsFinite DEF Init, NoneUnused, InHandExists, OwnedLive
<1>6. Counted
  <2>1. \A l \in Logics : Cardinality(Holders(l)) = 0
    BY <1>3, FS_EmptySet
  <2>2. \A l \in Logics : ref[l] = 0 /\ leaked[l] = 0 /\ ~owned[l]
    BY <1>1 DEF Init
  <2>3. ASSUME NEW l \in Logics
        PROVE  ref[l] = Cardinality(Holders(l)) + leaked[l] + (IF owned[l] THEN 1 ELSE 0)
    <3>1. Cardinality(Holders(l)) = 0 /\ ref[l] = 0 /\ leaked[l] = 0 /\ ~owned[l]
      BY <2>1, <2>2
    <3>2. QED  BY <3>1
  <2>4. QED  BY <2>3 DEF Counted
<1>7. QED  BY <1>2, <1>4, <1>5, <1>6 DEF IInv

(* Every step of corelogic.c, warp_post and the handler keeps the invariant. *)
LEMMA NextInv == IInv /\ [Next]_vars => IInv'
<1>1. SUFFICES ASSUME IInv, [Next]_vars PROVE IInv'
  OBVIOUS
<1>2. ASSUME NEW t \in Threads, NEW l \in Logics,
             corelogic_new(t, l) \/ main_release(t, l) \/ warp_post(t, l) \/ logicmsg_handler(t, l)
      PROVE  IInv'
  BY <1>1, <1>2, NewKeeps, MainReleaseKeeps, PostKeeps, HandlerKeeps
<1>3. ASSUME NEW t \in Threads,
             \/ warp_post_post(t) \/ corelogic_release(t) \/ release_remove(t)
             \/ release_free(t) \/ handler_return(t)
      PROVE  IInv'
  BY <1>1, <1>3, PostPostKeeps, ReleaseKeeps, RemoveKeeps, FreeKeeps, ReturnKeeps
<1>4. CASE UNCHANGED vars
  <2>1. TableInv'
    BY <1>1, <1>4, TableKept DEF IInv, vars
  <2>2. Types' /\ Hands' /\ NotOwnedTwice' /\ NoneUnused' /\ InHandExists' /\ OwnedLive'
    <3>1. Types' /\ Hands'
      BY <1>1, <1>4 DEF IInv, vars, Types, Hands, counts, mail
    <3>2. NotOwnedTwice' /\ NoneUnused'
      BY <1>1, <1>4 DEF IInv, vars, NotOwnedTwice, NoneUnused, counts, mail, fields
    <3>3. InHandExists' /\ OwnedLive'
      BY <1>1, <1>4 DEF IInv, vars, InHandExists, OwnedLive, counts, mail, fields
    <3>4. QED  BY <3>1, <3>2, <3>3
  <2>3. Counted'
    BY <1>1, <1>4 DEF IInv, vars, Counted, Holders, counts
  <2>4. QED  BY <2>1, <2>2, <2>3 DEF IInv
<1>5. QED  BY <1>1, <1>2, <1>3, <1>4 DEF Next

(* Every logic in the table of corelogic.c is found by its id, and only by *)
(* it, whatever was registered and removed and however often the table was *)
(* doubled.                                                                *)
THEOREM LogicsFound == Spec => []LiveIsFound
<1>1. IInv => LiveIsFound
  <2>1. SUFFICES ASSUME IInv, NEW l \in Logics
                 PROVE  status[l] = "live" <=> slot_size > 0 /\ Found(logic_id[l]) = {l}
    BY DEF LiveIsFound
  <2>2. ASSUME status[l] = "live" PROVE slot_size > 0 /\ Found(logic_id[l]) = {l}
    BY <2>1, <2>2, LogicsFinite DEF IInv, TableInv, WellFiled, Found, Hash
  <2>3. ASSUME slot_size > 0, Found(logic_id[l]) = {l} PROVE status[l] = "live"
    <3>1. logic_id[l] \in Nat
      BY <2>1 DEF IInv, TableInv, TableTypes
    <3>2. (CHOOSE k \in Found(logic_id[l]) : TRUE) \in {k \in Logics : status[k] = "live"}
      BY <2>1, <2>3, <3>1, FoundIsLive DEF IInv
    <3>3. QED  BY <2>3, <3>2
  <2>4. QED  BY <2>2, <2>3
<1>2. QED  BY <1>1, InitInv, NextInv, PTL DEF Spec

(* The reference count of a logic is the number of references that exist,  *)
(* and a logic its creator has not released stays in the table, for any    *)
(* number of threads that grub and release.                                *)
THEOREM CountsExact == Spec => []RefsCounted
<1>1. IInv => RefsCounted
  <2>1. SUFFICES ASSUME IInv PROVE RefsCounted
    OBVIOUS
  <2>2. \A l \in Logics : IsFiniteSet(Holders(l)) /\ Cardinality(Holders(l)) \in Nat
    <3>1. \A l \in Logics : Holders(l) \subseteq Threads
      BY DEF Holders
    <3>2. QED  BY <3>1, FS_Subset, FS_CardinalityType, ThreadsFinite
  <2>3. \A l \in Logics : ref[l] \in Nat
    BY <2>1, <2>2 DEF IInv, Counted, Types
  <2>4. ref \in [Logics -> Nat]
    BY <2>1, <2>3 DEF IInv, Types
  <2>5. TypeOK
    BY <2>1, <2>4 DEF TypeOK, IInv, Types, TableInv, TableTypes, WellFiled, Statuses
  <2>6. QED  BY <2>1, <2>5 DEF RefsCounted, IInv, Counted, OwnedLive
<1>2. QED  BY <1>1, InitInv, NextInv, PTL DEF Spec

(* An id is given out once, in increasing order, however the slots are     *)
(* used again.                                                             *)
THEOREM IdsGivenOnce == Spec => IdsNeverReused
<1>1. IInv /\ [Next]_vars =>
        [\A k, l \in Logics :
            status[k] = "none" /\ status'[k] = "live" /\ status[l] # "none"
                => logic_id'[k] > logic_id'[l] /\ logic_id'[l] = logic_id[l]]_vars
  <2>1. SUFFICES ASSUME IInv, Next, NEW k \in Logics, NEW l \in Logics,
                        status[k] = "none", status'[k] = "live", status[l] # "none"
                 PROVE  logic_id'[k] > logic_id'[l] /\ logic_id'[l] = logic_id[l]
    OBVIOUS
  <2>2. status \in [Logics -> Statuses]
    BY <2>1 DEF IInv, TableInv, TableTypes
  <2>3. PICK t \in Threads : corelogic_new(t, k)
    <3>1. PICK t \in Threads :
            \/ \E m \in Logics : corelogic_new(t, m)
            \/ release_remove(t)
            \/ UNCHANGED status
      BY <2>1, Zenon DEF Next, main_release, warp_post, logicmsg_handler, warp_post_post,
            corelogic_release, release_free, handler_return, fields
    <3>2. CASE UNCHANGED status
      BY <2>1, <3>2
    <3>3. CASE release_remove(t)
      BY <2>1, <2>2, <3>3 DEF release_remove
    <3>4. ASSUME NEW m \in Logics, corelogic_new(t, m) PROVE m = k
      BY <2>1, <2>2, <3>4 DEF corelogic_new
    <3>5. QED  BY <3>1, <3>2, <3>3, <3>4
  <2>4. corelogic_store_reg(k) /\ status' = [status EXCEPT ![k] = "live"]
    BY <2>3 DEF corelogic_new
  <2>5. logic_id'[k] >= allocid /\ logic_id'[l] = logic_id[l] /\ TableInv'
    BY <2>1, <2>4, Registers DEF IInv
  <2>6. logic_id[l] < allocid /\ logic_id[l] \in Nat /\ allocid \in Nat /\ logic_id'[k] \in Nat
    BY <2>1, <2>5 DEF IInv, TableInv, TableTypes, IdsBelow
  <2>7. QED  BY <2>5, <2>6
<1>2. QED  BY <1>1, InitInv, NextInv, PTL DEF Spec, IdsNeverReused
===============================================================================
