--------------------------- MODULE LogicStoreProofs ---------------------------
(***************************************************************************)
(* Proof that the table of net/logic_store.cpp finds what is registered in *)
(* it, for any number of logics and constructors and any first size.  Two  *)
(* facts carry it.  There is room wherever the table's lock is given up:   *)
(* a table that is not full has a free place, and one of twice the size    *)
(* has one because n logics do not fill 2n places, even when resize files  *)
(* them by an id that is not set.  And a logic filed by its handle stays   *)
(* the only one at its place when the table doubles.                       *)
(***************************************************************************)
EXTENDS LogicStore, CommonLemmas

Ids == Nat \cup {Unset}

Types ==
    /\ slot_size \in Nat \ {0} /\ slot \in [0 .. slot_size - 1 -> Logics \cup {NULL}]
    /\ index \in Nat /\ torn \in BOOLEAN
    /\ handle \in [Logics -> Ids] /\ logic_id \in [Logics -> Ids]

Handles ==
    /\ \A l \in Logics : logic_id[l] # Unset => logic_id[l] = handle[l]
    /\ \A l \in Logics : handle[l] # Unset => handle[l] < index
    /\ \A l, m \in Logics : handle[l] # Unset /\ handle[l] = handle[m] => l = m

(* What is in the table has been registered. *)
Registered ==
    \A k \in 0 .. slot_size - 1 : slot[k] # NULL => handle[slot[k]] # Unset

(* Table s of n places has every logic with a handle at its place, and     *)
(* nothing else.                                                           *)
Filed(s, n) ==
    /\ \A k \in 0 .. n - 1 : s[k] # NULL => handle[s[k]] % n = k
    /\ \A l \in Logics : handle[l] # Unset => s[handle[l] % n] = l

IInv == Types /\ Handles /\ Registered /\ (~torn => Filed(slot, slot_size))

-------------------------------------------------------------------------------
(* A set of numbers below n that is not empty has a greatest element. *)
LEMMA GreatestBelow ==
    ASSUME NEW n \in Nat, NEW T \in SUBSET (0 .. n - 1), T # {}
    PROVE  \E x \in T : \A y \in T : y <= x
<1> DEFINE R == {n - y : y \in T}
<1>1. R \in SUBSET Nat /\ R # {}
  <2>1. \A y \in T : y \in 0 .. n - 1
    OBVIOUS
  <2>2. \A y \in T : n - y \in Nat
    BY <2>1
  <2>3. PICK y \in T : TRUE
    OBVIOUS
  <2>4. n - y \in R
    OBVIOUS
  <2>5. QED  BY <2>2, <2>4
<1>2. PICK r \in R : \A s \in R : r <= s
  BY <1>1, LeastNatural
<1>3. PICK x \in T : r = n - x
  OBVIOUS
<1>4. ASSUME NEW y \in T PROVE y <= x
  <2>1. n - y \in R /\ y \in Int /\ x \in Int
    OBVIOUS
  <2>2. n - x <= n - y
    <3> HIDE DEF R
    <3>1. QED  BY <1>2, <1>3, <2>1
  <2>3. QED  BY <2>1, <2>2
<1>5. QED  BY <1>4

(* reg finds a free place from `index` on when there is one. *)
LEMMA FindsRoom ==
    ASSUME index \in Nat, NEW n \in Nat \ {0}, NEW s, NEW k \in 0 .. n - 1, s[k] = NULL
    PROVE  \E h \in index .. index + n - 1 :
                s[h % n] = NULL /\ \A i \in index .. h - 1 : s[i % n] # NULL
<1> DEFINE T == {h \in index .. index + n - 1 : s[h % n] = NULL}
<1>1. PICK i \in 0 .. n - 1 : (i + index) % n = k
  BY EveryPlacePassed
<1>2. i + index \in T
  BY <1>1
<1>3. T \in SUBSET Nat
  OBVIOUS
<1>4. PICK h \in T : \A y \in T : h <= y
  BY <1>2, <1>3, LeastNatural
<1>5. ASSUME NEW y \in index .. h - 1 PROVE s[y % n] # NULL
  <2>1. h \in index .. index + n - 1 /\ y \in Int /\ y < h
    BY <1>4, <1>5
  <2>2. y \in index .. index + n - 1
    BY <1>5, <2>1
  <2>3. y \notin T
    <3> HIDE DEF T
    <3>1. QED  BY <1>4, <2>1
  <2>4. QED  BY <2>2, <2>3
<1>6. QED  BY <1>4, <1>5

(* The doubled table: what is at a place came from a place of the old one, *)
(* by the id resize saw, and some place is free.                           *)
LEMMA Doubled ==
    ASSUME Types, NEW ids
    PROVE  LET n == 2 * slot_size
               s == resize(ids) IN
           /\ \A k \in 0 .. n - 1 :
                \/ s[k] = NULL /\ \A j \in 0 .. slot_size - 1 : ids[slot[j]] % n # k
                \/ \E j \in 0 .. slot_size - 1 : s[k] = slot[j] /\ ids[slot[j]] % n = k
           /\ \E k \in 0 .. n - 1 : s[k] = NULL
<1> DEFINE n == 2 * slot_size
           s == resize(ids)
           here(k) == {j \in 0 .. slot_size - 1 : ids[slot[j]] % n = k}
<1>1. slot_size \in Nat \ {0} /\ n \in Nat \ {0}
  BY DEF Types
<1>2. ASSUME NEW k \in 0 .. n - 1
      PROVE  s[k] = IF here(k) = {} THEN NULL
                    ELSE slot[CHOOSE j \in here(k) : \A i \in here(k) : i <= j]
  BY DEF resize
<1>3. ASSUME NEW k \in 0 .. n - 1, here(k) # {}
      PROVE  \E j \in here(k) : s[k] = slot[j]
  <2>1. here(k) \in SUBSET (0 .. slot_size - 1)
    OBVIOUS
  <2>2. \E j \in here(k) : \A i \in here(k) : i <= j
    <3> DEFINE T == here(k)
    <3>1. T \in SUBSET (0 .. slot_size - 1) /\ T # {}
      BY <1>3
    <3> HIDE DEF T
    <3>2. \E x \in T : \A y \in T : y <= x
      BY <1>1, <3>1, GreatestBelow
    <3>3. QED  BY <3>2 DEF T
  <2>3. (CHOOSE j \in here(k) : \A i \in here(k) : i <= j) \in here(k)
    <3> HIDE DEF here
    <3>1. QED  BY <2>2
  <2>4. s[k] = slot[CHOOSE j \in here(k) : \A i \in here(k) : i <= j]
    <3> HIDE DEF here, s
    <3>1. QED  BY <1>2, <1>3
  <2>5. QED
    <3> HIDE DEF here, s
    <3>1. QED  BY <2>3, <2>4
<1>4. \A k \in 0 .. n - 1 : here(k) = {} => s[k] = NULL
  <2> HIDE DEF here, s
  <2>1. QED  BY <1>2
<1> HIDE DEF s
<1>5. \E k \in 0 .. n - 1 : s[k] = NULL
  <2>1. SUFFICES ASSUME \A k \in 0 .. n - 1 : here(k) # {} PROVE FALSE
    BY <1>4
  <2> DEFINE f == [k \in 0 .. n - 1 |-> CHOOSE j \in here(k) : TRUE]
  <2>2. \A k \in 0 .. n - 1 : f[k] \in here(k)
    <3> HIDE DEF here
    <3>1. QED  BY <2>1
  <2>3. f \in [0 .. n - 1 -> 0 .. slot_size - 1]
    BY <2>2
  <2>4. /\ IsFiniteSet(0 .. n - 1) /\ Cardinality(0 .. n - 1) = n
        /\ IsFiniteSet(0 .. slot_size - 1) /\ Cardinality(0 .. slot_size - 1) = slot_size
    <3>1. \A m \in Nat \ {0} : IsFiniteSet(0 .. m - 1) /\ Cardinality(0 .. m - 1) = m
      <4>1. TAKE m \in Nat \ {0}
      <4>2. 0 \in Int /\ m - 1 \in Int /\ ~(0 > m - 1)
        OBVIOUS
      <4>3. IsFiniteSet(0 .. m - 1) /\ Cardinality(0 .. m - 1) = (m - 1) - 0 + 1
        BY <4>2, FS_Interval
      <4>4. QED  BY <4>3
    <3>2. QED  BY <1>1, <3>1
  <2>5. slot_size < n
    BY <1>1
  <2> HIDE DEF f
  <2>6. PICK x \in 0 .. n - 1, y \in 0 .. n - 1 : x # y /\ f[x] = f[y]
    <3>1. PICK S, T : S = 0 .. n - 1 /\ T = 0 .. slot_size - 1
      OBVIOUS
    <3>2. IsFiniteSet(S) /\ IsFiniteSet(T) /\ Cardinality(T) < Cardinality(S) /\ f \in [S -> T]
      BY <2>3, <2>4, <2>5, <3>1
    <3>3. \E x, y \in S : x # y /\ f[x] = f[y]
      BY <3>2, FS_PigeonHole
    <3>4. QED  BY <3>1, <3>3
  <2>7. QED  BY <2>2, <2>6
<1>6. ASSUME NEW k \in 0 .. n - 1
      PROVE  \/ s[k] = NULL /\ \A j \in 0 .. slot_size - 1 : ids[slot[j]] % n # k
             \/ \E j \in 0 .. slot_size - 1 : s[k] = slot[j] /\ ids[slot[j]] % n = k
  <2>1. CASE here(k) = {}
    BY <1>4, <2>1
  <2>2. CASE here(k) # {}
    <3>1. PICK j \in here(k) : s[k] = slot[j]
      BY <1>3, <2>2
    <3>2. QED  BY <3>1
  <2>3. QED  BY <2>1, <2>2
<1>7. QED  BY <1>5, <1>6 DEF s

-------------------------------------------------------------------------------
(* reg files the logic in a table with room, at the place of its handle. *)
LEMMA FileKeeps ==
    ASSUME NULL \notin Logics, IInv, NEW l \in Logics, handle[l] = Unset,
           NEW n \in Nat \ {0}, NEW s \in [0 .. n - 1 -> Logics \cup {NULL}],
           \E k \in 0 .. n - 1 : s[k] = NULL,
           \A k \in 0 .. n - 1 : s[k] # NULL => handle[s[k]] # Unset,
           File(l, s, n), UNCHANGED logic_id,
           torn' \in BOOLEAN, ~torn' => Filed(s, n)
    PROVE  IInv'
<1>1. PICK h \in index .. index + n - 1 :
        /\ s[h % n] = NULL
        /\ slot' = [s EXCEPT ![h % n] = l] /\ slot_size' = n
        /\ index' = h + 1 /\ handle' = [handle EXCEPT ![l] = h]
  <2> DEFINE P(h) == s[h % n] = NULL /\ \A i \in index .. h - 1 : s[i % n] # NULL
             c == CHOOSE h \in index .. index + n - 1 : P(h)
  <2>1. \E h \in index .. index + n - 1 : P(h)
    BY FindsRoom DEF IInv, Types
  <2> HIDE DEF P
  <2>2. c \in index .. index + n - 1 /\ P(c)
    BY <2>1
  <2>3. /\ slot' = [s EXCEPT ![c % n] = l] /\ slot_size' = n
        /\ index' = c + 1 /\ handle' = [handle EXCEPT ![l] = c]
    BY DEF File, P
  <2>4. PICK d : d = c
    OBVIOUS
  <2>5. d \in index .. index + n - 1 /\ s[d % n] = NULL
    BY <2>2, <2>4 DEF P
  <2>6. QED  BY <2>3, <2>4, <2>5
<1>2. h \in Nat /\ h >= index /\ h % n \in 0 .. n - 1
  BY <1>1, ModDef DEF IInv, Types
<1>3. /\ slot' \in [0 .. n - 1 -> Logics \cup {NULL}] /\ slot'[h % n] = l
      /\ \A k \in 0 .. n - 1 : k # h % n => slot'[k] = s[k]
  BY <1>1, <1>2
<1>4. /\ handle' \in [Logics -> Ids] /\ handle'[l] = h
      /\ \A m \in Logics : m # l => handle'[m] = handle[m]
  BY <1>1, <1>2 DEF IInv, Types, Ids
<1>5. Types'
  BY <1>1, <1>2, <1>3, <1>4 DEF IInv, Types
<1>6. Handles'
  <2>1. \A m \in Logics : handle[m] # Unset => handle[m] \in Nat /\ handle[m] < index
    BY DEF IInv, Handles, Types, Ids
  <2>2. h # Unset
    BY <1>2 DEF Unset
  <2>3. \A m \in Logics : logic_id'[m] # Unset => logic_id'[m] = handle'[m]
    BY <1>4 DEF IInv, Handles
  <2>4. \A m \in Logics : handle'[m] # Unset => handle'[m] < index'
    BY <1>1, <1>2, <1>4, <2>1 DEF IInv, Types
  <2>5. ASSUME NEW m \in Logics, NEW k \in Logics, handle'[m] # Unset, handle'[m] = handle'[k]
        PROVE  m = k
    <3>1. \A i \in Logics : handle[i] # h
      BY <1>2, <2>1, <2>2 DEF IInv, Types
    <3>2. CASE m = l \/ k = l
      BY <1>4, <2>5, <3>1, <3>2
    <3>3. CASE m # l /\ k # l
      BY <1>4, <2>5, <3>3 DEF IInv, Handles
    <3>4. QED  BY <3>2, <3>3
  <2>6. QED  BY <2>3, <2>4, <2>5 DEF Handles
<1>7. Registered'
  BY <1>1, <1>2, <1>3, <1>4 DEF Registered, Unset
<1>8. ASSUME ~torn' PROVE Filed(slot, slot_size)'
  <2>1. \A k \in 0 .. n - 1 : s[k] # NULL => handle[s[k]] % n = k
    BY <1>8 DEF Filed
  <2>2. \A m \in Logics : handle[m] # Unset => s[handle[m] % n] = m
    BY <1>8 DEF Filed
  <2>3. ASSUME NEW k \in 0 .. n - 1, slot'[k] # NULL PROVE handle'[slot'[k]] % n = k
    <3>1. CASE k = h % n
      BY <1>3, <1>4, <3>1
    <3>2. CASE k # h % n
      <4>1. slot'[k] = s[k] /\ s[k] \in Logics /\ s[k] # l
        BY <1>3, <2>3, <3>2
      <4>2. QED  BY <1>4, <2>1, <2>3, <4>1
    <3>3. QED  BY <3>1, <3>2
  <2>4. ASSUME NEW m \in Logics, handle'[m] # Unset PROVE slot'[handle'[m] % n] = m
    <3>1. CASE m = l
      BY <1>3, <1>4, <3>1
    <3>2. CASE m # l
      <4>1. handle'[m] = handle[m] /\ handle[m] \in Nat /\ s[handle[m] % n] = m
        BY <1>4, <2>2, <2>4, <3>2 DEF IInv, Types, Ids
      <4>2. handle[m] % n \in 0 .. n - 1 /\ handle[m] % n # h % n
        BY <1>1, <4>1, ModDef
      <4>3. QED  BY <1>3, <4>1, <4>2
    <3>3. QED  BY <3>1, <3>2
  <2>5. QED  BY <1>1, <2>3, <2>4 DEF Filed
<1>9. QED  BY <1>5, <1>6, <1>7, <1>8 DEF IInv

(* A constructor registers its logic, in the table or in the doubled one.  *)
LEMMA RegKeeps ==
    ASSUME NULL \notin Logics, IInv, NEW l \in Logics, reg(l)
    PROVE  IInv'
<1>1. handle[l] = Unset /\ UNCHANGED logic_id /\ torn' = (torn \/ (Full /\ NoId # {}))
  BY DEF reg
<1>2. torn' \in BOOLEAN /\ (~torn' => ~torn /\ ~(Full /\ NoId # {}))
  BY <1>1, Zenon
<1>3. CASE ~Full
  <2>1. PICK n, s : n = slot_size /\ s = slot
    OBVIOUS
  <2>2. File(l, s, n)
    BY <1>3, <2>1 DEF reg
  <2>3. n \in Nat \ {0} /\ s \in [0 .. n - 1 -> Logics \cup {NULL}]
    BY <2>1 DEF IInv, Types
  <2>4. \E k \in 0 .. n - 1 : s[k] = NULL
    BY <1>3, <2>1 DEF Full
  <2>5. \A k \in 0 .. n - 1 : s[k] # NULL => handle[s[k]] # Unset
    BY <2>1 DEF IInv, Registered
  <2>6. ~torn' => Filed(s, n)
    BY <1>2, <2>1 DEF IInv
  <2>7. QED  BY <1>1, <1>2, <2>2, <2>3, <2>4, <2>5, <2>6, FileKeeps
<1>4. CASE Full
  <2>1. PICK junk \in [NoId -> 0 .. 2 * slot_size - 1] :
          File(l, resize([m \in Logics |-> IF m \in NoId THEN junk[m] ELSE logic_id[m]]),
               2 * slot_size)
    BY <1>4 DEF reg
  <2>2. PICK ids : ids = [m \in Logics |-> IF m \in NoId THEN junk[m] ELSE logic_id[m]]
    OBVIOUS
  <2>3. PICK n, s : n = 2 * slot_size /\ s = resize(ids)
    OBVIOUS
  <2>4. File(l, s, n)
    BY <2>1, <2>2, <2>3
  <2>5. slot_size \in Nat \ {0} /\ n \in Nat \ {0}
    <3>1. slot_size \in Nat \ {0}
      BY DEF IInv, Types
    <3>2. n = 2 * slot_size
      BY <2>3
    <3>3. QED  BY <3>1, <3>2
  <2>6. \A j \in 0 .. slot_size - 1 : slot[j] \in Logics /\ handle[slot[j]] # Unset
    BY <1>4 DEF Full, IInv, Types, Registered
  <2>7. /\ \A k \in 0 .. n - 1 :
            \/ s[k] = NULL /\ \A j \in 0 .. slot_size - 1 : ids[slot[j]] % n # k
            \/ \E j \in 0 .. slot_size - 1 : s[k] = slot[j] /\ ids[slot[j]] % n = k
        /\ \E k \in 0 .. n - 1 : s[k] = NULL
    BY <2>3, Doubled DEF IInv
  <2>8. s \in [0 .. n - 1 -> Logics \cup {NULL}]
    <3>1. s = [k \in 0 .. n - 1 |-> s[k]]
      BY <2>3, SMTT(30) DEF resize
    <3>2. \A k \in 0 .. n - 1 : s[k] \in Logics \cup {NULL}
      BY <2>6, <2>7
    <3>3. QED  BY <3>1, <3>2
  <2>9. \A k \in 0 .. n - 1 : s[k] # NULL => handle[s[k]] # Unset
    BY <2>6, <2>7
  <2>10. ASSUME ~torn' PROVE Filed(s, n)
    <3>1. Filed(slot, slot_size) /\ NoId = {}
      BY <1>2, <1>4, <2>10 DEF IInv
    <3>2. \A m \in Logics : handle[m] # Unset => ids[m] = handle[m] /\ handle[m] \in Nat
      BY <2>2, <3>1 DEF IInv, Handles, Types, NoId, Ids
    <3>3. ASSUME NEW k \in 0 .. n - 1, s[k] # NULL PROVE handle[s[k]] % n = k
      BY <2>6, <2>7, <3>2, <3>3
    <3>4. ASSUME NEW m \in Logics, handle[m] # Unset PROVE s[handle[m] % n] = m
      <4>1. handle[m] \in Nat /\ slot[handle[m] % slot_size] = m
        BY <3>1, <3>2, <3>4 DEF Filed
      <4>2. PICK k \in 0 .. n - 1 : k = handle[m] % n
        BY <2>5, <4>1, ModDef
      <4>3. handle[m] % slot_size \in 0 .. slot_size - 1 /\ k % slot_size = handle[m] % slot_size
        BY <2>3, <2>5, <4>1, <4>2, ModDef, ModDouble
      <4>4. ids[m] % n = k
        BY <3>2, <3>4, <4>2
      <4>5. PICK j \in 0 .. slot_size - 1 : s[k] = slot[j] /\ ids[slot[j]] % n = k
        BY <2>7, <4>1, <4>3, <4>4
      <4>6. handle[slot[j]] % n = k /\ handle[slot[j]] \in Nat
        BY <2>6, <3>2, <4>5
      <4>7. handle[slot[j]] % slot_size = k % slot_size
        BY <2>3, <2>5, <4>6, ModDouble
      <4>8. handle[slot[j]] % slot_size = j
        BY <1>4, <3>1 DEF Filed, Full
      <4>9. QED  BY <4>1, <4>2, <4>3, <4>5, <4>7, <4>8
    <3>5. QED  BY <3>3, <3>4 DEF Filed
  <2>11. QED  BY <1>1, <1>2, <2>4, <2>5, <2>7, <2>8, <2>9, <2>10, FileKeeps
<1>5. QED  BY <1>3, <1>4

(* The constructor sets logic_id to its handle. *)
LEMMA CtorKeeps ==
    ASSUME IInv, NEW l \in Logics, logic_ctor(l)
    PROVE  IInv'
<1>1. /\ logic_id' = [logic_id EXCEPT ![l] = handle[l]]
      /\ UNCHANGED <<slot, slot_size, index, handle, torn>>
  BY DEF logic_ctor
<1>2. Types' /\ Handles'
  BY <1>1 DEF IInv, Types, Handles
<1>3. Registered' /\ (~torn' => Filed(slot, slot_size)')
  BY <1>1 DEF IInv, Registered, Filed
<1>4. QED  BY <1>2, <1>3 DEF IInv

(* logic_store::grub finds every logic that is constructed under its id,   *)
(* whatever the number of logics and of constructors that run at once,     *)
(* unless the table was doubled while one of them had not set its id; and  *)
(* no id is given twice, even then.                                        *)
THEOREM LogicsFound ==
    ASSUME NULL \notin Logics, FirstSize \in Nat \ {0}
    PROVE  Spec => []LogicsAreFound
<1>1. Init => IInv
  <2>1. SUFFICES ASSUME Init PROVE IInv
    OBVIOUS
  <2>2. Types /\ Handles
    BY <2>1 DEF Init, Types, Handles, Ids
  <2>3. Registered /\ Filed(slot, slot_size)
    BY <2>1 DEF Init, Registered, Filed
  <2>4. QED  BY <2>2, <2>3 DEF IInv
<1>2. IInv /\ [Next]_store_vars => IInv'
  <2>1. SUFFICES ASSUME IInv, [Next]_store_vars PROVE IInv'
    OBVIOUS
  <2>2. ASSUME NEW l \in Logics, reg(l) \/ logic_ctor(l) PROVE IInv'
    BY <2>1, <2>2, RegKeeps, CtorKeeps
  <2>3. CASE UNCHANGED store_vars
    BY <2>1, <2>3 DEF store_vars, IInv, Types, Handles, Registered, Filed
  <2>4. QED  BY <2>1, <2>2, <2>3 DEF Next, Done
<1>3. IInv => LogicsAreFound
  <2>1. SUFFICES ASSUME IInv PROVE LogicsAreFound
    OBVIOUS
  <2>2. \A l \in Constructed : l \in Logics /\ logic_id[l] = handle[l] /\ handle[l] # Unset
    BY <2>1 DEF Constructed, IInv, Handles
  <2>3. ASSUME ~torn, NEW l \in Constructed PROVE grub(logic_id[l]) = l
    BY <2>1, <2>2, <2>3 DEF IInv, Filed, grub
  <2>4. \A l, m \in Constructed : logic_id[l] = logic_id[m] => l = m
    BY <2>1, <2>2 DEF IInv, Handles
  <2>5. QED  BY <2>3, <2>4 DEF LogicsAreFound
<1>4. QED  BY <1>1, <1>2, <1>3, PTL DEF Spec
===============================================================================
