--------------------------- MODULE SortedArrayProofs ---------------------------
(***************************************************************************)
(* Proof that insert of net/binary_arry.h keeps the array in order, for    *)
(* any keys, first size and number of insertions.  The invariant says      *)
(* besides that the values in use are 1 .. slot_sz, so that the next one   *)
(* is new.                                                                 *)
(***************************************************************************)
EXTENDS SortedArray, CommonLemmas

Items == [key : Int, val : Nat]

(* The first sz items of s, and zeros behind them; ks are their keys by    *)
(* value.                                                                  *)
Holds(s, sz, ks) ==
    /\ s \in Seq(Items) /\ sz \in Nat /\ sz <= Len(s)
    /\ ks \in Seq(Int) /\ Len(ks) = sz
    /\ \A k \in 1 .. sz : s[k].val \in 1 .. sz /\ ks[s[k].val] = s[k].key
    /\ \A k \in sz + 1 .. Len(s) : s[k] = Zero

Ordered(s, sz) ==
    \A j, k \in 1 .. sz : j < k => s[j].key <= s[k].key /\ s[j].val # s[k].val

IInv == Holds(slot, slot_sz, added) /\ Ordered(slot, slot_sz)

(* The fields of the items. *)
LEMMA Fields ==
    ASSUME NEW s, NEW sz, NEW ks, Holds(s, sz, ks)
    PROVE  \A k \in 1 .. sz : s[k] \in Items /\ s[k].key \in Int
<1>1. s \in Seq(Items) /\ sz \in Nat /\ sz <= Len(s)
  BY DEF Holds
<1>2. \A k \in 1 .. sz : s[k] \in Items
  <2> HIDE DEF Items
  <2>1. QED  BY <1>1
<1>3. QED  BY <1>2 DEF Items

(* grown makes room and leaves what is there. *)
LEMMA GrownHasRoom ==
    ASSUME slot_def \in Nat \ {0}, Holds(slot, slot_sz, added)
    PROVE  /\ grown \in Seq(Items) /\ Len(grown) >= slot_sz + 1
           /\ \A k \in 1 .. slot_sz : grown[k] = slot[k]
           /\ \A k \in slot_sz + 1 .. Len(grown) : grown[k] = Zero
<1>1. Len(slot) \in Nat /\ slot_sz \in Nat /\ slot_sz <= Len(slot) /\ slot \in Seq(Items)
  BY DEF Holds
<1>2. CASE slot_sz + 1 <= Len(slot)
  <2>1. grown = slot
    BY <1>2 DEF grown, slot_max
  <2>2. QED  BY <1>1, <1>2, <2>1 DEF Holds
<1>3. CASE ~(slot_sz + 1 <= Len(slot))
  <2>1. PICK n \in Nat : n = IF Len(slot) = 0 THEN slot_def ELSE 2 * Len(slot)
    BY <1>1
  <2>2. grown = [k \in 1 .. n |-> IF k <= slot_sz THEN slot[k] ELSE Zero]
    BY <1>3, <2>1 DEF grown, slot_max
  <2>3. slot_sz = Len(slot) /\ n >= slot_sz + 1
    BY <1>1, <1>3, <2>1
  <2>4. Zero \in Items
    BY DEF Zero, Items
  <2>5. \A k \in 1 .. n : (IF k <= slot_sz THEN slot[k] ELSE Zero) \in Items
    BY <1>1, <2>3, <2>4
  <2>6. grown \in Seq(Items) /\ Len(grown) = n
    <3> HIDE DEF Items
    <3>1. QED  BY <2>2, <2>5
  <2>7. \A k \in 1 .. n : grown[k] = IF k <= slot_sz THEN slot[k] ELSE Zero
    BY <2>2
  <2>8. QED  BY <1>1, <2>3, <2>6, <2>7
<1>4. QED  BY <1>2, <1>3

(* There is a first position whose key is not smaller. *)
LEMMA PlaceFound ==
    ASSUME IInv, NEW key \in Int
    PROVE  /\ Place(key) \in 1 .. slot_sz + 1
           /\ \A k \in 1 .. Place(key) - 1 : slot[k].key < key
           /\ Place(key) <= slot_sz => slot[Place(key)].key >= key
<1> DEFINE P(p) == /\ \A k \in 1 .. p - 1 : slot[k].key < key
                   /\ p <= slot_sz => slot[p].key >= key
           T == {p \in 1 .. slot_sz + 1 : p <= slot_sz => slot[p].key >= key}
<1>1. slot_sz \in Nat /\ \A k \in 1 .. slot_sz : slot[k].key \in Int
  BY Fields DEF IInv, Holds
<1>2. T \in SUBSET Nat /\ slot_sz + 1 \in T
  BY <1>1
<1>3. PICK p \in T : \A q \in T : p <= q
  BY <1>2, LeastNatural
<1>4. p \in 1 .. slot_sz + 1 /\ (p <= slot_sz => slot[p].key >= key)
  BY <1>3
<1>5. ASSUME NEW k \in 1 .. p - 1 PROVE slot[k].key < key
  <2>1. k \in 1 .. slot_sz /\ k < p
    BY <1>1, <1>4, <1>5
  <2>2. k \notin T
    <3> HIDE DEF T
    <3>1. QED  BY <1>3, <1>4, <2>1
  <2>3. QED  BY <1>1, <2>1, <2>2
<1>6. P(p)
  BY <1>4, <1>5
<1>7. Place(key) = CHOOSE q \in 1 .. slot_sz + 1 : P(q)
  BY DEF Place
<1> HIDE DEF P
<1>8. P(Place(key)) /\ Place(key) \in 1 .. slot_sz + 1
  BY <1>4, <1>6, <1>7
<1>9. QED  BY <1>8 DEF P

(* insert moves the items from the place on by one and puts the new one    *)
(* there.                                                                  *)
LEMMA InsertKeeps ==
    ASSUME slot_def \in Nat \ {0}, IInv, NEW key \in Int, insert(key)
    PROVE  IInv'
<1>1. PICK p : p = Place(key)
  OBVIOUS
<1>2. PICK n \in Nat : n = slot_sz
  BY DEF IInv, Holds
<1>3. PICK g, new : g = grown /\ new = [key |-> key, val |-> n + 1]
  OBVIOUS
<1>4. /\ slot \in Seq(Items) /\ n <= Len(slot) /\ Len(slot) \in Nat
      /\ added \in Seq(Int) /\ Len(added) = n
      /\ \A k \in 1 .. n : slot[k].key \in Int /\ slot[k].val \in 1 .. n /\ added[slot[k].val] = slot[k].key
  BY <1>2, Fields DEF IInv, Holds
<1>5. /\ slot' = [k \in DOMAIN g |-> IF k = p THEN new
                                    ELSE IF k \in p + 1 .. n + 1 THEN slot[k - 1] ELSE g[k]]
      /\ slot_sz' = n + 1 /\ added' = Append(added, key)
  BY <1>1, <1>2, <1>3, <1>4 DEF insert
<1>6. /\ p \in 1 .. n + 1
      /\ \A k \in 1 .. p - 1 : slot[k].key < key
      /\ p <= n => slot[p].key >= key
  BY <1>1, <1>2, PlaceFound
<1>7. /\ g \in Seq(Items) /\ Len(g) \in Nat /\ DOMAIN g = 1 .. Len(g) /\ Len(g) >= n + 1
      /\ \A k \in 1 .. n : g[k] = slot[k]
      /\ \A k \in n + 1 .. Len(g) : g[k] = Zero
  BY <1>2, <1>3, GrownHasRoom DEF IInv
<1>8. new \in Items /\ new.key = key /\ new.val = n + 1
  BY <1>3 DEF Items
<1>9. /\ \A k \in 1 .. p - 1 : slot'[k] = slot[k]
      /\ slot'[p] = new
      /\ \A k \in p + 1 .. n + 1 : slot'[k] = slot[k - 1]
      /\ \A k \in n + 2 .. Len(g) : slot'[k] = Zero
  <2>1. /\ p \in 1 .. Len(g) /\ p \in Nat
        /\ \A k \in 1 .. p - 1 : k \in 1 .. Len(g) /\ k \in 1 .. n /\ k # p /\ k \notin p + 1 .. n + 1
        /\ \A k \in p + 1 .. n + 1 : k \in 1 .. Len(g) /\ k # p
        /\ \A k \in n + 2 .. Len(g) : k \in 1 .. Len(g) /\ k # p /\ k \notin p + 1 .. n + 1
                                      /\ k \in n + 1 .. Len(g)
    <3>1. p \in 1 .. n + 1 /\ Len(g) \in Nat /\ Len(g) >= n + 1
      BY <1>6, <1>7
    <3>2. QED  BY <3>1
  <2>2. \A k \in 1 .. Len(g) : slot'[k] = IF k = p THEN new
                                         ELSE IF k \in p + 1 .. n + 1 THEN slot[k - 1] ELSE g[k]
    <3>1. DOMAIN g = 1 .. Len(g)
      BY <1>7
    <3>2. QED  BY <1>5, <3>1
  <2>3. slot'[p] = new /\ \A k \in p + 1 .. n + 1 : slot'[k] = slot[k - 1]
    BY <2>1, <2>2
  <2>4. \A k \in 1 .. p - 1 : slot'[k] = slot[k]
    BY <1>7, <2>1, <2>2
  <2>5. \A k \in n + 2 .. Len(g) : slot'[k] = Zero
    BY <1>7, <2>1, <2>2
  <2>6. QED  BY <2>3, <2>4, <2>5
<1>10. slot' \in Seq(Items) /\ Len(slot') = Len(g)
  <2>1. \A k \in 1 .. Len(g) : (IF k = p THEN new ELSE IF k \in p + 1 .. n + 1 THEN slot[k - 1] ELSE g[k]) \in Items
    <3> HIDE DEF Items
    <3>1. \A k \in p + 1 .. n + 1 : k - 1 \in 1 .. n
      BY <1>6
    <3>2. \A k \in p + 1 .. n + 1 : slot[k - 1] \in Items
      BY <1>4, <3>1
    <3>3. \A k \in 1 .. Len(g) : g[k] \in Items
      BY <1>7
    <3>4. QED  BY <1>8, <3>2, <3>3
  <2>2. QED
    <3> HIDE DEF Items
    <3>1. QED  BY <1>5, <1>7, <2>1
<1>11. added' \in Seq(Int) /\ Len(added') = n + 1 /\ added'[n + 1] = key
       /\ \A v \in 1 .. n : added'[v] = added[v]
  BY <1>4, <1>5
<1>12. \A k \in 1 .. n + 1 : slot'[k].val \in 1 .. n + 1 /\ added'[slot'[k].val] = slot'[k].key
  <2>1. TAKE k \in 1 .. n + 1
  <2>2. CASE k = p
    BY <1>8, <1>9, <1>11, <2>2
  <2>3. CASE k < p
    <3>1. k \in 1 .. n /\ slot'[k] = slot[k]
      BY <1>6, <1>9, <2>3
    <3>2. slot[k].val \in 1 .. n /\ added[slot[k].val] = slot[k].key
      BY <1>4, <3>1
    <3>3. added'[slot[k].val] = added[slot[k].val] /\ slot[k].val \in 1 .. n + 1
      BY <1>11, <3>2
    <3>4. QED  BY <3>1, <3>2, <3>3
  <2>4. CASE k > p
    <3>1. k - 1 \in 1 .. n /\ slot'[k] = slot[k - 1]
      BY <1>6, <1>9, <2>4
    <3>2. slot[k - 1].val \in 1 .. n /\ added[slot[k - 1].val] = slot[k - 1].key
      BY <1>4, <3>1
    <3>3. added'[slot[k - 1].val] = added[slot[k - 1].val] /\ slot[k - 1].val \in 1 .. n + 1
      BY <1>11, <3>2
    <3>4. QED  BY <3>1, <3>2, <3>3
  <2>5. QED  BY <1>6, <2>2, <2>3, <2>4
<1>13. Holds(slot, slot_sz, added)'
  <2>1. /\ slot' \in Seq(Items) /\ slot_sz' \in Nat /\ slot_sz' <= Len(slot')
        /\ added' \in Seq(Int) /\ Len(added') = slot_sz'
    BY <1>5, <1>7, <1>10, <1>11
  <2>2. \A k \in slot_sz' + 1 .. Len(slot') : slot'[k] = Zero
    <3>1. slot_sz' + 1 = n + 2 /\ Len(slot') = Len(g)
      BY <1>5, <1>10
    <3>2. QED  BY <1>9, <3>1
  <2>3. \A k \in 1 .. slot_sz' : slot'[k].val \in 1 .. slot_sz' /\ added'[slot'[k].val] = slot'[k].key
    BY <1>5, <1>12
  <2>4. QED  BY <2>1, <2>2, <2>3 DEF Holds
<1>14. \A j, k \in 1 .. n : j < k => slot[j].key <= slot[k].key /\ slot[j].val # slot[k].val
  BY <1>2 DEF IInv, Ordered
<1>15. ASSUME NEW j \in 1 .. n + 1, NEW k \in 1 .. n + 1, j < k
       PROVE  slot'[j].key <= slot'[k].key /\ slot'[j].val # slot'[k].val
  <2>1. CASE k < p
    <3>1. j \in 1 .. p - 1 /\ k \in 1 .. p - 1 /\ j \in 1 .. n /\ k \in 1 .. n
      BY <1>6, <1>15, <2>1
    <3>2. slot'[j] = slot[j] /\ slot'[k] = slot[k]
      BY <1>9, <3>1
    <3>3. slot[j].key <= slot[k].key /\ slot[j].val # slot[k].val
      BY <1>14, <1>15, <3>1
    <3>4. QED  BY <3>2, <3>3
  <2>2. CASE k = p
    <3>1. j \in 1 .. p - 1 /\ j \in 1 .. n
      BY <1>6, <1>15, <2>2
    <3>2. slot[j].key < key /\ slot[j].key \in Int /\ slot[j].val \in 1 .. n
      BY <1>4, <1>6, <3>1
    <3>3. QED  BY <1>8, <1>9, <2>2, <3>1, <3>2
  <2>3. CASE j < p /\ p < k
    <3>1. j \in 1 .. n /\ k - 1 \in 1 .. n /\ j < p /\ p <= k - 1 /\ slot'[j] = slot[j] /\ slot'[k] = slot[k - 1]
      BY <1>6, <1>9, <1>15, <2>3
    <3>2. j < k - 1
      BY <1>6, <3>1
    <3>3. QED  BY <1>14, <3>1, <3>2
  <2>4. CASE j = p
    <3>1. k - 1 \in 1 .. n /\ p \in 1 .. n /\ p <= k - 1 /\ slot'[k] = slot[k - 1]
      BY <1>6, <1>9, <1>15, <2>4
    <3>2. slot[p].key >= key /\ slot[p].key \in Int /\ slot[k - 1].key \in Int /\ slot[k - 1].val \in 1 .. n
      BY <1>4, <1>6, <3>1
    <3>3. slot[p].key <= slot[k - 1].key
      BY <1>6, <1>14, <3>1, <3>2
    <3>4. QED  BY <1>8, <1>9, <2>4, <3>1, <3>2, <3>3
  <2>5. CASE p < j
    <3>1. j - 1 \in 1 .. n /\ k - 1 \in 1 .. n /\ j - 1 < k - 1 /\ slot'[j] = slot[j - 1] /\ slot'[k] = slot[k - 1]
      BY <1>6, <1>9, <1>15, <2>5
    <3>2. QED  BY <1>14, <3>1
  <2>6. QED  BY <1>6, <2>1, <2>2, <2>3, <2>4, <2>5
<1>16. Ordered(slot, slot_sz)'
  BY <1>5, <1>15 DEF Ordered
<1>17. QED  BY <1>13, <1>16 DEF IInv

(* Whatever is inserted, the array holds it in the order of the keys, each *)
(* value once, with zeros behind: the binary search always meets a sorted  *)
(* array.                                                                  *)
THEOREM ArrayInOrder ==
    ASSUME Keys \subseteq Int, slot_def \in Nat \ {0}
    PROVE  Spec => []InOrder
<1>1. Init => IInv
  BY DEF Init, IInv, Holds, Ordered
<1>2. IInv /\ [Next]_arr_vars => IInv'
  <2>1. SUFFICES ASSUME IInv, [Next]_arr_vars PROVE IInv'
    OBVIOUS
  <2>2. ASSUME NEW key \in Keys, insert(key) PROVE IInv'
    BY <2>1, <2>2, InsertKeeps
  <2>3. CASE UNCHANGED <<slot, slot_sz, added>>
    BY <2>1, <2>3 DEF IInv, Holds, Ordered
  <2>4. QED  BY <2>1, <2>2, <2>3 DEF Next, find, arr_vars
<1>3. IInv => InOrder
  <2>1. SUFFICES ASSUME IInv PROVE InOrder
    OBVIOUS
  <2>2. slot_sz \in Nat /\ Len(slot) \in Nat /\ slot_sz = Len(added) /\ slot_sz <= Len(slot)
    <3> HIDE DEF Items
    <3>1. QED  BY <2>1 DEF IInv, Holds
  <2>3. /\ \A k \in 1 .. slot_sz : added[slot[k].val] = slot[k].key
        /\ \A k \in slot_sz + 1 .. Len(slot) : slot[k] = Zero
    BY <2>1 DEF IInv, Holds
  <2>4. \A k \in 1 .. Len(slot) : IF k > slot_sz THEN slot[k] = Zero
                                  ELSE added[slot[k].val] = slot[k].key
    <3>1. TAKE k \in 1 .. Len(slot)
    <3>2. CASE k > slot_sz
      <4>1. k \in slot_sz + 1 .. Len(slot)
        BY <2>2, <3>2
      <4>2. QED  BY <2>3, <3>2, <4>1
    <3>3. CASE ~(k > slot_sz)
      <4>1. k \in 1 .. slot_sz
        BY <2>2, <3>3
      <4>2. QED  BY <2>3, <3>3, <4>1
    <3>4. QED  BY <3>2, <3>3
  <2>5. QED  BY <2>1, <2>2, <2>4 DEF IInv, Ordered, InOrder, slot_max
<1>4. QED  BY <1>1, <1>2, <1>3, PTL DEF Spec
===============================================================================
