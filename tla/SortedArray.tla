------------------------------ MODULE SortedArray ------------------------------
(***************************************************************************)
(* binary_arry of net/binary_arry.h, the table of message handlers of a    *)
(* logic: an array kept in order by insert, with a binary search that also *)
(* looks at the element behind the last.  There is a zero (memset in       *)
(* grown) while there is room, and memory of somebody else when the array  *)
(* is full: what is read there is any key.  A value is the number of its   *)
(* insertion; 0 is `null`.                                                 *)
(***************************************************************************)
EXTENDS Integers, Sequences

CONSTANTS
    Keys,           \* of insert; keys of messages are positive
    slot_def,       \* the first size of the array
    MaxInserts      \* bound

VARIABLES
    slot,           \* the memory of the array, slot_max items [key, val]
    slot_sz,
    added,          \* ghost: the keys inserted so far, in this order
    got             \* the find just made: [key, val]

arr_vars == <<slot, slot_sz, added, got>>

Zero == [key |-> 0, val |-> 0]
slot_max == Len(slot)

Init ==
    /\ slot = <<>> /\ slot_sz = 0 /\ added = <<>>
    /\ got = Zero

grown ==
    IF slot_sz + 1 <= slot_max THEN slot
    ELSE [k \in 1 .. (IF slot_max = 0 THEN slot_def ELSE 2 * slot_max) |->
            IF k <= slot_sz THEN slot[k] ELSE Zero]

(* The first position whose key is not smaller. *)
Place(key) == CHOOSE p \in 1 .. slot_sz + 1 :
    /\ \A k \in 1 .. p - 1 : slot[k].key < key
    /\ p <= slot_sz => slot[p].key >= key

insert(key) ==
    /\ Len(added) < MaxInserts
    /\ LET p == Place(key) IN
        slot' = [k \in DOMAIN grown |->
                    IF k = p THEN [key |-> key, val |-> Len(added) + 1]
                    ELSE IF k \in p + 1 .. slot_sz + 1 THEN slot[k - 1] ELSE grown[k]]
    /\ slot_sz' = slot_sz + 1
    /\ added' = Append(added, key)
    /\ got' = Zero

(* Item k of the array counted from 0, with `beyond` behind a full one.    *)
Item(k, beyond) == IF k < slot_max THEN slot[k + 1] ELSE beyond

(* Bug: the upper half begins too high. *)
Bug_binary_search(key, beyond) ==
    LET search[low \in 0 .. slot_sz + 2, high \in -1 .. slot_sz] ==
        LET mid == low + (high - low) \div 2
            item == Item(mid, beyond) IN
        IF low > high THEN 0
        ELSE IF item.key = key THEN item.val
        ELSE IF item.key > key THEN search[low, mid - 1]
        ELSE search[mid + 2, high]
    IN  search[0, slot_sz]

(* binary_search(slot, 0, slot_sz, key) *)
binary_search(key, beyond) ==
    LET search[low \in 0 .. slot_sz + 1, high \in -1 .. slot_sz] ==
        LET mid == low + (high - low) \div 2
            item == Item(mid, beyond) IN
        IF low > high THEN 0
        ELSE IF item.key = key THEN item.val
        ELSE IF item.key > key THEN search[low, mid - 1]
        ELSE search[mid + 1, high]
    IN  search[0, slot_sz]

find(key) ==
    /\ \E junk \in Keys \cup {0} :
        got' = [key |-> key,
                val |-> IF slot_sz = 0 THEN 0
                        ELSE binary_search(key, [key |-> junk, val |-> -1])]
    /\ UNCHANGED <<slot, slot_sz, added>>

Next == \E key \in Keys : insert(key) \/ find(key)

Spec == Init /\ [][Next]_arr_vars

-------------------------------------------------------------------------------
(* The array holds what was inserted, in order, with zeros behind it.      *)
InOrder ==
    /\ slot_sz = Len(added) /\ slot_sz <= slot_max
    /\ \A k \in 1 .. slot_max : IF k > slot_sz THEN slot[k] = Zero
                                ELSE added[slot[k].val] = slot[k].key
    /\ \A j, k \in 1 .. slot_sz : j < k => /\ slot[j].key <= slot[k].key
                                           /\ slot[j].val # slot[k].val

(* find gives a value that was inserted with the key, and null when there  *)
(* is none: a handler is found whatever was added besides, and no message  *)
(* gets another's.  The one exception is memory behind a full array, which *)
(* may pass for a key that is missing.                                     *)
FoundIsInserted ==
    LET vals == {v \in DOMAIN added : added[v] = got.key} IN
    got # Zero => IF vals # {} THEN got.val \in vals
                  ELSE got.val = 0 \/ (got.val = -1 /\ slot_sz = slot_max)
===============================================================================
