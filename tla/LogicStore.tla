------------------------------ MODULE LogicStore ------------------------------
(***************************************************************************)
(* The table of logics of net/logic_store.cpp and its use by net/logic.cpp.*)
(* reg publishes a logic under its write lock; the constructor sets        *)
(* logic_id to the handle only after reg has returned, and resize, run by  *)
(* another constructor in between, files the logic by whatever logic_id    *)
(* holds then.  Logics are never removed.                                  *)
(***************************************************************************)
EXTENDS Integers, FiniteSets

CONSTANTS
    Logics,
    FirstSize,      \* slots of the first table, a power of two
    MaxBuilding,    \* bound: constructors that run at the same time
    NULL            \* no logic

Unset == -1         \* no id yet

VARIABLES
    slot, slot_size, index,
    handle,         \* what reg returned for a logic
    logic_id,       \* the field, set later
    torn            \* ghost: resize has met a logic without its id

store_vars == <<slot, slot_size, index, handle, logic_id, torn>>

Init ==
    /\ slot_size = FirstSize /\ slot = [k \in 0 .. FirstSize - 1 |-> NULL]
    /\ index = 0
    /\ handle = [l \in Logics |-> Unset] /\ logic_id = [l \in Logics |-> Unset]
    /\ torn = FALSE

Full == \A k \in 0 .. slot_size - 1 : slot[k] # NULL
NoId == {l \in Logics : handle[l] # Unset /\ logic_id[l] = Unset}

(* Bug: the last slot is left out. *)
Bug_resize(ids) ==
    [k \in 0 .. 2 * slot_size - 1 |->
        LET here == {j \in 0 .. slot_size - 2 : ids[slot[j]] % (2 * slot_size) = k} IN
        IF here = {} THEN NULL ELSE slot[CHOOSE j \in here : \A i \in here : i <= j]]

(* The table of twice the size; of those filed at one place the last stays.*)
resize(ids) ==
    [k \in 0 .. 2 * slot_size - 1 |->
        LET here == {j \in 0 .. slot_size - 1 : ids[slot[j]] % (2 * slot_size) = k} IN
        IF here = {} THEN NULL ELSE slot[CHOOSE j \in here : \A i \in here : i <= j]]

(* The first free slot from `index` on, in table s of n slots. *)
File(l, s, n) ==
    LET h == CHOOSE h \in index .. index + n - 1 :
                 s[h % n] = NULL /\ \A i \in index .. h - 1 : s[i % n] # NULL IN
    /\ slot' = [s EXCEPT ![h % n] = l]
    /\ slot_size' = n
    /\ index' = h + 1
    /\ handle' = [handle EXCEPT ![l] = h]

(* All with the write lock.  An id that is not set yet can be any number,  *)
(* and any number is one of the places after `&`.                          *)
reg(l) ==
    /\ handle[l] = Unset /\ Cardinality(NoId) < MaxBuilding
    /\ IF Full
       THEN \E junk \in [NoId -> 0 .. 2 * slot_size - 1] :
                File(l, resize([m \in Logics |-> IF m \in NoId THEN junk[m] ELSE logic_id[m]]),
                     2 * slot_size)
       ELSE File(l, slot, slot_size)
    /\ torn' = (torn \/ (Full /\ NoId # {}))
    /\ UNCHANGED logic_id

(* The constructor logic(iocp&) goes on. *)
logic_ctor(l) ==
    /\ l \in NoId
    /\ logic_id' = [logic_id EXCEPT ![l] = handle[l]]
    /\ UNCHANGED <<slot, slot_size, index, handle, torn>>

grub(id) ==
    LET lgc == slot[id % slot_size] IN
    IF lgc = NULL \/ logic_id[lgc] # id THEN NULL ELSE lgc

Constructed == {l \in Logics : logic_id[l] # Unset}
Done == Constructed = Logics /\ UNCHANGED store_vars

Next == (\E l \in Logics : reg(l) \/ logic_ctor(l)) \/ Done

Spec == Init /\ [][Next]_store_vars

-------------------------------------------------------------------------------
(* Every logic that is constructed is found under its id, however the      *)
(* table has grown since, and no id is given twice, so that post reaches   *)
(* the logic it names.  Only a growth that meets a logic without its id    *)
(* can lose logics: that one, or the one in whose place it is filed.       *)
LogicsAreFound ==
    /\ ~torn => \A l \in Constructed : grub(logic_id[l]) = l
    /\ \A l, m \in Constructed : logic_id[l] = logic_id[m] => l = m
===============================================================================
