------------------------------ MODULE CoreLogic ------------------------------
(***************************************************************************)
(* The logics of net/corelogic.c: a table from ids to logics behind a      *)
(* read-write lock, and their reference counts.  Three kinds of callers:   *)
(* the thread that creates a logic and releases it once (server/main.c,    *)
(* client/main.c); threads of the socket server that post a message to a   *)
(* logic (warp_post of net/coresocket.c: grub, post, release); workers     *)
(* that deliver it (default_logicmsg_handler: grub, call, no release).     *)
(*                                                                         *)
(* What is done under the lock is one step (CoreLock: Exclusion).  The     *)
(* decrement of the count in corelogic_release comes before the lock.      *)
(* corelogic_new leaves `mod` unset and corelogic_release goes through it  *)
(* to free the logic: the model ends there, with dead = "fault", as it     *)
(* does where any other invalid pointer is followed.                       *)
(*                                                                         *)
(* pc: idle; post, dec, lock, free (warp_post and corelogic_release);      *)
(*     call (in the handler of a logic)                                    *)
(***************************************************************************)
EXTENDS Integers, FiniteSets, FiniteSetsExt

CONSTANTS
    Threads,
    Logics, NULL,       \* addresses of logics, each used once; no address
    DEFAULT_SLOT_SIZE,  \* 64
    MaxPosts            \* bound: messages

ASSUME ThreadsFinite == IsFiniteSet(Threads)
ASSUME LogicsFinite == IsFiniteSet(Logics) /\ NULL \notin Logics
ASSUME SlotSize == DEFAULT_SLOT_SIZE \in Nat \ {0}

VARIABLES
    slot, slot_size, allocid,
    ref, logic_id,
    status,     \* none, live, removed (from the table)
    owned,      \* the creator has not released it
    leaked,     \* references that nobody will release
    queued,     \* messages in the poller to the id of a logic
    posts,
    pc, lgc,    \* per thread: place, logic in hand
    dead        \* no; assert: thelgc # lgc; fault

store  == <<slot, slot_size, allocid>>
fields == <<logic_id, status>>
counts == <<owned, leaked>>
mail   == <<queued, posts>>
vars   == <<store, ref, fields, counts, mail, pc, lgc, dead>>

Goto(t, from, to) ==
    /\ dead = "no"
    /\ pc[t] = from
    /\ pc' = [pc EXCEPT ![t] = to]

Init ==
    /\ slot = <<>> /\ slot_size = 0 /\ allocid = 0
    /\ ref = [l \in Logics |-> 0]
    /\ logic_id = [l \in Logics |-> 0]
    /\ status = [l \in Logics |-> "none"]
    /\ owned = [l \in Logics |-> FALSE] /\ leaked = [l \in Logics |-> 0]
    /\ queued = [l \in Logics |-> 0] /\ posts = 0
    /\ pc = [t \in Threads |-> "idle"] /\ lgc = [t \in Threads |-> NULL]
    /\ dead = "no"

-------------------------------------------------------------------------------
(* id & (sz - 1), sz a power of two. *)
Hash(i, sz) == i % sz

(* Bug: the old size is used for the new places. *)
Bug_corelogic_store_resize(sl, sz) ==
    [h \in 0 .. (IF sz > 0 THEN sz * 2 ELSE DEFAULT_SLOT_SIZE) - 1 |->
        IF h < sz THEN sl[h] ELSE NULL]

(* Called with no empty slot. *)
corelogic_store_resize(sl, sz) ==
    [h \in 0 .. (IF sz > 0 THEN sz * 2 ELSE DEFAULT_SLOT_SIZE) - 1 |->
        LET l == {k \in {sl[i] : i \in 0 .. sz - 1} : Hash(logic_id[k], sz * 2) = h}
        IN  IF l = {} THEN NULL ELSE CHOOSE k \in l : TRUE]

(* The offsets from allocid at which corelogic_store_reg finds room.       *)
Room(sl, sz) == {i \in 0 .. sz - 1 : sl[Hash(i + allocid, sz)] = NULL}

(* Bug: the id is the place in the table. *)
Bug_corelogic_store_reg(l) ==
    LET full == Room(slot, slot_size) = {}
        sl == IF full THEN corelogic_store_resize(slot, slot_size) ELSE slot
        sz == Cardinality(DOMAIN sl)
        handle == Hash(Min(Room(sl, sz)) + allocid, sz)
    IN  /\ logic_id' = [logic_id EXCEPT ![l] = handle]
        /\ slot' = [sl EXCEPT ![handle] = l]
        /\ slot_size' = sz
        /\ allocid' = handle + 1

corelogic_store_reg(l) ==
    LET full == Room(slot, slot_size) = {}
        sl == IF full THEN corelogic_store_resize(slot, slot_size) ELSE slot
        sz == Cardinality(DOMAIN sl)
        handle == Min(Room(sl, sz)) + allocid
    IN  /\ logic_id' = [logic_id EXCEPT ![l] = handle]
        /\ slot' = [sl EXCEPT ![Hash(handle, sz)] = l]
        /\ slot_size' = sz
        /\ allocid' = handle + 1

corelogic_new(t, l) ==
    /\ Goto(t, "idle", "idle")
    /\ status[l] = "none"
    /\ ref' = [ref EXCEPT ![l] = 1]
    /\ corelogic_store_reg(l)
    /\ status' = [status EXCEPT ![l] = "live"]
    /\ owned' = [owned EXCEPT ![l] = TRUE]
    /\ UNCHANGED <<leaked, mail, lgc, dead>>

(* corelogic_grub finds at most one logic; what it returns when it finds   *)
(* none is not set: NULL or garbage.                                       *)
Found(i) == LET l == slot[Hash(i, slot_size)]
            IN  IF l # NULL /\ logic_id[l] = i THEN {l} ELSE {}

(* Bug: the reference is not counted. *)
Bug_corelogic_grub(t, i) ==
    /\ lgc' = [lgc EXCEPT ![t] = CHOOSE l \in Found(i) : TRUE]
    /\ UNCHANGED ref

corelogic_grub(t, i) ==
    LET l == CHOOSE l \in Found(i) : TRUE
    IN  /\ ref' = [ref EXCEPT ![l] = @ + 1]
        /\ lgc' = [lgc EXCEPT ![t] = l]

-------------------------------------------------------------------------------
(* warp_post, called with the id that logic l was given; it does not ask   *)
(* for NULL.                                                               *)
warp_post(t, l) ==
    /\ posts < MaxPosts /\ status[l] # "none"
    /\ Goto(t, "idle", "post")
    /\ IF Found(logic_id[l]) # {}
       THEN corelogic_grub(t, logic_id[l]) /\ UNCHANGED dead
       ELSE dead' = "fault" /\ UNCHANGED <<ref, lgc>>
    /\ posts' = posts + 1
    /\ UNCHANGED <<store, fields, counts, queued>>

warp_post_post(t) ==
    /\ Goto(t, "post", "dec")
    /\ queued' = [queued EXCEPT ![lgc[t]] = @ + 1]
    /\ UNCHANGED <<store, ref, fields, counts, posts, lgc, dead>>

(* The creator releases the logic. *)
main_release(t, l) ==
    /\ owned[l]
    /\ Goto(t, "idle", "dec")
    /\ owned' = [owned EXCEPT ![l] = FALSE]
    /\ lgc' = [lgc EXCEPT ![t] = l]
    /\ UNCHANGED <<store, ref, fields, leaked, mail, dead>>

corelogic_release(t) ==
    LET last == ref[lgc[t]] - 1 = 0 IN
    /\ Goto(t, "dec", IF last THEN "lock" ELSE "idle")
    /\ ref' = [ref EXCEPT ![lgc[t]] = @ - 1]
    /\ lgc' = IF last THEN lgc ELSE [lgc EXCEPT ![t] = NULL]
    /\ UNCHANGED <<store, fields, counts, mail, dead>>

(* Its part under the write lock ... *)
release_remove(t) ==
    LET h == Hash(logic_id[lgc[t]], slot_size) IN
    /\ Goto(t, "lock", "free")
    /\ IF slot[h] = lgc[t]
       THEN /\ slot' = [slot EXCEPT ![h] = NULL]
            /\ status' = [status EXCEPT ![lgc[t]] = "removed"]
            /\ UNCHANGED dead
       ELSE dead' = "assert" /\ UNCHANGED <<slot, status>>
    /\ UNCHANGED <<slot_size, allocid, ref, logic_id, counts, mail, lgc>>

(* ... and lgc->mod->release(lgc->inst). *)
release_free(t) ==
    /\ Goto(t, "free", "free")
    /\ dead' = "fault"
    /\ UNCHANGED <<store, ref, fields, counts, mail, lgc>>

(* default_logicmsg_handler *)
logicmsg_handler(t, l) ==
    /\ queued[l] > 0
    /\ queued' = [queued EXCEPT ![l] = @ - 1]
    /\ \/ /\ Found(logic_id[l]) # {}
          /\ Goto(t, "idle", "call")
          /\ corelogic_grub(t, logic_id[l])
          /\ UNCHANGED dead
       \/ /\ Found(logic_id[l]) = {}
          /\ Goto(t, "idle", "idle")
          /\ dead' \in {"no", "fault"}
          /\ UNCHANGED <<ref, lgc>>
    /\ UNCHANGED <<store, fields, counts, posts>>

handler_return(t) ==
    /\ Goto(t, "call", "idle")
    /\ leaked' = [leaked EXCEPT ![lgc[t]] = @ + 1]
    /\ lgc' = [lgc EXCEPT ![t] = NULL]
    /\ UNCHANGED <<store, ref, fields, owned, mail, dead>>

Next ==
    \E t \in Threads :
        \/ \E l \in Logics : \/ corelogic_new(t, l) \/ main_release(t, l)
                             \/ warp_post(t, l) \/ logicmsg_handler(t, l)
        \/ warp_post_post(t) \/ corelogic_release(t)
        \/ release_remove(t) \/ release_free(t) \/ handler_return(t)

Spec == Init /\ [][Next]_vars

-------------------------------------------------------------------------------
Holders(l) == {t \in Threads : lgc[t] = l /\ pc[t] \in {"post", "dec", "call"}}

(* The variables have their types. *)
TypeOK ==
    /\ slot_size \in Nat /\ slot \in [0 .. slot_size - 1 -> Logics \cup {NULL}]
    /\ allocid \in Nat
    /\ ref \in [Logics -> Nat] /\ logic_id \in [Logics -> Nat]
    /\ status \in [Logics -> {"none", "live", "removed"}]
    /\ owned \in [Logics -> BOOLEAN] /\ leaked \in [Logics -> Nat]
    /\ queued \in [Logics -> Nat] /\ lgc \in [Threads -> Logics \cup {NULL}]
    /\ pc \in [Threads -> {"idle", "post", "dec", "lock", "free", "call"}]
    /\ dead \in {"no", "assert", "fault"}

(* Every logic in the table is found by its id, and only by it: whatever   *)
(* was registered and removed before, and however often the table was      *)
(* doubled, no logic sits where corelogic_grub does not look for it.       *)
LiveIsFound ==
    \A l \in Logics : status[l] = "live" <=> slot_size > 0 /\ Found(logic_id[l]) = {l}

(* An id is given out once: a message that is late finds no logic, or the  *)
(* one it was sent to, although slots are used again.                      *)
IdsNeverReused ==
    [][\A k, l \in Logics :
            status[k] = "none" /\ status'[k] = "live" /\ status[l] # "none"
                => logic_id'[k] > logic_id'[l] /\ logic_id'[l] = logic_id[l]]_vars

(* The count of a logic is the number of references that exist: its        *)
(* creator's, those of threads between grub and release, and those that    *)
(* default_logicmsg_handler has taken and never gives back.  As long as    *)
(* its creator has not released it, a logic stays in the table, whatever   *)
(* the other threads grub and release.                                     *)
RefsCounted ==
    /\ TypeOK
    /\ \A l \in Logics :
        /\ ref[l] = Cardinality(Holders(l)) + leaked[l] + (IF owned[l] THEN 1 ELSE 0)
        /\ owned[l] => status[l] = "live"

(* corelogic_release: assert(thelgc == lgc): the logic whose count went to *)
(* zero is still in its slot when the write lock has been taken.           *)
ReleasedIsRegistered == dead # "assert"
===============================================================================
