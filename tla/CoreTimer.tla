------------------------------ MODULE CoreTimer ------------------------------
(***************************************************************************)
(* The locking of net/coretimer.c.  Unlike timer.cpp, coretimer_add reads  *)
(* `index` and `time` without the lock and takes the lock twice, once for  *)
(* a node and once to link it; coretimer_del and timer_execute release the *)
(* lock before they give a node back, which takes it twice more.  What the *)
(* lock protects in one go is one step here.  Callbacks may add and delete *)
(* timers like any other thread: the clients do it for them.               *)
(*                                                                         *)
(* Which slot a timer is in does not matter here (TimerWheel): `wheel` is  *)
(* the sequence of linked nodes in the order of their linking, and         *)
(* timer_execute detaches those that expire at `time`.  Deleting a timer   *)
(* of the detached list goes through list links that timer_execute no      *)
(* longer keeps; where that ends in a NULL or freed pointer, or in the     *)
(* links of the free list, the behaviour is undefined: `dead` is "fault"   *)
(* and the model ends.                                                     *)
(*                                                                         *)
(* pc of a client: idle; coretimer_add: index, id, expire, link;           *)
(*                 timernode_dealloc: use, free                            *)
(* pc of the updater: idle, shift, second (before the first timer_execute, *)
(*                 timer_shift and the second timer_execute of a tick);    *)
(*                 call (a callback runs), use, free, next                 *)
(***************************************************************************)
EXTENDS Integers, Sequences, FiniteSets, SequencesExt

CONSTANTS
    Clients, Updater,
    Nodes, NULL,    \* addresses timer nodes may have (bound), and no address
    Waits,          \* waits of coretimer_add in ticks, after the division
    MaxAdds,        \* bound: calls of coretimer_add
    MaxTime         \* bound: ticks

ASSUME NodesFinite == IsFiniteSet(Nodes) /\ NULL \notin Nodes
ASSUME UpdaterNoClient == Updater \notin Clients

VARIABLES
    time, index,
    wheel, hash,    \* linked nodes; hashed nodes, latest first
    chain,          \* rest of the detached list: linked after `cur`
    cur, nxt,       \* r and n of timer_execute
    tick,           \* which timer_execute of the tick is under way
    mem,            \* mem[x]: none (not allocated), live, free (in freenode)
    freenode, free_cnt, use_cnt,
    expire, id,     \* fields of the nodes
    timer,          \* ghost: the number of the timer a node stands for
    fate,           \* ghost: what became of each timer: none, armed, deleted,
                    \* called, again (called when it was no longer armed)
    adds,           \* ghost: timers so far
    pc, node, tmp,  \* per thread: place, node in hand, value read
    dead            \* no; a failed assertion; fault: an invalid pointer

Threads == Clients \cup {Updater}

shared == <<time, index, wheel, hash, chain>>
exec   == <<cur, nxt, tick>>
pool   == <<mem, freenode, free_cnt, use_cnt>>
fields == <<expire, id, timer>>
ghost  == <<fate, adds>>
vars   == <<shared, exec, pool, fields, ghost, pc, node, tmp, dead>>

Goto(t, from, to) ==
    /\ dead = "no"
    /\ pc[t] = from
    /\ pc' = [pc EXCEPT ![t] = to]

Init ==
    /\ time = 0 /\ index = 0 /\ wheel = <<>> /\ hash = <<>> /\ chain = <<>>
    /\ cur = NULL /\ nxt = NULL /\ tick = "first"
    /\ mem = [x \in Nodes |-> "none"]
    /\ freenode = <<>> /\ free_cnt = 0 /\ use_cnt = 0
    /\ expire = [x \in Nodes |-> 0] /\ id = [x \in Nodes |-> 0]
    /\ timer = [x \in Nodes |-> 0]
    /\ fate = [i \in 1 .. MaxAdds |-> "none"] /\ adds = 0
    /\ pc = [t \in Threads |-> "idle"]
    /\ node = [t \in Threads |-> NULL]
    /\ tmp = [t \in Threads |-> 0]
    /\ dead = "no"

-------------------------------------------------------------------------------
(* timernode_alloc: from the free list, or from malloc. *)

(* Bug: the node is looked at before the lock is taken and stays there. *)
Bug_timernode_alloc(t) ==
    /\ IF freenode # <<>>
       THEN /\ node' = [node EXCEPT ![t] = Head(freenode)]
            /\ UNCHANGED <<freenode, free_cnt, mem>>
       ELSE \E x \in Nodes :
            /\ mem[x] = "none"
            /\ mem' = [mem EXCEPT ![x] = "live"]
            /\ node' = [node EXCEPT ![t] = x]
            /\ UNCHANGED <<freenode, free_cnt>>
    /\ use_cnt' = use_cnt + 1

timernode_alloc(t) ==
    /\ IF freenode # <<>>
       THEN /\ node' = [node EXCEPT ![t] = Head(freenode)]
            /\ mem' = [mem EXCEPT ![Head(freenode)] = "live"]
            /\ freenode' = Tail(freenode)
            /\ free_cnt' = free_cnt - 1
       ELSE \E x \in Nodes :
            /\ mem[x] = "none"
            /\ mem' = [mem EXCEPT ![x] = "live"]
            /\ node' = [node EXCEPT ![t] = x]
            /\ UNCHANGED <<freenode, free_cnt>>
    /\ use_cnt' = use_cnt + 1

(* timernode_dealloc: how many are in use decides, under the lock, ...     *)
dealloc_use(t) ==
    /\ Goto(t, "use", "free")
    /\ use_cnt' = use_cnt - 1
    /\ LET use == IF use_cnt' \div 8 = 0 THEN 1 ELSE use_cnt' \div 8
       IN  tmp' = [tmp EXCEPT ![t] = IF free_cnt >= use THEN 0 ELSE 1]
    /\ UNCHANGED <<shared, exec, mem, freenode, free_cnt, fields, ghost, node, dead>>

(* Bug: the counter of the free list is set from the value read before.    *)
Bug_dealloc_free(t) ==
    /\ Goto(t, "free", IF t = Updater THEN "next" ELSE "idle")
    /\ IF tmp[t] = 1
       THEN /\ mem' = [mem EXCEPT ![node[t]] = "free"]
            /\ freenode' = <<node[t]>> \o freenode
            /\ free_cnt' = 1
       ELSE /\ mem' = [mem EXCEPT ![node[t]] = "none"]
            /\ UNCHANGED <<freenode, free_cnt>>
    /\ node' = [node EXCEPT ![t] = NULL]
    /\ UNCHANGED <<shared, exec, use_cnt, fields, ghost, tmp, dead>>

(* ... whether the node is freed or, under the lock again, kept.           *)
dealloc_free(t) ==
    /\ Goto(t, "free", IF t = Updater THEN "next" ELSE "idle")
    /\ IF tmp[t] = 1
       THEN /\ mem' = [mem EXCEPT ![node[t]] = "free"]
            /\ freenode' = <<node[t]>> \o freenode
            /\ free_cnt' = free_cnt + 1
       ELSE /\ mem' = [mem EXCEPT ![node[t]] = "none"]
            /\ UNCHANGED <<freenode, free_cnt>>
    /\ node' = [node EXCEPT ![t] = NULL]
    /\ UNCHANGED <<shared, exec, use_cnt, fields, ghost, tmp, dead>>

-------------------------------------------------------------------------------
(* coretimer_add *)

coretimer_add(t) ==
    /\ adds < MaxAdds
    /\ Goto(t, "idle", "index")
    /\ timernode_alloc(t)
    /\ adds' = adds + 1
    /\ timer' = [timer EXCEPT ![node'[t]] = adds + 1]
    /\ UNCHANGED <<shared, exec, expire, id, fate, tmp, dead>>

(* ++t->index without the lock: a load and a store. *)
add_index(t) ==
    /\ Goto(t, "index", "id")
    /\ tmp' = [tmp EXCEPT ![t] = index + 1]
    /\ UNCHANGED <<shared, exec, pool, fields, ghost, node, dead>>

add_id(t) ==
    /\ Goto(t, "id", "expire")
    /\ index' = tmp[t]
    /\ id' = [id EXCEPT ![node[t]] = tmp[t]]
    /\ UNCHANGED <<time, wheel, hash, chain, exec, pool, expire, timer, ghost, node, tmp, dead>>

(* t->time, without the lock. *)
add_expire(t, wait) ==
    /\ Goto(t, "expire", "link")
    /\ expire' = [expire EXCEPT ![node[t]] = time + wait]
    /\ UNCHANGED <<shared, exec, pool, id, timer, ghost, node, tmp, dead>>

(* addto_list with its assertion, addto_hash. *)
add_link(t) ==
    /\ Goto(t, "link", "idle")
    /\ LET r == node[t] IN
        IF expire[r] < time
        THEN dead' = "assert_expire" /\ UNCHANGED <<wheel, hash, fate>>
        ELSE /\ wheel' = Append(wheel, r)
             /\ hash' = <<r>> \o hash
             /\ fate' = [fate EXCEPT ![timer[r]] = "armed"]
             /\ UNCHANGED dead
    /\ node' = [node EXCEPT ![t] = NULL]
    /\ UNCHANGED <<time, index, chain, exec, pool, fields, adds, tmp>>

-------------------------------------------------------------------------------
(* coretimer_del: finds the timer through its id ... *)
Find(i) == SelectInSeq(hash, LAMBDA x : id[x] = i)

(* ... and unlinks it: in the wheel every node has two neighbours; in the  *)
(* detached list the last has no next, and the one before the first is the *)
(* node whose callback runs, or ran and was given back.                    *)
DelFromList(r) ==
    IF Contains(wheel, r)
    THEN wheel' = Remove(wheel, r) /\ UNCHANGED <<chain, dead>>
    ELSE /\ chain' = Remove(chain, r)
         /\ dead' = IF r = Last(chain) \/ (r = Head(chain) /\ node[Updater] # cur)
                    THEN "fault" ELSE "no"
         /\ UNCHANGED wheel

(* Bug: the node is given back but stays in the list. *)
Bug_coretimer_del(t, i) ==
    /\ Find(i) # 0
    /\ Goto(t, "idle", "use")
    /\ LET r == hash[Find(i)] IN
        /\ hash' = Remove(hash, r)
        /\ node' = [node EXCEPT ![t] = r]
        /\ fate' = [fate EXCEPT ![timer[r]] = "deleted"]
    /\ UNCHANGED <<time, index, wheel, chain, exec, pool, fields, adds, tmp, dead>>

coretimer_del(t, i) ==
    /\ Find(i) # 0
    /\ Goto(t, "idle", "use")
    /\ LET r == hash[Find(i)] IN
        /\ DelFromList(r)
        /\ hash' = Remove(hash, r)
        /\ node' = [node EXCEPT ![t] = r]
        /\ fate' = [fate EXCEPT ![timer[r]] = "deleted"]
    /\ UNCHANGED <<time, index, exec, pool, fields, adds, tmp>>

-------------------------------------------------------------------------------
(* timer_tick *)

AfterExecute(which) == IF which = "first" THEN "shift" ELSE "idle"

(* The loop of timer_execute reaches r, with the list `rest` behind it. *)
Call(r, rest) ==
    /\ cur' = r
    /\ nxt' = IF rest = <<>> THEN NULL ELSE Head(rest)
    /\ chain' = rest
    /\ hash' = Remove(hash, r)
    /\ fate' = [fate EXCEPT ![timer[r]] = IF @ = "armed" THEN "called" ELSE "again"]
    /\ node' = [node EXCEPT ![Updater] = r]

timer_execute(from, which) ==
    /\ time < MaxTime \/ which = "second"
    /\ LET due == SelectSeq(wheel, LAMBDA x : expire[x] = time) IN
        /\ wheel' = SelectSeq(wheel, LAMBDA x : expire[x] # time)
        /\ IF due = <<>>
           THEN /\ Goto(Updater, from, AfterExecute(which))
                /\ UNCHANGED <<cur, nxt, chain, hash, fate, node>>
           ELSE Goto(Updater, from, "call") /\ Call(Head(due), Tail(due))
    /\ tick' = which
    /\ UNCHANGED <<time, index, pool, fields, adds, tmp, dead>>

(* The callback returns; timernode_dealloc follows. *)
execute_called ==
    /\ Goto(Updater, "call", "use")
    /\ UNCHANGED <<shared, exec, pool, fields, ghost, node, tmp, dead>>

(* Bug: the list is followed from the node that was just given back, which *)
(* may have become another timer's.                                        *)
Bug_execute_next ==
    /\ IF chain = <<>>
       THEN /\ Goto(Updater, "next", AfterExecute(tick))
            /\ cur' = NULL
            /\ UNCHANGED <<nxt, chain, hash, fate, node, dead>>
       ELSE /\ Goto(Updater, "next", "call")
            /\ Call(Head(chain), chain)
            /\ UNCHANGED dead
    /\ UNCHANGED <<time, index, wheel, tick, pool, fields, adds, tmp>>

(* r = n: the node that came next when the last callback was called.  If   *)
(* it was deleted since, its hash links are NULL - unless it has been      *)
(* freed, or is a timer again.                                             *)
execute_next ==
    /\ IF nxt = NULL
       THEN /\ Goto(Updater, "next", AfterExecute(tick))
            /\ cur' = NULL
            /\ UNCHANGED <<nxt, chain, hash, fate, node, dead>>
       ELSE IF Contains(chain, nxt)
       THEN /\ Goto(Updater, "next", "call")
            /\ Call(nxt, Tail(chain))
            /\ UNCHANGED dead
       ELSE /\ Goto(Updater, "next", "idle")
            /\ dead' = IF mem[nxt] = "none" \/ Contains(hash, nxt)
                       THEN "fault" ELSE "assert_hash"
            /\ UNCHANGED <<cur, nxt, chain, hash, fate, node>>
    /\ UNCHANGED <<time, index, wheel, tick, pool, fields, adds, tmp>>

timer_shift ==
    /\ Goto(Updater, "shift", "second")
    /\ time' = time + 1
    /\ UNCHANGED <<index, wheel, hash, chain, exec, pool, fields, ghost, node, tmp, dead>>

ClientStep(t) ==
    \/ coretimer_add(t) \/ add_index(t) \/ add_id(t)
    \/ \E wait \in Waits : add_expire(t, wait)
    \/ add_link(t)
    \/ \E i \in 1 .. index : coretimer_del(t, i)

UpdaterStep ==
    \/ timer_execute("idle", "first") \/ timer_shift
    \/ timer_execute("second", "second")
    \/ execute_called \/ execute_next

Next ==
    \/ \E t \in Clients : ClientStep(t)
    \/ UpdaterStep
    \/ \E t \in Threads : dealloc_use(t) \/ dealloc_free(t)

Spec == Init /\ [][Next]_vars

-------------------------------------------------------------------------------
Linked == ToSet(wheel) \cup ToSet(chain)
Held(x) == {t \in Threads : node[t] = x}

(* The variables have their types. *)
TypeOK ==
    /\ time \in 0 .. MaxTime /\ index \in 0 .. MaxAdds
    /\ Linked \cup ToSet(hash) \cup ToSet(freenode) \subseteq Nodes
    /\ cur \in Nodes \cup {NULL} /\ nxt \in Nodes \cup {NULL}
    /\ mem \in [Nodes -> {"none", "live", "free"}]
    /\ free_cnt \in Nat /\ use_cnt \in Nat
    /\ node \in [Threads -> Nodes \cup {NULL}]
    /\ dead \in {"no", "assert_expire", "assert_hash", "fault"}

(* A node has one use at a time, through all the windows in which the lock *)
(* is released: a linked node is hashed, live and in nobody's hands; a     *)
(* node somebody holds is live and held by one thread; a node in the free  *)
(* list is there once and nowhere else.                                    *)
OneUsePerNode ==
    /\ TypeOK
    /\ dead = "no" =>
        /\ \A x \in Linked : mem[x] = "live" /\ Held(x) = {}
        /\ Linked = ToSet(hash)
        /\ Len(wheel) + Len(chain) = Cardinality(Linked)
        /\ \A x \in Nodes : Held(x) # {} => mem[x] = "live" /\ Cardinality(Held(x)) = 1
        /\ ToSet(freenode) = {x \in Nodes : mem[x] = "free"}
        /\ Len(freenode) = Cardinality(ToSet(freenode))

(* The pool's counters are right although a node is counted out under one  *)
(* hold of the lock and given back under another: free_cnt is the length   *)
(* of the free list, use_cnt the number of nodes handed out and not yet    *)
(* counted out.                                                            *)
PoolCounted ==
    /\ free_cnt = Len(freenode)
    /\ use_cnt = Cardinality({x \in Nodes : mem[x] = "live"})
                 - Cardinality({t \in Threads : pc[t] = "free"})

(* Every armed timer is linked, in the wheel or in the detached list, on a *)
(* node of its own: none is lost when a node is reused.                    *)
ArmedIsLinked ==
    dead = "no" =>
        \A i \in 1 .. MaxAdds :
            fate[i] = "armed" <=> \E x \in Linked : timer[x] = i

(* A timer that coretimer_del has found is not called afterwards, and no   *)
(* timer is called twice.                                                  *)
FateIsFinal ==
    [][\A i \in 1 .. MaxAdds :
            fate[i] \in {"called", "deleted"} => fate'[i] = fate[i]]_vars

(* addto_list: `if (expire < current_time) assert(0)`: nobody links a      *)
(* timer that has already expired.                                         *)
NeverLinkedLate == dead # "assert_expire"

(* delfrom_hash: `assert(r->hash_prev)`, "may be not in hash": the loop of *)
(* timer_execute meets only timers that are still there.                   *)
ExecutedIsHashed == dead # "assert_hash"
===============================================================================
