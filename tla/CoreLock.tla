------------------------------- MODULE CoreLock -------------------------------
(***************************************************************************)
(* The reader/writer spin lock of net/corelock.c.  Two volatile counters,  *)
(* `read` and `write`, are changed only by Interlocked operations; every   *)
(* access to one of them is a step of its own, so the two spin loops of    *)
(* rlock() and the two phases of wlock() interleave as they do on a        *)
(* multiprocessor.  An iteration of a spin loop that does not leave it     *)
(* changes nothing and is a stuttering step.                               *)
(*                                                                         *)
(* pc[t]:  idle     outside the lock                                       *)
(*         r_spin   in `while (lock->write)` of rlock                      *)
(*         r_inc    about to increment `read`                              *)
(*         r_check  about to test `write` again                            *)
(*         r_undo   has seen a writer, about to decrement `read`           *)
(*         reading  rlock returned, runlock not called yet                 *)
(*         w_cas    in the compare-exchange loop of wlock                  *)
(*         w_drain  owns `write`, in `while (lock->read)`                  *)
(*         writing  wlock returned, wunlock not called yet                 *)
(***************************************************************************)
EXTENDS Integers, FiniteSets

CONSTANT Threads

ASSUME ThreadsFinite == IsFiniteSet(Threads)

VARIABLES read, write, pc

vars == <<read, write, pc>>

Goto(t, from, to) == pc[t] = from /\ pc' = [pc EXCEPT ![t] = to]

Init ==
    /\ read = 0
    /\ write = 0
    /\ pc = [t \in Threads |-> "idle"]

-------------------------------------------------------------------------------
(* rlock *)

rlock(t) == Goto(t, "idle", "r_spin") /\ UNCHANGED <<read, write>>

rlock_spin(t) ==
    /\ write = 0
    /\ Goto(t, "r_spin", "r_inc")
    /\ UNCHANGED <<read, write>>

rlock_inc(t) ==
    /\ Goto(t, "r_inc", "r_check")
    /\ read' = read + 1
    /\ UNCHANGED write

(* Bug: the second look at `write` is missing. *)
Bug_rlock_check(t) == Goto(t, "r_check", "reading") /\ UNCHANGED <<read, write>>

rlock_check(t) ==
    /\ Goto(t, "r_check", IF write # 0 THEN "r_undo" ELSE "reading")
    /\ UNCHANGED <<read, write>>

(* Bug: the reader goes back to spinning without taking its count back. *)
Bug_rlock_undo(t) == Goto(t, "r_undo", "r_spin") /\ UNCHANGED <<read, write>>

rlock_undo(t) ==
    /\ Goto(t, "r_undo", "r_spin")
    /\ read' = read - 1
    /\ UNCHANGED write

runlock(t) ==
    /\ Goto(t, "reading", "idle")
    /\ read' = read - 1
    /\ UNCHANGED write

-------------------------------------------------------------------------------
(* wlock *)

wlock(t) == Goto(t, "idle", "w_cas") /\ UNCHANGED <<read, write>>

wlock_cas(t) ==
    /\ write = 0
    /\ Goto(t, "w_cas", "w_drain")
    /\ write' = 1
    /\ UNCHANGED read

(* Bug: the writer does not wait for the readers that are already in. *)
Bug_wlock_drain(t) == Goto(t, "w_drain", "writing") /\ UNCHANGED <<read, write>>

wlock_drain(t) ==
    /\ read = 0
    /\ Goto(t, "w_drain", "writing")
    /\ UNCHANGED <<read, write>>

(* Bug: wunlock leaves `write` set. *)
Bug_wunlock(t) == Goto(t, "writing", "idle") /\ UNCHANGED <<read, write>>

wunlock(t) ==
    /\ Goto(t, "writing", "idle")
    /\ write' = 0
    /\ UNCHANGED read

-------------------------------------------------------------------------------
(* A step inside rlock, wlock or a critical section; the calls themselves  *)
(* are the environment's.                                                  *)
Step(t) ==
    \/ rlock_spin(t) \/ rlock_inc(t) \/ rlock_check(t) \/ rlock_undo(t)
    \/ runlock(t)
    \/ wlock_cas(t) \/ wlock_drain(t) \/ wunlock(t)

Next == \E t \in Threads : rlock(t) \/ wlock(t) \/ Step(t)

Spec == Init /\ [][Next]_vars

(* The sections the code brackets with this lock (corelogic.c) are         *)
(* straight-line code, so a scheduled thread leaves them; nothing obliges  *)
(* a thread to call rlock or wlock.                                        *)
FairSpec == Spec /\ \A t \in Threads : WF_vars(Step(t))

-------------------------------------------------------------------------------
PcValues == {"idle", "r_spin", "r_inc", "r_check", "r_undo", "reading",
             "w_cas", "w_drain", "writing"}

(* The threads whose increment of `read` is in effect, and those that own *)
(* `write`.                                                                *)
Counted == {t \in Threads : pc[t] \in {"r_check", "r_undo", "reading"}}
Claimed == {t \in Threads : pc[t] \in {"w_drain", "writing"}}

(* The variables have their types; the counters never go below zero        *)
(* (corelock.c decrements `read` without a test).                          *)
TypeOK ==
    /\ read \in Nat
    /\ write \in {0, 1}
    /\ pc \in [Threads -> PcValues]

(* `read` counts exactly the threads between their increment and their     *)
(* decrement, and `write` is set exactly while one thread owns it: no path *)
(* through rlock's retry loop loses or doubles a count, so a lock that     *)
(* nobody holds is a lock that is free.                                    *)
CountersExact ==
    /\ read = Cardinality(Counted)
    /\ write = 1 <=> Claimed # {}
    /\ \A t, u \in Claimed : t = u

(* A thread between wlock and wunlock is alone: no other writer and no     *)
(* reader that got past rlock.                                             *)
Exclusion ==
    \A t, u \in Threads :
        pc[t] = "writing" /\ u # t => pc[u] \notin {"reading", "writing"}

Lock == INSTANCE RWLock WITH
    mode <- [t \in Threads |-> CASE pc[t] = "reading" -> "read"
                                 [] pc[t] = "writing" -> "write"
                                 [] OTHER -> "free"]

(* corelock.c implements the abstract reader/writer lock.                  *)
ImplementsRWLock == Lock!Spec

(* A writer that won the compare-exchange gets the lock: readers arriving  *)
(* after it turn back, so `read` drains although readers keep calling.     *)
ClaimedWriterEnters ==
    \A t \in Threads : pc[t] = "w_drain" ~> pc[t] = "writing"

(* The threads in rlock and wlock do not block one another for ever: when  *)
(* somebody waits, somebody gets in.                                       *)
SomebodyEnters ==
    (\E t \in Threads : pc[t] \in {"r_spin", "w_cas"})
        ~> (\E t \in Threads : pc[t] \in {"reading", "writing"})
===============================================================================
