---------------------------- MODULE CoreLockProofs ----------------------------
(***************************************************************************)
(* Proofs about CoreLock for every finite set of threads: its type         *)
(* invariant, that the two counters are exact, mutual exclusion, and that  *)
(* it implements the abstract lock RWLock.                                 *)
(*                                                                         *)
(* Exclusion is not inductive.  It follows from three facts that are, once *)
(* they are taken together: `read` is the number of counted threads,       *)
(* `write` is set exactly while one thread owns it, and a reader that got  *)
(* in keeps the owner of `write` in its drain loop (NoReaderWithWriter).   *)
(***************************************************************************)
EXTENDS CoreLock, FiniteSetTheorems, TLAPS

NoReaderWithWriter ==
    \A t, u \in Threads : ~(pc[t] = "reading" /\ pc[u] = "writing")

IInv == TypeOK /\ CountersExact /\ NoReaderWithWriter

(* A step of t that leaves every other pc alone adds t to Counted, removes *)
(* it, or leaves Counted as it is; the cardinality follows.                *)
LEMMA CountedFinite ==
  ASSUME TypeOK
  PROVE  IsFiniteSet(Counted) /\ Cardinality(Counted) \in Nat
BY ThreadsFinite, FS_Subset, FS_CardinalityType DEF Counted

(* The increment of rlock raises the number of counted threads by one.     *)
LEMMA CountUp ==
  ASSUME TypeOK, NEW t \in Threads, NEW a, NEW b, Goto(t, a, b),
         a \notin {"r_check", "r_undo", "reading"},
         b \in {"r_check", "r_undo", "reading"}
  PROVE  Cardinality(Counted') = Cardinality(Counted) + 1
<1>1. Counted' = Counted \cup {t} /\ t \notin Counted
  BY DEF Counted, TypeOK, Goto
<1> QED
  BY <1>1, CountedFinite, FS_AddElement

(* The decrements of rlock and runlock lower it by one.                    *)
LEMMA CountDown ==
  ASSUME TypeOK, NEW t \in Threads, NEW a, NEW b, Goto(t, a, b),
         a \in {"r_check", "r_undo", "reading"},
         b \notin {"r_check", "r_undo", "reading"}
  PROVE  Cardinality(Counted') = Cardinality(Counted) - 1 /\ t \in Counted
<1>1. Counted' = Counted \ {t} /\ t \in Counted
  BY DEF Counted, TypeOK, Goto
<1> QED
  BY <1>1, CountedFinite, FS_RemoveElement

(* Any other step leaves the set of counted threads as it is.              *)
LEMMA CountSame ==
  ASSUME TypeOK, NEW t \in Threads, NEW a, NEW b, Goto(t, a, b),
         a \in {"r_check", "r_undo", "reading"}
            <=> b \in {"r_check", "r_undo", "reading"}
  PROVE  Counted' = Counted
BY DEF Counted, TypeOK, Goto

(* While a thread is counted, `read` is not zero.                          *)
LEMMA CountedPositive ==
  ASSUME IInv, NEW t \in Counted
  PROVE  read > 0
BY CountedFinite, FS_EmptySet DEF IInv, CountersExact

(* The invariant holds in the zero-initialised lock.                       *)
LEMMA InitIInv == Init => IInv
<1> SUFFICES ASSUME Init PROVE IInv
  OBVIOUS
<1>1. Counted = {} /\ Claimed = {}
  BY DEF Init, Counted, Claimed
<1> QED
  BY <1>1, FS_EmptySet
  DEF Init, IInv, TypeOK, PcValues, CountersExact, NoReaderWithWriter

(* Every step preserves the invariant.                                     *)
LEMMA NextIInv == IInv /\ [Next]_vars => IInv'
<1> SUFFICES ASSUME IInv, [Next]_vars PROVE IInv'
  OBVIOUS
<1>u. TypeOK /\ CountersExact /\ NoReaderWithWriter
  BY DEF IInv
<1>s. CASE UNCHANGED vars
  BY <1>s, <1>u
  DEF vars, IInv, TypeOK, CountersExact, NoReaderWithWriter, Counted, Claimed
<1>n. CASE Next
  <2>0. PICK t \in Threads : rlock(t) \/ wlock(t) \/ Step(t)
    BY <1>n DEF Next
  <2>1. CASE rlock(t)
    <3>1. Counted' = Counted
      BY <2>1, <1>u, CountSame DEF rlock
    <3>2. Claimed' = Claimed
      BY <2>1, <1>u DEF rlock, Goto, Claimed, TypeOK
    <3> QED
      BY <2>1, <3>1, <3>2, <1>u
      DEF rlock, Goto, IInv, TypeOK, PcValues, CountersExact, NoReaderWithWriter
  <2>2. CASE wlock(t)
    <3>1. Counted' = Counted
      BY <2>2, <1>u, CountSame DEF wlock
    <3>2. Claimed' = Claimed
      BY <2>2, <1>u DEF wlock, Goto, Claimed, TypeOK
    <3> QED
      BY <2>2, <3>1, <3>2, <1>u
      DEF wlock, Goto, IInv, TypeOK, PcValues, CountersExact, NoReaderWithWriter
  <2>3. CASE rlock_spin(t)
    <3>1. Counted' = Counted
      BY <2>3, <1>u, CountSame DEF rlock_spin
    <3>2. Claimed' = Claimed
      BY <2>3, <1>u DEF rlock_spin, Goto, Claimed, TypeOK
    <3> QED
      BY <2>3, <3>1, <3>2, <1>u
      DEF rlock_spin, Goto, IInv, TypeOK, PcValues, CountersExact, NoReaderWithWriter
  <2>4. CASE rlock_inc(t)
    <3>1. Cardinality(Counted') = Cardinality(Counted) + 1
      BY <2>4, <1>u, CountUp DEF rlock_inc
    <3>2. Claimed' = Claimed
      BY <2>4, <1>u DEF rlock_inc, Goto, Claimed, TypeOK
    <3> QED
      BY <2>4, <3>1, <3>2, <1>u
      DEF rlock_inc, Goto, IInv, TypeOK, PcValues, CountersExact, NoReaderWithWriter
  <2>5. CASE rlock_check(t)
    \* The reader gets in only when `write` is 0, so nobody is writing.
    <3>1. Counted' = Counted
      BY <2>5, <1>u, CountSame DEF rlock_check
    <3>2. Claimed' = Claimed
      BY <2>5, <1>u DEF rlock_check, Goto, Claimed, TypeOK
    <3>3. NoReaderWithWriter'
      BY <2>5, <1>u
      DEF rlock_check, Goto, TypeOK, CountersExact, Claimed, NoReaderWithWriter
    <3> QED
      BY <2>5, <3>1, <3>2, <3>3, <1>u
      DEF rlock_check, Goto, IInv, TypeOK, PcValues, CountersExact
  <2>6. CASE rlock_undo(t)
    <3>1. Cardinality(Counted') = Cardinality(Counted) - 1 /\ t \in Counted
      BY <2>6, <1>u, CountDown DEF rlock_undo
    <3>2. Claimed' = Claimed
      BY <2>6, <1>u DEF rlock_undo, Goto, Claimed, TypeOK
    <3>3. read > 0
      BY <3>1, CountedPositive
    <3> QED
      BY <2>6, <3>1, <3>2, <3>3, <1>u
      DEF rlock_undo, Goto, IInv, TypeOK, PcValues, CountersExact, NoReaderWithWriter
  <2>7. CASE runlock(t)
    <3>1. Cardinality(Counted') = Cardinality(Counted) - 1 /\ t \in Counted
      BY <2>7, <1>u, CountDown DEF runlock
    <3>2. Claimed' = Claimed
      BY <2>7, <1>u DEF runlock, Goto, Claimed, TypeOK
    <3>3. read > 0
      BY <3>1, CountedPositive
    <3> QED
      BY <2>7, <3>1, <3>2, <3>3, <1>u
      DEF runlock, Goto, IInv, TypeOK, PcValues, CountersExact, NoReaderWithWriter
  <2>8. CASE wlock_cas(t)
    \* `write` was 0, so nobody owned it and t becomes its only owner.
    <3>1. Counted' = Counted
      BY <2>8, <1>u, CountSame DEF wlock_cas
    <3>2. Claimed = {} /\ Claimed' = {t}
      BY <2>8, <1>u DEF wlock_cas, Goto, Claimed, TypeOK, CountersExact
    <3> QED
      BY <2>8, <3>1, <3>2, <1>u
      DEF wlock_cas, Goto, IInv, TypeOK, PcValues, CountersExact, NoReaderWithWriter
  <2>9. CASE wlock_drain(t)
    \* `read` is 0, so no thread is counted and none is reading.
    <3>1. Counted' = Counted
      BY <2>9, <1>u, CountSame DEF wlock_drain
    <3>2. Claimed' = Claimed
      BY <2>9, <1>u DEF wlock_drain, Goto, Claimed, TypeOK
    <3>3. Counted = {}
      BY <2>9, CountedPositive DEF wlock_drain
    <3>4. NoReaderWithWriter'
      BY <2>9, <3>3, <1>u
      DEF wlock_drain, Goto, TypeOK, Counted, NoReaderWithWriter
    <3> QED
      BY <2>9, <3>1, <3>2, <3>4, <1>u
      DEF wlock_drain, Goto, IInv, TypeOK, PcValues, CountersExact
  <2>10. CASE wunlock(t)
    \* t was the only owner.
    <3>1. Counted' = Counted
      BY <2>10, <1>u, CountSame DEF wunlock
    <3>2. Claimed' = {}
      BY <2>10, <1>u DEF wunlock, Goto, Claimed, TypeOK, CountersExact
    <3> QED
      BY <2>10, <3>1, <3>2, <1>u
      DEF wunlock, Goto, IInv, TypeOK, PcValues, CountersExact, NoReaderWithWriter
  <2> QED
    BY <2>0, <2>1, <2>2, <2>3, <2>4, <2>5, <2>6, <2>7, <2>8, <2>9, <2>10 DEF Step
<1> QED
  BY <1>s, <1>n

(* The invariant holds in every reachable state.                           *)
THEOREM Invariance == Spec => []IInv
<1> QED
  BY InitIInv, NextIInv, PTL DEF Spec

(* The counters have their types: `read` never underflows.                 *)
THEOREM TypeCorrect == Spec => []TypeOK
<1>1. IInv => TypeOK
  BY DEF IInv
<1> QED
  BY <1>1, Invariance, PTL

(* The counters of corelock.c are exact for any number of threads.         *)
THEOREM CountersCorrect == Spec => []CountersExact
<1>1. IInv => CountersExact
  BY DEF IInv
<1> QED
  BY <1>1, Invariance, PTL

(* A thread between wlock and wunlock is alone, for any number of threads. *)
THEOREM MutualExclusion == Spec => []Exclusion
<1>1. IInv => Exclusion
  <2> SUFFICES ASSUME IInv, NEW t \in Threads, NEW u \in Threads,
                      pc[t] = "writing", u # t
               PROVE  pc[u] \notin {"reading", "writing"}
    BY DEF Exclusion
  <2>1. pc[u] # "writing"
    BY DEF IInv, CountersExact, Claimed
  <2> QED
    BY <2>1 DEF IInv, NoReaderWithWriter
<1> QED
  BY <1>1, Invariance, PTL

(* The mode in which t holds the abstract lock. *)
Mode(t) == CASE pc[t] = "reading" -> "read"
             [] pc[t] = "writing" -> "write"
             [] OTHER -> "free"

abstractMode == [t \in Threads |-> Mode(t)]

(* corelock.c implements the abstract reader/writer lock: a step that      *)
(* enters or leaves a critical section is the abstract acquire or release, *)
(* every other step leaves the abstract lock alone.                        *)
THEOREM Refinement == Spec => ImplementsRWLock
<1>1. Init => Lock!Init
  BY DEF Init, Lock!Init
<1>2. ASSUME IInv, [Next]_vars
      PROVE  [Lock!Next]_abstractMode
  <2>u. TypeOK /\ CountersExact /\ NoReaderWithWriter
    BY <1>2 DEF IInv
  <2>s. CASE UNCHANGED vars
    BY <2>s DEF vars, abstractMode, Mode
  <2>n. CASE Next
    <3>0. PICK t \in Threads : rlock(t) \/ wlock(t) \/ Step(t)
      BY <2>n DEF Next
    <3>1. CASE \/ rlock(t) \/ wlock(t) \/ rlock_spin(t) \/ rlock_inc(t)
               \/ rlock_undo(t) \/ wlock_cas(t)
      <4>1. \A u \in Threads : Mode(u)' = Mode(u)
        BY <3>1, <2>u
        DEF Mode, TypeOK, Goto, rlock, wlock, rlock_spin, rlock_inc, rlock_undo,
            wlock_cas
      <4> QED
        BY <4>1 DEF abstractMode
    <3>2. CASE rlock_check(t) /\ write # 0
      <4>1. \A u \in Threads : Mode(u)' = Mode(u)
        BY <3>2, <2>u DEF Mode, TypeOK, Goto, rlock_check
      <4> QED
        BY <4>1 DEF abstractMode
    <3>3. CASE rlock_check(t) /\ write = 0
      <4>1. \A u \in Threads : pc[u] # "writing"
        BY <3>3, <2>u DEF CountersExact, Claimed
      <4>2. Lock!AcquireRead(t)
        BY <3>3, <4>1, <2>u DEF Lock!AcquireRead, TypeOK, Goto, rlock_check
      <4> QED
        BY <4>2 DEF Lock!Next
    <3>4. CASE wlock_drain(t)
      <4>1. Counted = {}
        BY <3>4, <1>2, CountedPositive DEF wlock_drain
      <4>2. \A u \in Threads : pc[u] \notin {"reading", "writing"}
        BY <3>4, <4>1, <2>u DEF Counted, Claimed, CountersExact, wlock_drain, Goto
      <4>3. Lock!AcquireWrite(t)
        BY <3>4, <4>2, <2>u DEF Lock!AcquireWrite, TypeOK, Goto, wlock_drain
      <4> QED
        BY <4>3 DEF Lock!Next
    <3>5. CASE runlock(t) \/ wunlock(t)
      <4>1. Lock!Release(t)
        BY <3>5, <2>u DEF Lock!Release, TypeOK, Goto, runlock, wunlock
      <4> QED
        BY <4>1 DEF Lock!Next
    <3>6. write = 0 \/ write # 0
      OBVIOUS
    <3> QED
      BY <3>0, <3>1, <3>2, <3>3, <3>4, <3>5, <3>6 DEF Step
  <2> QED
    BY <1>2, <2>s, <2>n
<1> QED
  BY <1>1, <1>2, Invariance, PTL
  DEF Spec, ImplementsRWLock, Lock!Spec, abstractMode, Mode
===============================================================================
