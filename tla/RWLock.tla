-------------------------------- MODULE RWLock --------------------------------
(***************************************************************************)
(* What a reader/writer lock promises to the code that brackets its        *)
(* critical sections with it: `mode[t]` says in which mode thread t holds  *)
(* the lock, any number of threads may hold it for reading, and a thread   *)
(* that holds it for writing holds it alone.  CoreLock implements this.    *)
(***************************************************************************)
CONSTANT Threads

VARIABLE mode

Init == mode = [t \in Threads |-> "free"]

AcquireRead(t) ==
    /\ mode[t] = "free"
    /\ \A u \in Threads : mode[u] # "write"
    /\ mode' = [mode EXCEPT ![t] = "read"]

AcquireWrite(t) ==
    /\ \A u \in Threads : mode[u] = "free"
    /\ mode' = [mode EXCEPT ![t] = "write"]

Release(t) ==
    /\ mode[t] # "free"
    /\ mode' = [mode EXCEPT ![t] = "free"]

Next == \E t \in Threads : AcquireRead(t) \/ AcquireWrite(t) \/ Release(t)

Spec == Init /\ [][Next]_mode
===============================================================================
