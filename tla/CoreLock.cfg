CONSTANT Threads = {t1, t2, t3}
SPECIFICATION FairSpec
INVARIANTS CountersExact Exclusion
PROPERTIES ImplementsRWLock ClaimedWriterEnters SomebodyEnters
