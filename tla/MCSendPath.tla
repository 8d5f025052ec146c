------------------------------ MODULE MCSendPath ------------------------------
(* Instances of SendPath for TLC. *)
EXTENDS SendPath

CONSTANTS t1, t2, t3

ThreeThreads == {t1, t2, t3}
===============================================================================
