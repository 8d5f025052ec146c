----------------------------- MODULE MCCoreLogic -----------------------------
(* Instances of CoreLogic for TLC. *)
EXTENDS CoreLogic, TLC

CONSTANTS t1, t2, t3, l1, l2, l3

TwoThreads == {t1, t2}
ThreeThreads == {t1, t2, t3}
OneLogic == {l1}
ThreeLogics == {l1, l2, l3}

Symmetry == Permutations(Threads) \cup Permutations(Logics)
===============================================================================
