----------------------------- MODULE MCCorePoller -----------------------------
(* Instances of CorePoller for TLC. *)
EXTENDS CorePoller

CONSTANTS w1, w2, w3, m1

TwoWorkers == {w1, w2}
ThreeWorkers == {w1, w2, w3}
NoMsgs == {}
OneMsg == {m1}
===============================================================================
