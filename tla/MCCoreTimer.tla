----------------------------- MODULE MCCoreTimer -----------------------------
(* Instances of CoreTimer for TLC. *)
EXTENDS CoreTimer, TLC

CONSTANTS c1, c2, x1, x2, x3

OneClient == {c1}
TwoClients == {c1, c2}
ThreeNodes == {x1, x2, x3}

Symmetry == Permutations(Clients) \cup Permutations(Nodes)
===============================================================================
