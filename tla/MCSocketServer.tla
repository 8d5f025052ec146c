--------------------------- MODULE MCSocketServer ---------------------------
(* The tables are as small as the calls allow, so that slots are used      *)
(* again: one slot for connections, four for a listener, of which it has   *)
(* three.                                                                  *)
EXTENDS SocketServer

Scenario(s, l, a, n, c, d, f) ==
    [slots |-> s, alloc_id |-> 0, listen |-> l, accept |-> a, connect |-> n,
     close |-> c, send |-> d, faults |-> f]

(* As many ids have been given out before as there are. *)
Late(c) == [c EXCEPT !.alloc_id = INT_MAX]

MCScenarios ==
    { Scenario(4, 1, 1, 0, 0, 0, {"WSASocket", "AcceptEx", "WSARecv"}),
      Scenario(4, 1, 1, 0, 1, 0, {"WSARecv"}),
      Scenario(4, 1, 2, 0, 0, 0, {}),
      Scenario(4, 1, 1, 0, 0, 1, {}),
      Late(Scenario(4, 1, 1, 0, 0, 0, {})),
      Scenario(1, 0, 0, 1, 1, 1, {"ConnectEx", "WSARecv", "WSASend"}),
      Scenario(1, 0, 0, 1, 2, 0, {"ConnectEx", "WSARecv"}),
      Scenario(1, 0, 0, 1, 0, 0, {"append_socket"}),
      Scenario(1, 0, 0, 2, 2, 0, {}),
      Scenario(1, 0, 0, 2, 0, 0, {"ConnectEx", "WSARecv"}),
      Scenario(1, 0, 0, 2, 0, 1, {}),
      Late(Scenario(1, 0, 0, 2, 1, 0, {"ConnectEx"})) }

(* More connections than the table has slots. *)
ReuseScenarios == { Scenario(2, 0, 0, 3, 0, 0, {}) }

Alike == Permutations(Threads)
=============================================================================
