------------------------------ MODULE CorePoller ------------------------------
(***************************************************************************)
(* The poller of net/corepoller.c: a completion port, the worker threads   *)
(* that serve it, and the control calls corepoller_start_thread,           *)
(* corepoller_stop_thread and corepoller_delete, made by one thread (main  *)
(* of server/main.c and client/main.c).  Workers are told to leave by a    *)
(* quit packet whose byte count says how many of them shall go: each one   *)
(* takes the packet, posts it again with one less, and leaves; the one     *)
(* that takes it with 1 sets `quited`, which stop_thread waits for.        *)
(* net/poller.cpp has the same protocol.                                   *)
(*                                                                         *)
(* worker[w]:  none    not running (not yet, or it has returned)           *)
(*             top     head of the loop: tries to claim in_timer           *)
(*             timer   in coretimer_update                                 *)
(*             wait    in GetQueuedCompletionStatus                        *)
(*             call    in the handler msg->call of got[w]                  *)
(*             quit    has taken the quit packet got[w]                    *)
(*             assert  assert(FALSE): the process aborts                   *)
(* ctl:        idle, spawn (in start_thread's loop), post, zero, wait (the *)
(*             three steps of stop_thread), stopped, deleted               *)
(***************************************************************************)
EXTENDS Integers, Sequences, FiniteSets, FiniteSetsExt

CONSTANTS
    Workers,    \* thread identities; at most this many run at once (bound)
    Msgs,       \* messages handed to corepoller_post, each once
    MaxCalls    \* bound: control calls

ASSUME WorkersFinite == IsFiniteSet(Workers)
ASSUME MaxCallsNat == MaxCalls \in Nat
ASSUME QuitIsNoMsg == "quit" \notin Msgs

VARIABLES
    port,       \* packets in the completion port, first in first out
    closed,     \* CloseHandle was called
    thr, quited, in_timer,
    worker,
    got,        \* what the worker took, until it is through with it
    msg,        \* where each message is
    ctl,
    target,     \* n of start_thread, while it runs
    calls,
    shrunk      \* history: start_thread has been asked for fewer threads

pool  == <<thr, quited>>
main  == <<ctl, target, calls, shrunk>>
vars  == <<port, closed, pool, in_timer, worker, got, msg, main>>

(* A packet is a message or the quit packet with its byte count. *)
Quit(n) == [msg |-> "quit", bytes |-> n]
Packet(m) == [msg |-> m, bytes |-> 0]

(* What malloc may leave in in_timer, which corepoller_new does not set. *)
GARBAGE == 2

Nothing == Quit(0)

Running == \A w \in Workers : worker[w] # "assert"
Live == {w \in Workers : worker[w] # "none"}

Goto(w, from, to) ==
    /\ Running
    /\ worker[w] = from
    /\ worker' = [worker EXCEPT ![w] = to]

(* corepoller_new *)
Init ==
    /\ port = <<>> /\ closed = FALSE
    /\ thr = 0 /\ quited = 1
    /\ in_timer \in {0, GARBAGE}
    /\ worker = [w \in Workers |-> "none"]
    /\ got = [w \in Workers |-> Nothing]
    /\ msg = [m \in Msgs |-> "new"]
    /\ ctl = "idle" /\ target = 0 /\ calls = 0 /\ shrunk = FALSE

-------------------------------------------------------------------------------
(* THREAD_START_ROUTINE *)

(* Bug: the claim is a test of in_timer, not an exchange. *)
Bug_claim_timer(w) ==
    /\ Goto(w, "top", IF in_timer # 1 THEN "timer" ELSE "wait")
    /\ UNCHANGED <<port, closed, pool, in_timer, got, msg, main>>

claim_timer(w) ==
    /\ Goto(w, "top", IF in_timer = 0 THEN "timer" ELSE "wait")
    /\ in_timer' = IF in_timer = 0 THEN 1 ELSE in_timer
    /\ UNCHANGED <<port, closed, pool, got, msg, main>>

(* Bug: the claim is kept. *)
Bug_leave_timer(w) ==
    /\ Goto(w, "timer", "wait")
    /\ UNCHANGED <<port, closed, pool, in_timer, got, msg, main>>

leave_timer(w) ==
    /\ Goto(w, "timer", "wait")
    /\ in_timer' = 0
    /\ UNCHANGED <<port, closed, pool, got, msg, main>>

(* GetQueuedCompletionStatus returns a packet, runs into its 500 ms        *)
(* timeout on an empty port, or fails with op = NULL on a closed one.      *)
take_packet(w) ==
    /\ ~closed /\ port # <<>>
    /\ LET p == Head(port) IN
        /\ Goto(w, "wait", IF p.msg = "quit" THEN "quit" ELSE "call")
        /\ got' = [got EXCEPT ![w] = p]
        /\ msg' = IF p.msg = "quit" THEN msg ELSE [msg EXCEPT ![p.msg] = "taken"]
    /\ port' = Tail(port)
    /\ UNCHANGED <<closed, pool, in_timer, main>>

wait_timeout(w) ==
    /\ ~closed /\ port = <<>>
    /\ Goto(w, "wait", "top")
    /\ UNCHANGED <<port, closed, pool, in_timer, got, msg, main>>

wait_fails(w) ==
    /\ closed
    /\ Goto(w, "wait", "assert")
    /\ UNCHANGED <<port, closed, pool, in_timer, got, msg, main>>

(* The handler returns. *)
call_done(w) ==
    /\ Goto(w, "call", "top")
    /\ msg' = [msg EXCEPT ![got[w].msg] = "done"]
    /\ got' = [got EXCEPT ![w] = Nothing]
    /\ UNCHANGED <<port, closed, pool, in_timer, main>>

(* Bug: `quited` is set by the first worker that leaves. *)
Bug_quit(w) ==
    /\ Goto(w, "quit", "none")
    /\ port' = IF got[w].bytes > 1 THEN Append(port, Quit(got[w].bytes - 1)) ELSE port
    /\ quited' = 1
    /\ got' = [got EXCEPT ![w] = Nothing]
    /\ UNCHANGED <<closed, thr, in_timer, msg, main>>

(* Bug: the packet is posted again with its old count. *)
Bug_quit_count(w) ==
    /\ Goto(w, "quit", "none")
    /\ IF got[w].bytes > 1
       THEN port' = Append(port, Quit(got[w].bytes)) /\ UNCHANGED quited
       ELSE quited' = 1 /\ UNCHANGED port
    /\ got' = [got EXCEPT ![w] = Nothing]
    /\ UNCHANGED <<closed, thr, in_timer, msg, main>>

(* Bug: the packet is not posted again. *)
Bug_quit_lost(w) ==
    /\ Goto(w, "quit", "none")
    /\ IF got[w].bytes > 1 THEN UNCHANGED quited ELSE quited' = 1
    /\ got' = [got EXCEPT ![w] = Nothing]
    /\ UNCHANGED <<port, closed, thr, in_timer, msg, main>>

quit(w) ==
    /\ Goto(w, "quit", "none")
    /\ IF got[w].bytes - 1 > 0
       THEN /\ port' = IF closed THEN port ELSE Append(port, Quit(got[w].bytes - 1))
            /\ UNCHANGED quited
       ELSE quited' = 1 /\ UNCHANGED port
    /\ got' = [got EXCEPT ![w] = Nothing]
    /\ UNCHANGED <<closed, thr, in_timer, msg, main>>

-------------------------------------------------------------------------------
(* corepoller_post, called by handlers, timers and other threads while the *)
(* poller exists.  The test of thr and the posting are two steps.          *)

post_check(m) ==
    /\ Running /\ ctl # "deleted"
    /\ msg[m] = "new"
    /\ msg' = [msg EXCEPT ![m] = IF thr = 0 THEN "refused" ELSE "posting"]
    /\ UNCHANGED <<port, closed, pool, in_timer, worker, got, main>>

post_packet(m) ==
    /\ Running
    /\ msg[m] = "posting"
    /\ msg' = [msg EXCEPT ![m] = "queued"]
    /\ port' = Append(port, Packet(m))
    /\ UNCHANGED <<closed, pool, in_timer, worker, got, main>>

-------------------------------------------------------------------------------
(* The control calls *)

start_thread(n) ==
    /\ Running /\ ctl \in {"idle", "stopped"} /\ calls < MaxCalls
    /\ Cardinality(Live) + n - thr <= Cardinality(Workers)
    /\ calls' = calls + 1
    /\ quited' = 0
    /\ target' = n
    /\ ctl' = "spawn"
    /\ UNCHANGED <<port, closed, thr, in_timer, worker, got, msg, shrunk>>

start_thread_spawn(w) ==
    /\ ctl = "spawn" /\ thr < target
    /\ Goto(w, "none", "top")
    /\ thr' = thr + 1
    /\ UNCHANGED <<port, closed, quited, in_timer, got, msg, main>>

(* Bug: the quit packet carries the number of threads, not the surplus. *)
Bug_start_thread_end ==
    /\ Running /\ ctl = "spawn" /\ thr >= target
    /\ port' = IF thr > target THEN Append(port, Quit(thr)) ELSE port
    /\ thr' = target
    /\ shrunk' = (shrunk \/ thr > target)
    /\ ctl' = "idle" /\ target' = 0
    /\ UNCHANGED <<closed, quited, in_timer, worker, got, msg, calls>>

start_thread_end ==
    /\ Running /\ ctl = "spawn" /\ thr >= target
    /\ port' = IF thr > target THEN Append(port, Quit(thr - target)) ELSE port
    /\ thr' = target
    /\ shrunk' = (shrunk \/ thr > target)
    /\ ctl' = "idle" /\ target' = 0
    /\ UNCHANGED <<closed, quited, in_timer, worker, got, msg, calls>>

stop_thread ==
    /\ Running /\ ctl \in {"idle", "stopped"} /\ calls < MaxCalls
    /\ calls' = calls + 1
    /\ ctl' = IF thr > 0 THEN "post" ELSE "wait"
    /\ UNCHANGED <<port, closed, pool, in_timer, worker, got, msg, target, shrunk>>

stop_thread_post ==
    /\ Running /\ ctl = "post"
    /\ port' = Append(port, Quit(thr))
    /\ ctl' = "zero"
    /\ UNCHANGED <<closed, pool, in_timer, worker, got, msg, target, calls, shrunk>>

stop_thread_zero ==
    /\ Running /\ ctl = "zero"
    /\ thr' = 0
    /\ ctl' = "wait"
    /\ UNCHANGED <<port, closed, quited, in_timer, worker, got, msg, target, calls, shrunk>>

stop_thread_wait ==
    /\ Running /\ ctl = "wait"
    /\ quited # 0
    /\ ctl' = "stopped"
    /\ UNCHANGED <<port, closed, pool, in_timer, worker, got, msg, target, calls, shrunk>>

(* The port is closed; coretimer_delete, called next, does not return      *)
(* (see CoreTimer), so the poller's memory is never given back.  Callers   *)
(* delete a poller they have stopped and nobody is posting to.             *)
delete ==
    /\ Running /\ ctl = "stopped" /\ calls < MaxCalls
    /\ \A m \in Msgs : msg[m] # "posting"
    /\ calls' = calls + 1
    /\ closed' = TRUE
    /\ port' = <<>>
    /\ ctl' = "deleted"
    /\ UNCHANGED <<pool, in_timer, worker, got, msg, target, shrunk>>

-------------------------------------------------------------------------------
WorkerStep(w) ==
    \/ claim_timer(w) \/ leave_timer(w)
    \/ take_packet(w) \/ wait_timeout(w) \/ wait_fails(w)
    \/ call_done(w) \/ quit(w)

ControlStep ==
    \/ \E w \in Workers : start_thread_spawn(w)
    \/ start_thread_end
    \/ stop_thread_post \/ stop_thread_zero \/ stop_thread_wait

Next ==
    \/ \E w \in Workers : WorkerStep(w)
    \/ ControlStep
    \/ \E n \in 1 .. Cardinality(Workers) : start_thread(n)
    \/ stop_thread \/ delete
    \/ \E m \in Msgs : post_check(m) \/ post_packet(m)

Spec == Init /\ [][Next]_vars

(* Threads are scheduled: handlers and coretimer_update return, the port   *)
(* hands its packets to the threads that wait, and a control call or a     *)
(* corepoller_post that has begun goes on.                                 *)
FairSpec ==
    /\ Spec
    /\ \A w \in Workers : WF_vars(WorkerStep(w))
    /\ WF_vars(ControlStep)
    /\ \A m \in Msgs : WF_vars(post_packet(m))

-------------------------------------------------------------------------------
(* The variables have their types; quit packets carry at least one.        *)
TypeOK ==
    /\ \A i \in DOMAIN port :
        \/ port[i].msg = "quit" /\ port[i].bytes \in 1 .. Cardinality(Workers)
        \/ port[i].msg \in Msgs
    /\ closed \in BOOLEAN /\ shrunk \in BOOLEAN
    /\ thr \in 0 .. Cardinality(Workers) /\ quited \in {0, 1}
    /\ in_timer \in {0, 1, GARBAGE}
    /\ worker \in [Workers -> {"none", "top", "timer", "wait", "call", "quit",
                               "assert"}]
    /\ msg \in [Msgs -> {"new", "refused", "posting", "queued", "taken", "done"}]
    /\ ctl \in {"idle", "spawn", "post", "zero", "wait", "stopped", "deleted"}

(* coretimer_update, which is not written for two threads, is run by one   *)
(* worker at a time: the one whose claim of in_timer is in force.          *)
OneInTimer ==
    \A v, w \in Workers : worker[v] = "timer" /\ worker[w] = "timer" => v = w

(* Every quit that is under way has a worker it will make leave and every  *)
(* worker beyond thr has a quit under way, across growing, shrinking,      *)
(* stopping and restarting: the running workers are thr plus the counts of *)
(* the quit packets, queued or taken.                                      *)
QuitsMatchWorkers ==
    LET queued == {i \in DOMAIN port : port[i].msg = "quit"}
        taken == {w \in Workers : worker[w] = "quit"}
        quits == MapThenSumSet(LAMBDA i : port[i].bytes, queued)
               + MapThenSumSet(LAMBDA w : got[w].bytes, taken)
        kept == IF ctl = "zero" THEN 0 ELSE thr
    IN  TypeOK /\ (~closed => Cardinality(Live) = kept + quits)

(* stop_thread returns when the last worker has left, so that the poller   *)
(* can be deleted - provided start_thread was never asked for fewer        *)
(* threads: the last worker to leave in a shrink also sets `quited`.       *)
StoppedIsQuiet == ctl \in {"stopped", "deleted"} /\ ~shrunk => Live = {}

(* assert(FALSE) when GetQueuedCompletionStatus returns neither a packet   *)
(* nor a timeout: a worker never serves a port that has been closed.       *)
NeverWithoutPacket == \A w \in Workers : worker[w] # "assert"

(* stop_thread returns: the quit packet visits every worker, whatever      *)
(* messages, timers and earlier quit packets are in its way.               *)
StopReturns == ctl = "post" ~> ctl = "stopped" \/ ~Running

(* A message that is in the port before stop_thread posts its quit packet  *)
(* is handled; the packet does not overtake it.                            *)
QueuedIsHandled ==
    \A m \in Msgs :
        msg[m] = "queued" /\ ctl \in {"idle", "spawn", "post"}
            ~> msg[m] = "done" \/ ~Running

(* While the poller runs some worker keeps entering coretimer_update,      *)
(* unless corepoller_new found in_timer not zero in the memory it got.     *)
TimersServed ==
    ctl = "idle" /\ thr > 0 /\ in_timer # GARBAGE
        ~> (\E w \in Workers : worker[w] = "timer") \/ ctl # "idle"
===============================================================================
