------------------------------- MODULE SendPath -------------------------------
(***************************************************************************)
(* How net/socketserver.cpp sends on a connected socket.  start_send()     *)
(* appends a buffer to the socket's queue `wb` and calls ev_send_start(),  *)
(* which must see to it that exactly one WSASend is outstanding while      *)
(* there is something to send; the completion handler on_ev_send() takes   *)
(* the sent bytes off the buffer and calls ev_send_start() again.  Any     *)
(* number of threads do this at once.  The counter `ready` of the write    *)
(* event decides who may touch the event (its buffer ev->b and its         *)
(* OVERLAPPED): the thread that takes it from 0 to 1.                      *)
(*                                                                         *)
(* Bytes are numbered in the order in which push_back queues them, so a    *)
(* ring_buffer with unsent bytes is the interval lo..hi of their numbers   *)
(* and the transport has seen the stream when it has seen 1, 2, 3, ...     *)
(*                                                                         *)
(* The socket starts connected and accepted: one reference for being open  *)
(* and one for the outstanding receive.  Receiving and start_close are not *)
(* part of this module.                                                    *)
(*                                                                         *)
(* pc[t]:  idle     in none of these functions                             *)
(*         push     start_send holds a reference, buffer not queued yet    *)
(*         cas      ev_send_start: InterlockedCompareExchange(ready, 1, 0) *)
(*         inc      the exchange failed: InterlockedIncrement(ready)       *)
(*         pop      owns the event, top of the while loop                  *)
(*         dec      the queue was empty: InterlockedDecrement(ready)       *)
(*         send     ev->b is set: readbuffer, WSASend                      *)
(*         ok, err  ev_send_start returned (ok: NO_ERROR, FRAME_IO_PENDING *)
(*                  or FRAME_BUFF_EMPTY, which both callers treat alike)   *)
(*         zero     on_ev_send: InterlockedExchange(ready, 0)              *)
(*         hold     on_ev_send: InterlockedIncrement(pending)              *)
(*         fail     on_ev_send with an error: InterlockedExchange(ready, 0)*)
(*         close    about to call inner_close(s, 1)                        *)
(*         assert   assert(false) in ev_send_start: the process aborts     *)
(* by[t]:  whether t runs ev_send_start for start_send or for on_ev_send   *)
(***************************************************************************)
EXTENDS Integers, Sequences, FiniteSets

CONSTANTS
    Threads,    \* client threads and poller threads: any may do either job
    Sizes,      \* sizes callers pass to start_send
    MaxSends    \* bound: calls of start_send

ASSUME ThreadsFinite == IsFiniteSet(Threads)
ASSUME SizesNat == Sizes \subseteq Nat
ASSUME MaxSendsNat == MaxSends \in Nat

VARIABLES
    ready,      \* op[socket_ev_write].ready
    evb,        \* op[socket_ev_write].b
    wb,         \* the queue of buffers
    inflight,   \* the bytes of the outstanding WSASend
    pending,    \* the socket's reference count
    closed,     \* force_close ran
    sends,      \* calls of start_send so far
    accepted,   \* bytes queued so far
    wire,       \* bytes the transport reported as sent
    failed,     \* some WSASend failed, at once or in its completion
    pc, by

sock  == <<pending, closed>>
event == <<ready, evb, inflight>>
bytes == <<accepted, wire, failed>>
vars  == <<event, wb, sock, bytes, sends, pc, by>>

Buffer == [lo : Nat, hi : Nat]
NULL == [lo |-> 0, hi |-> 0]
Empty(b) == b.lo > b.hi

(* A failed assertion ends the process. *)
Running == \A t \in Threads : pc[t] # "assert"

Goto(t, from, to) ==
    /\ Running
    /\ pc[t] = from
    /\ pc' = [pc EXCEPT ![t] = to]

Init ==
    /\ ready = 0 /\ evb = NULL /\ inflight = NULL
    /\ wb = <<>>
    /\ pending = 2 /\ closed = FALSE
    /\ sends = 0 /\ accepted = 0 /\ wire = 0 /\ failed = FALSE
    /\ pc = [t \in Threads |-> "idle"]
    /\ by = [t \in Threads |-> "start_send"]

-------------------------------------------------------------------------------
(* InterlockedExchangeAdd returns the value before the subtraction.        *)
inner_close(ref) ==
    /\ pending' = pending - ref
    /\ closed' = (closed \/ pending <= ref)

(* The socket is open, so its type and its id match in grub_socket and     *)
(* dec_socket.                                                             *)
grub_socket == pending' = pending + 1 /\ UNCHANGED closed

dec_socket ==
    /\ pending' = pending - 1
    /\ closed' = (closed \/ pending = 1)

start_send(t) ==
    /\ sends < MaxSends
    /\ sends' = sends + 1
    /\ Goto(t, "idle", "push")
    /\ by' = [by EXCEPT ![t] = "start_send"]
    /\ grub_socket
    /\ UNCHANGED <<event, wb, bytes>>

(* Bug: the buffer goes to the front of the queue. *)
Bug_push_back(t, sz) ==
    /\ Goto(t, "push", "cas")
    /\ wb' = <<[lo |-> accepted + 1, hi |-> accepted + sz]>> \o wb
    /\ accepted' = accepted + sz
    /\ UNCHANGED <<event, sock, wire, failed, sends, by>>

push_back(t, sz) ==
    /\ Goto(t, "push", "cas")
    /\ wb' = Append(wb, [lo |-> accepted + 1, hi |-> accepted + sz])
    /\ accepted' = accepted + sz
    /\ UNCHANGED <<event, sock, wire, failed, sends, by>>

start_send_return(t) ==
    /\ by[t] = "start_send"
    /\ \/ Goto(t, "ok", "idle") /\ UNCHANGED sock
       \/ Goto(t, "err", "idle") /\ dec_socket
    /\ UNCHANGED <<event, wb, bytes, sends, by>>

-------------------------------------------------------------------------------
(* ev_send_start *)

ev_send_start_cas(t) ==
    /\ IF ready = 0 THEN Goto(t, "cas", "pop") /\ ready' = 1
                    ELSE Goto(t, "cas", "inc") /\ UNCHANGED ready
    /\ UNCHANGED <<evb, inflight, wb, sock, bytes, sends, by>>

(* Bug: the result of the increment is not looked at. *)
Bug_ev_send_start_inc(t) ==
    /\ Goto(t, "inc", "ok")
    /\ ready' = ready + 1
    /\ UNCHANGED <<evb, inflight, wb, sock, bytes, sends, by>>

(* The owner may have left between the exchange and the increment: then    *)
(* the increment returns 1 and this thread is the owner.                   *)
ev_send_start_inc(t) ==
    /\ Goto(t, "inc", IF ready + 1 # 1 THEN "ok" ELSE "pop")
    /\ ready' = ready + 1
    /\ UNCHANGED <<evb, inflight, wb, sock, bytes, sends, by>>

ev_send_start_pop(t) ==
    /\ IF evb # NULL
       THEN Goto(t, "pop", "send") /\ UNCHANGED <<evb, wb>>
       ELSE IF wb = <<>>
       THEN Goto(t, "pop", "dec") /\ UNCHANGED <<evb, wb>>
       ELSE Goto(t, "pop", "send") /\ evb' = Head(wb) /\ wb' = Tail(wb)
    /\ UNCHANGED <<ready, inflight, sock, bytes, sends, by>>

(* Bug: an owner that finds the queue empty releases the event, whatever   *)
(* the counter says of threads that came by meanwhile.                     *)
Bug_ev_send_start_leave(t) ==
    /\ Goto(t, "dec", "ok")
    /\ ready' = 0
    /\ UNCHANGED <<evb, inflight, wb, sock, bytes, sends, by>>

ev_send_start_dec(t) ==
    /\ Goto(t, "dec", IF ready - 1 > 0 THEN "pop" ELSE "ok")
    /\ ready' = ready - 1
    /\ UNCHANGED <<evb, inflight, wb, sock, bytes, sends, by>>

(* readbuffer of an empty buffer returns false. *)
ev_send_start_assert(t) ==
    /\ Empty(evb)
    /\ Goto(t, "send", "assert")
    /\ UNCHANGED <<event, wb, sock, bytes, sends, by>>

ev_send_start_WSASend(t) ==
    /\ ~Empty(evb)
    /\ \/ Goto(t, "send", "ok") /\ inflight' = evb /\ UNCHANGED failed
       \/ Goto(t, "send", "err") /\ failed' = TRUE /\ UNCHANGED inflight
    /\ UNCHANGED <<ready, evb, wb, sock, accepted, wire, sends, by>>

-------------------------------------------------------------------------------
(* on_ev_send: thread t takes the completion of the outstanding WSASend    *)
(* from the port.                                                          *)

(* Bug: `ready` is cleared before the buffer has been looked after. *)
Bug_on_ev_send_early(t, sz) ==
    /\ inflight # NULL
    /\ sz \in 1 .. inflight.hi - inflight.lo + 1
    /\ Goto(t, "idle", "zero")
    /\ by' = [by EXCEPT ![t] = "on_ev_send"]
    /\ wire' = wire + sz
    /\ inflight' = NULL
    /\ LET rest == [lo |-> evb.lo + sz, hi |-> evb.hi]
       IN  evb' = IF Empty(rest) THEN NULL ELSE rest
    /\ ready' = 0
    /\ UNCHANGED <<wb, sock, accepted, failed, sends>>

(* read_ok(sz), and the buffer is deleted when that empties it.            *)
on_ev_send(t, sz) ==
    /\ inflight # NULL
    /\ sz \in 1 .. inflight.hi - inflight.lo + 1
    /\ Goto(t, "idle", "zero")
    /\ by' = [by EXCEPT ![t] = "on_ev_send"]
    /\ wire' = wire + sz
    /\ inflight' = NULL
    /\ LET rest == [lo |-> evb.lo + sz, hi |-> evb.hi]
       IN  evb' = IF Empty(rest) THEN NULL ELSE rest
    /\ UNCHANGED <<ready, wb, sock, accepted, failed, sends>>

on_ev_send_zero(t) ==
    /\ Goto(t, "zero", "hold")
    /\ ready' = 0
    /\ UNCHANGED <<evb, inflight, wb, sock, bytes, sends, by>>

(* pending = 2 after the increment would mean that only this operation and *)
(* this increment still hold the socket.                                   *)
on_ev_send_hold(t) ==
    /\ IF pending + 1 = 2
       THEN /\ Goto(t, "hold", "idle")
            /\ pending' = pending - 1
            /\ closed' = TRUE
       ELSE /\ Goto(t, "hold", "cas")
            /\ pending' = pending + 1
            /\ UNCHANGED closed
    /\ UNCHANGED <<event, wb, bytes, sends, by>>

(* Bug: the reference taken for the restart is given back twice. *)
Bug_on_ev_send_return(t) ==
    /\ by[t] = "on_ev_send"
    /\ Goto(t, "ok", "idle") \/ Goto(t, "err", "close")
    /\ pending' = pending - 2
    /\ UNCHANGED <<event, wb, closed, bytes, sends, by>>

on_ev_send_return(t) ==
    /\ by[t] = "on_ev_send"
    /\ Goto(t, "ok", "idle") \/ Goto(t, "err", "close")
    /\ pending' = pending - 1
    /\ UNCHANGED <<event, wb, closed, bytes, sends, by>>

on_ev_send_err(t) ==
    /\ inflight # NULL
    /\ Goto(t, "idle", "fail")
    /\ by' = [by EXCEPT ![t] = "on_ev_send"]
    /\ inflight' = NULL
    /\ failed' = TRUE
    /\ UNCHANGED <<ready, evb, wb, sock, accepted, wire, sends>>

on_ev_send_fail(t) ==
    /\ Goto(t, "fail", "close")
    /\ ready' = 0
    /\ UNCHANGED <<evb, inflight, wb, sock, bytes, sends, by>>

on_ev_send_close(t) ==
    /\ Goto(t, "close", "idle")
    /\ inner_close(1)
    /\ UNCHANGED <<event, wb, bytes, sends, by>>

-------------------------------------------------------------------------------
Completion(t) ==
    \/ \E sz \in 1 .. accepted : on_ev_send(t, sz)
    \/ on_ev_send_err(t)

Step(t) ==
    \/ \E sz \in Sizes : push_back(t, sz)
    \/ start_send_return(t)
    \/ ev_send_start_cas(t) \/ ev_send_start_inc(t) \/ ev_send_start_pop(t)
    \/ ev_send_start_dec(t) \/ ev_send_start_assert(t)
    \/ ev_send_start_WSASend(t)
    \/ on_ev_send_zero(t) \/ on_ev_send_hold(t) \/ on_ev_send_return(t)
    \/ on_ev_send_fail(t) \/ on_ev_send_close(t)

Next == \E t \in Threads : start_send(t) \/ Completion(t) \/ Step(t)

Spec == Init /\ [][Next]_vars

(* Threads inside these functions are scheduled, and the poller threads    *)
(* take every completion packet (CorePoller).                              *)
FairSpec ==
    /\ Spec
    /\ \A t \in Threads : WF_vars(Step(t))
    /\ WF_vars(\E t \in Threads : Completion(t))

-------------------------------------------------------------------------------
(* t may touch the event: between taking `ready` and giving it back.       *)
Owner(t) == pc[t] \in {"pop", "dec", "send", "assert", "zero", "fail"}

(* The variables have their types; in particular neither `ready` nor the   *)
(* reference count goes below zero.                                        *)
TypeOK ==
    /\ ready \in Nat
    /\ evb \in Buffer /\ inflight \in Buffer
    /\ wb \in Seq(Buffer)
    /\ pending \in Nat /\ closed \in BOOLEAN
    /\ sends \in Nat /\ accepted \in Nat /\ wire \in Nat /\ failed \in BOOLEAN
    /\ pc \in [Threads -> {"idle", "push", "cas", "inc", "pop", "dec", "send",
                           "ok", "err", "zero", "hold", "fail", "close",
                           "assert"}]
    /\ by \in [Threads -> {"start_send", "on_ev_send"}]

(* The event has one owner: while a WSASend is outstanding no thread       *)
(* touches its buffer or starts another on the same OVERLAPPED, and no two *)
(* threads are in the owner's part of ev_send_start or of on_ev_send.      *)
OneOwner ==
    /\ \A t, u \in Threads : Owner(t) /\ Owner(u) => t = u
    /\ inflight # NULL => inflight = evb /\ \A t \in Threads : ~Owner(t)

(* No lost wake-up: bytes that wait in the queue or in ev->b have somebody *)
(* who will look at them - an outstanding WSASend, an owner, a thread on   *)
(* its way into ev_send_start - unless a WSASend has failed.  An owner     *)
(* that found the queue empty must not leave past a buffer queued since.   *)
NoLostWakeup ==
    (wb # <<>> \/ evb # NULL) /\ ~failed =>
        \/ inflight # NULL
        \/ \E t \in Threads : Owner(t) \/ pc[t] \in {"hold", "cas", "inc"}

(* The byte stream: what is handed to the transport starts with the byte   *)
(* after the last one sent, also after a partial send; the buffers follow  *)
(* one another without gap or overlap; and when nothing waits everything   *)
(* queued has been sent.                                                   *)
StreamInOrder ==
    LET next == IF evb = NULL THEN wire + 1 ELSE evb.hi + 1
    IN  /\ evb # NULL => evb.lo = wire + 1
        /\ inflight # NULL => inflight.lo = wire + 1
        /\ wb # <<>> => Head(wb).lo = next /\ wb[Len(wb)].hi = accepted
        /\ \A i \in 1 .. Len(wb) - 1 : wb[i + 1].lo = wb[i].hi + 1
        /\ wb = <<>> => next = accepted + 1

(* The references of the send path never pay for one another: with the     *)
(* references of the open socket and of its receive in place, sending,     *)
(* also when it fails, never brings `pending` to where inner_close,        *)
(* dec_socket or on_ev_send would tear the socket down.                    *)
NeverClosedBySending == ~closed /\ pending >= 2

(* Every byte start_send has queued is sent, unless some WSASend fails or  *)
(* the process aborts.                                                     *)
EveryByteSent ==
    \A n \in 1 .. 2 * MaxSends : accepted >= n ~> wire >= n \/ failed \/ ~Running
===============================================================================
