----------------------------- MODULE SocketServer -----------------------------
(***************************************************************************)
(* The sockets of net/socketserver.cpp: the table of slots, ids, reference *)
(* counts (`pending`), and every handler that takes or gives a reference,  *)
(* together with what connector.cpp and listener.cpp do with the messages  *)
(* they get (start_close on a socket error).  The send queue is reduced to *)
(* a number: SendPath has it in full.                                      *)
(*                                                                         *)
(* A socket is freed (force_close, reset) by the thread that takes its     *)
(* count to 0.  It has one reference for being open, which start_close     *)
(* drops, and one for each operation the system has under way.             *)
(*                                                                         *)
(* Each step of a thread has at most one Interlocked operation on the      *)
(* slots (ev_send_start, which SendPath splits up, is one step).  me[t]    *)
(* holds a thread's place `pc` and its locals: `s` and `o` the socket and  *)
(* event of its handler, `n` the socket being accepted or received on, `i` *)
(* an id, `x` the socket being released, `ref` how many references it      *)
(* gives back, `ret` where it goes on afterwards, `job` who called, `e`    *)
(* whether the call failed, `k` the tries of reserve_id.                   *)
(*                                                                         *)
(* Slots are used again, and reset is not atomic: the ghost `spoilt` has   *)
(* the ids for which the code's own counting goes wrong (see Spoil).       *)
(***************************************************************************)
EXTENDS Integers, FiniteSets, Bags, TLC

LOCAL INSTANCE FiniteSetsExt

CONSTANTS
    INT_MAX,        \* the largest id
    Threads,        \* of the poller: they run completions and the handlers of
                    \* messages; a client's own thread does part of that
    Scenarios       \* bounds: the size of the table, the ids given out so far,
                    \* how often each call of a client may be made, and the
                    \* calls of the system that may fail

(* HASH_ID is a bit mask in the code: the ids are a multiple of the slots. *)
ASSUME TablesFit == \A c \in Scenarios :
    /\ c.slots \in Nat \ {0} /\ c.alloc_id \in 0 .. INT_MAX
    /\ (INT_MAX + 1) % c.slots = 0

VARIABLES
    alloc_id,
    type, id, fd,       \* per slot; fd: whether it is a socket
    pending, closing,
    ev,                 \* ev[s][o]: the fields ready, call, u, b of op[o]
    wb,                 \* buffers in the queue s->wb
    io,                 \* operations the system has under way: <<s, o, kind, id>>
    known, errs,        \* ids the callers have; ids of unread logic_socketerr
    sent, spoilt,        \* ghosts: ids start_send kept a reference for; ids
                        \* whose count the code gets wrong (see Spoil)
    left,               \* the scenario: the calls that may still be made, the
                        \* size of the table and `faults`
    me, dead

MAX_SOCKET == left.slots
Slots == 0 .. MAX_SOCKET - 1
Ops == {"read", "write"}
HASH_ID(i) == i % MAX_SOCKET

(* The int that x overflows to. *)
Int32(x) == ((x + INT_MAX + 1) % (2 * (INT_MAX + 1))) - (INT_MAX + 1)

slots  == <<type, id, fd, pending, closing, ev, wb>>
outside == <<io, known, errs, sent, spoilt>>
vars   == <<alloc_id, slots, outside, left, me, dead>>

Blank == [ready |-> 0, call |-> "none", u |-> -1, b |-> FALSE]
Nowhere == -1
Idle == [pc |-> "idle", s |-> Nowhere, o |-> "read", n |-> Nowhere, i |-> 0, x |-> Nowhere,
         ref |-> 0, ret |-> "idle", job |-> "none", e |-> FALSE, k |-> 0]

Init ==
    /\ left \in Scenarios /\ alloc_id = left.alloc_id
    /\ type = [s \in Slots |-> "RESERVE"] /\ id = [s \in Slots |-> 0]
    /\ fd = [s \in Slots |-> FALSE]
    /\ pending = [s \in Slots |-> 0] /\ closing = [s \in Slots |-> FALSE]
    /\ ev = [s \in Slots |-> [o \in Ops |-> Blank]]
    /\ wb = [s \in Slots |-> 0]
    /\ io = EmptyBag /\ known = {} /\ errs = EmptyBag
    /\ sent = {} /\ spoilt = {}
    /\ me = [t \in Threads |-> Idle]
    /\ dead = "no"

-------------------------------------------------------------------------------
At(t, p) == dead = "no" /\ me[t].pc = p

Go(t, upd) ==
    me' = [me EXCEPT ![t] = IF upd.pc = "idle" THEN Idle ELSE upd @@ @]

To(t, p) == Go(t, [pc |-> p])
Die(why) == dead' = why /\ UNCHANGED me

Count(c) == left[c] > 0 /\ left' = [left EXCEPT ![c] = @ - 1]

(* Whether a call of the system on socket s fails: always after reset.     *)
Fails(call, s) == IF ~fd[s] THEN {TRUE} ELSE IF call \in left.faults THEN BOOLEAN ELSE {FALSE}

(* post2logic: logic_socketerr for id i. *)
report_socketerr(i) == errs' = errs (+) SetToBag({i})

(* The system takes an operation of event o; the id is there for properties. *)
Start(s, o, kind) == io' = io (+) SetToBag({<<s, o, kind, id[s]>>})

-------------------------------------------------------------------------------
(* inner_close, dec_socket, force_close, reset *)

InnerClose(t, s, r, back) ==
    Go(t, [pc |-> "dec", x |-> s, ref |-> r, ret |-> back])

DecSocket(t, i, back) ==
    Go(t, [pc |-> "match", x |-> HASH_ID(i), i |-> i, ret |-> back, n |-> Nowhere,
           s |-> IF back = "idle" THEN Nowhere ELSE me[t].s])

Release(t, last) ==
    Go(t, IF last THEN [pc |-> "force"] ELSE [pc |-> me[t].ret, x |-> Nowhere])

(* Bug: the socket is freed one reference too early. *)
Bug_inner_close(t) ==
    /\ At(t, "dec")
    /\ LET s == me[t].x IN
        /\ pending' = [pending EXCEPT ![s] = @ - me[t].ref]
        /\ Release(t, pending[s] <= me[t].ref + 1)
    /\ UNCHANGED <<alloc_id, type, id, fd, closing, ev, wb, outside, left, dead>>

inner_close(t) ==
    /\ At(t, "dec")
    /\ LET s == me[t].x IN
        /\ pending' = [pending EXCEPT ![s] = @ - me[t].ref]
        /\ Release(t, pending[s] <= me[t].ref)
    /\ UNCHANGED <<alloc_id, type, id, fd, closing, ev, wb, outside, left, dead>>

dec_socket_match(t) ==
    /\ At(t, "match")
    /\ LET s == me[t].x IN
        IF type[s] # "INVALID" /\ id[s] = me[t].i THEN To(t, "dec0") ELSE Release(t, FALSE)
    /\ UNCHANGED <<alloc_id, slots, outside, left, dead>>

dec_socket_dec(t) ==
    /\ At(t, "dec0")
    /\ LET s == me[t].x IN
        /\ pending' = [pending EXCEPT ![s] = @ - 1]
        /\ Release(t, pending[s] = 1)
    /\ UNCHANGED <<alloc_id, type, id, fd, closing, ev, wb, outside, left, dead>>

(* shutdown, and CancelIoEx for an event that is ready, the read event     *)
(* first: what is under way completes, as it may at any time.              *)
force_close(t, o) ==
    /\ At(t, IF o = "read" THEN "force" ELSE "force_write")
    /\ ev' = [ev EXCEPT ![me[t].x][o].ready = IF @ = 1 THEN 0 ELSE @]
    /\ To(t, IF o = "read" THEN "force_write" ELSE "reset")
    /\ UNCHANGED <<alloc_id, type, id, fd, pending, closing, wb, outside, left, dead>>

(* reset: once the type is RESERVE the slot may be taken again, ... *)
reset(t) ==
    /\ At(t, "reset")
    /\ LET s == me[t].x IN
        /\ id' = [id EXCEPT ![s] = 0]
        /\ fd' = [fd EXCEPT ![s] = FALSE]
        /\ type' = [type EXCEPT ![s] = "RESERVE"]
    /\ To(t, "wipe")
    /\ UNCHANGED <<alloc_id, pending, closing, ev, wb, outside, left, dead>>

(* ... and the rest is cleared only then. *)
reset_wipe(t) ==
    /\ At(t, "wipe")
    /\ LET s == me[t].x IN
        /\ ev' = [ev EXCEPT ![s] = [o \in Ops |-> Blank]]
        /\ pending' = [pending EXCEPT ![s] = 0]
        /\ closing' = [closing EXCEPT ![s] = FALSE]
        /\ wb' = [wb EXCEPT ![s] = 0]
    /\ Release(t, FALSE)
    /\ UNCHANGED <<alloc_id, type, id, fd, outside, left, dead>>

-------------------------------------------------------------------------------
(* grub_socket, start_close, start_send, and the handlers of messages *)

(* The id a slot was reserved for, until reset gives it back. *)
Owner(s) ==
    ({id[s]} \ {0}) \cup {me[u].i : u \in {v \in Threads :
                                me[v].pc = "reserved" /\ HASH_ID(me[v].i) = s}}

(* Spoil(s, b): the ghost records the owner of s where its count goes      *)
(* wrong:                                                                  *)
(*  1. a reference is taken of a socket whose count is 0, so that it is    *)
(*     being freed, or of a slot that new_fd has still to fill (Hold);     *)
(*  2. two closes both find `closing` false (start_close_mark);            *)
(*  3. an accept that is not started again gives back one reference more   *)
(*     than it has (unhold);                                               *)
(*  4. reserve_id takes a slot that is RESERVE but not at rest, because    *)
(*     reset is not through, somebody is still using the last connection   *)
(*     or left something behind (reserve_id_cas, AtRest);                  *)
(*  5. alloc_id wraps to an id that is not positive (reserve_id_cas);      *)
(*  6. the -1 of a full table is taken for an id (new_fd).                 *)
Spoil(s, b) == spoilt' = IF b THEN spoilt \cup Owner(s) ELSE spoilt

(* InterlockedIncrement(&s->pending), nobody looking at the result. *)
Hold(s) ==
    /\ Spoil(s, pending[s] < 1 \/ type[s] = "INVALID")
    /\ pending' = [pending EXCEPT ![s] = @ + 1]

grub_inc(t) ==
    /\ At(t, "grub")
    /\ Hold(HASH_ID(me[t].i))
    /\ Go(t, [pc |-> "check", s |-> HASH_ID(me[t].i)])
    /\ UNCHANGED <<alloc_id, type, id, fd, closing, ev, wb, io, known, errs, sent, left, dead>>

grub_check(t) ==
    /\ At(t, "check")
    /\ LET s == me[t].s IN
        IF type[s] # "INVALID" /\ id[s] = me[t].i
        THEN To(t, IF me[t].job = "close" THEN "type" ELSE "push")
        ELSE InnerClose(t, s, 1, "idle")
    /\ UNCHANGED <<alloc_id, slots, outside, left, dead>>

start_close(t, i) ==
    /\ At(t, "idle")
    /\ Count("close")
    /\ Go(t, [pc |-> "grub", i |-> i, job |-> "close"])
    /\ UNCHANGED <<alloc_id, slots, outside, dead>>

(* msg_err of connectors and listeners: start_close(m->id). *)
msg_err(t, i) ==
    /\ At(t, "idle")
    /\ errs' = errs (-) SetToBag({i})
    /\ Go(t, [pc |-> "grub", i |-> i, job |-> "close"])
    /\ UNCHANGED <<alloc_id, slots, io, known, sent, spoilt, left, dead>>

Closable == {"PLISTEN", "LISTEN", "CONNECTING", "CONNECTED", "PACCEPT"}

(* Another type: FRAME_INVALID_SOCKET_TYPE, with the reference still held. *)
start_close_type(t) ==
    /\ At(t, "type")
    /\ To(t, IF type[me[t].s] \in Closable THEN "closing" ELSE "idle")
    /\ UNCHANGED <<alloc_id, slots, outside, left, dead>>

start_close_test(t) ==
    /\ At(t, "closing")
    /\ IF closing[me[t].s] THEN InnerClose(t, me[t].s, 1, "idle") ELSE To(t, "mark")
    /\ UNCHANGED <<alloc_id, slots, outside, left, dead>>

start_close_mark(t) ==
    /\ At(t, "mark")
    /\ Spoil(me[t].s, closing[me[t].s])
    /\ closing' = [closing EXCEPT ![me[t].s] = TRUE]
    /\ InnerClose(t, me[t].s, 2, "idle")
    /\ UNCHANGED <<alloc_id, type, id, fd, pending, ev, wb, io, known, errs, sent, left, dead>>

(* Nobody sends on a listener: start_send would not notice. *)
start_send(t, i) ==
    /\ At(t, "idle") /\ type[HASH_ID(i)] # "LISTEN"
    /\ \A u \in Threads : me[u].job = "listen" => me[u].i # i
    /\ Count("send")
    /\ Go(t, [pc |-> "grub", i |-> i, job |-> "send"])
    /\ UNCHANGED <<alloc_id, slots, outside, dead>>

start_send_push(t) ==
    /\ At(t, "push")
    /\ wb' = [wb EXCEPT ![me[t].s] = @ + 1]
    /\ sent' = sent \cup {me[t].i}
    /\ To(t, "send")
    /\ UNCHANGED <<alloc_id, type, id, fd, pending, closing, ev, io, known, errs, spoilt, left, dead>>

(* ev_send_start in one step: FRAME_IO_PENDING when somebody has the event *)
(* (they are counted in `ready`), FRAME_BUFF_EMPTY when nothing is queued, *)
(* else WSASend; when it fails the event keeps its buffer and its owner.   *)
ev_send_start(t) ==
    /\ At(t, "send")
    /\ LET s == me[t].s
           e == ev[s]["write"]
           back == IF me[t].job = "send" THEN "idle" ELSE "unhold"
           Event(ready, b) == ev' = [ev EXCEPT ![s]["write"] =
                                [@ EXCEPT !.call = "on_ev_send", !.ready = ready, !.b = b]] IN
        \/ /\ e.ready # 0
           /\ Event(e.ready + 1, e.b) /\ To(t, back) /\ UNCHANGED <<wb, io, errs>>
        \/ /\ e.ready = 0 /\ ~e.b /\ wb[s] = 0
           /\ Event(0, FALSE) /\ To(t, back) /\ UNCHANGED <<wb, io, errs>>
        \/ /\ e.ready = 0 /\ (e.b \/ wb[s] > 0)
           /\ Event(1, TRUE)
           /\ wb' = IF e.b THEN wb ELSE [wb EXCEPT ![s] = @ - 1]
           /\ \E fails \in Fails("WSASend", s) :
                IF ~fails THEN Start(s, "write", "on_ev_send") /\ To(t, back) /\ UNCHANGED errs
                ELSE /\ report_socketerr(id[s])
                     /\ IF me[t].job = "send" THEN DecSocket(t, me[t].i, "idle")
                        ELSE Go(t, [pc |-> back, e |-> TRUE])
                     /\ UNCHANGED io
    /\ UNCHANGED <<alloc_id, type, id, fd, pending, closing, known, sent, spoilt, left, dead>>

-------------------------------------------------------------------------------
(* reserve_id, new_fd: me[t].job says for whom.                            *)

Probe(t, i) ==
    IF type[HASH_ID(i)] = "RESERVE" THEN Go(t, [pc |-> "cas", i |-> i])
    ELSE IF me[t].k + 1 < MAX_SOCKET THEN Go(t, [pc |-> "reserve", k |-> me[t].k + 1])
    ELSE Go(t, [pc |-> "new_fd", i |-> -1])

(* The id is the caller's from here on: the out parameter `id` of          *)
(* start_connet and start_listen is a member of the connector or listener. *)
Out(t, i) == known' = IF me[t].job \in {"connect", "listen"} THEN known \cup {i} ELSE known

reserve_id(t) ==
    /\ At(t, "reserve")
    /\ alloc_id' = Int32(alloc_id + 1)
    /\ IF alloc_id' < 0 THEN To(t, "wrap") ELSE Probe(t, alloc_id')
    /\ IF me'[t].pc = "new_fd" THEN Out(t, -1) ELSE UNCHANGED known
    /\ UNCHANGED <<slots, io, errs, sent, spoilt, left, dead>>

(* id < 0: InterlockedAdd(&alloc_id, 0x7fffffff). *)
reserve_id_wrap(t) ==
    /\ At(t, "wrap")
    /\ alloc_id' = Int32(alloc_id + INT_MAX)
    /\ Probe(t, alloc_id')
    /\ IF me'[t].pc = "new_fd" THEN Out(t, -1) ELSE UNCHANGED known
    /\ UNCHANGED <<slots, io, errs, sent, spoilt, left, dead>>

(* The sockets thread u is working on. *)
Busy(u) == {me[u].s, me[u].n} \cup (IF me[u].pc = "match" THEN {} ELSE {me[u].x})

(* Nothing is left of the last connection in slot s. *)
AtRest(s) ==
    /\ \A u \in Threads : s \notin Busy(u)
    /\ \A op \in DOMAIN io : op[1] # s
    /\ ev[s] = [o \in Ops |-> Blank] /\ ~closing[s] /\ wb[s] = 0

reserve_id_cas(t) ==
    /\ At(t, "cas")
    /\ LET s == HASH_ID(me[t].i) IN
        IF type[s] = "RESERVE"
        THEN /\ type' = [type EXCEPT ![s] = "INVALID"]
             /\ spoilt' = IF AtRest(s) /\ me[t].i > 0 THEN spoilt ELSE spoilt \cup {me[t].i}
             /\ To(t, "reserved")
        ELSE To(t, "reserve") /\ UNCHANGED <<type, spoilt>>
    /\ UNCHANGED <<alloc_id, id, fd, pending, closing, ev, wb, io, known, errs, sent, left, dead>>

Enter(s, i, sock) ==
    /\ id' = [id EXCEPT ![s] = i]
    /\ fd' = [fd EXCEPT ![s] = sock]
    /\ pending' = [pending EXCEPT ![s] = 1]

reserve_id_set(t) ==
    /\ At(t, "reserved")
    /\ Enter(HASH_ID(me[t].i), me[t].i, FALSE)
    /\ Out(t, me[t].i)
    /\ To(t, "new_fd")
    /\ UNCHANGED <<alloc_id, type, closing, ev, wb, io, errs, sent, spoilt, left, dead>>

(* The id -1 of a full table hashes to the last slot, which another thread *)
(* may just have reserved.  When append_socket fails new_fd returns NULL,  *)
(* which every caller follows.                                             *)
new_fd(t) ==
    /\ At(t, "new_fd")
    /\ LET s == HASH_ID(me[t].i) IN
        IF type[s] # "INVALID"
        THEN Die(IF me[t].i = -1 THEN "table_full" ELSE "assert_new_fd")
             /\ UNCHANGED <<type, id, fd, pending, spoilt>>
        ELSE \E fails \in {FALSE, "append_socket" \in left.faults} :
            IF fails
            THEN /\ type' = [type EXCEPT ![s] = "RESERVE"]
                 /\ Die("null") /\ UNCHANGED <<id, fd, pending, spoilt>>
            ELSE /\ Enter(s, me[t].i, TRUE)
                 /\ spoilt' = IF me[t].i < 0 THEN spoilt \cup {me[t].i} \cup Owner(s) ELSE spoilt
                 /\ IF me[t].job = "connect" THEN Go(t, [pc |-> "connect", s |-> s])
                    ELSE IF me[t].job = "listen" THEN Go(t, [pc |-> "listen", s |-> s])
                    ELSE Go(t, [pc |-> "AcceptEx", n |-> s])
                 /\ UNCHANGED <<type, dead>>
    /\ UNCHANGED <<alloc_id, closing, ev, wb, io, known, errs, sent, left>>

Reserve(t, job) == Go(t, [pc |-> "reserve", job |-> job, k |-> 0])

-------------------------------------------------------------------------------
(* Listening and accepting *)

(* do_listen has succeeded; when it fails nothing happens. *)
start_listen(t) ==
    /\ At(t, "idle")
    /\ Count("listen")
    /\ Reserve(t, "listen")
    /\ UNCHANGED <<alloc_id, slots, outside, dead>>

start_listen_type(t) ==
    /\ At(t, "listen")
    /\ type' = [type EXCEPT ![me[t].s] = "LISTEN"]
    /\ Go(t, [pc |-> "listen_hold", job |-> "listen1"])
    /\ UNCHANGED <<alloc_id, id, fd, pending, closing, ev, wb, outside, left, dead>>

(* A reference, and ev_listen_start for each of the two events. *)
start_listen_hold(t) ==
    /\ At(t, "listen_hold")
    /\ Hold(me[t].s)
    /\ Go(t, [pc |-> "WSASocket", o |-> IF me[t].job = "listen1" THEN "read" ELSE "write"])
    /\ UNCHANGED <<alloc_id, type, id, fd, closing, ev, wb, io, known, errs, sent, left, dead>>

(* ev_listen_start returns: start_listen asserts NO_ERROR, on_ev_listen    *)
(* gives its reference back and closes the listener on an error.           *)
Listening(t, failed) ==
    CASE me[t].job = "relisten" ->
            Go(t, [pc |-> "unhold", e |-> failed, n |-> Nowhere]) /\ UNCHANGED dead
      [] me[t].job # "relisten" /\ failed -> Die("assert_listen")
      [] me[t].job = "listen1" /\ ~failed ->
            Go(t, [pc |-> "listen_hold", job |-> "listen2", n |-> Nowhere]) /\ UNCHANGED dead
      [] me[t].job = "listen2" /\ ~failed -> To(t, "idle") /\ UNCHANGED dead

ev_listen_start(t) ==
    /\ At(t, "WSASocket")
    /\ LET s == me[t].s IN \E fails \in {FALSE, "WSASocket" \in left.faults} :
        /\ ev' = [ev EXCEPT ![s][me[t].o].ready = IF fails THEN 0 ELSE 1]
        /\ IF fails THEN report_socketerr(id[s]) /\ Listening(t, TRUE)
           ELSE Reserve(t, me[t].job) /\ UNCHANGED <<errs, dead>>
    /\ UNCHANGED <<alloc_id, type, id, fd, pending, closing, wb, io, known, sent, spoilt, left>>

ev_listen_start_accept(t) ==
    /\ At(t, "AcceptEx")
    /\ LET s == me[t].s
           n == me[t].n IN \E fails \in IF fd[n] THEN Fails("AcceptEx", s) ELSE {TRUE} :
        /\ type' = [type EXCEPT ![n] = "PLISTEN"]
        /\ ev' = [ev EXCEPT ![s][me[t].o].call = "on_ev_listen",
                            ![s][me[t].o].u = IF fails THEN -1 ELSE n]
        /\ IF fails THEN Go(t, [pc |-> "reset", x |-> n, n |-> Nowhere, ret |-> "refused"])
                         /\ UNCHANGED <<io, dead>>
           ELSE Start(s, me[t].o, "on_ev_listen") /\ Listening(t, FALSE)
    /\ UNCHANGED <<alloc_id, id, fd, pending, closing, wb, known, errs, sent, spoilt, left>>

(* AcceptEx failed and news->reset() is done. *)
ev_listen_start_fail(t) ==
    /\ At(t, "refused")
    /\ ev' = [ev EXCEPT ![me[t].s][me[t].o].ready = 0]
    /\ report_socketerr(id[me[t].s])
    /\ Listening(t, TRUE)
    /\ UNCHANGED <<alloc_id, type, id, fd, pending, closing, wb, io, known, sent, spoilt, left>>

(* on_ev_listen: newsocket is released again, or the logic is told of it ... *)
on_ev_listen(t, failed, posted) ==
    /\ At(t, "on_ev_listen")
    /\ LET s == me[t].s
           n == ev[s][me[t].o].u IN
        IF pending[s] < 1 \/ n = -1 THEN Die("on_listen") /\ UNCHANGED <<type, known>>
        ELSE /\ type' = IF failed THEN type ELSE [type EXCEPT ![n] = "PACCEPT"]
             /\ known' = IF ~failed /\ posted THEN known \cup {id[n]} ELSE known
             /\ IF ~failed /\ posted THEN Go(t, [pc |-> "hold_new", n |-> n])
                ELSE IF failed /\ ~posted THEN To(t, "relisten")
                ELSE DecSocket(t, id[n], "relisten")
             /\ UNCHANGED dead
    /\ UNCHANGED <<alloc_id, id, fd, pending, closing, ev, wb, io, errs, sent, spoilt, left>>

(* ... and only then the reference of its receive is taken. *)
on_ev_listen_hold(t) ==
    /\ At(t, "hold_new")
    /\ Hold(me[t].n)
    /\ Go(t, [pc |-> "recv", job |-> "accepted", i |-> id[me[t].n]])
    /\ UNCHANGED <<alloc_id, type, id, fd, closing, ev, wb, io, known, errs, sent, left, dead>>

on_ev_listen_again(t) ==
    /\ At(t, "relisten")
    /\ LET s == me[t].s IN
        /\ ev' = [ev EXCEPT ![s][me[t].o].ready = 0]
        /\ pending' = [pending EXCEPT ![s] = @ + 1]
        /\ IF pending[s] = 1 THEN InnerClose(t, s, 2, "idle")
           ELSE Go(t, [pc |-> "WSASocket", job |-> "relisten"])
    /\ UNCHANGED <<alloc_id, type, id, fd, closing, wb, outside, left, dead>>

(* InterlockedDecrement after a restart, and inner_close when it failed.   *)
unhold(t) ==
    /\ At(t, "unhold")
    /\ Spoil(me[t].s, me[t].e /\ me[t].job = "relisten")
    /\ pending' = [pending EXCEPT ![me[t].s] = @ - 1]
    /\ IF me[t].e THEN InnerClose(t, me[t].s, IF me[t].job = "relisten" THEN 2 ELSE 1, "idle")
       ELSE To(t, "idle")
    /\ UNCHANGED <<alloc_id, type, id, fd, closing, ev, wb, io, known, errs, sent, left, dead>>

-------------------------------------------------------------------------------
(* Connecting *)

start_connet(t) ==
    /\ At(t, "idle")
    /\ Count("connect")
    /\ Reserve(t, "connect")
    /\ UNCHANGED <<alloc_id, slots, outside, dead>>

start_connet_type(t) ==
    /\ At(t, "connect")
    /\ LET s == me[t].s IN
        /\ type' = [type EXCEPT ![s] = "CONNECTING"]
        /\ ev' = [ev EXCEPT ![s]["read"].call = "event_connect", ![s]["read"].ready = 1]
    /\ To(t, "connect_hold")
    /\ UNCHANGED <<alloc_id, id, fd, pending, closing, wb, outside, left, dead>>

start_connet_hold(t) ==
    /\ At(t, "connect_hold")
    /\ Hold(me[t].s)
    /\ To(t, "ConnectEx")
    /\ UNCHANGED <<alloc_id, type, id, fd, closing, ev, wb, io, known, errs, sent, left, dead>>

(* A call that fails at once gives one of two references back and takes    *)
(* the id back from the caller.  ConnectEx is given the local fd: if the   *)
(* slot has another's by now, ours may be closed or not.                   *)
start_connet_call(t) ==
    /\ At(t, "ConnectEx")
    /\ LET s == me[t].s IN
       \E fails \in IF fd[s] /\ id[s] # me[t].i THEN BOOLEAN ELSE Fails("ConnectEx", s) :
        IF fails
        THEN /\ InnerClose(t, s, 1, "idle")
             /\ known' = known \ {me[t].i}
             /\ UNCHANGED <<io, dead>>
        ELSE /\ Start(s, "read", "event_connect")
             /\ IF me[t].i > 0 THEN To(t, "idle") /\ UNCHANGED dead ELSE Die("assert_id")
             /\ UNCHANGED known
    /\ UNCHANGED <<alloc_id, slots, errs, sent, spoilt, left>>

(* Bug: the reference for being open is given back too. *)
Bug_event_connect(t, failed) ==
    /\ At(t, "event_connect")
    /\ LET s == me[t].s IN
        IF failed THEN InnerClose(t, s, 2, "idle") /\ UNCHANGED <<type, ev>>
        ELSE /\ type' = [type EXCEPT ![s] = "CONNECTED"]
             /\ ev' = [ev EXCEPT ![s]["read"].ready = 0]
             /\ To(t, "connected")
    /\ UNCHANGED <<alloc_id, id, fd, pending, closing, wb, outside, left, dead>>

(* event_connect: report_connect, then ... *)
event_connect(t, failed) ==
    /\ At(t, "event_connect")
    /\ LET s == me[t].s IN
        IF failed THEN InnerClose(t, s, 1, "idle") /\ UNCHANGED <<type, ev>>
        ELSE /\ type' = [type EXCEPT ![s] = "CONNECTED"]
             /\ ev' = [ev EXCEPT ![s]["read"].ready = 0]
             /\ To(t, "connected")
    /\ UNCHANGED <<alloc_id, id, fd, pending, closing, wb, outside, left, dead>>

event_connect_hold(t) ==
    /\ At(t, "connected")
    /\ LET s == me[t].s IN
        /\ pending' = [pending EXCEPT ![s] = @ + 1]
        /\ IF pending[s] = 1 THEN InnerClose(t, s, 2, "idle")
           ELSE Go(t, [pc |-> "recv", job |-> "connected", n |-> s])
    /\ UNCHANGED <<alloc_id, type, id, fd, closing, ev, wb, outside, left, dead>>

-------------------------------------------------------------------------------
(* Receiving and completions of sends *)

(* ev_recv_start(me[t].n): the assertions, ... *)
ev_recv_start(t) ==
    /\ At(t, "recv")
    /\ LET s == me[t].n
           e == ev[s]["read"] IN
        IF e.ready # 0 \/ e.b
        THEN /\ Die(IF e.b THEN "assert_b" ELSE "assert_ready")
             /\ UNCHANGED ev
        ELSE /\ ev' = [ev EXCEPT ![s]["read"] =
                        [e EXCEPT !.call = "on_ev_recv", !.ready = 1, !.b = TRUE]]
             /\ To(t, "WSARecv")
             /\ UNCHANGED dead
    /\ UNCHANGED <<alloc_id, type, id, fd, pending, closing, wb, outside, left>>

(* ... WSARecv, and what its callers do on NO_ERROR and on an error.       *)
ev_recv_start_call(t) ==
    /\ At(t, "WSARecv")
    /\ LET s == me[t].n IN \E fails \in Fails("WSARecv", s) :
        /\ IF fails
           THEN /\ ev' = [ev EXCEPT ![s]["read"].ready = 0]
                /\ errs' = errs (+) SetToBag({id[s]})
                                (+) (IF me[t].job = "accepted" THEN SetToBag({me[t].i}) ELSE EmptyBag)
                /\ UNCHANGED io
           ELSE Start(s, "read", "on_ev_recv") /\ UNCHANGED <<ev, errs>>
        /\ CASE me[t].job = "accepted" ->
                    IF fails THEN DecSocket(t, me[t].i, "relisten")
                    ELSE Go(t, [pc |-> "relisten", n |-> Nowhere])
             [] me[t].job = "connected" ->
                    IF fails THEN InnerClose(t, s, 2, "idle") ELSE To(t, "idle")
             [] me[t].job = "received" -> Go(t, [pc |-> "unhold", e |-> fails])
    /\ UNCHANGED <<alloc_id, type, id, fd, pending, closing, wb, known, sent, spoilt, left, dead>>

(* Bug: the event keeps the buffer of what was received. *)
Bug_on_ev_recv(t, what) ==
    /\ At(t, "on_ev_recv")
    /\ LET s == me[t].s IN
        IF what # "error" /\ ~ev[s]["read"].b THEN Die("null_b") /\ UNCHANGED <<ev, errs>>
        ELSE /\ ev' = IF what = "error" THEN ev
                      ELSE [ev EXCEPT ![s]["read"].ready = 0]
             /\ IF what = "data" THEN To(t, "received") /\ UNCHANGED errs
                ELSE report_socketerr(id[s]) /\ InnerClose(t, s, 1, "idle")
             /\ UNCHANGED dead
    /\ UNCHANGED <<alloc_id, type, id, fd, pending, closing, wb, io, known, sent, spoilt, left>>

(* Bug: the end of the stream is not reported. *)
Bug_on_ev_recv_error(t, what) ==
    /\ At(t, "on_ev_recv")
    /\ LET s == me[t].s IN
        IF what # "error" /\ ~ev[s]["read"].b THEN Die("null_b") /\ UNCHANGED <<ev, errs>>
        ELSE /\ ev' = IF what = "error" THEN ev
                      ELSE [ev EXCEPT ![s]["read"].b = FALSE, ![s]["read"].ready = 0]
             /\ IF what = "data" THEN To(t, "received") /\ UNCHANGED errs
                ELSE UNCHANGED errs /\ InnerClose(t, s, 1, "idle")
             /\ UNCHANGED dead
    /\ UNCHANGED <<alloc_id, type, id, fd, pending, closing, wb, io, known, sent, spoilt, left>>

(* on_ev_recv: an error or the end of the stream, data that does not parse,*)
(* or data, after which the next receive is started.                       *)
on_ev_recv(t, what) ==
    /\ At(t, "on_ev_recv")
    /\ LET s == me[t].s IN
        IF what # "error" /\ ~ev[s]["read"].b THEN Die("null_b") /\ UNCHANGED <<ev, errs>>
        ELSE /\ ev' = IF what = "error" THEN ev
                      ELSE [ev EXCEPT ![s]["read"].b = FALSE, ![s]["read"].ready = 0]
             /\ IF what = "data" THEN To(t, "received") /\ UNCHANGED errs
                ELSE report_socketerr(id[s]) /\ InnerClose(t, s, 1, "idle")
             /\ UNCHANGED dead
    /\ UNCHANGED <<alloc_id, type, id, fd, pending, closing, wb, io, known, sent, spoilt, left>>

(* Bug: the reference for the restart is not taken. *)
Bug_on_ev_recv_hold(t) ==
    /\ At(t, "received")
    /\ LET s == me[t].s IN
        /\ UNCHANGED pending
        /\ IF pending[s] = 1 THEN InnerClose(t, s, 2, "idle")
           ELSE Go(t, [pc |-> "recv", job |-> "received", n |-> s])
    /\ UNCHANGED <<alloc_id, type, id, fd, closing, ev, wb, outside, left, dead>>

on_ev_recv_hold(t) ==
    /\ At(t, "received")
    /\ LET s == me[t].s IN
        /\ pending' = [pending EXCEPT ![s] = @ + 1]
        /\ IF pending[s] = 1 THEN InnerClose(t, s, 2, "idle")
           ELSE Go(t, [pc |-> "recv", job |-> "received", n |-> s])
    /\ UNCHANGED <<alloc_id, type, id, fd, closing, ev, wb, outside, left, dead>>

(* on_ev_send: an error, or the buffer is sent in whole or in part. *)
on_ev_send(t, what) ==
    /\ At(t, "on_ev_send")
    /\ LET s == me[t].s IN
        IF what # "error" /\ ~ev[s]["write"].b THEN Die("null_b") /\ UNCHANGED <<ev, errs>>
        ELSE /\ ev' = [ev EXCEPT ![s]["write"] =
                        [@ EXCEPT !.ready = 0, !.b = @ /\ what # "whole"]]
             /\ IF what = "error" THEN report_socketerr(id[s]) /\ InnerClose(t, s, 1, "idle")
                ELSE To(t, "resend") /\ UNCHANGED errs
             /\ UNCHANGED dead
    /\ UNCHANGED <<alloc_id, type, id, fd, pending, closing, wb, io, known, sent, spoilt, left>>

on_ev_send_hold(t) ==
    /\ At(t, "resend")
    /\ LET s == me[t].s IN
        /\ pending' = [pending EXCEPT ![s] = @ + 1]
        /\ IF pending[s] = 1 THEN InnerClose(t, s, 2, "idle")
           ELSE Go(t, [pc |-> "send", job |-> "resend"])
    /\ UNCHANGED <<alloc_id, type, id, fd, closing, ev, wb, outside, left, dead>>

(* A thread of the poller takes a completion of event o of socket s and    *)
(* calls the event's function, whatever it is by then.                     *)
complete(t, s, o) ==
    /\ At(t, "idle")
    /\ \E op \in BagToSet(io) :
        /\ op[1] = s /\ op[2] = o
        /\ io' = io (-) SetToBag({op})
    /\ IF ev[s][o].call = "none" THEN Die("null_call") /\ UNCHANGED left
       ELSE /\ IF ev[s][o].call = "on_ev_listen" THEN Count("accept") ELSE UNCHANGED left
            /\ Go(t, [pc |-> ev[s][o].call, s |-> s, o |-> o])
            /\ UNCHANGED dead
    /\ UNCHANGED <<alloc_id, slots, known, errs, sent, spoilt>>

(* ~socket_server, once no thread is in it. *)
stop_socketserver ==
    /\ dead = "no" /\ \A t \in Threads : me[t].pc = "idle"
    /\ dead' = "stopped"
    /\ type' = [s \in Slots |-> "RESERVE"] /\ id' = [s \in Slots |-> 0]
    /\ fd' = [s \in Slots |-> FALSE]
    /\ pending' = [s \in Slots |-> 0] /\ closing' = [s \in Slots |-> FALSE]
    /\ ev' = [s \in Slots |-> [o \in Ops |-> Blank]] /\ wb' = [s \in Slots |-> 0]
    /\ UNCHANGED <<alloc_id, outside, left, me>>

-------------------------------------------------------------------------------
Calls(t) ==
    \/ start_listen(t) \/ start_connet(t)
    \/ \E i \in known : start_close(t, i) \/ start_send(t, i)

Handle(t) == \E i \in BagToSet(errs) : msg_err(t, i)

Complete(t) == \E s \in Slots, o \in Ops : complete(t, s, o)

(* The rest of what thread t has begun. *)
Continue(t) ==
    \/ inner_close(t) \/ dec_socket_match(t) \/ dec_socket_dec(t)
    \/ \E o \in Ops : force_close(t, o)
    \/ reset(t) \/ reset_wipe(t)
    \/ grub_inc(t) \/ grub_check(t)
    \/ start_close_type(t) \/ start_close_test(t) \/ start_close_mark(t)
    \/ start_send_push(t) \/ ev_send_start(t)
    \/ reserve_id(t) \/ reserve_id_wrap(t) \/ reserve_id_cas(t) \/ reserve_id_set(t) \/ new_fd(t)
    \/ start_listen_type(t) \/ start_listen_hold(t)
    \/ ev_listen_start(t) \/ ev_listen_start_accept(t) \/ ev_listen_start_fail(t)
    \/ \E failed, posted \in BOOLEAN : on_ev_listen(t, failed, posted)
    \/ on_ev_listen_hold(t) \/ on_ev_listen_again(t) \/ unhold(t)
    \/ start_connet_type(t) \/ start_connet_hold(t) \/ start_connet_call(t)
    \/ \E failed \in BOOLEAN : event_connect(t, failed)
    \/ event_connect_hold(t)
    \/ ev_recv_start(t) \/ ev_recv_start_call(t)
    \/ \E what \in {"error", "garbage", "data"} : on_ev_recv(t, what)
    \/ on_ev_recv_hold(t)
    \/ \E what \in {"error", "part", "whole"} : on_ev_send(t, what)
    \/ on_ev_send_hold(t)

Next ==
    \/ \E t \in Threads : Calls(t) \/ Handle(t) \/ Complete(t) \/ Continue(t)
    \/ stop_socketserver

Spec == Init /\ [][Next]_vars

-------------------------------------------------------------------------------
(* Properties *)

Types == Closable \cup {"RESERVE", "INVALID"}
Handlers == {"on_ev_listen", "event_connect", "on_ev_recv", "on_ev_send"}

(* Every field has the values its declaration and the handlers give it.    *)
TypeOK ==
    /\ alloc_id \in -INT_MAX - 1 .. INT_MAX
    /\ type \in [Slots -> Types] /\ id \in [Slots -> -1 .. INT_MAX]
    /\ fd \in [Slots -> BOOLEAN] /\ closing \in [Slots -> BOOLEAN]
    /\ pending \in [Slots -> Int] /\ wb \in [Slots -> Nat]
    /\ \A s \in Slots, o \in Ops :
        /\ ev[s][o].ready \in Nat /\ ev[s][o].call \in Handlers \cup {"none"}
        /\ ev[s][o].u \in Slots \cup {-1} /\ ev[s][o].b \in BOOLEAN
    /\ \A op \in DOMAIN io : op[1] \in Slots /\ op[2] \in Ops /\ op[3] \in Handlers
    /\ known \subseteq -1 .. INT_MAX

Live(s) == /\ type[s] \notin {"RESERVE", "INVALID"} /\ id[s] # 0
           /\ \A t \in Threads : me[t].x = s => me[t].pc \notin {"force", "force_write", "reset"}

(* The references thread t has of the socket of its handler, ... *)
HeldHere(t) ==
    LET pc == me[t].pc
        job == me[t].job IN
    CASE pc \in Handlers \cup {"check", "type", "closing", "mark", "push", "hold_new",
                               "relisten", "received", "connected", "resend", "ConnectEx"} -> 1
      [] pc = "send" -> IF job = "send" THEN 1 ELSE 2
      [] pc \in {"recv", "WSARecv"} -> IF job = "accepted" THEN 1 ELSE 2
      [] pc = "unhold" -> IF me[t].e THEN 2 ELSE 1
      [] pc \in {"match", "dec0", "force", "force_write", "reset", "wipe"} /\ me[t].ret = "relisten" -> 1
      [] pc \in {"WSASocket", "reserve", "wrap", "cas", "reserved", "new_fd", "AcceptEx", "refused",
                 "reset", "wipe"} /\ job \in {"listen1", "listen2", "relisten"}
            -> IF job = "relisten" THEN 2 ELSE 1
      [] OTHER -> 0

(* ... and of any socket s: of the one it accepts or gives up, too. *)
Held(t, s) ==
    (IF me[t].s = s THEN HeldHere(t) ELSE 0)
  + (IF me[t].n = s /\ me[t].job = "accepted" /\ me[t].pc \in {"recv", "WSARecv"} THEN 1 ELSE 0)
  + (IF me[t].x = s /\ me[t].pc = "dec" THEN me[t].ref ELSE 0)
  + (IF me[t].x = s /\ me[t].job \in {"accepted", "send"}
        /\ (me[t].pc = "dec0" \/ (me[t].pc = "match" /\ id[s] = me[t].i))
     THEN 1 ELSE 0)

UnderWay(s) == BagCardinality([op \in {q \in DOMAIN io : q[1] = s} |-> io[op]])

(* The reference for being open: of a socket a caller has the id of and    *)
(* has not closed, and of one that waits in a listener's event.            *)
Open(s) ==
    /\ ~closing[s]
    /\ \/ id[s] \in known
       \/ \E op \in DOMAIN io : op[3] = "on_ev_listen" /\ ev[op[1]][op[2]].u = s

(* The count of a socket covers the reference for being open, what the     *)
(* system has under way and every thread that still uses the socket, so    *)
(* that nobody frees what another needs; slots are reused, and only the    *)
(* connections the six places of Spoil have harmed are left out.           *)
RefsCovered ==
    /\ TypeOK
    /\ \A s \in Slots : Live(s) /\ id[s] \notin spoilt =>
        pending[s] >= (IF Open(s) THEN 1 ELSE 0) + UnderWay(s)
                        + MapThenSumSet(LAMBDA t : Held(t, s), Threads)

(* A completion finds the socket and the function it was started for: no   *)
(* slot is freed, or given to another connection, under an operation.      *)
CompletionsOwned ==
    \A op \in DOMAIN io : op[4] \notin spoilt /\ dead = "no" =>
        /\ id[op[1]] = op[4] /\ type[op[1]] \in Closable
        /\ ev[op[1]][op[2]].call = op[3]

(* No assertion of the handlers fails, and none follows a null pointer,    *)
(* before a count is spoilt: one receive at a time, with its own buffer.   *)
HandlersSound ==
    dead \in {"assert_new_fd", "assert_id", "assert_b", "assert_ready", "on_listen", "null_b", "null_call"}
        => spoilt # {}

(* A connection its user knows of goes away only after start_close.        *)
FreedAfterClose ==
    [][\A s \in Slots :
        /\ type[s] \in {"CONNECTING", "CONNECTED", "PACCEPT"} /\ type'[s] = "RESERVE"
        /\ id[s] \in known \ (spoilt \cup {0}) /\ dead' # "stopped"
        => closing[s]]_vars

(* When no thread is in the server, an accepted connection nobody has sent *)
(* on has its receive under way, or a socketerr its listener has to read,  *)
(* or no reference at all: every other end of its receive has freed it.    *)
(* (The last case is real: `unhold` may take the count to 0 and not look.) *)
AcceptedAtRest ==
    dead = "no" /\ (\A t \in Threads : me[t].pc = "idle") =>
        \A s \in Slots : type[s] = "PACCEPT" /\ id[s] \notin sent \cup spoilt \cup {0} =>
            UnderWay(s) = 1 \/ BagIn(id[s], errs) \/ pending[s] = 0

(* socketserver.cpp:92, assert(s->type == SOCKET_TYPE_INVALID): the slot   *)
(* reserve_id has taken is still reserved when new_fd fills it.            *)
ReservedIsKept == dead # "assert_new_fd"
===============================================================================
