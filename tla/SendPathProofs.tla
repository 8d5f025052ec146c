---------------------------- MODULE SendPathProofs ----------------------------
(***************************************************************************)
(* Proofs about SendPath, for any finite set of threads, any sizes and any *)
(* number of calls of start_send: its type invariant, that the write event *)
(* has one owner, that no wake-up is lost, that the byte stream is in      *)
(* order, and that sending never tears the socket down.                    *)
(*                                                                         *)
(* None of these is inductive.  `ready` is not a lock that is free or      *)
(* taken: it also counts the threads that came by.  ReadyHeld says what    *)
(* its being positive means, LeavesNoneBehind why an owner that finds the  *)
(* queue empty may go when its decrement gives 0, and RefsCovered which    *)
(* thread or operation every reference in `pending` belongs to.            *)
(***************************************************************************)
EXTENDS SendPath, CommonLemmas, FiniteSetTheorems, SequenceTheorems, TLAPS

(* The types, without the lower bound of `pending`. *)
Types ==
    /\ ready \in Nat
    /\ evb \in Buffer /\ inflight \in Buffer
    /\ wb \in Seq(Buffer)
    /\ pending \in Int /\ closed \in BOOLEAN
    /\ sends \in Nat /\ accepted \in Nat /\ wire \in Nat /\ failed \in BOOLEAN
    /\ pc \in [Threads -> {"idle", "push", "cas", "inc", "pop", "dec", "send",
                           "ok", "err", "zero", "hold", "fail", "close",
                           "assert"}]
    /\ by \in [Threads -> {"start_send", "on_ev_send"}]

Active == inflight # NULL \/ \E t \in Threads : Owner(t)

(* `ready` is positive while somebody has the event, and, as long as no    *)
(* WSASend has failed, only then.                                          *)
ReadyHeld ==
    /\ Active => ready >= 1
    /\ ready >= 1 /\ ~failed => Active
    /\ \A t \in Threads :
        /\ pc[t] = "dec" => evb = NULL
        /\ pc[t] \in {"send", "assert"} => evb # NULL
        /\ pc[t] = "fail" => failed

(* A buffer queued behind the back of an owner that is about to leave has  *)
(* raised `ready`, or its thread is about to.                              *)
LeavesNoneBehind ==
    \A t \in Threads : pc[t] = "dec" /\ wb # <<>> =>
        ready >= 2 \/ \E u \in Threads : pc[u] \in {"cas", "inc"}

(* Threads that hold a reference, and those of them that hold a second     *)
(* one: the one of the completed operation and the one for the restart.    *)
Holding ==
    {t \in Threads :
        \/ pc[t] \in {"push", "cas", "inc", "pop", "dec", "send", "assert", "err",
                      "zero", "hold", "fail", "close"}
        \/ pc[t] = "ok" /\ by[t] = "on_ev_send"}

Restart ==
    {t \in Threads :
        /\ by[t] = "on_ev_send"
        /\ pc[t] \in {"cas", "inc", "pop", "dec", "send", "assert", "err"}}

(* Two references of the socket itself, those of the threads, and the one  *)
(* of the outstanding WSASend.                                             *)
RefsCovered ==
    pending >= 2 + Cardinality(Holding) + Cardinality(Restart)
                 + (IF inflight # NULL THEN 1 ELSE 0)

(* The phases only start_send, and only on_ev_send, are in. *)
ByHandler ==
    \A t \in Threads :
        /\ pc[t] = "push" => by[t] = "start_send"
        /\ pc[t] \in {"zero", "hold", "fail", "close"} => by[t] = "on_ev_send"

IInv ==
    /\ Types /\ OneOwner /\ ReadyHeld /\ StreamInOrder
    /\ ByHandler /\ RefsCovered /\ ~closed
    /\ LeavesNoneBehind /\ NoLostWakeup

(* A step of one thread. *)
ThreadStep(t) == start_send(t) \/ Completion(t) \/ Step(t)

-------------------------------------------------------------------------------
(* Every step preserves the types. *)
LEMMA NextTypes ==
  ASSUME Types, OneOwner, ReadyHeld, NEW t \in Threads, ThreadStep(t)
  PROVE  Types'
<1>1. CASE start_send(t)
  BY <1>1
  DEF start_send, grub_socket, Goto, event, bytes, Types
<1>2. CASE \E sz \in Sizes : push_back(t, sz)
  BY <1>2, SizesNat DEF push_back, Goto, event, sock, Types, Buffer
<1>3. CASE start_send_return(t)
  <2>1. CASE Goto(t, "ok", "idle") /\ UNCHANGED sock
    BY <1>3, <2>1
      DEF start_send_return, dec_socket, Goto, event, sock, bytes, Types
  <2>2. CASE Goto(t, "err", "idle") /\ dec_socket
    BY <1>3, <2>2
      DEF start_send_return, dec_socket, Goto, event, sock, bytes, Types
  <2> QED
    BY <1>3, <2>1, <2>2 DEF start_send_return
<1>4. CASE ev_send_start_cas(t)
  <2>1. CASE ready = 0
    BY <1>4, <2>1 DEF ev_send_start_cas, Goto, sock, bytes, Types
  <2>2. CASE ready # 0
    BY <1>4, <2>2 DEF ev_send_start_cas, Goto, sock, bytes, Types
  <2> QED
    BY <2>1, <2>2
<1>5. CASE ev_send_start_inc(t)
  BY <1>5
  DEF ev_send_start_inc, Goto, sock, bytes, Types
<1>6. CASE ev_send_start_pop(t)
  <2>1. CASE evb # NULL
    BY <1>6, <2>1 DEF ev_send_start_pop, Goto, sock, bytes, Types
  <2>2. CASE evb = NULL /\ wb = <<>>
    BY <1>6, <2>2 DEF ev_send_start_pop, Goto, sock, bytes, Types
  <2>3. CASE evb = NULL /\ wb # <<>>
    <3>1. Head(wb) \in Buffer /\ Tail(wb) \in Seq(Buffer)
      BY <2>3, HeadTailProperties DEF Types
    <3> QED
      BY <1>6, <2>3, <3>1 DEF ev_send_start_pop, Goto, sock, bytes, Types
  <2> QED
    BY <2>1, <2>2, <2>3
<1>7. CASE ev_send_start_dec(t)
  BY <1>7
    DEF ev_send_start_dec, Goto, sock, bytes, Types, ReadyHeld, Active, Owner
<1>8. CASE ev_send_start_assert(t)
  BY <1>8
  DEF ev_send_start_assert, Empty, Goto, event, sock, bytes, Types
<1>9. CASE ev_send_start_WSASend(t)
  BY <1>9
  DEF ev_send_start_WSASend, Empty, Goto, sock, Types
<1>10. CASE \E sz \in 1 .. accepted : on_ev_send(t, sz)
  BY <1>10 DEF on_ev_send, Empty, Goto, sock, Types, Buffer, NULL
<1>11. CASE on_ev_send_zero(t)
  BY <1>11
  DEF on_ev_send_zero, Goto, sock, bytes, Types
<1>12. CASE on_ev_send_hold(t)
  <2>1. CASE pending + 1 = 2
    BY <1>12, <2>1 DEF on_ev_send_hold, Goto, event, bytes, Types
  <2>2. CASE pending + 1 # 2
    BY <1>12, <2>2 DEF on_ev_send_hold, Goto, event, bytes, Types
  <2> QED
    BY <2>1, <2>2
<1>13. CASE on_ev_send_return(t)
  BY <1>13
  DEF on_ev_send_return, Goto, event, bytes, Types
<1>14. CASE on_ev_send_err(t)
  BY <1>14 DEF on_ev_send_err, Goto, sock, Types, Buffer, NULL
<1>15. CASE on_ev_send_fail(t)
  BY <1>15
  DEF on_ev_send_fail, Goto, sock, bytes, Types
<1>16. CASE on_ev_send_close(t)
  BY <1>16
  DEF on_ev_send_close, inner_close, Goto, event, bytes, Types
<1> QED
  BY <1>1, <1>2, <1>3, <1>4, <1>5, <1>6, <1>7, <1>8, <1>9, <1>10, <1>11,
      <1>12, <1>13, <1>14, <1>15, <1>16
    DEF ThreadStep, Completion, Step

(* Every step preserves that the event has one owner: `ready` is 0 when a  *)
(* thread takes it, so nobody had it.                                      *)
LEMMA NextOneOwner ==
  ASSUME Types, OneOwner, ReadyHeld, NEW t \in Threads, ThreadStep(t)
  PROVE  OneOwner'
<1>1. CASE start_send(t)
  BY <1>1
  DEF start_send, grub_socket, Goto, event, bytes, Types, OneOwner,
      ReadyHeld, Active, Owner
<1>2. CASE \E sz \in Sizes : push_back(t, sz)
  BY <1>2
  DEF push_back, Goto, event, sock, Types, OneOwner, ReadyHeld, Active, Owner
<1>3. CASE start_send_return(t)
  BY <1>3
  DEF start_send_return, dec_socket, Goto, event, sock, bytes, Types,
      OneOwner, ReadyHeld, Active, Owner
<1>4. CASE ev_send_start_cas(t)
  BY <1>4
  DEF ev_send_start_cas, Goto, sock, bytes, Types, OneOwner, ReadyHeld,
      Active, Owner
<1>5. CASE ev_send_start_inc(t)
  BY <1>5
  DEF ev_send_start_inc, Goto, sock, bytes, Types, OneOwner, ReadyHeld,
      Active, Owner
<1>6. CASE ev_send_start_pop(t)
  BY <1>6
  DEF ev_send_start_pop, Goto, sock, bytes, Types, OneOwner, ReadyHeld,
      Active, Owner
<1>7. CASE ev_send_start_dec(t)
  BY <1>7
  DEF ev_send_start_dec, Goto, sock, bytes, Types, OneOwner, ReadyHeld,
      Active, Owner
<1>8. CASE ev_send_start_assert(t)
  BY <1>8
  DEF ev_send_start_assert, Empty, Goto, event, sock, bytes, Types,
      OneOwner, ReadyHeld, Active, Owner
<1>9. CASE ev_send_start_WSASend(t)
  BY <1>9
  DEF ev_send_start_WSASend, Empty, Goto, sock, Types, OneOwner, ReadyHeld,
      Active, Owner
<1>10. CASE \E sz \in 1 .. accepted : on_ev_send(t, sz)
  BY <1>10
  DEF on_ev_send, Empty, Goto, sock, Types, OneOwner, ReadyHeld, Active, Owner
<1>11. CASE on_ev_send_zero(t)
  BY <1>11
  DEF on_ev_send_zero, Goto, sock, bytes, Types, OneOwner, ReadyHeld,
      Active, Owner
<1>12. CASE on_ev_send_hold(t)
  BY <1>12
  DEF on_ev_send_hold, Goto, event, bytes, Types, OneOwner, ReadyHeld,
      Active, Owner
<1>13. CASE on_ev_send_return(t)
  BY <1>13
  DEF on_ev_send_return, Goto, event, bytes, Types, OneOwner, ReadyHeld,
      Active, Owner
<1>14. CASE on_ev_send_err(t)
  BY <1>14
  DEF on_ev_send_err, Goto, sock, Types, OneOwner, ReadyHeld, Active, Owner
<1>15. CASE on_ev_send_fail(t)
  BY <1>15
  DEF on_ev_send_fail, Goto, sock, bytes, Types, OneOwner, ReadyHeld,
      Active, Owner
<1>16. CASE on_ev_send_close(t)
  BY <1>16
  DEF on_ev_send_close, inner_close, Goto, event, bytes, Types, OneOwner,
      ReadyHeld, Active, Owner
<1> QED
  BY <1>1, <1>2, <1>3, <1>4, <1>5, <1>6, <1>7, <1>8, <1>9, <1>10, <1>11,
      <1>12, <1>13, <1>14, <1>15, <1>16
    DEF ThreadStep, Completion, Step

(* Every step preserves the meaning of `ready`.                            *)
LEMMA NextReadyHeld ==
  ASSUME Types, OneOwner, ReadyHeld, StreamInOrder, NEW t \in Threads,
         ThreadStep(t)
  PROVE  ReadyHeld'
<1>1. CASE start_send(t)
  BY <1>1
  DEF start_send, grub_socket, Goto, event, bytes, Types, OneOwner,
      ReadyHeld, Active, Owner
<1>2. CASE \E sz \in Sizes : push_back(t, sz)
  BY <1>2
  DEF push_back, Goto, event, sock, Types, OneOwner, ReadyHeld, Active, Owner
<1>3. CASE start_send_return(t)
  BY <1>3
  DEF start_send_return, dec_socket, Goto, event, sock, bytes, Types,
      OneOwner, ReadyHeld, Active, Owner
<1>4. CASE ev_send_start_cas(t)
  BY <1>4
  DEF ev_send_start_cas, Goto, sock, bytes, Types, OneOwner, ReadyHeld,
      Active, Owner
<1>5. CASE ev_send_start_inc(t)
  BY <1>5
  DEF ev_send_start_inc, Goto, sock, bytes, Types, OneOwner, ReadyHeld,
      Active, Owner
<1>6. CASE ev_send_start_pop(t)
  <2>1. CASE evb # NULL
    BY <1>6, <2>1
      DEF ev_send_start_pop, Goto, sock, bytes, Types, OneOwner, ReadyHeld,
          Active, Owner
  <2>2. CASE evb = NULL /\ wb = <<>>
    BY <1>6, <2>2
      DEF ev_send_start_pop, Goto, sock, bytes, Types, OneOwner, ReadyHeld,
          Active, Owner
  <2>3. CASE evb = NULL /\ wb # <<>>
    <3>1. Head(wb).lo = wire + 1
      BY <2>3 DEF StreamInOrder
    <3>2. Head(wb) # NULL
      BY <3>1 DEF NULL, Types
    <3> QED
      BY <1>6, <2>3, <3>2
        DEF ev_send_start_pop, Goto, sock, bytes, Types, OneOwner, ReadyHeld,
            Active, Owner
  <2> QED
    BY <2>1, <2>2, <2>3
<1>7. CASE ev_send_start_dec(t)
  BY <1>7
  DEF ev_send_start_dec, Goto, sock, bytes, Types, OneOwner, ReadyHeld,
      Active, Owner
<1>8. CASE ev_send_start_assert(t)
  BY <1>8
  DEF ev_send_start_assert, Empty, Goto, event, sock, bytes, Types,
      OneOwner, ReadyHeld, Active, Owner
<1>9. CASE ev_send_start_WSASend(t)
  BY <1>9
  DEF ev_send_start_WSASend, Empty, Goto, sock, Types, OneOwner, ReadyHeld,
      Active, Owner
<1>10. CASE \E sz \in 1 .. accepted : on_ev_send(t, sz)
  BY <1>10
  DEF on_ev_send, Empty, Goto, sock, Types, OneOwner, ReadyHeld, Active, Owner
<1>11. CASE on_ev_send_zero(t)
  BY <1>11
  DEF on_ev_send_zero, Goto, sock, bytes, Types, OneOwner, ReadyHeld,
      Active, Owner
<1>12. CASE on_ev_send_hold(t)
  BY <1>12
  DEF on_ev_send_hold, Goto, event, bytes, Types, OneOwner, ReadyHeld,
      Active, Owner
<1>13. CASE on_ev_send_return(t)
  BY <1>13
  DEF on_ev_send_return, Goto, event, bytes, Types, OneOwner, ReadyHeld,
      Active, Owner
<1>14. CASE on_ev_send_err(t)
  BY <1>14
  DEF on_ev_send_err, Goto, sock, Types, OneOwner, ReadyHeld, Active, Owner
<1>15. CASE on_ev_send_fail(t)
  BY <1>15
  DEF on_ev_send_fail, Goto, sock, bytes, Types, OneOwner, ReadyHeld,
      Active, Owner
<1>16. CASE on_ev_send_close(t)
  BY <1>16
  DEF on_ev_send_close, inner_close, Goto, event, bytes, Types, OneOwner,
      ReadyHeld, Active, Owner
<1> QED
  BY <1>1, <1>2, <1>3, <1>4, <1>5, <1>6, <1>7, <1>8, <1>9, <1>10, <1>11,
      <1>12, <1>13, <1>14, <1>15, <1>16
    DEF ThreadStep, Completion, Step

(* Every step preserves who may be in the handler's phases.                *)
LEMMA NextByHandler ==
  ASSUME Types, ByHandler, NEW t \in Threads, ThreadStep(t)
  PROVE  ByHandler'
<1>1. CASE start_send(t)
  BY <1>1
  DEF start_send, grub_socket, Goto, event, bytes, Types, ByHandler
<1>2. CASE \E sz \in Sizes : push_back(t, sz)
  BY <1>2
  DEF push_back, Goto, event, sock, Types, ByHandler
<1>3. CASE start_send_return(t)
  BY <1>3
  DEF start_send_return, dec_socket, Goto, event, sock, bytes, Types, ByHandler
<1>4. CASE ev_send_start_cas(t)
  BY <1>4
  DEF ev_send_start_cas, Goto, sock, bytes, Types, ByHandler
<1>5. CASE ev_send_start_inc(t)
  BY <1>5
  DEF ev_send_start_inc, Goto, sock, bytes, Types, ByHandler
<1>6. CASE ev_send_start_pop(t)
  BY <1>6
  DEF ev_send_start_pop, Goto, sock, bytes, Types, ByHandler
<1>7. CASE ev_send_start_dec(t)
  BY <1>7
  DEF ev_send_start_dec, Goto, sock, bytes, Types, ByHandler
<1>8. CASE ev_send_start_assert(t)
  BY <1>8
  DEF ev_send_start_assert, Empty, Goto, event, sock, bytes, Types, ByHandler
<1>9. CASE ev_send_start_WSASend(t)
  BY <1>9
  DEF ev_send_start_WSASend, Empty, Goto, sock, Types, ByHandler
<1>10. CASE \E sz \in 1 .. accepted : on_ev_send(t, sz)
  BY <1>10
  DEF on_ev_send, Empty, Goto, sock, Types, ByHandler
<1>11. CASE on_ev_send_zero(t)
  BY <1>11
  DEF on_ev_send_zero, Goto, sock, bytes, Types, ByHandler
<1>12. CASE on_ev_send_hold(t)
  BY <1>12
  DEF on_ev_send_hold, Goto, event, bytes, Types, ByHandler
<1>13. CASE on_ev_send_return(t)
  BY <1>13
  DEF on_ev_send_return, Goto, event, bytes, Types, ByHandler
<1>14. CASE on_ev_send_err(t)
  BY <1>14
  DEF on_ev_send_err, Goto, sock, Types, ByHandler
<1>15. CASE on_ev_send_fail(t)
  BY <1>15
  DEF on_ev_send_fail, Goto, sock, bytes, Types, ByHandler
<1>16. CASE on_ev_send_close(t)
  BY <1>16
  DEF on_ev_send_close, inner_close, Goto, event, bytes, Types, ByHandler
<1> QED
  BY <1>1, <1>2, <1>3, <1>4, <1>5, <1>6, <1>7, <1>8, <1>9, <1>10, <1>11,
      <1>12, <1>13, <1>14, <1>15, <1>16
    DEF ThreadStep, Completion, Step

(* Every step preserves that an owner about to leave is told of new work.  *)
LEMMA NextLeavesNoneBehind ==
  ASSUME Types, OneOwner, ReadyHeld, LeavesNoneBehind, NEW t \in Threads,
         ThreadStep(t)
  PROVE  LeavesNoneBehind'
<1>1. CASE start_send(t)
  BY <1>1
  DEF start_send, grub_socket, Goto, event, bytes, Types, OneOwner,
      ReadyHeld, Active, Owner, LeavesNoneBehind
<1>2. CASE \E sz \in Sizes : push_back(t, sz)
  BY <1>2
  DEF push_back, Goto, event, sock, Types, OneOwner, ReadyHeld, Active,
      Owner, LeavesNoneBehind
<1>3. CASE start_send_return(t)
  BY <1>3
  DEF start_send_return, dec_socket, Goto, event, sock, bytes, Types,
      OneOwner, ReadyHeld, Active, Owner, LeavesNoneBehind
<1>4. CASE ev_send_start_cas(t)
  BY <1>4
  DEF ev_send_start_cas, Goto, sock, bytes, Types, OneOwner, ReadyHeld,
      Active, Owner, LeavesNoneBehind
<1>5. CASE ev_send_start_inc(t)
  BY <1>5
  DEF ev_send_start_inc, Goto, sock, bytes, Types, OneOwner, ReadyHeld,
      Active, Owner, LeavesNoneBehind
<1>6. CASE ev_send_start_pop(t)
  BY <1>6
  DEF ev_send_start_pop, Goto, sock, bytes, Types, OneOwner, ReadyHeld,
      Active, Owner, LeavesNoneBehind
<1>7. CASE ev_send_start_dec(t)
  BY <1>7
  DEF ev_send_start_dec, Goto, sock, bytes, Types, OneOwner, ReadyHeld,
      Active, Owner, LeavesNoneBehind
<1>8. CASE ev_send_start_assert(t)
  BY <1>8
  DEF ev_send_start_assert, Empty, Goto, event, sock, bytes, Types,
      OneOwner, ReadyHeld, Active, Owner, LeavesNoneBehind
<1>9. CASE ev_send_start_WSASend(t)
  BY <1>9
  DEF ev_send_start_WSASend, Empty, Goto, sock, Types, OneOwner, ReadyHeld,
      Active, Owner, LeavesNoneBehind
<1>10. CASE \E sz \in 1 .. accepted : on_ev_send(t, sz)
  BY <1>10
  DEF on_ev_send, Empty, Goto, sock, Types, OneOwner, ReadyHeld, Active,
      Owner, LeavesNoneBehind
<1>11. CASE on_ev_send_zero(t)
  BY <1>11
  DEF on_ev_send_zero, Goto, sock, bytes, Types, OneOwner, ReadyHeld,
      Active, Owner, LeavesNoneBehind
<1>12. CASE on_ev_send_hold(t)
  BY <1>12
  DEF on_ev_send_hold, Goto, event, bytes, Types, OneOwner, ReadyHeld,
      Active, Owner, LeavesNoneBehind
<1>13. CASE on_ev_send_return(t)
  BY <1>13
  DEF on_ev_send_return, Goto, event, bytes, Types, OneOwner, ReadyHeld,
      Active, Owner, LeavesNoneBehind
<1>14. CASE on_ev_send_err(t)
  BY <1>14
  DEF on_ev_send_err, Goto, sock, Types, OneOwner, ReadyHeld, Active, Owner,
      LeavesNoneBehind
<1>15. CASE on_ev_send_fail(t)
  BY <1>15
  DEF on_ev_send_fail, Goto, sock, bytes, Types, OneOwner, ReadyHeld,
      Active, Owner, LeavesNoneBehind
<1>16. CASE on_ev_send_close(t)
  BY <1>16
  DEF on_ev_send_close, inner_close, Goto, event, bytes, Types, OneOwner,
      ReadyHeld, Active, Owner, LeavesNoneBehind
<1> QED
  BY <1>1, <1>2, <1>3, <1>4, <1>5, <1>6, <1>7, <1>8, <1>9, <1>10, <1>11,
      <1>12, <1>13, <1>14, <1>15, <1>16
    DEF ThreadStep, Completion, Step

(* Every step preserves that waiting bytes have somebody to send them.     *)
LEMMA NextNoLostWakeup ==
  ASSUME Types, OneOwner, ReadyHeld, LeavesNoneBehind, NoLostWakeup,
         pending >= 2, NEW t \in Threads, ThreadStep(t)
  PROVE  NoLostWakeup'
<1>1. CASE start_send(t)
  BY <1>1
  DEF start_send, grub_socket, Goto, event, bytes, Types, OneOwner,
      ReadyHeld, Active, Owner, LeavesNoneBehind, NoLostWakeup
<1>2. CASE \E sz \in Sizes : push_back(t, sz)
  BY <1>2
  DEF push_back, Goto, event, sock, Types, OneOwner, ReadyHeld, Active,
      Owner, LeavesNoneBehind, NoLostWakeup
<1>3. CASE start_send_return(t)
  BY <1>3
  DEF start_send_return, dec_socket, Goto, event, sock, bytes, Types,
      OneOwner, ReadyHeld, Active, Owner, LeavesNoneBehind, NoLostWakeup
<1>4. CASE ev_send_start_cas(t)
  BY <1>4
  DEF ev_send_start_cas, Goto, sock, bytes, Types, OneOwner, ReadyHeld,
      Active, Owner, LeavesNoneBehind, NoLostWakeup
<1>5. CASE ev_send_start_inc(t)
  BY <1>5
  DEF ev_send_start_inc, Goto, sock, bytes, Types, OneOwner, ReadyHeld,
      Active, Owner, LeavesNoneBehind, NoLostWakeup
<1>6. CASE ev_send_start_pop(t)
  BY <1>6
  DEF ev_send_start_pop, Goto, sock, bytes, Types, OneOwner, ReadyHeld,
      Active, Owner, LeavesNoneBehind, NoLostWakeup
<1>7. CASE ev_send_start_dec(t)
  BY <1>7
  DEF ev_send_start_dec, Goto, sock, bytes, Types, OneOwner, ReadyHeld,
      Active, Owner, LeavesNoneBehind, NoLostWakeup
<1>8. CASE ev_send_start_assert(t)
  BY <1>8
  DEF ev_send_start_assert, Empty, Goto, event, sock, bytes, Types,
      OneOwner, ReadyHeld, Active, Owner, LeavesNoneBehind, NoLostWakeup
<1>9. CASE ev_send_start_WSASend(t)
  BY <1>9
  DEF ev_send_start_WSASend, Empty, Goto, sock, Types, OneOwner, ReadyHeld,
      Active, Owner, LeavesNoneBehind, NoLostWakeup
<1>10. CASE \E sz \in 1 .. accepted : on_ev_send(t, sz)
  BY <1>10
  DEF on_ev_send, Empty, Goto, sock, Types, OneOwner, ReadyHeld, Active,
      Owner, LeavesNoneBehind, NoLostWakeup
<1>11. CASE on_ev_send_zero(t)
  BY <1>11
  DEF on_ev_send_zero, Goto, sock, bytes, Types, OneOwner, ReadyHeld,
      Active, Owner, LeavesNoneBehind, NoLostWakeup
<1>12. CASE on_ev_send_hold(t)
  BY <1>12
  DEF on_ev_send_hold, Goto, event, bytes, Types, OneOwner, ReadyHeld,
      Active, Owner, LeavesNoneBehind, NoLostWakeup
<1>13. CASE on_ev_send_return(t)
  BY <1>13
  DEF on_ev_send_return, Goto, event, bytes, Types, OneOwner, ReadyHeld,
      Active, Owner, LeavesNoneBehind, NoLostWakeup
<1>14. CASE on_ev_send_err(t)
  BY <1>14
  DEF on_ev_send_err, Goto, sock, Types, OneOwner, ReadyHeld, Active, Owner,
      LeavesNoneBehind, NoLostWakeup
<1>15. CASE on_ev_send_fail(t)
  BY <1>15
  DEF on_ev_send_fail, Goto, sock, bytes, Types, OneOwner, ReadyHeld,
      Active, Owner, LeavesNoneBehind, NoLostWakeup
<1>16. CASE on_ev_send_close(t)
  BY <1>16
  DEF on_ev_send_close, inner_close, Goto, event, bytes, Types, OneOwner,
      ReadyHeld, Active, Owner, LeavesNoneBehind, NoLostWakeup
<1> QED
  BY <1>1, <1>2, <1>3, <1>4, <1>5, <1>6, <1>7, <1>8, <1>9, <1>10, <1>11,
      <1>12, <1>13, <1>14, <1>15, <1>16
    DEF ThreadStep, Completion, Step

(* Every step preserves the order of the stream.                           *)
LEMMA NextStreamInOrder ==
  ASSUME Types, OneOwner, StreamInOrder, NEW t \in Threads, ThreadStep(t)
  PROVE  StreamInOrder'
<1>1. CASE start_send(t)
  BY <1>1
  DEF start_send, grub_socket, Goto, event, bytes, Types, StreamInOrder
<1>2. CASE \E sz \in Sizes : push_back(t, sz)
  BY <1>2
  DEF push_back, Goto, event, sock, Types, StreamInOrder
<1>3. CASE start_send_return(t)
  BY <1>3
  DEF start_send_return, dec_socket, Goto, event, sock, bytes, Types,
      StreamInOrder
<1>4. CASE ev_send_start_cas(t)
  BY <1>4
  DEF ev_send_start_cas, Goto, sock, bytes, Types, StreamInOrder
<1>5. CASE ev_send_start_inc(t)
  BY <1>5
  DEF ev_send_start_inc, Goto, sock, bytes, Types, StreamInOrder
<1>6. CASE ev_send_start_pop(t)
  <2>1. CASE evb # NULL \/ wb = <<>>
    BY <1>6, <2>1 DEF ev_send_start_pop, Goto, sock, bytes, Types, StreamInOrder
  <2>2. CASE evb = NULL /\ wb # <<>>
    <3>1. evb' = Head(wb) /\ wb' = Tail(wb) /\ wire' = wire /\ accepted' = accepted
          /\ inflight' = inflight
      BY <1>6, <2>2 DEF ev_send_start_pop, bytes
    <3>2. /\ Head(wb).lo = wire + 1 /\ wb[Len(wb)].hi = accepted
          /\ \A i \in 1 .. Len(wb) - 1 : wb[i + 1].lo = wb[i].hi + 1
      BY <2>2 DEF StreamInOrder
    <3>3. /\ Head(wb) = wb[1] /\ Len(wb) \in Nat /\ Len(wb) >= 1
          /\ Len(Tail(wb)) = Len(wb) - 1 /\ Tail(wb) \in Seq(Buffer)
          /\ \A i \in 1 .. Len(wb) - 1 : Tail(wb)[i] = wb[i + 1]
      BY <2>2, HeadTailProperties DEF Types
    <3>4. evb' # NULL
      BY <3>1, <3>2 DEF NULL, Types
    <3>5. inflight = NULL
      BY <2>2 DEF OneOwner
    <3>6. ASSUME Tail(wb) # <<>>
          PROVE  Head(Tail(wb)).lo = Head(wb).hi + 1
                 /\ Tail(wb)[Len(Tail(wb))].hi = accepted
      <4>1. Len(wb) >= 2
        BY <3>3, <3>6
      <4>2. Head(Tail(wb)) = Tail(wb)[1]
        BY <3>3, <3>6
      <4> QED
        BY <3>2, <3>3, <4>1, <4>2
    <3>7. ASSUME Tail(wb) = <<>>
          PROVE  Head(wb).hi = accepted
      <4>1. Len(wb) = 1
        BY <3>3, <3>7
      <4> QED
        BY <3>2, <3>3, <4>1
    <3>8. \A i \in 1 .. Len(Tail(wb)) - 1 : Tail(wb)[i + 1].lo = Tail(wb)[i].hi + 1
      BY <3>2, <3>3
    <3> QED
      BY <3>1, <3>2, <3>4, <3>5, <3>6, <3>7, <3>8 DEF StreamInOrder, Types
  <2> QED
    BY <2>1, <2>2
<1>7. CASE ev_send_start_dec(t)
  BY <1>7
  DEF ev_send_start_dec, Goto, sock, bytes, Types, StreamInOrder
<1>8. CASE ev_send_start_assert(t)
  BY <1>8
  DEF ev_send_start_assert, Empty, Goto, event, sock, bytes, Types, StreamInOrder
<1>9. CASE ev_send_start_WSASend(t)
  BY <1>9
  DEF ev_send_start_WSASend, Empty, Goto, sock, Types, StreamInOrder
<1>10. CASE \E sz \in 1 .. accepted : on_ev_send(t, sz)
  <2>1. PICK sz \in 1 .. accepted : on_ev_send(t, sz)
    BY <1>10
  <2>2. /\ evb \in Buffer /\ evb # NULL /\ inflight = evb /\ evb.lo = wire + 1
        /\ sz \in 1 .. evb.hi - evb.lo + 1 /\ wire \in Nat /\ accepted \in Nat
    BY <2>1 DEF on_ev_send, OneOwner, StreamInOrder, Types
  <2>3. /\ wire' = wire + sz /\ inflight' = NULL /\ wb' = wb /\ accepted' = accepted
        /\ evb' = IF evb.lo + sz > evb.hi THEN NULL ELSE [lo |-> evb.lo + sz, hi |-> evb.hi]
    BY <2>1 DEF on_ev_send, Empty
  <2>4. CASE evb.lo + sz > evb.hi
    <3>1. evb' = NULL /\ wire' + 1 = evb.hi + 1
      BY <2>2, <2>3, <2>4 DEF Buffer
    <3> QED
      BY <2>2, <2>3, <3>1 DEF StreamInOrder
  <2>5. CASE ~(evb.lo + sz > evb.hi)
    <3>1. evb' # NULL /\ evb'.lo = wire' + 1 /\ evb'.hi = evb.hi
      BY <2>2, <2>3, <2>5 DEF Buffer, NULL
    <3> QED
      BY <2>2, <2>3, <3>1 DEF StreamInOrder
  <2> QED
    BY <2>4, <2>5
<1>11. CASE on_ev_send_zero(t)
  BY <1>11
  DEF on_ev_send_zero, Goto, sock, bytes, Types, StreamInOrder
<1>12. CASE on_ev_send_hold(t)
  BY <1>12
  DEF on_ev_send_hold, Goto, event, bytes, Types, StreamInOrder
<1>13. CASE on_ev_send_return(t)
  BY <1>13
  DEF on_ev_send_return, Goto, event, bytes, Types, StreamInOrder
<1>14. CASE on_ev_send_err(t)
  BY <1>14
  DEF on_ev_send_err, Goto, sock, Types, StreamInOrder
<1>15. CASE on_ev_send_fail(t)
  BY <1>15
  DEF on_ev_send_fail, Goto, sock, bytes, Types, StreamInOrder
<1>16. CASE on_ev_send_close(t)
  BY <1>16
  DEF on_ev_send_close, inner_close, Goto, event, bytes, Types, StreamInOrder
<1> QED
  BY <1>1, <1>2, <1>3, <1>4, <1>5, <1>6, <1>7, <1>8, <1>9, <1>10, <1>11,
      <1>12, <1>13, <1>14, <1>15, <1>16
    DEF ThreadStep, Completion, Step

(* A step of t changes at most t's membership in Holding and in Restart.   *)
LEMMA RefsOfOthers ==
  ASSUME Types, NEW t \in Threads, pc' = [pc EXCEPT ![t] = pc'[t]],
         by' = [by EXCEPT ![t] = by'[t]]
  PROVE  Holding' \ {t} = Holding \ {t} /\ Restart' \ {t} = Restart \ {t}
         /\ IsFiniteSet(Holding) /\ IsFiniteSet(Restart)
<1>1. IsFiniteSet(Holding) /\ IsFiniteSet(Restart)
  BY ThreadsFinite, FS_Subset DEF Holding, Restart
<1>2. \A u \in Threads : u # t => pc'[u] = pc[u] /\ by'[u] = by[u]
  BY DEF Types
<1> QED
  BY <1>1, <1>2 DEF Holding, Restart

(* Every step preserves that the references are covered, and so never tears *)
(* the socket down: on_ev_send finds more than its own references.         *)
LEMMA NextRefs ==
  ASSUME Types, OneOwner, ByHandler, RefsCovered, ~closed,
         NEW t \in Threads, ThreadStep(t)
  PROVE  (RefsCovered /\ ~closed)'
<1>p. pc' = [pc EXCEPT ![t] = pc'[t]] /\ by' = [by EXCEPT ![t] = by'[t]]
  <2>1. CASE start_send(t)
    BY <2>1 DEF start_send, Goto, Types
  <2>2. CASE \E sz \in Sizes : push_back(t, sz)
    BY <2>2 DEF push_back, Goto, Types
  <2>3. CASE start_send_return(t)
    BY <2>3 DEF start_send_return, Goto, Types
  <2>4. CASE ev_send_start_cas(t)
    BY <2>4 DEF ev_send_start_cas, Goto, Types
  <2>5. CASE ev_send_start_inc(t)
    BY <2>5 DEF ev_send_start_inc, Goto, Types
  <2>6. CASE ev_send_start_pop(t)
    BY <2>6 DEF ev_send_start_pop, Goto, Types
  <2>7. CASE ev_send_start_dec(t)
    BY <2>7 DEF ev_send_start_dec, Goto, Types
  <2>8. CASE ev_send_start_assert(t)
    BY <2>8 DEF ev_send_start_assert, Goto, Types
  <2>9. CASE ev_send_start_WSASend(t)
    BY <2>9 DEF ev_send_start_WSASend, Goto, Types
  <2>10. CASE \E sz \in 1 .. accepted : on_ev_send(t, sz)
    BY <2>10 DEF on_ev_send, Goto, Types
  <2>11. CASE on_ev_send_zero(t)
    BY <2>11 DEF on_ev_send_zero, Goto, Types
  <2>12. CASE on_ev_send_hold(t)
    BY <2>12 DEF on_ev_send_hold, Goto, Types
  <2>13. CASE on_ev_send_return(t)
    BY <2>13 DEF on_ev_send_return, Goto, Types
  <2>14. CASE on_ev_send_err(t)
    BY <2>14 DEF on_ev_send_err, Goto, Types
  <2>15. CASE on_ev_send_fail(t)
    BY <2>15 DEF on_ev_send_fail, Goto, Types
  <2>16. CASE on_ev_send_close(t)
    BY <2>16 DEF on_ev_send_close, Goto, Types
  <2> QED
    BY <2>1, <2>2, <2>3, <2>4, <2>5, <2>6, <2>7, <2>8, <2>9, <2>10, <2>11,
        <2>12, <2>13, <2>14, <2>15, <2>16
      DEF ThreadStep, Completion, Step
<1>o. /\ Holding' \ {t} = Holding \ {t} /\ Restart' \ {t} = Restart \ {t}
      /\ IsFiniteSet(Holding) /\ IsFiniteSet(Restart)
  BY <1>p, RefsOfOthers
<1>h. /\ Cardinality(Holding) \in Nat /\ Cardinality(Holding') \in Nat
      /\ t \in Holding /\ t \in Holding' =>
            Cardinality(Holding') = Cardinality(Holding)
      /\ t \notin Holding /\ t \notin Holding' =>
            Cardinality(Holding') = Cardinality(Holding)
      /\ t \in Holding /\ t \notin Holding' =>
            Cardinality(Holding') = Cardinality(Holding) - 1
      /\ t \notin Holding /\ t \in Holding' =>
            Cardinality(Holding') = Cardinality(Holding) + 1
  BY <1>o, OneChanges
<1>r. /\ Cardinality(Restart) \in Nat /\ Cardinality(Restart') \in Nat
      /\ t \in Restart /\ t \in Restart' =>
            Cardinality(Restart') = Cardinality(Restart)
      /\ t \notin Restart /\ t \notin Restart' =>
            Cardinality(Restart') = Cardinality(Restart)
      /\ t \in Restart /\ t \notin Restart' =>
            Cardinality(Restart') = Cardinality(Restart) - 1
      /\ t \notin Restart /\ t \in Restart' =>
            Cardinality(Restart') = Cardinality(Restart) + 1
  BY <1>o, OneChanges
<1>c. t \in Holding => Cardinality(Holding) >= 1
  BY <1>h, <1>o, FS_EmptySet
<1>t. /\ pending \in Int /\ Cardinality(Holding) \in Nat /\ Cardinality(Restart) \in Nat
      /\ pending >= 2 + Cardinality(Holding) + Cardinality(Restart)
                     + (IF inflight # NULL THEN 1 ELSE 0)
      /\ closed = FALSE
  BY <1>h, <1>r DEF RefsCovered, Types
<1>1. CASE start_send(t)
  <2>1. t \notin Holding /\ t \in Holding' /\ t \notin Restart /\ t \notin Restart'
    BY <1>1
      DEF start_send, grub_socket, Goto, event, bytes, Types, Holding, Restart
  <2>2. pending' = pending + 1 /\ closed' = closed /\ inflight' = inflight
    BY <1>1 DEF start_send, grub_socket, event
  <2>3. /\ Cardinality(Holding') = Cardinality(Holding) + 1
        /\ Cardinality(Restart') = Cardinality(Restart)
    BY <2>1, <1>h, <1>r
  <2> QED
    BY <2>2, <2>3, <1>t DEF RefsCovered
<1>2. CASE \E sz \in Sizes : push_back(t, sz)
  <2>p. PICK sz \in Sizes : push_back(t, sz)
    BY <1>2
  <2>1. t \in Holding /\ t \in Holding' /\ (t \in Restart <=> t \in Restart')
    BY <2>p
      DEF push_back, Goto, event, sock, Types, ByHandler, Holding, Restart
  <2>2. pending' = pending /\ closed' = closed /\ inflight' = inflight
    BY <2>p DEF push_back, event, sock
  <2>3. /\ Cardinality(Holding') = Cardinality(Holding)
        /\ Cardinality(Restart') = Cardinality(Restart)
    BY <2>1, <1>h, <1>r
  <2> QED
    BY <2>2, <2>3, <1>t DEF RefsCovered
<1>3. CASE start_send_return(t)
  <2>1. CASE Goto(t, "ok", "idle") /\ UNCHANGED sock
    <3>1. t \notin Holding /\ t \notin Holding' /\ t \notin Restart /\ t \notin Restart'
      BY <1>3, <2>1
        DEF start_send_return, dec_socket, Goto, event, sock, bytes, Types,
            ByHandler, Holding, Restart
    <3>2. pending' = pending /\ closed' = closed /\ inflight' = inflight
      BY <1>3, <2>1 DEF start_send_return, event, sock
    <3>3. /\ Cardinality(Holding') = Cardinality(Holding)
          /\ Cardinality(Restart') = Cardinality(Restart)
      BY <3>1, <1>h, <1>r
    <3> QED
      BY <3>2, <3>3, <1>t DEF RefsCovered
  <2>2. CASE Goto(t, "err", "idle") /\ dec_socket
    <3>1. t \in Holding /\ t \notin Holding' /\ t \notin Restart /\ t \notin Restart'
      BY <1>3, <2>2
        DEF start_send_return, dec_socket, Goto, event, sock, bytes, Types,
            ByHandler, Holding, Restart
    <3>2. pending' = pending - 1 /\ closed' = (closed \/ pending = 1) /\ inflight' = inflight
      BY <1>3, <2>2 DEF start_send_return, dec_socket, event
    <3>3. /\ Cardinality(Holding') = Cardinality(Holding) - 1
          /\ Cardinality(Restart') = Cardinality(Restart)
      BY <3>1, <1>h, <1>r
    <3>4. ~(pending = 1)
      BY <3>1, <1>c, <1>t
    <3>5. ~closed'
      BY <3>2, <3>4, <1>t, Zenon
    <3>6. RefsCovered'
      BY <3>2, <3>3, <1>t DEF RefsCovered
    <3> QED
      BY <3>5, <3>6
  <2> QED
    BY <1>3, <2>1, <2>2 DEF start_send_return
<1>4. CASE ev_send_start_cas(t)
  <2>1. CASE ready = 0
    <3>1. t \in Holding /\ t \in Holding' /\ (t \in Restart <=> t \in Restart')
      BY <1>4, <2>1
        DEF ev_send_start_cas, Goto, sock, bytes, Types, ByHandler, Holding,
            Restart
    <3>2. pending' = pending /\ closed' = closed /\ inflight' = inflight
      BY <1>4 DEF ev_send_start_cas, sock
    <3>3. /\ Cardinality(Holding') = Cardinality(Holding)
          /\ Cardinality(Restart') = Cardinality(Restart)
      BY <3>1, <1>h, <1>r
    <3> QED
      BY <3>2, <3>3, <1>t DEF RefsCovered
  <2>2. CASE ready # 0
    <3>1. t \in Holding /\ t \in Holding' /\ (t \in Restart <=> t \in Restart')
      BY <1>4, <2>2
        DEF ev_send_start_cas, Goto, sock, bytes, Types, ByHandler, Holding,
            Restart
    <3>2. pending' = pending /\ closed' = closed /\ inflight' = inflight
      BY <1>4 DEF ev_send_start_cas, sock
    <3>3. /\ Cardinality(Holding') = Cardinality(Holding)
          /\ Cardinality(Restart') = Cardinality(Restart)
      BY <3>1, <1>h, <1>r
    <3> QED
      BY <3>2, <3>3, <1>t DEF RefsCovered
  <2> QED
    BY <2>1, <2>2
<1>5. CASE ev_send_start_inc(t)
  <2>1. (t \in Holding' => t \in Holding) /\ (t \in Restart' => t \in Restart)
    BY <1>5 DEF ev_send_start_inc, Goto, sock, bytes, Types, Holding, Restart
  <2>2. pending' = pending /\ closed' = closed /\ inflight' = inflight
    BY <1>5 DEF ev_send_start_inc, sock
  <2>3. Cardinality(Holding') \in Nat /\ Cardinality(Holding') <= Cardinality(Holding)
    BY <2>1, <1>h
  <2>4. Cardinality(Restart') \in Nat /\ Cardinality(Restart') <= Cardinality(Restart)
    BY <2>1, <1>r
  <2> QED
    BY <2>2, <2>3, <2>4, <1>t DEF RefsCovered
<1>6. CASE ev_send_start_pop(t)
  <2>1. t \in Holding /\ t \in Holding' /\ (t \in Restart <=> t \in Restart')
    BY <1>6
      DEF ev_send_start_pop, Goto, sock, bytes, Types, ByHandler, Holding, Restart
  <2>2. pending' = pending /\ closed' = closed /\ inflight' = inflight
    BY <1>6 DEF ev_send_start_pop, sock
  <2>3. /\ Cardinality(Holding') = Cardinality(Holding)
        /\ Cardinality(Restart') = Cardinality(Restart)
    BY <2>1, <1>h, <1>r
  <2> QED
    BY <2>2, <2>3, <1>t DEF RefsCovered
<1>7. CASE ev_send_start_dec(t)
  <2>1. (t \in Holding' => t \in Holding) /\ (t \in Restart' => t \in Restart)
    BY <1>7 DEF ev_send_start_dec, Goto, sock, bytes, Types, Holding, Restart
  <2>2. pending' = pending /\ closed' = closed /\ inflight' = inflight
    BY <1>7 DEF ev_send_start_dec, sock
  <2>3. Cardinality(Holding') \in Nat /\ Cardinality(Holding') <= Cardinality(Holding)
    BY <2>1, <1>h
  <2>4. Cardinality(Restart') \in Nat /\ Cardinality(Restart') <= Cardinality(Restart)
    BY <2>1, <1>r
  <2> QED
    BY <2>2, <2>3, <2>4, <1>t DEF RefsCovered
<1>8. CASE ev_send_start_assert(t)
  <2>1. t \in Holding /\ t \in Holding' /\ (t \in Restart <=> t \in Restart')
    BY <1>8
      DEF ev_send_start_assert, Goto, event, sock, bytes, Types, ByHandler,
          Holding, Restart
  <2>2. pending' = pending /\ closed' = closed /\ inflight' = inflight
    BY <1>8 DEF ev_send_start_assert, event, sock
  <2>3. /\ Cardinality(Holding') = Cardinality(Holding)
        /\ Cardinality(Restart') = Cardinality(Restart)
    BY <2>1, <1>h, <1>r
  <2> QED
    BY <2>2, <2>3, <1>t DEF RefsCovered
<1>9. CASE ev_send_start_WSASend(t)
  <2>1. CASE Goto(t, "send", "ok") /\ by[t] = "start_send"
    <3>1. t \in Holding /\ t \notin Holding' /\ t \notin Restart /\ t \notin Restart'
      BY <1>9, <2>1
        DEF ev_send_start_WSASend, Empty, Goto, sock, Types, Holding, Restart
    <3>2. pending' = pending /\ closed' = closed
      BY <1>9 DEF ev_send_start_WSASend, sock
    <3>3. /\ Cardinality(Holding') = Cardinality(Holding) - 1
          /\ Cardinality(Restart') = Cardinality(Restart)
      BY <3>1, <1>h, <1>r
    <3> QED
      BY <3>2, <3>3, <1>t DEF RefsCovered
  <2>2. CASE Goto(t, "send", "ok") /\ by[t] = "on_ev_send"
    <3>1. t \in Holding /\ t \in Holding' /\ t \in Restart /\ t \notin Restart'
      BY <1>9, <2>2
        DEF ev_send_start_WSASend, Empty, Goto, sock, Types, Holding, Restart
    <3>2. pending' = pending /\ closed' = closed
      BY <1>9 DEF ev_send_start_WSASend, sock
    <3>3. /\ Cardinality(Holding') = Cardinality(Holding)
          /\ Cardinality(Restart') = Cardinality(Restart) - 1
      BY <3>1, <1>h, <1>r
    <3> QED
      BY <3>2, <3>3, <1>t DEF RefsCovered
  <2>3. CASE Goto(t, "send", "err") /\ UNCHANGED inflight
    <3>1. t \in Holding /\ t \in Holding' /\ (t \in Restart <=> t \in Restart')
      BY <1>9, <2>3
        DEF ev_send_start_WSASend, Empty, Goto, sock, Types, Holding, Restart
    <3>2. pending' = pending /\ closed' = closed /\ inflight' = inflight
      BY <1>9, <2>3 DEF ev_send_start_WSASend, sock
    <3>3. /\ Cardinality(Holding') = Cardinality(Holding)
          /\ Cardinality(Restart') = Cardinality(Restart)
      BY <3>1, <1>h, <1>r
    <3> QED
      BY <3>2, <3>3, <1>t DEF RefsCovered
  <2> QED
    BY <1>9, <2>1, <2>2, <2>3 DEF ev_send_start_WSASend, Types
<1>10. CASE \E sz \in 1 .. accepted : on_ev_send(t, sz)
  <2>p. PICK sz \in 1 .. accepted : on_ev_send(t, sz)
    BY <1>10
  <2>1. t \notin Holding /\ t \in Holding' /\ t \notin Restart /\ t \notin Restart'
    BY <2>p
      DEF on_ev_send, Goto, sock, Types, ByHandler, Holding, Restart
  <2>2. pending' = pending /\ closed' = closed /\ inflight # NULL /\ inflight' = NULL
    BY <2>p DEF on_ev_send, sock
  <2>3. /\ Cardinality(Holding') = Cardinality(Holding) + 1
        /\ Cardinality(Restart') = Cardinality(Restart)
    BY <2>1, <1>h, <1>r
  <2> QED
    BY <2>2, <2>3, <1>t DEF RefsCovered
<1>11. CASE on_ev_send_zero(t)
  <2>1. t \in Holding /\ t \in Holding' /\ t \notin Restart /\ t \notin Restart'
    BY <1>11
      DEF on_ev_send_zero, Goto, sock, bytes, Types, ByHandler, Holding, Restart
  <2>2. pending' = pending /\ closed' = closed /\ inflight' = inflight
    BY <1>11 DEF on_ev_send_zero, sock
  <2>3. /\ Cardinality(Holding') = Cardinality(Holding)
        /\ Cardinality(Restart') = Cardinality(Restart)
    BY <2>1, <1>h, <1>r
  <2> QED
    BY <2>2, <2>3, <1>t DEF RefsCovered
<1>12. CASE on_ev_send_hold(t)
  <2>1. t \in Holding /\ t \notin Restart
    BY <1>12 DEF on_ev_send_hold, Goto, Holding, Restart
  <2>2. pending + 1 # 2
    BY <2>1, <1>c, <1>t
  <2>3. t \in Holding' /\ t \in Restart'
    BY <1>12, <2>2
      DEF on_ev_send_hold, Goto, event, bytes, Types, ByHandler, Holding,
          Restart
  <2>4. pending' = pending + 1 /\ closed' = closed /\ inflight' = inflight
    BY <1>12, <2>2 DEF on_ev_send_hold, event
  <2>5. /\ Cardinality(Holding') = Cardinality(Holding)
        /\ Cardinality(Restart') = Cardinality(Restart) + 1
    BY <2>1, <2>3, <1>h, <1>r
  <2> QED
    BY <2>4, <2>5, <1>t DEF RefsCovered
<1>13. CASE on_ev_send_return(t)
  <2>1. CASE Goto(t, "ok", "idle")
    <3>1. t \in Holding /\ t \notin Holding' /\ t \notin Restart /\ t \notin Restart'
      BY <1>13, <2>1
        DEF on_ev_send_return, Goto, event, bytes, Types, ByHandler, Holding,
            Restart
    <3>2. pending' = pending - 1 /\ closed' = closed /\ inflight' = inflight
      BY <1>13 DEF on_ev_send_return, event
    <3>3. /\ Cardinality(Holding') = Cardinality(Holding) - 1
          /\ Cardinality(Restart') = Cardinality(Restart)
      BY <3>1, <1>h, <1>r
    <3> QED
      BY <3>2, <3>3, <1>t DEF RefsCovered
  <2>2. CASE Goto(t, "err", "close")
    <3>1. t \in Holding /\ t \in Holding' /\ t \in Restart /\ t \notin Restart'
      BY <1>13, <2>2
        DEF on_ev_send_return, Goto, event, bytes, Types, ByHandler, Holding,
            Restart
    <3>2. pending' = pending - 1 /\ closed' = closed /\ inflight' = inflight
      BY <1>13 DEF on_ev_send_return, event
    <3>3. /\ Cardinality(Holding') = Cardinality(Holding)
          /\ Cardinality(Restart') = Cardinality(Restart) - 1
      BY <3>1, <1>h, <1>r
    <3> QED
      BY <3>2, <3>3, <1>t DEF RefsCovered
  <2> QED
    BY <1>13, <2>1, <2>2 DEF on_ev_send_return
<1>14. CASE on_ev_send_err(t)
  <2>1. t \notin Holding /\ t \in Holding' /\ t \notin Restart /\ t \notin Restart'
    BY <1>14
      DEF on_ev_send_err, Goto, sock, Types, ByHandler, Holding, Restart
  <2>2. pending' = pending /\ closed' = closed /\ inflight # NULL /\ inflight' = NULL
    BY <1>14 DEF on_ev_send_err, sock
  <2>3. /\ Cardinality(Holding') = Cardinality(Holding) + 1
        /\ Cardinality(Restart') = Cardinality(Restart)
    BY <2>1, <1>h, <1>r
  <2> QED
    BY <2>2, <2>3, <1>t DEF RefsCovered
<1>15. CASE on_ev_send_fail(t)
  <2>1. t \in Holding /\ t \in Holding' /\ t \notin Restart /\ t \notin Restart'
    BY <1>15
      DEF on_ev_send_fail, Goto, sock, bytes, Types, ByHandler, Holding, Restart
  <2>2. pending' = pending /\ closed' = closed /\ inflight' = inflight
    BY <1>15 DEF on_ev_send_fail, sock
  <2>3. /\ Cardinality(Holding') = Cardinality(Holding)
        /\ Cardinality(Restart') = Cardinality(Restart)
    BY <2>1, <1>h, <1>r
  <2> QED
    BY <2>2, <2>3, <1>t DEF RefsCovered
<1>16. CASE on_ev_send_close(t)
  <2>1. t \in Holding /\ t \notin Holding' /\ t \notin Restart /\ t \notin Restart'
    BY <1>16
      DEF on_ev_send_close, inner_close, Goto, event, bytes, Types,
          ByHandler, Holding, Restart
  <2>2. pending' = pending - 1 /\ closed' = (closed \/ pending <= 1) /\ inflight' = inflight
    BY <1>16 DEF on_ev_send_close, inner_close, event
  <2>3. /\ Cardinality(Holding') = Cardinality(Holding) - 1
        /\ Cardinality(Restart') = Cardinality(Restart)
    BY <2>1, <1>h, <1>r
  <2>4. ~(pending <= 1)
    BY <2>1, <1>c, <1>t
  <2>5. ~closed'
    BY <2>2, <2>4, <1>t, Zenon
  <2>6. RefsCovered'
    BY <2>2, <2>3, <1>t DEF RefsCovered
  <2> QED
    BY <2>5, <2>6
<1> QED
  BY <1>1, <1>2, <1>3, <1>4, <1>5, <1>6, <1>7, <1>8, <1>9, <1>10, <1>11,
      <1>12, <1>13, <1>14, <1>15, <1>16
    DEF ThreadStep, Completion, Step

-------------------------------------------------------------------------------
(* The invariant holds in the connected socket.                            *)
LEMMA InitIInv == Init => IInv
<1> SUFFICES ASSUME Init PROVE IInv
  OBVIOUS
<1>1. Types
  <2>1. NULL \in Buffer /\ <<>> \in Seq(Buffer)
    BY DEF NULL, Buffer
  <2>2. closed \in BOOLEAN /\ failed \in BOOLEAN
    BY DEF Init
  <2>3. /\ ready \in Nat /\ pending \in Int
        /\ sends \in Nat /\ accepted \in Nat /\ wire \in Nat
    BY DEF Init
  <2>4. evb \in Buffer /\ inflight \in Buffer /\ wb \in Seq(Buffer)
    BY <2>1 DEF Init
  <2>5. /\ pc \in [Threads -> {"idle", "push", "cas", "inc", "pop", "dec", "send", "ok",
                             "err", "zero", "hold", "fail", "close", "assert"}]
        /\ by \in [Threads -> {"start_send", "on_ev_send"}]
    BY DEF Init
  <2> QED
    BY <2>2, <2>3, <2>4, <2>5 DEF Types
<1>2. Holding = {} /\ Restart = {}
  BY DEF Init, Holding, Restart
<1>3. RefsCovered
  BY <1>2, FS_EmptySet DEF Init, RefsCovered
<1>4. StreamInOrder
  BY DEF Init, StreamInOrder
<1> QED
  BY <1>1, <1>3, <1>4
  DEF Init, IInv, OneOwner, Owner, ReadyHeld, Active, ByHandler,
      LeavesNoneBehind, NoLostWakeup

(* References are there, so `pending` is at least 2.                       *)
LEMMA PendingAtLeastTwo ==
  ASSUME Types, RefsCovered
  PROVE  pending >= 2
<1>1. IsFiniteSet(Holding) /\ IsFiniteSet(Restart)
  BY ThreadsFinite, FS_Subset DEF Holding, Restart
<1>2. Cardinality(Holding) \in Nat /\ Cardinality(Restart) \in Nat
  BY <1>1, FS_CardinalityType
<1> QED
  BY <1>2 DEF RefsCovered, Types

(* Every step preserves the invariant.                                     *)
LEMMA NextIInv == IInv /\ [Next]_vars => IInv'
<1> SUFFICES ASSUME IInv, [Next]_vars PROVE IInv'
  OBVIOUS
<1>u. /\ Types /\ OneOwner /\ ReadyHeld /\ StreamInOrder
      /\ ByHandler /\ RefsCovered /\ ~closed
      /\ LeavesNoneBehind /\ NoLostWakeup
  BY DEF IInv
<1>s. CASE UNCHANGED vars
  <2>1. Holding' = Holding /\ Restart' = Restart
    BY <1>s DEF vars, Holding, Restart
  <2>2. RefsCovered' /\ ~closed'
    BY <1>s, <1>u, <2>1 DEF vars, event, sock, RefsCovered
  <2>3. Types' /\ OneOwner' /\ ReadyHeld'
    BY <1>s, <1>u
      DEF vars, event, sock, bytes, Types, OneOwner, ReadyHeld, Active, Owner
  <2>4. StreamInOrder' /\ ByHandler' /\ LeavesNoneBehind' /\ NoLostWakeup'
    BY <1>s, <1>u
    DEF vars, event, sock, bytes, StreamInOrder, ByHandler,
        LeavesNoneBehind, NoLostWakeup, Owner
  <2> QED
    BY <2>2, <2>3, <2>4 DEF IInv
<1>n. CASE Next
  <2>0. PICK t \in Threads : ThreadStep(t)
    BY <1>n DEF Next, ThreadStep
  <2>1. Types' /\ OneOwner' /\ ReadyHeld'
    BY <1>u, <2>0, NextTypes, NextOneOwner, NextReadyHeld
  <2>2. StreamInOrder' /\ ByHandler'
    BY <1>u, <2>0, NextStreamInOrder, NextByHandler
  <2>3. RefsCovered' /\ ~closed'
    BY <1>u, <2>0, NextRefs
  <2>4. LeavesNoneBehind' /\ NoLostWakeup'
    BY <1>u, <2>0, PendingAtLeastTwo, NextLeavesNoneBehind, NextNoLostWakeup
  <2> QED
    BY <2>1, <2>2, <2>3, <2>4 DEF IInv
<1> QED
  BY <1>s, <1>n

(* The inductive invariant of the send path.                               *)
THEOREM Invariance == Spec => []IInv
BY InitIInv, NextIInv, PTL DEF Spec

(* The variables of the send path keep their types; `ready` and `pending`  *)
(* never go below zero, whatever the threads of start_send and on_ev_send  *)
(* do at the same time.                                                    *)
THEOREM TypeCorrect == Spec => []TypeOK
<1>1. IInv => TypeOK
  <2> SUFFICES ASSUME IInv PROVE TypeOK
    OBVIOUS
  <2>1. Types /\ pending >= 2
    BY PendingAtLeastTwo DEF IInv
  <2>2. pending \in Nat
    BY <2>1 DEF Types
  <2> QED
    BY <2>1, <2>2 DEF Types, TypeOK
<1> QED
  BY <1>1, Invariance, PTL

(* At most one thread has the write event in ev_send_start or on_ev_send,  *)
(* and none while a WSASend is outstanding on it.                          *)
THEOREM SingleOwner == Spec => []OneOwner
<1>1. IInv => OneOwner
  BY DEF IInv
<1> QED
  BY <1>1, Invariance, PTL

(* No buffer that start_send has queued is forgotten by ev_send_start.     *)
THEOREM WakeupsKept == Spec => []NoLostWakeup
<1>1. IInv => NoLostWakeup
  BY DEF IInv
<1> QED
  BY <1>1, Invariance, PTL

(* The transport gets the bytes in the order of push_back, without gap or  *)
(* overlap, also after partial sends.                                      *)
THEOREM StreamCorrect == Spec => []StreamInOrder
<1>1. IInv => StreamInOrder
  BY DEF IInv
<1> QED
  BY <1>1, Invariance, PTL

(* The reference counting of start_send and on_ev_send never closes the    *)
(* socket under its own references.                                        *)
THEOREM SocketKept == Spec => []NeverClosedBySending
<1>1. IInv => NeverClosedBySending
  BY PendingAtLeastTwo DEF IInv, NeverClosedBySending
<1> QED
  BY <1>1, Invariance, PTL
===============================================================================
