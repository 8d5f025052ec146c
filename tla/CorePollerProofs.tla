--------------------------- MODULE CorePollerProofs ---------------------------
(***************************************************************************)
(* What holds of the poller of net/corepoller.c for any number of workers, *)
(* messages and control calls.  One worker at a time is in                 *)
(* coretimer_update.  As long as start_thread has not been asked for fewer *)
(* threads, stop_thread returns to a poller without workers, and no worker *)
(* serves a closed port.  The argument is that of a token: before the stop *)
(* there is no quit packet; after it there is one, in the port or in one   *)
(* worker's hands, whose count is the number of workers still there; the   *)
(* one that takes it with 1 is the last.                                   *)
(***************************************************************************)
EXTENDS CorePoller, CommonLemmas

Packets == [msg : Msgs \cup {"quit"}, bytes : Nat]

(* Where the token is. *)
NoneInPort == \A i \in 1 .. Len(port) : port[i].msg # "quit"
InPort(n) ==
    \E i \in 1 .. Len(port) :
        /\ port[i].msg = "quit" /\ port[i].bytes = n
        /\ \A j \in 1 .. Len(port) : port[j].msg = "quit" => j = i
NoneTaken == \A w \in Workers : worker[w] # "quit"
Taken(n) ==
    \E w \in Workers :
        /\ worker[w] = "quit" /\ got[w].bytes = n
        /\ \A v \in Workers : worker[v] = "quit" => v = w

NoToken == NoneInPort /\ NoneTaken
Token(n) == (InPort(n) /\ NoneTaken) \/ (NoneInPort /\ Taken(n))

States == {"none", "top", "timer", "wait", "call", "quit", "assert"}

Types ==
    /\ port \in Seq(Packets)
    /\ worker \in [Workers -> States] /\ got \in [Workers -> Packets]
    /\ thr \in Nat /\ target \in Nat /\ quited \in {0, 1} /\ shrunk \in BOOLEAN
    /\ closed = (ctl = "deleted")
    /\ ctl \in {"idle", "spawn", "post", "zero", "wait", "stopped", "deleted"}

(* A worker that is in the timers holds the claim, alone. *)
Claim ==
    \A w \in Workers : worker[w] = "timer" =>
        in_timer = 1 /\ \A v \in Workers : worker[v] = "timer" => v = w

(* The workers are those that were started.                                *)
Up ==
    /\ ctl \in {"idle", "spawn", "post"}
    /\ NoToken /\ Cardinality(Live) = thr
    /\ thr > 0 => quited = 0
    /\ ctl = "spawn" => quited = 0 /\ target > 0
    /\ ctl = "post" => thr > 0

Stopping ==
    /\ ctl \in {"zero", "wait"}
    /\ ctl = "wait" => thr = 0
    /\ \/ quited = 0 /\ Cardinality(Live) > 0 /\ Token(Cardinality(Live))
       \/ NoToken /\ Live = {}

Down == ctl \in {"stopped", "deleted"} /\ NoToken /\ Live = {} /\ thr = 0

Quiet == ~shrunk => Up \/ Stopping \/ Down

(* Nothing is said of the workers of a poller that has been shrunk. *)
IInv == Types /\ Claim /\ Quiet

-------------------------------------------------------------------------------
(* How the port changes. *)

(* PostQueuedCompletionStatus of a message adds no token. *)
LEMMA PostMessage ==
    ASSUME port \in Seq(Packets), NEW m \in Msgs, port' = Append(port, Packet(m))
    PROVE  /\ port' \in Seq(Packets)
           /\ NoneInPort => NoneInPort'
           /\ \A n \in Nat : InPort(n) => InPort(n)'
<1>1. Packet(m) \in Packets /\ Packet(m).msg # "quit"
  BY QuitIsNoMsg DEF Packet, Packets
<1>2. /\ port' \in Seq(Packets) /\ Len(port') = Len(port) + 1
      /\ port'[Len(port) + 1] = Packet(m)
      /\ \A i \in 1 .. Len(port) : port'[i] = port[i]
  BY <1>1
<1>3. \A i \in 1 .. Len(port') : port'[i].msg = "quit" => i \in 1 .. Len(port)
  BY <1>1, <1>2
<1>4. NoneInPort => NoneInPort'
  BY <1>2, <1>3 DEF NoneInPort
<1>5. ASSUME NEW n \in Nat, InPort(n) PROVE InPort(n)'
  <2>1. PICK i \in 1 .. Len(port) : /\ port[i].msg = "quit" /\ port[i].bytes = n
                                    /\ \A j \in 1 .. Len(port) : port[j].msg = "quit" => j = i
    BY <1>5 DEF InPort
  <2>2. i \in 1 .. Len(port') /\ port'[i] = port[i]
    BY <1>2
  <2>3. \A j \in 1 .. Len(port') : port'[j].msg = "quit" => j = i
    BY <1>2, <1>3, <2>1
  <2>4. port'[i].msg = "quit" /\ port'[i].bytes = n
    BY <2>1, <2>2
  <2>5. QED  BY <2>2, <2>3, <2>4, Zenon DEF InPort
<1>6. QED  BY <1>2, <1>4, <1>5

(* Of the quit packet it makes the token. *)
LEMMA PostQuit ==
    ASSUME port \in Seq(Packets), NEW n \in Nat, port' = Append(port, Quit(n))
    PROVE  port' \in Seq(Packets) /\ (NoneInPort => InPort(n)')
<1>1. Quit(n) \in Packets /\ Quit(n).msg = "quit" /\ Quit(n).bytes = n
  BY DEF Quit, Packets
<1>2. /\ port' \in Seq(Packets) /\ Len(port') = Len(port) + 1 /\ Len(port) \in Nat
      /\ port'[Len(port) + 1] = Quit(n)
      /\ \A i \in 1 .. Len(port) : port'[i] = port[i]
  BY <1>1
<1>3. ASSUME NoneInPort PROVE InPort(n)'
  <2>1. Len(port) + 1 \in 1 .. Len(port')
    BY <1>2
  <2>2. \A j \in 1 .. Len(port') : port'[j].msg = "quit" => j = Len(port) + 1
    BY <1>2, <1>3 DEF NoneInPort
  <2>3. QED  BY <1>1, <1>2, <2>1, <2>2 DEF InPort
<1>4. QED  BY <1>2, <1>3

(* GetQueuedCompletionStatus takes the first packet. *)
LEMMA TakeHead ==
    ASSUME port \in Seq(Packets), port # <<>>, port' = Tail(port)
    PROVE  /\ port' \in Seq(Packets) /\ Head(port) \in Packets
           /\ NoneInPort => NoneInPort' /\ Head(port).msg # "quit"
           /\ \A n \in Nat : InPort(n) =>
                IF Head(port).msg = "quit" THEN Head(port).bytes = n /\ NoneInPort'
                                           ELSE InPort(n)'
<1> DEFINE P == Packets
<1>0. port \in Seq(P)
  OBVIOUS
<1> HIDE DEF P
<1>1. /\ port' \in Seq(P) /\ Len(port) \in Nat /\ Len(port) > 0
      /\ Len(port') = Len(port) - 1 /\ Head(port) = port[1] /\ Head(port) \in P
      /\ \A i \in 1 .. Len(port') : port'[i] = port[i + 1]
  <2>1. /\ port' \in Seq(P) /\ Len(port) \in Nat /\ Len(port) > 0
        /\ Len(port') = Len(port) - 1 /\ Head(port) = port[1]
    BY <1>0
  <2>2. Head(port) \in P
    BY <1>0, <2>1
  <2>3. \A i \in 1 .. Len(port') : port'[i] = port[i + 1]
    BY <1>0, <2>1
  <2>4. QED  BY <2>1, <2>2, <2>3
<1>2. NoneInPort => NoneInPort' /\ Head(port).msg # "quit"
  BY <1>1 DEF NoneInPort
<1>3. ASSUME NEW n \in Nat, InPort(n)
      PROVE  IF Head(port).msg = "quit" THEN Head(port).bytes = n /\ NoneInPort' ELSE InPort(n)'
  <2>1. PICK i \in 1 .. Len(port) : /\ port[i].msg = "quit" /\ port[i].bytes = n
                                    /\ \A j \in 1 .. Len(port) : port[j].msg = "quit" => j = i
    BY <1>3 DEF InPort
  <2>2. CASE i = 1
    BY <1>1, <2>1, <2>2 DEF NoneInPort
  <2>3. CASE i # 1
    <3>1. Head(port).msg # "quit"
      BY <1>1, <2>1, <2>3
    <3>2. i - 1 \in 1 .. Len(port') /\ port'[i - 1] = port[i]
      BY <1>1, <2>3
    <3>3. \A j \in 1 .. Len(port') : port'[j].msg = "quit" => j = i - 1
      BY <1>1, <2>1
    <3>4. QED  BY <2>1, <3>1, <3>2, <3>3 DEF InPort
  <2>4. QED  BY <2>2, <2>3
<1>4. QED  BY <1>1, <1>2, <1>3 DEF P

-------------------------------------------------------------------------------
(* How the workers change. *)

Kept == {"top", "timer", "wait", "call", "assert"}

(* A worker that goes from one point of its loop to another, without the   *)
(* quit packet, changes neither the number of workers nor the token.       *)
LEMMA WorkerMoves ==
    ASSUME Types, NEW w \in Workers, NEW st \in Kept, worker[w] \in Kept,
           worker' = [worker EXCEPT ![w] = st],
           \A v \in Workers \ {w} : got'[v] = got[v]
    PROVE  /\ worker' \in [Workers -> States] /\ Live' = Live
           /\ NoneTaken => NoneTaken'
           /\ \A n \in Nat : Taken(n) => Taken(n)'
<1>1. /\ worker' \in [Workers -> States] /\ worker'[w] = st
      /\ \A v \in Workers : v # w => worker'[v] = worker[v]
  BY DEF Types, Kept, States
<1>2. \A v \in Workers : (worker'[v] = "quit" <=> worker[v] = "quit")
                        /\ (worker'[v] = "none" <=> worker[v] = "none")
  BY <1>1 DEF Kept
<1>3. Live' = Live
  BY <1>2 DEF Live
<1>4. NoneTaken => NoneTaken'
  BY <1>2 DEF NoneTaken
<1>5. ASSUME NEW n \in Nat, Taken(n) PROVE Taken(n)'
  <2>1. PICK v \in Workers : /\ worker[v] = "quit" /\ got[v].bytes = n
                             /\ \A u \in Workers : worker[u] = "quit" => u = v
    BY <1>5 DEF Taken
  <2>2. v # w /\ got'[v] = got[v]
    BY <2>1 DEF Kept
  <2>3. QED  BY <1>2, <2>1, <2>2 DEF Taken
<1>6. QED  BY <1>1, <1>3, <1>4, <1>5

(* There are finitely many workers. *)
LEMMA LiveCounts ==
    IsFiniteSet(Live) /\ Cardinality(Live) \in Nat /\ (Cardinality(Live) = 0 <=> Live = {})
<1>1. Live \subseteq Workers
  BY DEF Live
<1>2. IsFiniteSet(Live)
  BY <1>1, FS_Subset, WorkersFinite
<1>3. QED  BY <1>2, FS_EmptySet, FS_CardinalityType

(* With the same workers and the same token, a step that leaves the        *)
(* control where it is keeps Quiet.                                        *)
LEMMA QuietKept ==
    ASSUME IInv, Live' = Live,
           NoToken => NoToken', \A n \in Nat : Token(n) => Token(n)',
           UNCHANGED <<pool, main>>
    PROVE  Quiet'
<1>1. UNCHANGED <<thr, quited, ctl, target, shrunk>>
  BY DEF pool, main
<1>2. Cardinality(Live)' = Cardinality(Live) /\ Cardinality(Live) \in Nat
  BY LiveCounts
<1>3. ASSUME ~shrunk, Up PROVE Up'
  BY <1>1, <1>2, <1>3 DEF Up
<1>4. ASSUME ~shrunk, Stopping PROVE Stopping'
  <2>1. CASE NoToken /\ Live = {}
    BY <1>1, <1>4, <2>1 DEF Stopping
  <2>2. CASE quited = 0 /\ Cardinality(Live) > 0 /\ Token(Cardinality(Live))
    <3>1. Token(Cardinality(Live))'
      <4> DEFINE n == Cardinality(Live)
      <4>1. n \in Nat /\ Token(n) /\ n' = n
        BY <1>2, <2>2
      <4>2. QED  BY <4>1
    <3>2. QED  BY <1>1, <1>2, <1>4, <2>2, <3>1 DEF Stopping
  <2>3. QED  BY <1>4, <2>1, <2>2 DEF Stopping
<1>5. ASSUME ~shrunk, Down PROVE Down'
  BY <1>1, <1>5 DEF Down
<1>6. QED  BY <1>1, <1>3, <1>4, <1>5 DEF IInv, Quiet

-------------------------------------------------------------------------------
(* The steps of THREAD_START_ROUTINE. *)

(* The claim of in_timer, its release, the timeout of the port and a       *)
(* handler's return.                                                       *)
LEMMA LoopKeeps ==
    ASSUME IInv, NEW w \in Workers,
           claim_timer(w) \/ leave_timer(w) \/ wait_timeout(w) \/ call_done(w)
    PROVE  IInv'
<1>1. PICK from \in Kept, to \in Kept : worker[w] = from /\ worker' = [worker EXCEPT ![w] = to]
  BY DEF claim_timer, leave_timer, wait_timeout, call_done, Goto, Kept
<1>2. got' = got \/ got' = [got EXCEPT ![w] = Nothing]
  BY DEF claim_timer, leave_timer, wait_timeout, call_done
<1>3. Nothing \in Packets
  BY DEF Nothing, Quit, Packets
<1>4. got' \in [Workers -> Packets] /\ \A v \in Workers \ {w} : got'[v] = got[v]
  BY <1>2, <1>3 DEF IInv, Types
<1>5. /\ worker' \in [Workers -> States] /\ Live' = Live
      /\ NoneTaken => NoneTaken'
      /\ \A n \in Nat : Taken(n) => Taken(n)'
  BY <1>1, <1>4, WorkerMoves DEF IInv
<1>6. port' = port /\ UNCHANGED <<pool, main, closed>>
  BY DEF claim_timer, leave_timer, wait_timeout, call_done
<1>7. NoneInPort' = NoneInPort /\ \A n \in Nat : InPort(n)' = InPort(n)
  BY <1>6 DEF NoneInPort, InPort
<1>8. Quiet'
  BY <1>5, <1>6, <1>7, QuietKept DEF NoToken, Token
<1>9. Types'
  BY <1>4, <1>5, <1>6 DEF IInv, Types, pool, main
<1>10. Claim'
  <2>1. CASE claim_timer(w)
    BY <2>1 DEF claim_timer, Goto, IInv, Claim, Types
  <2>2. CASE leave_timer(w)
    BY <2>2 DEF leave_timer, Goto, IInv, Claim, Types
  <2>3. CASE wait_timeout(w)
    BY <2>3 DEF wait_timeout, Goto, IInv, Claim, Types
  <2>4. CASE call_done(w)
    BY <2>4 DEF call_done, Goto, IInv, Claim, Types
  <2>5. QED  BY <2>1, <2>2, <2>3, <2>4
<1>11. QED  BY <1>8, <1>9, <1>10 DEF IInv

(* A packet of the port, the token or a message. *)
LEMMA TakeKeeps ==
    ASSUME IInv, NEW w \in Workers, take_packet(w)
    PROVE  IInv'
<1> DEFINE p == Head(port)
<1>1. /\ port # <<>> /\ port' = Tail(port) /\ worker[w] = "wait"
      /\ worker' = [worker EXCEPT ![w] = IF p.msg = "quit" THEN "quit" ELSE "call"]
      /\ got' = [got EXCEPT ![w] = p] /\ in_timer' = in_timer
      /\ UNCHANGED <<closed, pool, main>>
  BY DEF take_packet, Goto
<1>2. /\ port' \in Seq(Packets) /\ p \in Packets
      /\ NoneInPort => NoneInPort' /\ p.msg # "quit"
      /\ \A n \in Nat : InPort(n) =>
            IF p.msg = "quit" THEN p.bytes = n /\ NoneInPort' ELSE InPort(n)'
  BY <1>1, TakeHead DEF IInv, Types
<1> HIDE DEF p
<1>3. got' \in [Workers -> Packets] /\ got'[w] = p /\ \A v \in Workers \ {w} : got'[v] = got[v]
  BY <1>1, <1>2 DEF IInv, Types
<1>4. /\ worker' \in [Workers -> States]
      /\ worker'[w] = (IF p.msg = "quit" THEN "quit" ELSE "call")
      /\ \A v \in Workers \ {w} : worker'[v] = worker[v]
  BY <1>1 DEF IInv, Types, States
<1>5. Types'
  BY <1>1, <1>2, <1>3, <1>4 DEF IInv, Types, pool, main
<1>6. Claim'
  BY <1>1, <1>4 DEF IInv, Claim
<1>7. CASE p.msg # "quit"
  <2>1. Live' = Live /\ (NoneTaken => NoneTaken') /\ \A n \in Nat : Taken(n) => Taken(n)'
    BY <1>1, <1>3, <1>7, WorkerMoves DEF IInv, Kept
  <2>2. Quiet'
    BY <1>1, <1>2, <1>7, <2>1, QuietKept DEF NoToken, Token
  <2>3. QED  BY <1>5, <1>6, <2>2 DEF IInv
<1>8. CASE p.msg = "quit"
  <2>1. Live' = Live
    BY <1>1, <1>4, <1>8 DEF Live
  <2>2. ~NoneInPort
    BY <1>2, <1>8
  <2>3. ASSUME NEW n \in Nat, Token(n) PROVE Token(n)'
    <3>1. InPort(n) /\ NoneTaken /\ p.bytes = n /\ NoneInPort'
      BY <1>2, <1>8, <2>2, <2>3 DEF Token
    <3>2. Taken(n)'
      BY <1>3, <1>4, <1>8, <3>1 DEF Taken, NoneTaken
    <3>3. QED  BY <3>1, <3>2 DEF Token
  <2>4. Quiet'
    BY <1>1, <2>1, <2>2, <2>3, QuietKept DEF NoToken
  <2>5. QED  BY <1>5, <1>6, <2>4 DEF IInv
<1>9. QED  BY <1>7, <1>8

(* GetQueuedCompletionStatus on a closed port: only after a shrink. *)
LEMMA FailsKeeps ==
    ASSUME IInv, NEW w \in Workers, wait_fails(w)
    PROVE  IInv'
<1>1. /\ closed /\ worker[w] = "wait" /\ worker' = [worker EXCEPT ![w] = "assert"]
      /\ UNCHANGED <<port, closed, pool, in_timer, got, main>>
  BY DEF wait_fails, Goto
<1>2. ctl = "deleted" /\ Live # {}
  BY <1>1 DEF IInv, Types, Live
<1>3. shrunk
  BY <1>2 DEF IInv, Types, Quiet, Up, Stopping, Down
<1>4. Quiet'
  BY <1>1, <1>3 DEF Quiet, main
<1>5. Types'
  BY <1>1 DEF IInv, Types, pool, main, States
<1>6. Claim'
  BY <1>1 DEF IInv, Types, Claim
<1>7. QED  BY <1>4, <1>5, <1>6 DEF IInv

(* The worker with the token hands it on with one less and leaves. *)
LEMMA QuitKeeps ==
    ASSUME IInv, NEW w \in Workers, quit(w)
    PROVE  IInv'
<1>2. PICK n \in Nat : n = got[w].bytes
  BY DEF IInv, Types, Packets
<1>1. /\ worker[w] = "quit" /\ worker' = [worker EXCEPT ![w] = "none"]
      /\ got' = [got EXCEPT ![w] = Nothing]
      /\ IF n - 1 > 0 THEN /\ port' = IF closed THEN port ELSE Append(port, Quit(n - 1))
                           /\ quited' = quited
                      ELSE quited' = 1 /\ port' = port
      /\ UNCHANGED <<closed, thr, in_timer, main>>
  BY <1>2 DEF quit, Goto
<1>3. /\ worker' \in [Workers -> States] /\ worker'[w] = "none"
      /\ \A v \in Workers \ {w} : worker'[v] = worker[v]
  BY <1>1 DEF IInv, Types, States
<1>4. got' \in [Workers -> Packets]
  BY <1>1 DEF IInv, Types, Nothing, Quit, Packets
<1>5. port' \in Seq(Packets)
  <2>1. CASE port' = port
    BY <2>1 DEF IInv, Types
  <2>2. CASE n - 1 > 0 /\ port' = Append(port, Quit(n - 1))
    BY <1>2, <2>2, PostQuit DEF IInv, Types
  <2>3. QED  BY <1>1, <2>1, <2>2
<1>6. Types'
  BY <1>1, <1>3, <1>4, <1>5 DEF IInv, Types, main
<1>7. Claim'
  BY <1>1, <1>3 DEF IInv, Claim
<1>8. ASSUME ~shrunk PROVE Stopping'
  <2>1. ~NoneTaken
    BY <1>1 DEF NoneTaken
  <2>2. Stopping /\ quited = 0 /\ Taken(Cardinality(Live)) /\ NoneInPort
    BY <1>8, <2>1 DEF IInv, Quiet, Up, Stopping, Down, NoToken, Token
  <2>3. n = Cardinality(Live) /\ NoneTaken'
    BY <1>1, <1>2, <1>3, <2>2 DEF Taken, NoneTaken
  <2>4. w \in Live /\ w \notin Live' /\ Live' \ {w} = Live \ {w}
    BY <1>1, <1>3 DEF Live
  <2>5. Cardinality(Live') = n - 1 /\ (n = 1 => Live' = {})
    BY <2>3, <2>4, LiveCounts, OneChanges, FS_EmptySet
  <2>6. ctl \in {"zero", "wait"} /\ ctl' = ctl /\ thr' = thr /\ ~closed /\ (ctl = "wait" => thr = 0)
    BY <1>1, <2>2 DEF Stopping, main, IInv, Types
  <2>7. CASE n - 1 > 0
    <3>1. InPort(n - 1)'
      BY <1>1, <1>2, <2>2, <2>6, <2>7, PostQuit DEF IInv, Types
    <3>2. Token(Cardinality(Live))'
      BY <2>3, <2>5, <3>1 DEF Token
    <3>3. QED  BY <1>1, <2>2, <2>5, <2>6, <2>7, <3>2 DEF Stopping
  <2>8. CASE ~(n - 1 > 0)
    <3>1. n = 1
      BY <1>2, <2>2, <2>3, <2>8, <2>4, LiveCounts
    <3>2. NoToken'
      BY <1>1, <2>2, <2>3, <2>8 DEF NoToken, NoneInPort
    <3>3. QED  BY <2>5, <2>6, <3>1, <3>2 DEF Stopping
  <2>9. QED  BY <2>7, <2>8
<1>9. Quiet'
  BY <1>1, <1>8 DEF Quiet, main
<1>10. QED  BY <1>6, <1>7, <1>9 DEF IInv

-------------------------------------------------------------------------------
(* corepoller_post and the control calls. *)

(* A message is tested or posted. *)
LEMMA PostKeeps ==
    ASSUME IInv, NEW m \in Msgs, post_check(m) \/ post_packet(m)
    PROVE  IInv'
<1>1. /\ port' = port \/ port' = Append(port, Packet(m))
      /\ UNCHANGED <<closed, pool, in_timer, worker, got, main>>
  BY DEF post_check, post_packet
<1>2. /\ port' \in Seq(Packets)
      /\ NoneInPort => NoneInPort'
      /\ \A n \in Nat : InPort(n) => InPort(n)'
  <2>1. CASE port' = port
    BY <2>1 DEF IInv, Types, NoneInPort, InPort
  <2>2. CASE port' = Append(port, Packet(m))
    BY <2>2, PostMessage DEF IInv, Types
  <2>3. QED  BY <1>1, <2>1, <2>2
<1>3. Types' /\ Claim'
  BY <1>1, <1>2 DEF IInv, Types, Claim, pool, main
<1>4. Live' = Live /\ NoneTaken' = NoneTaken /\ \A n \in Nat : Taken(n)' = Taken(n)
  BY <1>1 DEF Live, NoneTaken, Taken
<1>5. Quiet'
  BY <1>1, <1>2, <1>4, QuietKept DEF NoToken, Token
<1>6. QED  BY <1>3, <1>5 DEF IInv

(* corepoller_start_thread begins and starts one more thread. *)
LEMMA StartKeeps ==
    ASSUME IInv,
           \/ \E n \in 1 .. Cardinality(Workers) : start_thread(n)
           \/ \E w \in Workers : start_thread_spawn(w)
    PROVE  IInv'
<1>1. ASSUME NEW n \in 1 .. Cardinality(Workers), start_thread(n) PROVE IInv'
  <2>1. /\ ctl \in {"idle", "stopped"} /\ ctl' = "spawn" /\ quited' = 0 /\ target' = n
        /\ UNCHANGED <<port, closed, thr, in_timer, worker, got, shrunk>>
    BY <1>1 DEF start_thread
  <2>2. n \in Nat /\ n > 0
    BY FS_CardinalityType, WorkersFinite
  <2>3. Types' /\ Claim'
    BY <2>1, <2>2 DEF IInv, Types, Claim
  <2>4. Live' = Live /\ NoToken' = NoToken
    BY <2>1 DEF Live, NoToken, NoneInPort, NoneTaken
  <2>5. ~shrunk => NoToken /\ Cardinality(Live) = thr
    BY <2>1, LiveCounts DEF IInv, Quiet, Up, Stopping, Down
  <2>6. Quiet'
    BY <2>1, <2>2, <2>4, <2>5 DEF Quiet, Up
  <2>7. QED  BY <2>3, <2>6 DEF IInv
<1>2. ASSUME NEW w \in Workers, start_thread_spawn(w) PROVE IInv'
  <2>1. /\ ctl = "spawn" /\ worker[w] = "none" /\ worker' = [worker EXCEPT ![w] = "top"]
        /\ thr' = thr + 1 /\ UNCHANGED <<port, closed, quited, in_timer, got, main>>
    BY <1>2 DEF start_thread_spawn, Goto
  <2>2. /\ worker' \in [Workers -> States] /\ worker'[w] = "top"
        /\ \A v \in Workers \ {w} : worker'[v] = worker[v]
    BY <2>1 DEF IInv, Types, States
  <2>3. Types' /\ Claim'
    <3>1. Types'
      BY <2>1, <2>2 DEF IInv, Types, main
    <3>2. Claim'
      BY <2>1, <2>2 DEF IInv, Claim
    <3>3. QED  BY <3>1, <3>2
  <2>4. w \notin Live /\ w \in Live' /\ Live' \ {w} = Live \ {w}
    BY <2>1, <2>2 DEF Live
  <2>5. Cardinality(Live') = Cardinality(Live) + 1
    BY <2>4, LiveCounts, OneChanges
  <2>6. NoToken => NoToken'
    BY <2>1, <2>2 DEF NoToken, NoneInPort, NoneTaken
  <2>7. Quiet'
    BY <2>1, <2>5, <2>6 DEF IInv, Quiet, Up, Stopping, Down, main
  <2>8. QED  BY <2>3, <2>7 DEF IInv
<1>3. QED  BY <1>1, <1>2

(* It ends: without a surplus there is no quit packet. *)
LEMMA StartEndKeeps ==
    ASSUME IInv, start_thread_end
    PROVE  IInv'
<1>1. /\ ctl = "spawn" /\ thr >= target /\ ctl' = "idle" /\ thr' = target /\ target' = 0
      /\ port' = IF thr > target THEN Append(port, Quit(thr - target)) ELSE port
      /\ shrunk' = (shrunk \/ thr > target)
      /\ UNCHANGED <<closed, quited, in_timer, worker, got>>
  BY DEF start_thread_end
<1>2. port' \in Seq(Packets)
  <2>1. CASE thr > target
    <3>1. thr - target \in Nat
      BY <2>1 DEF IInv, Types
    <3>2. QED  BY <1>1, <2>1, <3>1, PostQuit DEF IInv, Types
  <2>2. CASE ~(thr > target)
    BY <1>1, <2>2 DEF IInv, Types
  <2>3. QED  BY <2>1, <2>2
<1>3. Types' /\ Claim'
  BY <1>1, <1>2 DEF IInv, Types, Claim
<1>4. ASSUME ~shrunk' PROVE Up'
  <2>1. port' = port /\ thr' = thr /\ ~shrunk
    <3>1. ~shrunk /\ ~(thr > target)
      BY <1>1, <1>4, Zenon
    <3>2. thr' = thr
      BY <1>1, <3>1 DEF IInv, Types
    <3>3. QED  BY <1>1, <3>1, <3>2
  <2>2. Live' = Live /\ NoToken' = NoToken
    BY <1>1, <2>1 DEF Live, NoToken, NoneInPort, NoneTaken
  <2>3. QED  BY <1>1, <2>1, <2>2 DEF IInv, Quiet, Up, Stopping, Down
<1>5. QED  BY <1>3, <1>4 DEF IInv, Quiet

(* corepoller_stop_thread up to its wait. *)
LEMMA StopKeeps ==
    ASSUME IInv, stop_thread \/ stop_thread_post \/ stop_thread_zero
    PROVE  IInv'
<1>1. UNCHANGED <<closed, in_timer, worker, got, target, shrunk, quited>> /\ Live' = Live
  BY DEF stop_thread, stop_thread_post, stop_thread_zero, pool, Live
<1>2. NoneTaken' = NoneTaken /\ \A n \in Nat : Taken(n)' = Taken(n)
  BY <1>1 DEF NoneTaken, Taken
<1>3. Cardinality(Live) \in Nat /\ Cardinality(Live)' = Cardinality(Live)
  BY <1>1, LiveCounts
<1>4. CASE stop_thread
  <2>1. /\ ctl \in {"idle", "stopped"} /\ ctl' = (IF thr > 0 THEN "post" ELSE "wait")
        /\ port' = port /\ thr' = thr
    BY <1>4 DEF stop_thread, pool
  <2>2. Types' /\ Claim'
    BY <1>1, <2>1 DEF IInv, Types, Claim
  <2>3. NoToken' = NoToken
    BY <1>2, <2>1 DEF NoToken, NoneInPort
  <2>4. thr \in Nat /\ (~shrunk => NoToken /\ Cardinality(Live) = thr /\ (thr > 0 => quited = 0))
    BY <2>1, LiveCounts DEF IInv, Types, Quiet, Up, Stopping, Down
  <2>5. CASE thr > 0
    BY <1>1, <1>3, <2>1, <2>2, <2>3, <2>4, <2>5 DEF Quiet, Up, IInv
  <2>6. CASE ~(thr > 0)
    <3>1. ~shrunk => Live = {}
      BY <2>4, <2>6, LiveCounts
    <3>2. Quiet'
      BY <1>1, <2>1, <2>3, <2>4, <2>6, <3>1 DEF Quiet, Stopping
    <3>3. QED  BY <2>2, <3>2 DEF IInv
  <2>7. QED  BY <2>5, <2>6
<1>5. CASE stop_thread_post
  <2>1. ctl = "post" /\ ctl' = "zero" /\ port' = Append(port, Quit(thr)) /\ thr' = thr
    BY <1>5 DEF stop_thread_post, pool
  <2>2. PICK n \in Nat : n = thr
    BY DEF IInv, Types
  <2>3. port' \in Seq(Packets) /\ (NoneInPort => InPort(n)')
    BY <2>1, <2>2, PostQuit DEF IInv, Types
  <2>4. Types' /\ Claim'
    BY <1>1, <2>1, <2>3 DEF IInv, Types, Claim
  <2>5. ASSUME ~shrunk PROVE Stopping'
    <3>1. NoToken /\ Cardinality(Live) = n /\ n > 0 /\ quited = 0
      BY <2>1, <2>2, <2>5 DEF IInv, Quiet, Up, Stopping, Down
    <3>2. Token(n)'
      BY <1>2, <2>3, <3>1 DEF NoToken, Token
    <3>3. Token(Cardinality(Live))'
      BY <1>3, <3>1, <3>2
    <3>4. QED  BY <1>1, <1>3, <2>1, <3>1, <3>3 DEF Stopping
  <2>6. QED  BY <1>1, <2>4, <2>5 DEF IInv, Quiet
<1>6. CASE stop_thread_zero
  <2>1. ctl = "zero" /\ ctl' = "wait" /\ port' = port /\ thr' = 0
    BY <1>6 DEF stop_thread_zero
  <2>2. Types' /\ Claim'
    BY <1>1, <2>1 DEF IInv, Types, Claim
  <2>3. NoToken' = NoToken /\ \A n \in Nat : Token(n)' = Token(n)
    BY <1>2, <2>1 DEF NoToken, Token, NoneInPort, InPort
  <2>4. PICK n \in Nat : n = Cardinality(Live)
    BY <1>3
  <2>5. ~shrunk => (quited = 0 /\ n > 0 /\ Token(n)) \/ (NoToken /\ Live = {})
    BY <2>1, <2>4 DEF IInv, Quiet, Up, Stopping, Down
  <2>6. Quiet'
    BY <1>1, <1>3, <2>1, <2>3, <2>4, <2>5 DEF Quiet, Stopping
  <2>7. QED  BY <2>2, <2>6 DEF IInv
<1>7. QED  BY <1>4, <1>5, <1>6

(* The wait for `quited` ends, and the poller is deleted. *)
LEMMA StoppedKeeps ==
    ASSUME IInv, stop_thread_wait \/ delete
    PROVE  IInv'
<1>1. /\ UNCHANGED <<thr, quited, in_timer, worker, got, target, shrunk>> /\ Live' = Live
      /\ NoneTaken' = NoneTaken
  BY DEF stop_thread_wait, delete, pool, Live, NoneTaken
<1>2. CASE stop_thread_wait
  <2>1. ctl = "wait" /\ quited # 0 /\ ctl' = "stopped" /\ UNCHANGED <<port, closed>>
    BY <1>2 DEF stop_thread_wait
  <2>2. Types' /\ Claim'
    BY <1>1, <2>1 DEF IInv, Types, Claim
  <2>3. ~shrunk => NoToken /\ Live = {} /\ thr = 0
    BY <2>1 DEF IInv, Quiet, Up, Stopping, Down
  <2>4. Quiet'
    BY <1>1, <2>1, <2>3 DEF Quiet, Down, NoToken, NoneInPort
  <2>5. QED  BY <2>2, <2>4 DEF IInv
<1>3. CASE delete
  <2>1. ctl = "stopped" /\ ctl' = "deleted" /\ closed' = TRUE /\ port' = <<>>
    BY <1>3 DEF delete
  <2>2. port' \in Seq(Packets) /\ NoneInPort'
    BY <2>1 DEF NoneInPort
  <2>3. Types' /\ Claim'
    BY <1>1, <2>1, <2>2 DEF IInv, Types, Claim
  <2>4. ~shrunk => NoneTaken /\ Live = {} /\ thr = 0
    BY <2>1 DEF IInv, Quiet, Up, Stopping, Down, NoToken
  <2>5. Quiet'
    BY <1>1, <2>1, <2>2, <2>4 DEF Quiet, Down, NoToken
  <2>6. QED  BY <2>3, <2>5 DEF IInv
<1>4. QED  BY <1>2, <1>3

-------------------------------------------------------------------------------
(* corepoller_new: no workers, an empty port, in_timer as malloc left it.  *)
LEMMA InitInv == Init => IInv
<1>1. SUFFICES ASSUME Init PROVE IInv
  OBVIOUS
<1>2. Live = {} /\ NoToken
  BY <1>1 DEF Init, Live, NoToken, NoneInPort, NoneTaken
<1>3. Types
  <2>1. port \in Seq(Packets)
    BY <1>1 DEF Init
  <2>2. Nothing \in Packets
    BY DEF Nothing, Quit, Packets
  <2>3. worker \in [Workers -> States] /\ got \in [Workers -> Packets]
    BY <1>1, <2>2 DEF Init, States
  <2>4. closed = (ctl = "deleted")
    BY <1>1, Zenon DEF Init
  <2>5. QED  BY <1>1, <2>1, <2>3, <2>4 DEF Init, Types
<1>4. Claim
  BY <1>1 DEF Init, Claim
<1>5. Quiet
  BY <1>1, <1>2, FS_EmptySet DEF Init, Quiet, Up
<1>6. QED  BY <1>3, <1>4, <1>5 DEF IInv

(* Every step of a worker, of the control thread and of a caller of        *)
(* corepoller_post keeps the invariant.                                    *)
LEMMA NextInv == IInv /\ [Next]_vars => IInv'
<1>1. SUFFICES ASSUME IInv, [Next]_vars PROVE IInv'
  OBVIOUS
<1>2. ASSUME NEW w \in Workers, WorkerStep(w) PROVE IInv'
  BY <1>1, <1>2, LoopKeeps, TakeKeeps, FailsKeeps, QuitKeeps DEF WorkerStep
<1>3. ASSUME ControlStep PROVE IInv'
  BY <1>1, <1>3, StartKeeps, StartEndKeeps, StopKeeps, StoppedKeeps DEF ControlStep
<1>4. ASSUME \/ \E n \in 1 .. Cardinality(Workers) : start_thread(n)
             \/ stop_thread \/ delete
      PROVE  IInv'
  BY <1>1, <1>4, StartKeeps, StopKeeps, StoppedKeeps
<1>5. ASSUME NEW m \in Msgs, post_check(m) \/ post_packet(m) PROVE IInv'
  BY <1>1, <1>5, PostKeeps
<1>6. CASE UNCHANGED vars
  <2>1. UNCHANGED <<port, closed, pool, in_timer, worker, got, main>>
    BY <1>6 DEF vars
  <2>2. Types' /\ Claim'
    BY <1>1, <2>1 DEF IInv, Types, Claim, pool, main
  <2>3. Live' = Live /\ (NoToken => NoToken') /\ \A n \in Nat : Token(n) => Token(n)'
    BY <2>1 DEF Live, NoToken, Token, NoneInPort, InPort, NoneTaken, Taken
  <2>4. QED  BY <1>1, <2>1, <2>2, <2>3, QuietKept DEF IInv
<1>7. QED  BY <1>1, <1>2, <1>3, <1>4, <1>5, <1>6 DEF Next

(* However many workers there are, one at a time is in coretimer_update.   *)
THEOREM TimerIsExclusive == Spec => []OneInTimer
<1>1. IInv => OneInTimer
  BY DEF IInv, Claim, OneInTimer
<1>2. QED  BY <1>1, InitInv, NextInv, PTL DEF Spec

(* stop_thread returns to a poller without workers, for any number of      *)
(* workers and messages and any sequence of starts and stops in which      *)
(* start_thread is never asked for fewer threads.                          *)
THEOREM StopIsQuiet == Spec => []StoppedIsQuiet
<1>1. IInv => StoppedIsQuiet
  BY DEF IInv, Quiet, Up, Stopping, Down, StoppedIsQuiet
<1>2. QED  BY <1>1, InitInv, NextInv, PTL DEF Spec

(* assert(FALSE) in THREAD_START_ROUTINE is only reached by a poller that  *)
(* has been shrunk: without a shrink no worker is left when the port is    *)
(* closed.                                                                 *)
THEOREM NoAssertUnlessShrunk == Spec => [](~shrunk => NeverWithoutPacket)
<1> DEFINE Safe == ~shrunk => NeverWithoutPacket
<1>1. Init => Safe
  BY DEF Init, NeverWithoutPacket
<1>2. IInv /\ Safe /\ [Next]_vars => Safe'
  <2>1. SUFFICES ASSUME IInv, Safe, [Next]_vars, ~shrunk', NEW v \in Workers
                 PROVE  worker'[v] # "assert"
    BY DEF NeverWithoutPacket
  <2>2. ~shrunk
    <3>1. shrunk' = shrunk \/ shrunk' = (shrunk \/ thr > target)
      BY <2>1 DEF Next, vars, WorkerStep, ControlStep, claim_timer, leave_timer, take_packet,
          wait_timeout, wait_fails, call_done, quit, start_thread_spawn, start_thread_end,
          stop_thread_post, stop_thread_zero, stop_thread_wait, start_thread, stop_thread,
          delete, post_check, post_packet, main
    <3>2. QED  BY <2>1, <3>1, Zenon
  <2>3. worker[v] # "assert"
    BY <2>1, <2>2 DEF NeverWithoutPacket
  <2>4. ASSUME NEW w \in Workers, wait_fails(w) PROVE FALSE
    <3>1. closed /\ worker[w] = "wait"
      BY <2>4 DEF wait_fails, Goto
    <3>2. QED  BY <2>1, <2>2, <3>1 DEF IInv, Types, Quiet, Up, Stopping, Down, Live
  <2>5. \/ worker' = worker
        \/ \E w \in Workers, st \in States \ {"assert"} : worker' = [worker EXCEPT ![w] = st]
    BY <2>1, <2>4 DEF Next, vars, WorkerStep, ControlStep, claim_timer, leave_timer, take_packet,
        wait_timeout, call_done, quit, start_thread_spawn, start_thread_end,
        stop_thread_post, stop_thread_zero, stop_thread_wait, start_thread, stop_thread,
        delete, post_check, post_packet, Goto, States
  <2>6. QED  BY <2>1, <2>3, <2>5 DEF IInv, Types
<1>3. QED  BY <1>1, <1>2, InitInv, NextInv, PTL DEF Spec
===============================================================================
