------------------------------ MODULE TimerWheel ------------------------------
(***************************************************************************)
(* The timing wheel of net/timer.cpp (net/coretimer.c has the same one,    *)
(* see CoreTimer for its locking).  A timer is kept in the list of one     *)
(* slot: a near slot t[i] when it expires in the current block of          *)
(* TIME_NEAR ticks, else a slot n[l][i] of the lowest level l whose block  *)
(* holds both now and then.  Whenever `time` enters a new block, shift()   *)
(* moves one list down; execute() detaches the near list of the current    *)
(* tick and calls its timers.                                              *)
(*                                                                         *)
(* iocp::start_timer and iocp::stop_timer hold the timer's lock around add *)
(* and del, so these are atomic; so are list_clear in execute() and        *)
(* shift().  Between these steps, also while a callback runs, other        *)
(* threads and the callback itself may add and delete timers.  One thread  *)
(* at a time is in update() (CorePoller: OneInTimer).                      *)
(***************************************************************************)
EXTENDS Integers, Sequences, FiniteSets, SequencesExt

CONSTANTS
    TIME_NEAR, TIME_LEVEL,  \* slots of t and of each n[l]: 256 and 64
    TIME_SLOT_LEN,          \* milliseconds per tick: 10
    Waits,                  \* milliseconds callers pass to add
    MaxTimers,              \* bound: calls of add
    MaxNow, MaxLag          \* bounds: ticks of the clock, and between updates

ASSUME WheelSizes == /\ TIME_NEAR \in Nat \ {0, 1} /\ TIME_LEVEL \in Nat \ {0, 1}
                     /\ TIME_SLOT_LEN \in Nat \ {0}
ASSUME Bounds == /\ Waits \subseteq Nat /\ MaxTimers \in Nat
                 /\ MaxNow \in Nat /\ MaxLag \in Nat

VARIABLES
    time,       \* ticks done
    wheel,      \* the list in each slot
    index,      \* ids given out: 1 .. index
    expire,     \* expire[id]
    status,     \* status[id]: armed, fired or deleted
    firedAt,    \* `time` when the timer was called
    batch,      \* the list execute() has detached, its head is called next
    phase,      \* idle, or in tick(): first (execute), second (shift, execute)
    timer_tick, \* gettime() of the last update
    left,       \* ticks update() still has to do
    rewound,    \* history: an update saw the clock go back
    crashed     \* no; why the program fails: expire (the assertion of
                \* addto_list), head (a NULL list head), links (see del)

timers == <<index, expire, status, firedAt>>
clock  == <<timer_tick, left, rewound>>
vars   == <<time, wheel, timers, batch, phase, clock, crashed>>

-------------------------------------------------------------------------------
(* 2^32: the width of time and expire is that of the wheel. *)
WIDTH == TIME_NEAR * TIME_LEVEL^4

(* Ticks in a block of level l: the slots below n[l] cover one. *)
Block(l) == TIME_NEAR * TIME_LEVEL^l

(* The level of a near slot. *)
NEAR == -1

NearSlots == {<<NEAR, i>> : i \in 0 .. TIME_NEAR - 1}
LevelSlots == {<<l, i>> : l \in 0 .. 3, i \in 0 .. TIME_LEVEL - 1}
Slots == NearSlots \cup LevelSlots

(* The slot addto_list chooses; x | (b - 1) = y | (b - 1) says that x and  *)
(* y are in the same block of b ticks.                                     *)
Level(e, ct) ==
    CASE e \div Block(1) = ct \div Block(1) -> 0
      [] e \div Block(2) = ct \div Block(2) -> 1
      [] e \div Block(3) = ct \div Block(3) -> 2
      [] OTHER -> 3

(* Bug: near is what expires within TIME_NEAR ticks, both included. *)
Bug_Slot(e, ct) ==
    IF e - ct <= TIME_NEAR
    THEN <<NEAR, e % TIME_NEAR>>
    ELSE <<Level(e, ct), (e \div Block(Level(e, ct))) % TIME_LEVEL>>

Slot(e, ct) ==
    IF e \div TIME_NEAR = ct \div TIME_NEAR
    THEN <<NEAR, e % TIME_NEAR>>
    ELSE <<Level(e, ct), (e \div Block(Level(e, ct))) % TIME_LEVEL>>

(* Bug: the constructor links one level less. *)
Bug_HasHead(s) == s[1] \notin {2, 3}

(* The constructor links the heads of t and of n[0], n[1], n[2] only; the  *)
(* links of n[3] stay NULL, and list_add and list_clear go through them.   *)
HasHead(s) == s[1] # 3

(* Bug: at the front of the list. *)
Bug_list_add(w, s, id) == [w EXCEPT ![s] = <<id>> \o @]

(* At the end of the list. *)
list_add(w, s, id) == [w EXCEPT ![s] = Append(@, id)]

(* addto_list of a list, one timer after the other, as list_move does.     *)
AddAll(w, list, ct) ==
    FoldLeft(LAMBDA v, id : list_add(v, Slot(expire[id], ct), id), w, list)

(* Bug: shift() looks at the lowest level only. *)
Bug_Shifted(ct) ==
    IF ct % TIME_NEAR # 0 THEN {} ELSE {<<0, (ct \div Block(0)) % TIME_LEVEL>>}

(* The lists shift() moves when `time` becomes ct: inside a near block     *)
(* none, else that of the first level whose index in ct is not 0.          *)
Shifted(ct) ==
    IF ct = 0
    THEN {<<3, 0>>}
    ELSE {<<l, (ct \div Block(l)) % TIME_LEVEL>> :
            l \in {k \in 0 .. 3 : ct % Block(k) = 0 /\ ct % Block(k + 1) # 0}}

-------------------------------------------------------------------------------
Init ==
    /\ time = 0
    /\ wheel = [s \in Slots |-> <<>>]
    /\ index = 0
    /\ expire = [id \in 1 .. MaxTimers |-> 0]
    /\ status = [id \in 1 .. MaxTimers |-> "none"]
    /\ firedAt = [id \in 1 .. MaxTimers |-> 0]
    /\ batch = <<>> /\ phase = "idle"
    /\ timer_tick = 0 /\ left = 0 /\ rewound = FALSE
    /\ crashed = "no"

(* Milliseconds to ticks, at least one. *)
Ticks(wait) == IF wait \div TIME_SLOT_LEN = 0 THEN 1 ELSE wait \div TIME_SLOT_LEN

(* addto_list asserts expire >= time, which the sum modulo 2^32 may break. *)
add(wait) ==
    /\ crashed = "no" /\ index < MaxTimers
    /\ LET id == index + 1
           e == (time + Ticks(wait)) % WIDTH
           s == Slot(e, time)
       IN  /\ index' = id
           /\ expire' = [expire EXCEPT ![id] = e]
           /\ IF e >= time /\ HasHead(s)
              THEN /\ wheel' = list_add(wheel, s, id)
                   /\ status' = [status EXCEPT ![id] = "armed"]
                   /\ UNCHANGED crashed
              ELSE /\ crashed' = IF e >= time THEN "head" ELSE "expire"
                   /\ UNCHANGED <<wheel, status>>
    /\ UNCHANGED <<time, firedAt, batch, phase, clock>>

(* delfrom_list of a timer that execute() has detached and not called yet  *)
(* goes through links that execute() has cut, or takes away the timer that *)
(* execute() calls next: the model ends here (CoreTimer has the details).  *)
del(id) ==
    /\ crashed = "no"
    /\ status[id] = "armed"
    /\ wheel' = [s \in Slots |-> Remove(wheel[s], id)]
    /\ status' = [status EXCEPT ![id] = "deleted"]
    /\ crashed' = IF Contains(batch, id) THEN "links" ELSE "no"
    /\ UNCHANGED <<time, index, expire, firedAt, batch, phase, clock>>

-------------------------------------------------------------------------------
(* execute: list_clear of the near list of the current tick ... *)
Detach(from, to) ==
    /\ crashed = "no"
    /\ phase = from /\ phase' = to
    /\ LET s == <<NEAR, time % TIME_NEAR>>
       IN  batch' = wheel[s] /\ wheel' = [wheel EXCEPT ![s] = <<>>]
    /\ UNCHANGED <<time, timers, clock, crashed>>

execute_first == left > 0 /\ batch = <<>> /\ Detach("idle", "first")

execute_second == Detach("shifted", "second")

(* ... and its loop: delfrom_hash, the callback, dealloc. *)
execute_call ==
    /\ crashed = "no" /\ batch # <<>>
    /\ status' = [status EXCEPT ![Head(batch)] = "fired"]
    /\ firedAt' = [firedAt EXCEPT ![Head(batch)] = time]
    /\ batch' = Tail(batch)
    /\ UNCHANGED <<time, wheel, index, expire, phase, clock, crashed>>

shift ==
    /\ crashed = "no" /\ phase = "first" /\ batch = <<>>
    /\ phase' = "shifted"
    /\ time' = (time + 1) % WIDTH
    /\ LET moved == Shifted(time')
           cleared == [s \in Slots |-> IF s \in moved THEN <<>> ELSE wheel[s]]
       IN  IF \A s \in moved : HasHead(s)
           THEN /\ wheel' = IF moved = {} THEN wheel
                            ELSE AddAll(cleared, wheel[CHOOSE s \in moved : TRUE], time')
                /\ UNCHANGED crashed
           ELSE crashed' = "head" /\ UNCHANGED wheel
    /\ UNCHANGED <<timers, batch, clock>>

(* The end of tick(). *)
tick_end ==
    /\ crashed = "no" /\ phase = "second" /\ batch = <<>>
    /\ phase' = "idle"
    /\ left' = left - 1
    /\ UNCHANGED <<time, wheel, timers, batch, timer_tick, rewound, crashed>>

(* Bug: the tick of the last update is not remembered. *)
Bug_update(now) ==
    /\ crashed = "no" /\ phase = "idle" /\ left = 0 /\ now > timer_tick
    /\ left' = now - timer_tick
    /\ UNCHANGED <<time, wheel, timers, batch, phase, timer_tick, rewound, crashed>>

(* update, when gettime() returns now: the ticks since the last update.  A *)
(* clock that has gone back is taken for one that has wrapped at 2^64;     *)
(* 2^32 divides 2^64.                                                      *)
update(now) ==
    /\ crashed = "no" /\ phase = "idle" /\ left = 0 /\ now # timer_tick
    /\ left' = IF now < timer_tick THEN (WIDTH - 1 - timer_tick + now) % WIDTH
                                   ELSE (now - timer_tick) % WIDTH
    /\ timer_tick' = IF left' > 0 THEN now ELSE timer_tick
    /\ rewound' = (rewound \/ now < timer_tick)
    /\ UNCHANGED <<time, wheel, timers, batch, phase, crashed>>

(* What gettime() may return: a later tick, several ticks later when the   *)
(* workers were busy, or an earlier one when the system clock was set back.*)
gettime == (timer_tick - 1 .. timer_tick + MaxLag) \cap (0 .. MaxNow)

TickStep ==
    execute_first \/ execute_call \/ shift \/ execute_second \/ tick_end

Next ==
    \/ \E wait \in Waits : add(wait)
    \/ \E id \in 1 .. MaxTimers : del(id)
    \/ TickStep
    \/ \E now \in gettime : update(now)

Spec == Init /\ [][Next]_vars

(* A worker that has begun an update goes on with it. *)
FairSpec == Spec /\ WF_vars(TickStep)

-------------------------------------------------------------------------------
Ids == 1 .. MaxTimers
Horizon == Block(3)

(* The tick the update under way works towards. *)
Target == time + left - (IF phase \in {"shifted", "second"} THEN 1 ELSE 0)

(* The variables have their types; a timer is in at most one list, once.   *)
TypeOK ==
    /\ time \in 0 .. WIDTH - 1
    /\ wheel \in [Slots -> UNION {[1 .. n -> Ids] : n \in 0 .. MaxTimers}]
    /\ status \in [Ids -> {"none", "armed", "fired", "deleted"}]
    /\ left \in 0 .. WIDTH - 1 /\ timer_tick \in 0 .. MaxNow
    /\ crashed \in {"no", "expire", "head", "links"}
    /\ \A id \in Ids :
        Cardinality({<<s, i>> \in Slots \X Ids : i \in DOMAIN wheel[s] /\ wheel[s][i] = id})
            <= 1

(* At every moment every timer in the wheel is in the slot in which        *)
(* addto_list would put it now: shift() moves exactly the lists that the   *)
(* new value of `time` has outdated, although it moves one list per tick.  *)
PlacedAsIfNew ==
    /\ TypeOK
    /\ crashed = "no" => \A s \in Slots : \A i \in DOMAIN wheel[s] :
                    s = Slot(expire[wheel[s][i]], time)

(* A timer is called in the tick it was set for, neither sooner nor later, *)
(* however it travelled through the levels, and timers due in the same     *)
(* tick are called in the order they were added.                           *)
CalledOnTime ==
    /\ \A id \in Ids : status[id] = "fired" => firedAt[id] = expire[id]
    /\ \A i, j \in DOMAIN batch : i < j => batch[i] < batch[j]

(* The list heads the constructor leaves NULL are met only by a clock that *)
(* has run for TIME_NEAR * TIME_LEVEL^3 ticks (7.7 days), or by a timer    *)
(* set beyond that.                                                        *)
SafeBelowHorizon ==
    crashed \in {"head", "expire"} =>
        time >= Horizon \/ \E id \in Ids : expire[id] >= Horizon

(* Ticks are neither lost nor doubled: update() always works towards the   *)
(* tick of the clock it has read - unless the clock was set back, which    *)
(* update() takes for a wrap.                                              *)
TicksFollowClock == ~rewound => Target = timer_tick

(* An update that has begun ends, and by then every timer that was due by  *)
(* the tick it works towards has been called.                              *)
DueTimersCalled ==
    \A id \in Ids : status[id] = "armed" /\ expire[id] <= Target
        ~> status[id] # "armed" \/ crashed # "no"
===============================================================================
