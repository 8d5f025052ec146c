# TLA+ models of ho_net

ho_net is a network library on Windows completion ports. `src/net` holds two
generations of it: the current C one (`core*.c`, built by `net/ho.vcxproj`, used by
`server/main.c` and `client/main.c`) and the older C++ one (`namespace frame`, used by
the programs in `test/`). Both have the same parts; where they share an algorithm one
module stands for both.

`assert` is active in every build of the repository, so a failed assertion ends the
process. In the models it ends the behaviour, as does an access through an invalid
pointer; the properties of the passing runs hold up to that point.

## The system

| part | state | operations | what makes it hard |
|---|---|---|---|
| read-write lock (`corelock.c`, `lock.h`) | two counters | rlock, wlock, runlock, wunlock | spinning threads, every access a step |
| poller (`corepoller.c`, `poller.cpp`) | the port, `thr`, `quited`, `in_timer` | worker loop, post, start, stop, delete | workers leave by passing a counted quit packet on |
| timers (`coretimer.c`, `timer.cpp`) | the wheel, a hash, a pool of nodes | add, del, update (execute, shift) | cascading between levels; the lock is released around callbacks |
| logics (`corelogic.c`, `logic*.cpp`) | a growing table, reference counts | new, grub, release, delivery of messages | references counted outside the lock |
| socket server (`socketserver.cpp`, `coresocket.c`) | slots, ids, types, reference counts, events | listen, connect, send, receive, close | completions, calls and closing on any thread |
| buffers (`corebuffer.c`, `buffer.cpp`, `ring_buffer.cpp`) | rings, queues of them | write, read, push, pop | wrapping positions |
| connector, listener | a command state machine | start, stop, reconnect | callbacks and timers |
| tables and parsers (`binary_arry.h`, `csv.cpp`, `ini.cpp`, `errmsg.cpp`) | arrays, lists, texts | insert, find, parse | boundaries; a list searched without its lock |

Worker threads of the poller take packets from the port and run the handlers of socket
events and of messages to logics. One of them at a time runs the timers. Handlers and
callbacks call back into the socket server, the timers and the logics.

`PROJECT.json` lists every part, the definitions with the lines they model, the runs,
and the hazards with the line at which each bites.

## Modules

* **RWLock** - what a read-write lock promises: `mode` says how each thread holds it.
* **CoreLock** - `corelock.c`, one action per access of `read` or `write`
  (`rlock_spin`, `rlock_inc`, `rlock_check`, `rlock_undo`, `wlock_cas`, ...). A mapping
  shows that it implements RWLock.
* **SendPath** - sending on a connected socket in `socketserver.cpp`. `start_send`
  queues a buffer; `ev_send_start` sees to it that one WSASend is outstanding;
  `on_ev_send` handles its completion, which may be partial or an error. Each
  Interlocked operation is an action. Bytes are numbered in the order of queueing, so a
  buffer is an interval. The socket starts open, with its own reference and that of its
  receive.
* **CorePoller** - `corepoller.c`: the loop of the workers, the quit protocol, posting,
  and the control calls made by one thread. The port is a FIFO queue. `in_timer` starts
  as zero or as garbage because `corepoller_new` does not set it.
* **TimerWheel** - the wheel of `timer.cpp` (and `coretimer.c`): slots, levels, add, del,
  the two executes and the shift of a tick, update with its clock, including a clock that
  goes back. `add` and `del` are atomic because their callers hold the lock.
* **CoreTimer** - the locking of `coretimer.c`, where add and del are not atomic: one
  action per stretch between lock operations or unlocked shared access, with the pool of
  nodes. Slots are abstracted away.
* **CoreLogic** - `corelogic.c` with `warp_post` of `coresocket.c`: table, doubling,
  reference counts, delivery. What is done under the table's lock is one action, which
  CoreLock's Exclusion justifies. A message is sent to a logic that exists, by its id.
* **SocketServer** - the sockets of `socketserver.cpp` with the error handling of
  `connector.cpp` and `listener.cpp`: the table of slots, `reserve_id`, `new_fd`, listening,
  accepting, connecting, receiving, sending, closing, and the reference count `pending`,
  at most one Interlocked operation on a slot per step (`ev_send_start`, which SendPath
  splits up, is one step). Slots are used again, `reset` frees a slot before it has cleared
  it, and `alloc_id` overflows, as in the code. `me[t]` holds the place and the locals of a thread;
  `io` the operations the system has under way; `errs` the error messages nobody has read.
  The send queue is a number here (SendPath has it in full). Calls of the system may fail.
* **LogicStore** - the table of `logic_store.cpp` and the constructor of `logic.cpp`, which
  sets `logic_id` only after `reg` has published the logic.
* **SortedArray** - `binary_arry.h`: insertion, growth, and the binary search with the
  element it reads behind the last one.
* **ErrMsg** - one bucket of `errmsg.cpp`: the search without the lock, the search with it,
  and the linking of a new node in two steps.
* **RingBuffer**, **BufferQueue** - `ring_buffer.cpp` with counters that wrap and both ways
  of writing and reading; the linked list of `buffer.cpp` against a sequence. `init` does not
  round sizes to powers of two although positions are masked with `size - 1`; the ghost
  `strayed` records when a masked position differs from the remainder, and the order of the
  bytes is stated up to then. Buffers filled once from their start (`start_send`) and those of
  128 bytes (receives) never stray.
* **Csv**, **Ini** - the readers of `csv.cpp` (a character at a time) and `ini.cpp` (a line
  at a time, then queries by the name of a section, through the cache, and of the section
  `next_section` has come to), against what was written.

`MC*` modules hold the model values of the runs; MCTables runs the small data structures
and CoreLogic one per behaviour. Operators named `Bug_*` stand before the definition they
vary and are plausible mistakes in that code; each property is known to fail under at least
one of them. Type invariants are conjuncts of the properties named below (PlacedAsIfNew,
OneUsePerNode, RefsCounted, RefsCovered, QuitsMatchWorkers) or are proved (CoreLock,
SendPath).

In SocketServer the ghost `spoilt` collects the connections whose count the code gets wrong
on its own, in six places:

1. a reference is taken (`grub_socket`, and the increments of `start_listen`, `start_connet`
   and `on_ev_listen`) of a socket whose count is 0 because it is being freed, or of a slot
   `new_fd` has still to fill; an accepted connection closed before the reference of its first
   receive is taken is one such case;
2. two closes both find `closing` false;
3. an accept that cannot be started again gives back two references where it has one;
4. `reserve_id` takes a slot that is marked free but not at rest: `reset` sets the type before
   it clears the events and the count (`socket.h:71`), and a thread may still have a reference
   of the last connection there;
5. `alloc_id` overflows, and `InterlockedAdd` makes it -1 and the next id 0;
6. the -1 of a full table is taken for an id.

The properties are about all other connections, also those that take a used slot or meet a
stale close or send of the slot's last owner once they are there. Three more things the code
does are part of what they say: the decrement after a restarted receive does not look at its
result, so that nobody frees the socket when it takes the count to 0; a successful connect and
every successful send keep a reference for good; and so a socket that was sent on is never
freed. Messages to logics are taken to be delivered, except for the report of an accepted
connection, and nobody sends on a listening socket.

## Runs

| run | instance | shows |
|---|---|---|
| corelock | 3 threads | exclusion, exact counters, refinement of RWLock, a claimed writer enters, somebody enters when somebody waits |
| sendpath | 3 threads, 2 sends of 0 to 2 bytes | OneOwner, NoLostWakeup, StreamInOrder, NeverClosedBySending; EveryByteSent |
| poller | 3 workers, 1 message, 5 control calls | one worker in the timers, quits match workers, a stop leaves nobody behind; stop returns, queued messages are handled, timers are served |
| wheel | 2 slots in each of 5 levels, 2 timers, 17 ticks | timers in the right slot, called at their tick and in order; the clock is followed; due timers are called |
| timer_pool | 2 clients, updater, 3 nodes, 3 timers, 2 ticks | nodes have one use, counters are right, no timer lost or called after deletion |
| tables | see Bounds | CoreLogic: logics are found (LiveIsFound), references counted (RefsCounted), ids not reused; LogicsAreFound of the C++ table; CsvRoundTrip, IniAnswersFromFile, ArrayFoundIsInserted, ErrOneTextPerError, RingBytesInOrder, ListIsQueue |
| socketserver | tables of 1 and of 4 slots, 2 threads, 12 scenarios of calls and faults | counts cover every use of a socket (RefsCovered), a completion finds the connection it was started for (CompletionsOwned), no handler's assertion fails (HandlersSound), an accepted connection nobody has sent on has, when no thread is in the server, its receive under way, a socketerr still to be read, or no reference left (AcceptedAtRest; the last is the decrement nobody looks at), a connection its user knows goes only after `start_close` (FreedAfterClose) |

Five runs end in a violation of what the code itself asserts:

* **poller_shrink**: after a shrink, `quited` may be set by the leaving workers, a stop
  returns early, and a worker meets a closed port (`assert(FALSE)`).
* **timer_stale**: `coretimer_add` reads `time` before it takes the lock; when the timer
  is linked it may have expired (`assert(0)` in `addto_list`).
* **timer_detached**: deleting the next timer of the list being called
  (`assert(r->hash_prev)`).
* **logic_release**: a logic found after its last reference was given back
  (`assert(thelgc == lgc)`).
* **socketserver_reuse**: with a full table `reserve_id` returns -1, nobody looks, and
  `new_fd(-1)` takes the last slot although another thread has reserved it; that thread's
  `new_fd` fails `assert(s->type == SOCKET_TYPE_INVALID)`.

`start_send` of no bytes ends in the assertion after `readbuffer`; SendPath has that end,
and EveryByteSent is stated up to it.

### Bounds

Three threads are one more than the two that race in each window, so a third can take
the event or the lock in between. Two sends are enough for a buffer that is queued behind
the back of an owner; the proofs cover any number of threads and sends. Five control calls
allow a start, a shrink, a stop, and a delete or another start and stop. Sizes 1 and 2 give a
partial send; 0 gives the empty buffer. With two slots in each level, 17 ticks cross the
boundaries of all levels and waits of 5 to 90 ms reach from below one tick to the top level.
Three nodes with three timers make the pool reuse a node while another is in hand. The calls
of `add`, `start_send` and of control are bounded by constants named `Max*`.

Run tables: 3 threads, 3 logics and 3 messages on a table that starts with one slot and so
doubles twice; 5 C++ logics of which 2 are under construction at once, from a table of 2;
csv cells of up to 2 characters and all texts of up to 5; ini files of up to 2 lines of any
kind, of up to 3 well-formed ones and of two sections with a line each, which is enough for two
sections of one name and two assignments to one key; 5 insertions of 4 keys into an array that starts with 2 places;
3 threads, 3 codes and 4 calls for the error messages; rings of sizes 1, 2, 3 and 5 with
counters modulo 8 and 10 bytes, so that the counters wrap; 4 buffers in the queue.

Run socketserver: the scenarios of MCSocketServer say how large the table is, which ids have
been given out, how often a client listens, accepts, connects, closes and sends and which calls
of the system may fail. One slot is enough for a connection and makes the second one take the
slot of the first, with closes, sends and completions of the first still about; a listener needs
three slots (itself and one for each of its two accepts), and with four an accepted connection
is there together with them, and a second accept takes the slot of one that was freed. Two
threads meet on the same socket in every pair of handlers. `INT_MAX` is 31, a multiple of the
table less one as in the code, and two scenarios begin with `alloc_id` there, so that it
overflows. Connections `spoilt` sets aside are in the run but the properties do not speak of
them. Run socketserver_reuse has 2 slots and three connections, so that the table gets full.

Deadlock is checked for CoreLock. In the other runs it is not: the bounds on calls, a stopped
poller, a file read to its end and the ends described above really stop them.

### Fairness

Weak fairness of the steps a thread takes inside a function, because the operating system
schedules threads and the code in between is straight-line code:

* CoreLock: a thread in `rlock`, `wlock` or a section under the lock goes on; nothing
  obliges a thread to call them. A spinning thread may always find the lock taken.
* SendPath: a thread in `start_send`, `ev_send_start` or `on_ev_send` goes on, and some
  thread takes the completion of an outstanding WSASend, which the port delivers.
* CorePoller: each worker, the control call under way, and a post under way go on;
  handlers and `coretimer_update` return.
* TimerWheel: an update that has begun does its ticks.

No fairness is assumed of calls: of `start_send`, `add`, `post`, or of the control calls.
SocketServer has none: that a closed socket is freed in the end is false of the code (the
decrement nobody looks at, and the references that sends keep).

## Proofs

Every theorem is about the same definitions the runs check, for all values of the constants.

* **CoreLockProofs**, for any finite set of threads: types, exact counters, mutual exclusion
  and the refinement of RWLock (initial states and steps).
* **SendPathProofs**, for any finite set of threads, any sizes and any number of sends:
  types, OneOwner, NoLostWakeup, StreamInOrder, NeverClosedBySending. None is inductive.
  `ready` also counts threads that came by, so the invariant adds ReadyHeld (positive while
  somebody has the event, and before any failure only then), LeavesNoneBehind (why an owner
  that finds the queue empty may go when its decrement gives 0) and RefsCovered (`pending` is
  at least two plus the references of threads and of the outstanding operation).
* **CorePollerProofs**, for any finite set of workers, any messages and control calls:
  OneInTimer (a worker in the timers holds the claim, alone), StoppedIsQuiet, and that the
  assertion of run poller_shrink is out of reach of a poller that was never shrunk. The
  invariant follows the quit packet as a token: none before a stop; after it one, in the
  port or in one worker's hands, whose count is the number of workers left.
* **CoreLogicProofs**, for any finite sets of threads and logics and any first size:
  LiveIsFound, RefsCounted (with the types) and IdsNeverReused. The invariant says that each
  logic sits at the place of its id and each place holds the logic that belongs there, that
  ids are below `allocid`, which thread has which logic in hand, and that a thread past the
  last decrement does not hold a logic its creator still owns.
* **LogicStoreProofs**, for any set of logics and first size: LogicsAreFound. There is always
  room where `reg` searches, even in a table filed by ids that are not set (n logics do not
  fill 2n places), and a logic filed by its handle stays alone at its place when the table
  doubles.
* **BufferQueueProofs**, for any set of buffers: ListIsQueue. `push_back` does not clear
  `next`, so the invariant needs that a buffer which was never queued has none.
* **SortedArrayProofs**, for any integer keys: `insert` keeps the array in order (InOrder, the
  first half of ArrayFoundIsInserted).
* **CommonLemmas**: places of a hash table (division with remainder, a search passes every
  place, doubling), least elements, and how a set's size changes by one element.

The assumptions are those named in the modules (finite sets of threads, workers and logics,
sizes that are numbers, `NULL` and the quit packet being no logic, buffer or message) or in
the theorems.

Only model-checked:

* the liveness properties (fairness and ENABLED are out of the prover's reach);
* what a recursive computation yields (the binary search, the csv and ini readers, the list
  of an error bucket, the cascade of TimerWheel): induction over data is out of its reach;
* sums over sets and sequences filtered by a condition, whose laws take an operator as a
  parameter: QuitsMatchWorkers, RefsCovered of SocketServer, and the lists of CoreTimer;
* RingBuffer, which uses bitwise operators.

## Not modelled

* The C socket server (`coresocket.c`) beyond `warp_post`: the first receive on any
  connection starts with `assert(wsa.len)` on a length nobody has set, and `resetfd` is
  `assert(0)`. With it the C connector and listener, and `corebuffer.c`, which only it uses
  and which is unfinished.
* `coreerrmsg.c`: its resize drops the entries it should move; `errmsg.cpp` is modelled.
* `coretimer_delete`: its loop follows a circular list to a NULL that is not there, so it
  does not end, and neither does `corepoller_delete`.
* The pool of `timer.cpp`, whose `dealloc` runs without the lock.
* Reading files (`load` of `ini.cpp` does not go back to the start of the file) and the
  conversion of values to numbers; formatting of messages.
* `corelog.c`, `corelogger.c`: do not compile and are built by no project.
* `queue.cpp`, `http_request.cpp`, `mysqlcon.h`: stubs.
* `src/3rd`: headers of mysql, which only the stub `mysqlcon.h` includes. They are three
  quarters of the lines in `src` and have no behaviour to model. Of the 6,400 lines outside,
  a third is the C socket server with its buffers, connector and listener, the logging that
  does not compile, and `coreerrmsg.c`, for the reasons above.

## Plan

1. A proof of the reference counting of SocketServer, for which the sum has to be put as a
   function of the step instead of a sum over a set.
2. A proof of the pool of CoreTimer, with its lists as functions from positions.
3. The pool of `timer.cpp`, and the C socket server when it has a receive that works.
