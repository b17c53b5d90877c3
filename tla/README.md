# A TLA+ model of the HCServer framework

HCServer (`src/HCServer/`) is a C++ framework for servers with many connections:
fibers on a pool of threads, a scheduler for them, epoll and timers under the
scheduler, hooked system calls that park a fiber instead of blocking its thread,
and on top of these sockets, TCP and HTTP servers and clients. This directory
holds TLA+ models of its core, the configurations that check them with TLC, and
proofs checked with TLAPS.

Files: the core is `Scheduler`, `TimerManager` and `IOManager`; above it are
`FdManager`, `Hook` and `TcpServer`, each extending the one before; beside it
`ByteArray` (with the abstract `ByteSeq`), `HttpConnectionPool`, and the parsers
`Uri`, `HttpSession`, `HttpConnection`, each over the automaton of its generated
code (`UriMachine`, `RequestMachine`, `ResponseMachine`, written with the notation
of `Automaton`). `MC*` give them small values for TLC, with one `.cfg` per run;
`SchedulerProofs` and `FiberProofs`, which extends it, prove theorems about `Scheduler`,
`TimerProofs`, `IOManagerProofs`, `PoolProofs` and `ByteArrayProofs` about the modules
of their names, `ServerProofs` about `Hook` and `TcpServer`, `HttpProofs` about
`HttpSession`.
`PROJECT.json` lists the components, the runs, which source lines
each definition models, the mutants that show each property can fail, the hazards
of the code and the theorems.

To check: `tlc -config SchedulerPool.cfg MCScheduler` (and likewise the others),
`tlapm SchedulerProofs.tla` (and likewise the other `*Proofs`).

## 1. Inventory

| Component | State | Operations | Who uses it |
|---|---|---|---|
| `Scheduler` | `m_fibers` (list of entries: fiber or callback, thread), `m_activethreadcount`, `m_idlethreadcount`, `m_stopping`, `m_autostop`, root fiber | `start`, `stop`, `schedule` (one, a range), `run`, `idle`, `stopping`, `tickle` | everything |
| `Fiber` | `m_state`, `m_cb`, context and stack; thread-local current fiber | `swapIn`, `swapOut`, `call`, `back`, `reset`, `YieldToReady`, `YieldToHold`, `MainFunc` | `Scheduler::run`, client code, hook |
| `Thread`, mutexes, semaphore | pthread handles | create, join | `Scheduler::start/stop` |
| `TimerManager` | ordered set `m_timers`, `m_tickled`, `m_previousTime`; per `Timer` `m_next`, `m_ms`, `m_cb`, `m_recurring` | `addTimer`, `addConditiomTimer`, `cancel`, `refresh`, `reset`, `getNextTimer`, `listExpiredCb` | `IOManager::idle`, hook, connection pool |
| `IOManager` | `m_fdContexts`, `m_pendingEventCount`, the epoll set, the tickle pipe; per `FdContext` `m_events` and a waiter for READ and WRITE | `addEvent`, `delEvent`, `cancelEvent`, `cancelAll`, `contextResize`, `idle`, `tickle`, `stopping` | hook, `TcpServer` |
| hook, `FdManager` | per descriptor: flags and time-outs; thread-local enable | `do_io`, `connect_with_timeout`, `sleep`, `close`, `fcntl`, `setsockopt`; `get`, `del` | every socket call |
| `TcpServer`, `HttpServer`, `HttpSession` | listening sockets, `m_isStop` | `bind`, `start`, `stop`, `startAccept`, `handleClient` | programs |
| `HttpConnectionPool` | list of idle connections, `m_total` | `getConnection`, `ReleasePtr` | HTTP clients |
| `ByteArray` | list of blocks, position, size, capacity | typed reads and writes, varint, `setPosition`, `getReadBuffers` | serialisation |
| `Uri`, `HttpRequestParser`, `HttpResponseParser` (Ragel) | automaton state `cs`, offsets `mark`, `field_start`, `field_len`, `query_start`; what was parsed so far | `Uri::Create`, `execute`, `isFinished`, `hasError` | `HttpSession::recvRequest`, `HttpConnection::recvResponse`, the pool |
| `Config` | map of variables, listeners | `Lookup`, `setValue`, `LoadFromYaml` | all modules |
| `ServletDispatch` | exact and glob tables | `addServlet`, `delServlet`, `getMatchedServlet` | `HttpServer` |
| `Address`, `Log`, util | texts | formatting | - |

How they interact: client code, timers' callbacks and epoll events all end in
`schedule()`; threads take entries in `run()`; a thread with nothing to do is in
the idle fiber, which for an `IOManager` sleeps in `epoll_wait` until the first
timer, an event, or a byte in the tickle pipe. Hooked calls add a timer and an
event, park the fiber, and are resumed by whichever comes first.

What is hard here: `Fiber::m_state` is read by the scan of `run()` without a lock
and set before the stack is left; `stopping()` decides from two counters and a
list that change in different critical sections; contexts and timers are looked
up under one lock and used under another; epoll's results are used after other
threads may have changed what they are about; a timer, a cancel and an event
race for one waiter; the wall clock may be set back; descriptors are reused while
their contexts, events and timers are about the descriptor before; `read()` cuts a
message anywhere, and a parser has to go on in the middle. `PROJECT.json` lists every
such place under "hazards", with its line.

What makes each part correct: the scheduler loses no task, runs none twice, puts
no two threads on one stack, and stops when and only when everything is done; a
timer fires once, not early and not late, and never after a successful cancel;
epoll, `m_events`, the waiters and the pending count agree, and a waiter is
resumed exactly once; a hooked call returns what happened to it, and never blocks
its thread; a server that is stopped stops; a parser stores the parts of the
message that was sent, however it arrives; the pool lends a connection to one
caller at a time and counts them; a byte array gives back what was written.

## 2. The modules

### Scheduler

Models `scheduler.{h,cc}` with what it uses of `fiber.cc` and `thread.cc`. One
action is one critical section of `m_mutex` or one access to state that another
thread can see. `pc[t]` says where thread `t` is in `run()` (`scan`, `dispatch`,
`swapin`, `exec`, `back`, `out`, `after`, `post`, `sethold`, `idle`, `idleback`)
or, for `Root`, the thread that owns the scheduler, in `start()`/`stop()`. `ft`,
`is_active`, `cb_fiber`, `idle_fiber` are `run()`'s locals. Three points matter
for faithfulness:

* A yield is three actions: the state is set (`YieldToReady`, `YieldToHold`),
  the stack is left (`back`), and `run()` goes on (`AfterSwap`, `Post...`).
* `Fiber::back()` leads to the thread's first context. On a worker that is
  `run()`; on the thread that built the scheduler with `use_caller` it is
  `stop()`, just after `m_rootFiber->call()` (`BackTo`).
* Fibers made for callbacks are recycled (`RunCb`, `PostDead`, `Release`), so a
  fiber is named by the first callback it ran and `m_cb` by the current one.

The client is a set of actions: inside a fiber, or on `Root` before `stop()`, it
schedules tasks (one, two at once, a fiber that has ended), wakes parked fibers,
yields, parks, returns or throws. A `setup` record, chosen in `Init` and then
fixed, holds the constructor's arguments and the use made of the scheduler:
threads, `use_caller`, the tasks submitted, whether they are pinned, how often a fiber yields,
whether one yields on `Root`, and whether parked fibers are woken on their own
thread, on any thread or not at all. A run checks a set of setups at once; the
theorems hold for all of them, or for all that their hypothesis describes.

### TimerManager

Models `timer.{h,cc}` and the part of `IOManager::idle` that sleeps. Workers
alternate between tasks, which use the timers, and their idle fiber
(`getNextTimer`, `epoll_wait`, `listExpiredCb`, draining the pipe); `Clients` are
threads that are not the scheduler's. The steps between the locks are separate
actions: the timer is built before the lock is taken, the tickle is written after
it is released, `listExpiredCb` reads the clock first, tests `m_timers` under the
read lock and acts under the write lock. A tickle that arrives between
`epoll_wait` and the drain is swallowed, as in the code. `schedule()` of expired
callbacks, or of other work, sends a tickle if the scheduler's list was empty,
which this module leaves open. `(int)` of a 64-bit timeout keeps its width
(`ToInt`). The dereference of `begin()` of an empty set is a choice between a
crash and a value without effect (`ListExpiredEmpty`).

### IOManager

Models the event side of `iomanager.{h,cc}`. A call is two actions, the lookup in
`m_fdContexts` and the work under the context's lock, with `contextResize`
between them for `addEvent`. A context is a descriptor and a generation, as a
table that shrinks and grows again has new contexts in old slots. `EpollWait`
returns a set of events, `HandleEvent` handles one of them later. `RealEvents`
has C++'s precedence of `&` over `|`. An assert that fails ends the behaviour and
is recorded in `failed`. epoll itself is external: `ADD` wants the descriptor
absent, `MOD` and `DEL` want it present, some descriptors are refused. Clients
do not ask for an event of a descriptor that is already waited for (`MayAdd`;
`addEvent` asserts it). A `use` record plays the part of `setup`.

### FdManager, Hook, TcpServer

`FdManager` has the contexts of descriptors, `get` in its two critical sections.
`Hook` has the calls of `hook.cc` over a kernel that is external: a descriptor is
open or not, blocking or not, in a state of its connection, and ready for some
events. `pc[f]` says where a fiber's call is: `fun` (the system call is made),
`add` (a timer was added, the event not yet), `hold`, `woken`, `direct` (the call
goes to the kernel unhooked), `create`/`created` (a new descriptor's context),
`getsockopt`, `blocked` (the thread sleeps in the kernel). A timer is armed, then
its callback is queued, and runs in two steps (`OnTimer`, `CancelEvent`): between
them the call may be over and another one wait for the same event. `cancelled` is
the flag in `timer_info`, which dies with its call (`Begin`). `addEvent`,
`cancelEvent` and `cancelAll` are single steps here; `IOManager` has their parts.
`close` is two: it cancels the waiters (`close`), and deletes the context (`CloseEnds`),
which by then may be somebody's again; in between the call is `Closing`. The hooked
function has no return statement, and what it returns is not modelled.
`history` variables record what ended a wait and what a call returned.

`TcpServer` runs two kinds of fibers on this: the program's, or the server's tasks
(`startAccept`, `stop`'s lambda, `handleClient`), which any free fiber takes
(`TakeTask`). `Socket::close` is the hooked `close`, which does not close the
descriptor, and here too cancels (`StopCloses`, `ClientCloses`) before it deletes
(`StopClosed`, `ClientOver`). A `use` record holds the calls a program makes, and the limits.

### The automata

`UriMachine`, `RequestMachine` and `ResponseMachine` have every state of the
generated code under its own number: 560, 349 and 123. A definition is the set of
transitions of a run of neighbouring states, `<<state, characters, next state,
actions>>`; characters are the classes the automaton tells apart. Code that Ragel
generated twice (the authority with and without a scheme, a path in a request and
in a JSON request) is one definition and a renaming (`Second`, `InCopy`). The
actions are those of the `.rl` files in the order in which the `tr` blocks run
them. Between the tables and the generated code there is no abstraction but the
classes: whole ranges of `switch` statements are a few `Go` and `Do`.

`Uri`, `HttpSession` and `HttpConnection` run them over every string, one
character a step, and beside them a small reference reader that says what the
string is (`uref`, `rref`, `href`) from the RFC's division into parts; it knows
nothing of the automaton. A text is abstracted to where it begins: `mark` is the
set of parts that begin at that character, so that a saved part can be compared
with the one the reference found. `HttpSession` and `HttpConnection` also end a
piece (`Piece`, `Execute`) after any character, as `read()` does: the offsets of
the parser are reset, and what they pointed to is gone.

Of a body only its length matters. `HttpConnection` has the widths of the types a length
goes through: a chunk's size from `strtol` to the `int` `content_len` (`ContentLen`,
`Signed`), a `Content-Length` from `uint64_t` to `int64_t` (`LengthOf`). `ChunkEnds` and
`BodyEnds` say how `recvResponse` goes on with it: with the next chunk, with a response,
out of step with the server, with an exception of `append()` or `resize()`, or with a
signed overflow. In `HttpSession` the body's `resize()` may throw (`ReadBody`).

### HttpConnectionPool

`getConnection` is three steps: what it does under the lock, the deletion of
connections that are not valid, and the new connection, which waits in `connect`.
Connections are named by addresses that are used again. `m_createTime` is 0, so that no
connection is ever found too old: the set of those to delete is always empty, as
`CallerInv` says, and what is checked is lending, returning and counting.

### ByteArray and ByteSeq

The chain of blocks is one memory `mem`, of which a block is `m_baseSize` bytes;
`m_cur` is the number of a block, or 0 for the null pointer. `Moved` and `Copy` are
the loops of `read` and `write` over the blocks. Widths are scaled: a byte of a
varint has `GroupBits` bits, an integer `Width`; a varint is at most `MaxGroups` bytes
long. `WriteRound` is one round of `writeToFile`'s loop, which takes at most one more
round than there are blocks. `ByteSeq` is the abstract
specification, a sequence of bytes with a position; `ImplementsByteSeq` is the
refinement, by `INSTANCE ByteSeq WITH bytes <- Data, at <- m_position, ...`.

## 3. What the runs check

| Run | Instance | Shows |
|---|---|---|
| `scheduler_pool` | 2 workers, 3 tasks, fibers yield once; 2 workers, any 2 of the tasks, fibers yield or park once and are woken on their thread; caller + 1 worker; caller alone; 2 callbacks, 1 client fiber | `TypeOK`, `IndInv`, `StoppingIsQuiet`, `OneThreadPerFiber`, `FiberAsserts`, `NoTaskLost`, `RunsOnce` |
| `scheduler_live` | 2 workers with yields; 1 worker with two yields and unpinned wake-ups; 2 workers with pins; caller + 1 worker; caller alone; 2 callbacks | `StopDrains`, and under fairness `EveryTaskRuns`, `StopReturns` |
| `timer` | 2 workers; worker + client; worker on a clock set back; 2 timers | `TypeOK`, `EraseFindsTimer`, `OneShotOnce`, `SleepersInTime`, `NotEarly` |
| `timer_live` | 1 timer, 2 workers or 1, one signal, clock set back | `SleepBounded`, and under fairness `DeadlineMet` |
| `server` | 2 fibers, 3 descriptors, 3 or 4 calls: readers with time-outs and a close; connects and a close; flags; a socket closed by an unhooked thread; servers with one or two descriptors left, stopped and restarted | `TimeoutHonest`, `ConnectHonest`, `BlockingKept`, `OneWaiter`, `LateClients`, and under fairness `WaitEnds` |
| `parts` | side by side, one in each behaviour: events (2 reading threads and a growing table; 2 threads, both events, errors; 1 thread and a descriptor epoll refuses; 3 calls of `addEvent`); each parser; the pool (3 callers, 4 addresses); the array (blocks of 2 bytes, 6 bytes of memory, 4 operations) | `TypeOK`, `KernelAgrees`, `PendingIsExact`, `WaiterOnce`, `NoAssertFails`, `CancelReaches`; `UriPartsRight`, `IPv6Exact`, `RequestPartsRight`, `HeadersRight`, `ResponseFramed`; `PoolAccounts`; `ReadsBack`, `PeeksRight`, and the refinement `ImplementsByteSeq` |

Six runs show where the code does not do what it says; see section 6. They use the
small instances of the run beside them. `scheduler_late_hold` has the constraint
`OneThreadPerFiber`: it leaves out the states that `scheduler_shared_stack` is about,
so that what it finds does not rest on two threads having been on one stack.

**Bounds.** Two workers are enough for a race between two threads, and a third
party (`Root`, or the client of the timers) is always there. Two callbacks make a
fiber be recycled while another is queued; the extra fiber is one that the client
owns and may schedule after its end. One yield makes a fiber change threads; two
make it come back. Two timers give a first and a second one and a change of
order. `Hour`, `MAX_TIMEOUT` and `IntBits` are scaled down with their order kept;
`ClockBacks` passes the scaled hour. `MaxAdds = 3` lets one descriptor be
registered, released and registered again while another thread holds the old
event. `MaxTime`, `MaxYields`, `MaxEintr`, `MaxAdds`, `MaxGen` are the bounds on
counters that the code does not bound; each is in a guard. `fired` counts up to 2,
one more than any one-shot timer may reach. In `server`, two fibers and three or four
calls let a callback outlive its call and meet two later ones, and three
descriptors (of which `nofile` may be opened) let a number be used again and run
out. In `parts`, strings have no bound: the automata and the references are
finite. `MaxPieces = 2` cuts a request once, anywhere (the
theorems of `HttpProofs` are about any number of pieces); `MaxReads = 2` cuts a response's header once; a chunk's header once each. An `int` has
`IntBits = 3` bits, an `int64_t` `LongBits = 5`, and `Memory = 12` is what `resize()` can
have; `Sizes` holds a length on either side of every border: of 0, of the `int`'s greatest
value less the CRLF and itself, of its wrap to negative values and back to 0, of the
memory, of `LONG_MAX`, and of what `getContentLength` can hold. The array has
three blocks: one filled exactly, one crossed, and one that is added.

Symmetry (workers, callbacks, fibers) is used in the runs `scheduler_pool` and `timer`,
which have no liveness properties; their sets of setups are closed under it.

**Fairness.** The kernel runs every thread that can run (`WF` of `run(t)`, of the
idle fiber's steps). A task ends, or parks, after finitely many steps
(`WF` of `MainFunc`, `YieldToHold`); the framework is cooperative and can promise
nothing to a program whose tasks do not end. `main()` calls `start()` and
`stop()`. In `TcpServer` a fiber goes on inside a call and with a task
(`Fiber`), timers expire and their callbacks run (`Timer`, `Callbacks`), and epoll
reports an event that is ready (`TriggerEvent`); nothing is assumed of the
program's calls, of what arrives, or of a connection attempt's end. The clock advances. `epoll_wait` ends when its time is over. Nothing is
assumed about which thread takes an entry: weak fairness suffices, because
entries are taken in order and a pin only excludes other threads.

**Deadlock** is checked in the runs of the scheduler and the timers: a behaviour may end
only where `Returned` and `TimeIsUp` say that it does. `server` and `parts` may stop: a
program makes its last call, a string ends, `recvRequest` returns, the array has had its
operations. No step of `IOManager` waits for another.

## 4. What is proved

Eight modules hold proofs. Each extends the module it is about, so that the theorems
and TLC's runs speak of the same definitions. Every theorem is about any number of
threads, fibers, tasks, descriptors, timers, callers, and of the values of the bounds
(`MaxAdds`, `MaxYields`, `MaxTime`, `MaxPieces` ... are any natural numbers). The inductive
invariants stand at the end of the component's module; each was checked with TLC on
the instances of section 3, or wider ones, before it was proved.

| Module | Theorem | States |
|---|---|---|
| `SchedulerProofs` | `InductiveInvariant`, `TypeCorrect`, `StoppingQuiet` | `IndInv`, `TypeOK`, `StoppingIsQuiet` |
| `FiberProofs` | `OwnershipInvariant`, `OneStackOneThread`, `FiberAssertsHold`, `NoTaskIsLost`, `CallbacksRunOnce`, `StopLeavesNothing` | `OwnInv`, `OneThreadPerFiber`, `FiberAsserts`, `NoTaskLost`, `RunsOnce`, `StopDrains` |
| `TimerProofs` | `TimerInvariant`, `EraseSafe`, `OneShotFiresOnce`, `TimesInvariant`, `TimerTypeOK`, `SleepIsBounded`, `SleepsInTime`, `TimersNotEarly` | `TimerInv`, `EraseFindsTimer`, `OneShotOnce`, `TimesInv`, `TypeOK`, `SleepBounded`, `SleepersInTime`, and the action property `NotEarly` |
| `IOManagerProofs` | `IOTypeOK`, `IOKernelAgrees`, `IOPendingIsExact`, `IOWaiterOnce`, `IONoAssertFails`, `IOCancelReaches` | `TypeOK`, `KernelAgrees`, `PendingIsExact`, `WaiterOnce`, `NoAssertFails`, `CancelReaches` |
| `ServerProofs` | `HookInvariant`, `TimeoutsAreHonest`, `ConnectsAreHonest`, `OneLateClient`, `DescriptorInvariant`, `OneWaiterPerEvent`, `CallsDoNotBlock` | `HookInv`, `TimeoutHonest`, `ConnectHonest`, `LateClients`, `DescriptorInv`, `OneWaiter`, `BlockingKept` |
| `PoolProofs` | `PoolAccountsRight` | `PoolAccounts` |
| `ByteArrayProofs` | `ByteInvariant`, `WrittenIsRead`, `PeeksAreData`, `ArrayIsSequence` | `ByteInv`, `ReadsBack`, `PeeksRight`, and the refinement `ImplementsByteSeq` |
| `HttpProofs` | `RequestInvariant`, `RequestPartsAreRight`, `HeadersAreRight` | `RequestInv`, `RequestPartsRight`, `HeadersRight` |

### Assumptions on the constants

They are `ASSUME`s of the component's module, which TLC evaluates in the runs. Most
say what kind of thing a constant is, and that the null pointer, -1 and the like are
not one of the things they stand for: `ThreadAssumption` (finitely many workers, the
root thread is none of them), `TaskAssumption`, `TimerAssumption` (finitely many
workers, and clients are no workers), `IOAssumption` (finitely many threads and
descriptors; the table has more than one slot from the start, as the constructor makes
32: with one slot, `contextResize(fd * 1.5)` would make no room for descriptor 1), `HookAssumption`,
`FiberAssumption`, `ServerAssumption` (a server listens on its socket, as `bind` makes
it do). `SetupAssumption`: a scheduler has a thread, which its constructor asserts.
`PoolAssumption`: as `m_createTime` is 0, a connection's age is the time since 1970,
and `m_maxAliveTime`, 32 bits of ms, is less. `ByteArrayAssumption`: sizes are positive,
the integers have `Width` bits and a string's length fits in one. The `PowerAssumption`s of
`TimerManager` and `ByteArray` have facts about powers of 2 that the provers lack.

### Hypotheses of single theorems

Some theorems hold only for some uses, the ones of section 5, and say so by `ASSUME`:

* `CalmSetups`, in `FiberProofs`: a parked fiber is resumed by its own thread, and none
  yields on the caller's thread. Without the first two threads get on one stack, without
  the second `back()` ends in `stop()`: the runs `scheduler_shared_stack` and
  `scheduler_caller_yield`.
* `DrainSetups`, in `StopLeavesNothing`: in addition, a pinned task does not yield
  (`PinnedSetups`), as `run()` re-enters a fiber that did without its pin, and TLC finds
  `StopDrains` violated; and no fiber parks. With fibers that
  park, yield twice and are woken on their own thread TLC finds `StopDrains` violated:
  a thread that saw `stopping()` in the gap of `scheduler.cc:195` has left `run()`, and
  an entry that is for this thread stays in the list.
* `NoWrap`, in `SleepIsBounded` and `SleepsInTime`: no delay, plus what the clock was
  set back, reaches 2^31 ms, and neither does `MAX_TIMEOUT`. Beyond it the cast of
  `iomanager.cc:316` is negative and `epoll_wait` has no limit.
* `[]NotHeldUp`, in `TimersNotEarly`: no thread is held up for more than an hour between
  `listExpiredCb`'s reading of the clock and the lock. One that is takes the clock
  for set back, as another thread has moved `m_previousTime` on, and runs every timer.
* `ServerAlone`, in the last three theorems of `ServerProofs`: the fibers of a server's
  scheduler run the server's tasks only. Another fiber that reads the server's sockets
  makes `addEvent` assert, which is the program's fault.

### The arguments

**Scheduler.** `StoppingIsQuiet` speaks about positions of threads, `stopping()` about
a counter. `IndInv` ties them: `LocalInv` says what each position implies for the
thread's locals, in particular where its increment of `m_activethreadcount` is still due
a decrement (`is_active`); `CountInv` says that the counter is the number of such
threads. Neither is inductive without the other: a decrement keeps the count right only
if the thread was counted, and that a thread at `after` is counted is what the position
says. `m_idlethreadcount` is only bounded from below: a root thread that `back()` tore
out of its idle fiber stays counted for good, in the model as in the code.

**Fibers.** `OneThreadPerFiber`, `RunsOnce` and `NoTaskLost` are three sides of one
fact, which `OwnInv` states: for every task that has not ended exactly one party answers, an
entry of the list (`ListInv`), a thread that took one (`HandInv`), the thread on its
stack (`StackInv`) or the client that will wake it (`ParkInv`). The exception is what
makes it hard: a fiber that has parked itself may be woken, and so be listed, while its
thread is still on its stack; then the entry is for that thread (`Handed`), which cannot
scan before it is off the stack. `StageInv` says how far a yield has come at each
position, `KeptInv` that a fiber kept for recycling is blank, `BookInv` that no two
fibers have one callback.

**Stop.** `StillInv`: where fibers are not to yield, none has yielded, so with pins
`run()` re-enters none. `DrainInv` splits on how the list could fill again after some idle
fiber has seen `stopping()`. If no fiber yields it cannot, and `stopping()` stays true
(`StaysStopped`). If fibers do yield there are no pins, any thread may take any entry,
and whoever puts one in looks at the list again before it leaves `run()`
(`SomebodyScans`, `WillScan`); so the last one to leave leaves an empty list.

**Timers.** `EraseFindsTimer` is not inductive alone: the timer that `addTimer` has built
but not yet inserted has a callback and must not be one that is already `added`, nor
the one another thread is about to insert (`AddingInv`). `OneShotOnce` needs the
stronger `FiredInv`: the callback is what cancel and expiry compete for, so a one-shot
timer that still has it met neither, and one that lost it met exactly one. The theorems
about time rest on `ReadingsInv`: every time that was ever read, and every time a timer
was started at, is at most the clock plus what it was set back by. `SleepersInTime`
needs `SleepInv`: as long as no tickle is under way, `m_tickled` is false while the only
worker sleeps, so that the next `addTimer` in front will send one.

**Events.** `KernelAgrees` alone is not inductive: `addEvent` looks its context up
before it locks it, so the context it will use must belong to its descriptor
(`CallInv`), and no two calls may be about to add one event (`AddInv`). `PendingIsExact`
counts waiters over all contexts, those cut off by a resize too. `WaiterOnce` needs that
a waiter is in one place: a context, an `addEvent` under way, the run queue or dropped
(`WaitInv`). `NoAssertFails` and `CancelReaches` have an invariant for each use they
allow: `ReadOnlyInv` for programs without WRITE, and `OneThreadInv`, that what
`epoll_wait` returned is still waited for when the only thread handles it.

**Hooked calls.** A callback may run long after its call, and a call's waiter may be
woken by somebody else's callback. `HookInv` says what still connects them: calls have
numbers of their own, a waiter waits in the call that registered it (`EventInv`), a
timer's number is that of at most one call, of its own fiber (`TimerInv`), and
`cancelled` is set only if the timer of the current call has expired (`CancelledInv`).
`ConnectInv` says that one fiber at a time connects a socket, and what woke it.
`LateClients` rests on `AcceptInv`: there is one accept loop, queued or running.
`BlockingKept` and `OneWaiter` need to know whose a descriptor is: `SocketInv` (a
socket of a server is the listening one, is being set up, waits for a fiber or belongs
to one), `SoleInv`, and `NonblockInv` (a descriptor without `O_NONBLOCK` is one whose
`create` is not over).

**Pool.** A connection is in the list or lent to one caller (`PlaceInv`), `m_total` is
the number of those that exist, and a caller that finds the list empty is busy itself,
so that the list and the busy callers together are never more than the callers
(`TotalInv`). The last bounds the connections by the greatest number of callers at a
time, although nothing in the code enforces `m_maxSize`.

**Byte array.** `ChainInv` says that the current block is the block of the position, or
null at the end of the memory, and that size and position stay in the memory. Each needs
the other: a write moves on from the block the cursor names. `ItemInv` keeps what
`ReadsBack` needs: where an item that was not overwritten lies, the bytes of its code
are still there, as a write changes only the bytes between the old and the new position.
Reading is then a matter of the codes: a reader has consumed exactly what lies between
`m_position` and its own position, and `Varint`, `EncodeZigzag` and their inverses cancel
(`VarintSum`, `VarintBack`, `ZigzagBack`). The loops are recursive functions, and what
they compute is proved by the least number at which they would not (the lemma
`Induction`, from the well-foundedness of the naturals): a varint's groups, its rounds of
reading, and the rounds of `writeToFile`, after each of which the file holds what was
behind the position when it began. `ArrayIsSequence` maps a write to `Put`, a read
to `Take` or `EmptyRead`, also when it throws, `clear` to `Clear`, and the others to
`Seek`; a `setPosition` that throws is a `Take` of nothing.

**Requests.** The automaton has 349 states, but a request has 19 places where its reader
can be: `Region` says which one a state belongs to, and `InStep`, that automaton and
reference are at the same place. The one that is hard to see is `scheme`: a path that
begins with a letter is a scheme if a colon follows its letters and digits, so the
automaton is in another state than in a path proper, and the reference knows it too.
`Moves` is the automaton in this light, from region to region with a class of characters
and the actions of `http11_parser.rl`; `RightRequestArcs` shows, set of arcs by set
of arcs, that every transition of the generated code is such a move, among them the IP
literals' 130 states, which never leave the path, and the copies for JSON requests,
which never leave the socket request. The rest is about data. `PartsInv` and `FieldInv`
say what `mark`, `query_start`, `field_start` and `field_len` are worth: the pointer of
the part being read is at its beginning unless `execute()` has been called anew since it
began (`cut`), when it is 0 and stands for whatever comes next. Neither property is
inductive without them, since they speak only of a request that is complete, and of a
field that is over; and `PartsInv` has to know that a part that has not begun is not cut.
Each list of actions has a lemma that says what it makes of the pointers (`Does...`), each
case of the reference one (`Ref...`), and each region one that its step keeps the
invariant (`Step...`).

### Only model-checked

* Liveness (`EveryTaskRuns`, `StopReturns`, `DeadlineMet`, `WaitEnds`): TLAPS does not
  reason about fairness and `ENABLED`.
* The parsers of URIs and responses (`UriPartsRight`, `IPv6Exact`, `ResponseFramed`):
  automata and references are finite, and TLC goes through every string. A proof would
  do for their states what `Region` and `Moves` do for a request's, and `IPv6Exact` needs
  one region for every count of groups.
* The violations of section 6, which are counterexamples.

## 5. What holds, and under which use

Some properties hold only for some uses of the code, and say so:

* `OneThreadPerFiber` needs fibers to be woken on the thread they parked on.
* `StopDrains` and `StopReturns` need fibers on the caller's thread not to yield.
* `StopReturns` with fibers woken on their own thread needs one worker: the
  thread may have left `run()` by the time its fiber is woken.
* `EveryTaskRuns` with pins needs pinned tasks not to yield.
* `SleepersInTime` needs one worker, no signal and a clock that is not set back.
* `SleepBounded` needs delays below `2^(IntBits-1)` ms.
* `NoAssertFails` needs programs that wait for READ only, or one thread that
  meets no error and does not call `cancelAll`.
* `CancelReaches` needs one thread.
* `ConnectHonest` does not hold after a `close()` of the descriptor, or when the
  callback of another call wakes the fiber: `connect` then returns 0.
* `BlockingKept` needs programs that leave `O_NONBLOCK` alone and threads that
  are hooked wherever they close a descriptor.
* `OneWaiter` and `LateClients` need a server that is not started again.
* `WaitEnds` is about a wait whose callback has not run before it began.
* `UriPartsRight` says which parts differ from RFC 3986 (section 6).
* `RequestPartsRight`, `HeadersRight` and `ResponseFramed` say of each part that
  `read()` cuts that it is lost or wrong, and of all others that they are right.
* `RequestPartsRight` is about the header: `execute()` throws only for a query that was
  cut. The body's `resize()` may throw after a header that is right in all its parts.
* `ResponseFramed` keeps client and server in step unless a chunk's header is cut, a
  chunk's size with its CRLF does not fit an `int`, the last chunk has a trailer, or a
  `Content-Length` is 2^63 or more; `recvResponse` throws only for such a chunk (not
  for a trailer), or for more memory than there is.
* `PeeksRight` has the conditions under which the positioned read, the positioned
  `getReadBuffers` and `writeToFile` are right.
* `ReadsBack` does not hold for an empty string that ends with the memory.

## 6. Where code and text disagree

With a run that shows it:

* `scheduler_shared_stack` (`fiber.cc:201`): `YieldToHold` says HOLD before the
  stack is left. A fiber that is woken in between without a pin, as
  `triggerEvent` and the hook's `sleep` do, is resumed by a second thread on the
  stack the first is still on.
* `scheduler_caller_yield` (`fiber.cc:162`): a yield on the caller's thread
  returns into `stop()`, which ends with tasks left in the list.
* `scheduler_late_hold` (`scheduler.cc:220`, and 200): after a fiber has left the stack
  `run()` stores HOLD in it once more. If it was woken without a pin, another thread may
  have run it to its end by then: TERM is overwritten, and the destructor's assert
  (`fiber.cc:90`) fails when the last pointer goes. The wakes that do this are the
  framework's own: the timer of the hook's `sleep` and `triggerEvent`.
* `timer_empty_deref` (`timer.cc:156`): another thread cancels the last timer
  between `listExpiredCb`'s two locks, and `begin()` of an empty set is read.
* `iomanager_err` (`iomanager.cc:348`): an error or hang-up counts as READ even if
  only WRITE is waited for, and `triggerEvent` asserts.
* `server_stop` (`tcp_server.cc:112`): `stop()` wakes the accept loop inside
  `do_io`, which tries again, finds the descriptor open, as the hooked `close()`
  does not close it, and waits for a client that may never come.

Met while modelling and in the models, but not kept as a run. Where section 5 has a
condition for it, TLC shows it once the condition is dropped:

* `scheduler.cc:195`: `m_activethreadcount` drops before a READY fiber is
  scheduled again. In between `stopping()` is true and another worker may leave
  `run()`; a task later pinned to that worker is never run and `stop()` hangs.
* `scheduler.cc:198`, `215`: a pinned fiber that yields to READY is scheduled again
  without its pin, and goes on on any thread. `src/README.md:17` promises a fixed one.
* `timer.cc:130`: with two workers, `m_tickled` and the one byte in the pipe may
  serve the wrong worker; the other oversleeps a new first timer by up to
  `MAX_TIMEOUT`.
* `iomanager.cc:316`: a timeout whose low 32 bits are a negative `int` is not
  clamped, and `epoll_wait` waits without limit.
* `iomanager.cc:358`: an event returned for READ and WRITE of which one was
  cancelled before it is handled fails `triggerEvent`'s assert.
* `iomanager.cc:260`: `cancelAll` with both events triggers only READ and fails
  its own final assert.
* `iomanager.cc:118`: two threads that both find the table too small resize it to
  their own `fd * 1.5`; the later, smaller one cuts contexts off, and
  `cancelEvent` no longer finds their waiters.
* `hook.cc:168`, `hook.cc:317`: a time-out whose callback runs before `addEvent`
  cancels nothing; the call then waits without one.
* `hook.cc:325`: `connect` returns 0 after a `close()` of its descriptor.
* `fd_manager.cc:97`: a socket that gets the number of a descriptor which an
  unhooked thread closed keeps the old context and blocks its thread.
* `tcp_server.cc:84`: `start()` after `stop()` makes two fibers wait for one event,
  and `addEvent` asserts.
* `http_connection.h:118`: `m_createTime` is never set, so that connections have no
  "链接存在时间上限" (line 193); `m_maxSize`, "连接池最多能存放多少条链接" (line 192),
  is never read.
* `http11_parser.rl.cc:94-97`, `httpclient_parser.rl.cc:98-101`: `execute` resets its
  offsets although a part may have begun in the piece before. A field that is cut
  loses the beginning of its name, or is dropped; a `Content-Length` that is cut is
  lost and the body stays in the stream; a query that is cut may throw. A chunk's
  header that is cut is read as two (`http_parser.cc:261`).
* `http_session.cc:50`: `resize()` by the client's `Content-Length`, which nothing limits,
  throws out of `recvRequest`. `http_connection.cc:117` does the same in the client.
* `httpclient_parser.rl:97`: a chunk's size is stored in an `int`. One of 2^32 is 0 and
  ends the body, one of 2^31 is negative and makes `append()` throw; `content_len + 2`
  (`http_connection.cc:93`) overflows for 2^31-2.
* `http_connection.cc:93`: two bytes are skipped after the last chunk; the rest of a
  trailer stays in the stream, for the next response.
* `httpclient_parser.rl.cc:3335`: states 121 to 123 are final but not finished.
* `uri.rl`: a path without scheme or without authority is not stored; a userinfo
  whose password begins with a digit is stored from that digit on; an empty port
  after a scheme throws (`mark` is null in `save_path`).
* `bytearray.cc:404`, `435`, `494`: an empty read at the end of the memory, the
  positioned read outside the current block, and `writeToFile` from inside a block.

## 7. Not modelled

Stacks and contexts as memory, fiber ids, logging and names. Memory ordering: a
read of `m_state` returns the last value stored. `switchTo` and fibers used
without a scheduler. Level- and edge-triggering beyond what section 2 says. The
composition at `IOManager::stopping` (`iomanager.cc:283-294`). The mutex wrappers,
whose critical sections are single steps. `Config` (its values pass through YAML, at
start-up), `ServletDispatch` (three look-ups in a fixed order), `Address`, `Log`, util
and the formatting halves of HTTP and `Uri`: they keep no state over a step that
another part could interfere with. Sockets, beyond what the server and the pool
use, are one system call per method. `http/uri.rl.cc` is a second copy of
`uri.rl.cc` that the build does not compile. Literals with an IPv4 tail and
IPvFuture are in the automaton, but not in the reference of `IPv6Exact`.

## 8. Plan

1. `Idle`: the composition of the three core modules at `IOManager::stopping` and
   `tickle`: the manager stops only when no timer, no event and no task is left,
   and then every thread wakes up to see it.
2. `Config::setValue` with its listeners.
3. A proof of `ResponseFramed` along the lines of `HttpProofs`, for the automaton of a
   response and that of a chunk's header, which share their states; then of
   `UriPartsRight`.
