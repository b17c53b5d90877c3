------------------------------ MODULE Scheduler ------------------------------
(***************************************************************************)
(* The fiber scheduler: HCServer/scheduler.{h,cc} with the fibers it       *)
(* switches between (fiber.cc) and the threads it starts and joins         *)
(* (thread.cc).                                                            *)
(*                                                                         *)
(* A pool of workers, and with use_caller also the thread Root that built  *)
(* the scheduler, each execute Scheduler::run: they take entries of the    *)
(* shared list m_fibers and resume the fiber an entry names, or a fiber    *)
(* made for the callback it names.  What a fiber's code does is the        *)
(* client's business: it schedules more work, yields, parks itself where   *)
(* other code finds it and wakes it, returns or throws, in any order.      *)
(*                                                                         *)
(* The virtual functions are those of the base class: tickle() only logs,  *)
(* idle() polls stopping() and yields.                                     *)
(*                                                                         *)
(* One action is one critical section of m_mutex, or one access to the     *)
(* state another thread may look at: Fiber::m_state is neither atomic nor  *)
(* locked, so setting it and leaving the fiber's stack are two actions.    *)
(***************************************************************************)
EXTENDS Integers, Sequences, FiniteSets, SequencesExt

CONSTANTS
    Workers,     \* threads that m_threads may hold
    Root,        \* the thread that calls start() and stop()
    Cbs,         \* callbacks the client may schedule, each once
    UserFibers,  \* fibers the client made itself and may schedule
    MaxYields,   \* bound: how often one fiber yields
    Setups,      \* how the scheduler is built and used, see Setup
    NoThread,    \* thread id -1
    NoTask       \* nullptr

AllThreads == Workers \cup {Root}
Tasks      == Cbs \cup UserFibers

(***************************************************************************)
(* A setup is the constructor's arguments (the threads made for the pool,  *)
(* and use_caller: does Root run fibers as well) and the use that the      *)
(* client makes of the scheduler: which tasks it submits, are entries      *)
(* pinned to threads, how often does a fiber yield, does one yield on      *)
(* Root, and who may run a fiber that parked itself and is woken: its      *)
(* thread ("own"), any thread ("any"), or nobody parks ("none").           *)
(***************************************************************************)
Setup == [threads : SUBSET Workers, use_caller : BOOLEAN, pinned : BOOLEAN,
          tasks : SUBSET Tasks, yields : 0..MaxYields, rootYields : BOOLEAN,
          wake : {"none", "own", "any"}]

ASSUME ThreadAssumption ==
    /\ Root \notin Workers /\ NoThread \notin AllThreads
    /\ IsFiniteSet(Workers)
ASSUME TaskAssumption ==
    /\ NoTask \notin Tasks
    /\ Cbs \cap UserFibers = {}
    /\ MaxYields \in Nat
ASSUME SetupAssumption ==
    /\ Setups \subseteq Setup
    /\ \A s \in Setups : s.use_caller \/ s.threads # {}  \* scheduler.cc:21

(***************************************************************************)
(* Fiber objects are named by the callback they were first made for; a     *)
(* callback run on a recycled fiber c keeps its own name in m_cb[c].       *)
(***************************************************************************)
State == {"INIT", "EXEC", "READY", "HOLD", "EXCEPT", "TERM"}
Dead  == {"TERM", "EXCEPT"}

FiberAndThread == [kind : {"fiber", "cb"}, task : Tasks,
                   thr : AllThreads \cup {NoThread}]
NoEntry == [kind |-> "none", task |-> NoTask, thr |-> NoThread]

VARIABLES
    setup,                \* fixed by the constructor and the client
    m_fibers,             \* the list of entries to run
    m_activethreadcount,  \* threads with an entry in hand
    m_idlethreadcount,    \* threads in their idle fiber
    m_stopping,
    m_autostop,
    m_state,              \* Fiber::m_state
    m_cb,                 \* Fiber::m_cb, the callback a fiber runs
    pc,                   \* where each thread is
    ft,                   \* run()'s local entry
    is_active,            \* this thread's ++m_activethreadcount is still due
                          \* its --m_activethreadcount
    cb_fiber,             \* run()'s local fiber for callbacks
    idle_fiber,           \* state of run()'s local idle fiber
    cur,                  \* the fiber whose stack the thread is on
    submitted,            \* client: tasks handed to schedule()
    pin,                  \* client: the thread a task was scheduled for
    ended,                \* client: callbacks that returned or threw
    parkedOn,             \* client: thread a fiber parked on, until woken
    yields                \* client: how often a fiber yielded

sched  == <<m_activethreadcount, m_idlethreadcount, m_stopping, m_autostop>>
fibers == <<m_state, m_cb>>
locals == <<ft, is_active, cb_fiber, idle_fiber, cur>>
client == <<setup, submitted, pin, ended, parkedOn, yields>>
vars   == <<m_fibers, sched, fibers, pc, locals, client>>

Runners == setup.threads \cup (IF setup.use_caller THEN {Root} ELSE {})

Init ==
    /\ setup \in Setups
    /\ m_fibers = <<>>
    /\ m_activethreadcount = 0 /\ m_idlethreadcount = 0
    /\ m_stopping = TRUE /\ m_autostop = FALSE
    /\ m_state = [f \in Tasks |-> "INIT"]
    /\ m_cb = [f \in Tasks |-> IF f \in UserFibers THEN f ELSE NoTask]
    /\ pc = [t \in AllThreads |-> IF t = Root THEN "init" ELSE "off"]
    /\ ft = [t \in AllThreads |-> NoEntry]
    /\ is_active = [t \in AllThreads |-> FALSE]
    /\ cb_fiber = [t \in AllThreads |-> NoTask]
    /\ idle_fiber = [t \in AllThreads |-> "INIT"]
    /\ cur = [t \in AllThreads |-> NoTask]
    /\ submitted = {} /\ ended = {}
    /\ pin = [f \in Tasks |-> NoThread]
    /\ parkedOn = [f \in Tasks |-> NoThread]
    /\ yields = [f \in Tasks |-> 0]

Goto(t, l) == pc' = [pc EXCEPT ![t] = l]

-----------------------------------------------------------------------------
(* schedule(): one entry, or a range of them, pushed under m_mutex.        *)

scheduleNoLock(q, e) == IF e.kind = "none" THEN q ELSE Append(q, e)

schedule(e) == m_fibers' = scheduleNoLock(m_fibers, e)

EntryOf(c, thr) ==
    [kind |-> IF c \in Cbs THEN "cb" ELSE "fiber", task |-> c, thr |-> thr]

\* Client code runs on Root before stop() and inside fibers.
InClient(t) == pc[t] = "exec" \/ (t = Root /\ pc[t] \in {"init", "main"})

Submit(t) ==
    /\ InClient(t)
    /\ \E c \in setup.tasks \ submitted, thr \in Runners \cup {NoThread} :
          /\ setup.pinned \/ thr = NoThread
          /\ schedule(EntryOf(c, thr))
          /\ submitted' = submitted \cup {c}
          /\ pin' = [pin EXCEPT ![c] = thr]
    /\ UNCHANGED <<sched, fibers, pc, locals, setup, ended, parkedOn, yields>>

SubmitBatch(t) ==
    /\ InClient(t)
    /\ \E c, d \in setup.tasks \ submitted :
          /\ c # d
          /\ m_fibers' = scheduleNoLock(scheduleNoLock(m_fibers,
                            EntryOf(c, NoThread)), EntryOf(d, NoThread))
          /\ submitted' = submitted \cup {c, d}
    /\ UNCHANGED <<sched, fibers, pc, locals, setup, pin, ended, parkedOn,
                   yields>>

\* A fiber that has already ended is scheduled once more.
SubmitDead(t) ==
    /\ InClient(t)
    /\ \E f \in UserFibers :
          /\ m_state[f] \in Dead
          /\ \A i \in 1..Len(m_fibers) : m_fibers[i].task # f
          /\ schedule(EntryOf(f, NoThread))
    /\ UNCHANGED <<sched, fibers, pc, locals, client>>

\* Wake a parked fiber: schedule(fiber) or schedule(fiber, its thread).
Wake(t) ==
    /\ InClient(t)
    /\ \E f \in Tasks \ {cur[t]} :
          /\ parkedOn[f] # NoThread
          /\ schedule([kind |-> "fiber", task |-> f,
                thr |-> IF setup.wake = "own" THEN parkedOn[f] ELSE NoThread])
          /\ parkedOn' = [parkedOn EXCEPT ![f] = NoThread]
    /\ UNCHANGED <<sched, fibers, pc, locals, setup, submitted, pin, ended,
                   yields>>

-----------------------------------------------------------------------------
(* start(), stop() and the destructor's wait, all on Root.                 *)

\* m_stopping is still true only before the first start().  m_mutex is held
\* until every worker exists, so no worker scans earlier.
start ==
    /\ pc[Root] = "init"
    /\ m_stopping' = FALSE
    /\ pc' = [t \in AllThreads |-> IF t = Root THEN "main"
                                 ELSE IF t \in setup.threads THEN "scan"
                                 ELSE "off"]
    /\ UNCHANGED <<m_fibers, m_activethreadcount, m_idlethreadcount,
                   m_autostop, fibers, locals, client>>

\* Mutants: stopping() forgets the threads at work, or the list.
stoppingIgnoresActive == m_autostop /\ m_stopping /\ m_fibers = <<>>
stoppingIgnoresQueue == m_autostop /\ m_stopping /\ m_activethreadcount = 0

stopping ==
    /\ m_autostop /\ m_stopping
    /\ m_fibers = <<>> /\ m_activethreadcount = 0

\* The root fiber has not run yet: its state is INIT.
StopBegin ==
    /\ pc[Root] = "main"
    /\ m_autostop' = TRUE
    /\ Goto(Root, IF setup.use_caller /\ setup.threads = {}
               THEN "stop_root" ELSE "stop_all")
    /\ UNCHANGED <<m_fibers, m_activethreadcount, m_idlethreadcount,
                   m_stopping, fibers, locals, client>>

StopRootOnly ==
    /\ pc[Root] = "stop_root"
    /\ m_stopping' = TRUE
    /\ UNCHANGED <<m_fibers, m_activethreadcount, m_idlethreadcount,
                   m_autostop, fibers, locals, client>>
    /\ Goto(Root, IF stopping' THEN "returned" ELSE "stop_all")

StopAll ==
    /\ pc[Root] = "stop_all"
    /\ m_stopping' = TRUE
    /\ Goto(Root, IF setup.use_caller THEN "stop_call" ELSE "join")
    /\ UNCHANGED <<m_fibers, m_activethreadcount, m_idlethreadcount,
                   m_autostop, fibers, locals, client>>

\* m_rootFiber->call(): Root enters run() itself.
StopCall ==
    /\ pc[Root] = "stop_call"
    /\ Goto(Root, IF stopping THEN "join" ELSE "scan")
    /\ UNCHANGED <<m_fibers, sched, fibers, locals, client>>

Join ==
    /\ pc[Root] = "join"
    /\ \A w \in setup.threads : pc[w] = "exit"
    /\ Goto(Root, "returned")
    /\ UNCHANGED <<m_fibers, sched, fibers, locals, client>>

-----------------------------------------------------------------------------
(* Scheduler::run, one round of its loop.                                  *)

\* Mutant: the pin is not looked at.
EligibleAnyThread(e, t) == ~(e.kind = "fiber" /\ m_state[e.task] = "EXEC")

\* The scan passes over entries pinned to another thread and over fibers
\* that are executing.
Eligible(e, t) ==
    /\ e.thr \in {NoThread, t}
    /\ ~(e.kind = "fiber" /\ m_state[e.task] = "EXEC")

\* Entry i is the first one that thread t takes.
FirstEligible(i, t) ==
    /\ Eligible(m_fibers[i], t)
    /\ \A j \in 1..(i - 1) : ~Eligible(m_fibers[j], t)

\* Mutant: the entry taken is not erased.
ScanTakesButKeeps(t) ==
    /\ pc[t] = "scan"
    /\ \E i \in 1..Len(m_fibers) :
          FirstEligible(i, t) /\ ft' = [ft EXCEPT ![t] = m_fibers[i]]
    /\ m_activethreadcount' = m_activethreadcount + 1
    /\ is_active' = [is_active EXCEPT ![t] = TRUE]
    /\ Goto(t, "dispatch")
    /\ UNCHANGED <<m_fibers, m_idlethreadcount, m_stopping, m_autostop, fibers,
                   cb_fiber, idle_fiber, cur, client>>

ScanTakes(t) ==
    /\ pc[t] = "scan"
    /\ \E i \in 1..Len(m_fibers) :
          /\ FirstEligible(i, t)
          /\ ft' = [ft EXCEPT ![t] = m_fibers[i]]
          /\ m_fibers' = RemoveAt(m_fibers, i)
    /\ m_activethreadcount' = m_activethreadcount + 1
    /\ is_active' = [is_active EXCEPT ![t] = TRUE]
    /\ Goto(t, "dispatch")
    /\ UNCHANGED <<m_idlethreadcount, m_stopping, m_autostop, fibers,
                   cb_fiber, idle_fiber, cur, client>>

ScanFindsNone(t) ==
    /\ pc[t] = "scan"
    /\ \A i \in 1..Len(m_fibers) : ~Eligible(m_fibers[i], t)
    /\ ft' = [ft EXCEPT ![t] = NoEntry]
    /\ Goto(t, "dispatch")
    /\ UNCHANGED <<m_fibers, sched, fibers, is_active, cb_fiber, idle_fiber,
                   cur, client>>

RunFiber(t) ==
    /\ pc[t] = "dispatch"
    /\ ft[t].kind = "fiber" /\ m_state[ft[t].task] \notin Dead
    /\ cur' = [cur EXCEPT ![t] = ft[t].task]
    /\ Goto(t, "swapin")
    /\ UNCHANGED <<m_fibers, sched, fibers, ft, is_active, cb_fiber,
                   idle_fiber, client>>

\* cb_fiber->reset(cb), or new Fiber(cb) if the thread has none.
RunCb(t) ==
    /\ pc[t] = "dispatch"
    /\ ft[t].kind = "cb"
    /\ LET f == IF cb_fiber[t] # NoTask THEN cb_fiber[t] ELSE ft[t].task
       IN  /\ m_state' = [m_state EXCEPT ![f] = "INIT"]
           /\ m_cb' = [m_cb EXCEPT ![f] = ft[t].task]
           /\ cb_fiber' = [cb_fiber EXCEPT ![t] = f]
           /\ cur' = [cur EXCEPT ![t] = f]
    /\ Goto(t, "swapin")
    /\ UNCHANGED <<m_fibers, sched, ft, is_active, idle_fiber, client>>

\* The fiber in hand has ended already.
SkipDead(t) ==
    /\ pc[t] = "dispatch"
    /\ ft[t].kind = "fiber" /\ m_state[ft[t].task] \in Dead
    /\ m_activethreadcount' = m_activethreadcount - 1
    /\ is_active' = [is_active EXCEPT ![t] = FALSE]
    /\ Goto(t, "scan")
    /\ UNCHANGED <<m_fibers, m_idlethreadcount, m_stopping, m_autostop,
                   fibers, ft, cb_fiber, idle_fiber, cur, client>>

\* Mutant: the test of is_active is dropped.
GoIdleAlwaysCounts(t) ==
    /\ pc[t] = "dispatch"
    /\ ft[t].kind = "none"
    /\ m_activethreadcount' = m_activethreadcount - 1
    /\ Goto(t, "scan")
    /\ UNCHANGED <<m_fibers, m_idlethreadcount, m_stopping, m_autostop,
                   fibers, locals, client>>

\* Nothing to run: enter the idle fiber, or leave run() if it has ended.
\* On Root run() is the root fiber, whose end leads back into stop().
GoIdle(t) ==
    /\ pc[t] = "dispatch"
    /\ ft[t].kind = "none"
    /\ IF idle_fiber[t] = "TERM"
       THEN /\ Goto(t, IF t = Root THEN "join" ELSE "exit")
            /\ UNCHANGED <<m_idlethreadcount, idle_fiber>>
       ELSE /\ m_idlethreadcount' = m_idlethreadcount + 1
            /\ idle_fiber' = [idle_fiber EXCEPT ![t] = "EXEC"]
            /\ Goto(t, "idle")
    /\ UNCHANGED <<m_fibers, m_activethreadcount, m_stopping, m_autostop,
                   fibers, ft, is_active, cb_fiber, cur, client>>

\* Where Fiber::back() leads: to the thread's first context.  A worker's is
\* run(); Root's is stop(), just after m_rootFiber->call().
BackTo(t, l) == IF t = Root THEN "join" ELSE l

\* Scheduler::idle: end if stopping(), else YieldToHold.
idle(t) ==
    /\ pc[t] = "idle"
    /\ IF stopping
       THEN /\ idle_fiber' = [idle_fiber EXCEPT ![t] = "TERM"]
            /\ Goto(t, "idleback")
       ELSE /\ idle_fiber' = [idle_fiber EXCEPT ![t] = "HOLD"]
            /\ Goto(t, BackTo(t, "idleback"))
    /\ UNCHANGED <<m_fibers, sched, fibers, ft, is_active, cb_fiber, cur,
                   client>>

IdleBack(t) ==
    /\ pc[t] = "idleback"
    /\ m_idlethreadcount' = m_idlethreadcount - 1
    /\ Goto(t, "scan")
    /\ UNCHANGED <<m_fibers, m_activethreadcount, m_stopping, m_autostop,
                   fibers, locals, client>>

-----------------------------------------------------------------------------
(* Fiber: entering and leaving a fiber's stack.                            *)

swapIn(t) ==
    /\ pc[t] = "swapin"
    /\ m_state' = [m_state EXCEPT ![cur[t]] = "EXEC"]
    /\ Goto(t, "exec")
    /\ UNCHANGED <<m_fibers, sched, m_cb, locals, client>>

\* The setup lets the fiber on thread t yield.
MayYield(t) ==
    /\ pc[t] = "exec" /\ yields[cur[t]] < setup.yields
    /\ t # Root \/ setup.rootYields

YieldToReady(t) ==
    /\ MayYield(t)
    /\ m_state' = [m_state EXCEPT ![cur[t]] = "READY"]
    /\ yields' = [yields EXCEPT ![cur[t]] = @ + 1]
    /\ Goto(t, "back")
    /\ UNCHANGED <<m_fibers, sched, m_cb, locals, setup, submitted, pin, ended,
                   parkedOn>>

\* The fiber leaves Fiber::getthis() with code that will wake it ...
Park(t) ==
    /\ MayYield(t) /\ setup.wake # "none"
    /\ parkedOn' = [parkedOn EXCEPT ![cur[t]] = t]
    /\ yields' = [yields EXCEPT ![cur[t]] = @ + 1]
    /\ Goto(t, "park")
    /\ UNCHANGED <<m_fibers, sched, fibers, locals, setup, submitted, pin,
                   ended>>

\* ... and then yields.
YieldToHold(t) ==
    /\ pc[t] = "park"
    /\ m_state' = [m_state EXCEPT ![cur[t]] = "HOLD"]
    /\ Goto(t, "back")
    /\ UNCHANGED <<m_fibers, sched, m_cb, locals, client>>

\* Fiber::back: swapcontext saves the fiber's context and leaves its stack.
back(t) ==
    /\ pc[t] = "back"
    /\ Goto(t, BackTo(t, "after"))
    /\ UNCHANGED <<m_fibers, sched, fibers, locals, client>>

\* Fiber::MainFunc: the callback returns, or it throws.
MainFunc(t) ==
    /\ pc[t] = "exec"
    /\ \/ /\ m_state' = [m_state EXCEPT ![cur[t]] = "TERM"]
          /\ m_cb' = [m_cb EXCEPT ![cur[t]] = NoTask]
       \/ /\ m_state' = [m_state EXCEPT ![cur[t]] = "EXCEPT"]
          /\ m_cb' = m_cb
    /\ ended' = ended \cup {m_cb[cur[t]]}
    /\ Goto(t, "out")
    /\ UNCHANGED <<m_fibers, sched, locals, setup, submitted, pin, parkedOn,
                   yields>>

\* Fiber::swapOut leads to run() on every thread.
swapOut(t) ==
    /\ pc[t] = "out"
    /\ Goto(t, "after")
    /\ UNCHANGED <<m_fibers, sched, fibers, locals, client>>

-----------------------------------------------------------------------------
(* run() after swapIn returned.                                            *)

\* Mutant: the thread stays counted as active.
AfterSwapStaysActive(t) ==
    /\ pc[t] = "after"
    /\ Goto(t, "post")
    /\ UNCHANGED <<m_fibers, sched, fibers, locals, client>>

AfterSwap(t) ==
    /\ pc[t] = "after"
    /\ m_activethreadcount' = m_activethreadcount - 1
    /\ is_active' = [is_active EXCEPT ![t] = FALSE]
    /\ Goto(t, "post")
    /\ UNCHANGED <<m_fibers, m_idlethreadcount, m_stopping, m_autostop,
                   fibers, ft, cb_fiber, idle_fiber, cur, client>>

\* Mutant: cb_fiber is kept for the next callback although it only yielded.
ReleaseKeepsCbFiber(t) ==
    /\ cur' = [cur EXCEPT ![t] = NoTask]
    /\ ft' = [ft EXCEPT ![t] = NoEntry]
    /\ UNCHANGED <<cb_fiber, is_active, idle_fiber>>

\* The thread lets go of the fiber it ran; unless a callback's fiber ended,
\* cb_fiber is given up with it.
Release(t) ==
    /\ cur' = [cur EXCEPT ![t] = NoTask]
    /\ cb_fiber' = IF ft[t].kind = "cb" THEN [cb_fiber EXCEPT ![t] = NoTask]
                                        ELSE cb_fiber
    /\ ft' = [ft EXCEPT ![t] = NoEntry]
    /\ UNCHANGED <<is_active, idle_fiber>>

\* Mutant: a fiber that yielded to READY is not scheduled again.
PostReadyForgets(t) ==
    /\ pc[t] = "post" /\ m_state[cur[t]] = "READY"
    /\ Release(t)
    /\ Goto(t, "scan")
    /\ UNCHANGED <<m_fibers, sched, fibers, client>>

PostReady(t) ==
    /\ pc[t] = "post" /\ m_state[cur[t]] = "READY"
    /\ schedule([kind |-> "fiber", task |-> cur[t], thr |-> NoThread])
    /\ Release(t)
    /\ Goto(t, "scan")
    /\ UNCHANGED <<sched, fibers, client>>

PostDead(t) ==
    /\ pc[t] = "post" /\ m_state[cur[t]] \in Dead
    /\ IF ft[t].kind = "cb"      \* cb_fiber->reset(nullptr)
       THEN /\ m_state' = [m_state EXCEPT ![cur[t]] = "INIT"]
            /\ m_cb' = [m_cb EXCEPT ![cur[t]] = NoTask]
       ELSE UNCHANGED fibers
    /\ cur' = [cur EXCEPT ![t] = NoTask]
    /\ ft' = [ft EXCEPT ![t] = NoEntry]
    /\ Goto(t, "scan")
    /\ UNCHANGED <<m_fibers, sched, is_active, cb_fiber, idle_fiber, client>>

PostOther(t) ==
    /\ pc[t] = "post" /\ m_state[cur[t]] \notin Dead \cup {"READY"}
    /\ Goto(t, "sethold")
    /\ UNCHANGED <<m_fibers, sched, fibers, locals, client>>

SetHold(t) ==
    /\ pc[t] = "sethold"
    /\ m_state' = [m_state EXCEPT ![cur[t]] = "HOLD"]
    /\ Release(t)
    /\ Goto(t, "scan")
    /\ UNCHANGED <<m_fibers, sched, m_cb, client>>

-----------------------------------------------------------------------------
run(t) ==
    \/ ScanTakes(t) \/ ScanFindsNone(t) \/ RunFiber(t) \/ RunCb(t)
    \/ SkipDead(t) \/ GoIdle(t) \/ idle(t) \/ IdleBack(t)
    \/ swapIn(t) \/ swapOut(t) \/ back(t)
    \/ AfterSwap(t) \/ PostReady(t) \/ PostDead(t) \/ PostOther(t) \/ SetHold(t)

body(t) ==
    \/ Submit(t) \/ SubmitBatch(t) \/ SubmitDead(t) \/ Wake(t)
    \/ YieldToReady(t) \/ Park(t) \/ YieldToHold(t) \/ MainFunc(t)

stop == StopBegin \/ StopRootOnly \/ StopAll \/ StopCall \/ Join

\* stop() has returned: the program may end.
Returned == pc[Root] = "returned" /\ UNCHANGED vars

Next ==
    \/ start \/ stop \/ Returned
    \/ \E t \in AllThreads : run(t) \/ body(t)

Spec == Init /\ [][Next]_vars

\* The kernel runs every thread; client code ends or yields after finitely
\* many steps; main() calls start() and stop().
Fairness ==
    /\ WF_vars(start) /\ WF_vars(stop)
    /\ \A t \in AllThreads :
          /\ WF_vars(run(t))
          /\ WF_vars(YieldToHold(t) \/ MainFunc(t))

FairSpec == Spec /\ Fairness

-----------------------------------------------------------------------------
(* Properties.                                                             *)

Labels == {"init", "main", "stop_root", "stop_all", "stop_call", "join",
           "returned", "off", "scan", "dispatch", "swapin", "exec", "park",
           "back", "out", "after", "post", "sethold", "idle", "idleback",
           "exit"}

\* Type invariant of the scheduler's, the fibers' and the threads' state.
TypeOK ==
    /\ setup \in Setups
    /\ m_fibers \in Seq(FiberAndThread)
    /\ m_activethreadcount \in Nat /\ m_idlethreadcount \in Nat
    /\ m_stopping \in BOOLEAN /\ m_autostop \in BOOLEAN
    /\ m_state \in [Tasks -> State]
    /\ m_cb \in [Tasks -> Tasks \cup {NoTask}]
    /\ pc \in [AllThreads -> Labels]
    /\ ft \in [AllThreads -> FiberAndThread \cup {NoEntry}]
    /\ is_active \in [AllThreads -> BOOLEAN]
    /\ cb_fiber \in [AllThreads -> Tasks \cup {NoTask}]
    /\ idle_fiber \in [AllThreads -> State]
    /\ cur \in [AllThreads -> Tasks \cup {NoTask}]
    /\ submitted \subseteq Tasks
    /\ pin \in [Tasks -> AllThreads \cup {NoThread}]
    /\ ended \subseteq Tasks \cup {NoTask}
    /\ parkedOn \in [Tasks -> AllThreads \cup {NoThread}]
    /\ yields \in [Tasks -> 0..MaxYields]

\* From the moment its entry leaves m_fibers until run() has dealt with what
\* swapIn returned, a thread answers for the task it took.
Holding == {"swapin", "exec", "park", "back", "out", "after", "post", "sethold"}
OnStack == {"exec", "park", "back", "out"}

\* stopping() looks only at m_fibers and m_activethreadcount; when it says
\* yes, no thread is inside a task or about to enter one, whatever the
\* threads do between their critical sections.
StoppingIsQuiet ==
    stopping => \A t \in AllThreads :
        /\ pc[t] \notin {"swapin"} \cup OnStack
        /\ pc[t] = "dispatch" => ft[t].kind = "none"

\* A fiber has one stack: no two threads are on it at a time, although
\* Fiber::m_state, which the scan goes by, is set before the stack is left.
OneThreadPerFiber ==
    \A t, u \in AllThreads :
        t # u /\ pc[t] \in OnStack /\ pc[u] \in OnStack => cur[t] # cur[u]

\* The asserts of Fiber::swapIn (state is not EXEC) and Fiber::reset (state
\* is INIT, TERM or EXCEPT) never fail in run().
FiberAsserts ==
    \A t \in AllThreads :
        /\ pc[t] = "swapin" => m_state[cur[t]] # "EXEC"
        /\ (pc[t] = "dispatch" /\ ft[t].kind = "cb" /\ cb_fiber[t] # NoTask)
              => m_state[cb_fiber[t]] \in {"INIT"} \cup Dead

\* Where a task handed to schedule() is, as long as it has not ended.
Queued(c) ==
    \E i \in 1..Len(m_fibers) :
        \/ m_fibers[i].kind = "cb" /\ m_fibers[i].task = c
        \/ m_fibers[i].kind = "fiber" /\ m_cb[m_fibers[i].task] = c
InHand(c) ==
    \E t \in AllThreads :
        \/ /\ pc[t] = "dispatch"
           /\ \/ ft[t].kind = "cb" /\ ft[t].task = c
              \/ ft[t].kind = "fiber" /\ m_cb[ft[t].task] = c
        \/ pc[t] \in Holding /\ m_cb[cur[t]] = c
Parked(c) == \E f \in Tasks : m_cb[f] = c /\ parkedOn[f] # NoThread

\* schedule() never loses work: until a task ends it is in m_fibers, in the
\* hands of a thread, or parked where the client can wake it.
NoTaskLost ==
    \A c \in submitted \ ended : Queued(c) \/ InHand(c) \/ Parked(c)

\* A callback is run once: no thread is inside, or about to enter, a callback
\* that already ended, and none is in two fibers.
RunsOnce ==
    /\ \A t \in AllThreads : pc[t] = "exec" => m_cb[cur[t]] \notin ended
    /\ \A f, g \in Tasks : m_cb[f] = m_cb[g] /\ m_cb[f] # NoTask => f = g

\* "Stop the scheduler and execute the fiber tasks in the task queue"
\* (iomanager.cc:84): once stop() has returned nothing is left to run.
StopDrains ==
    pc[Root] = "returned" =>
        /\ m_fibers = <<>>
        /\ \A c \in submitted \ ended : Parked(c)

\* Whoever can still reach fiber f: an entry, a thread, or the code that is
\* to wake it.  A fiber that has not ended also holds itself, by the pointer
\* `cur' on its own stack.
Held(f) ==
    \/ \E i \in 1..Len(m_fibers) : m_fibers[i].task = f
    \/ parkedOn[f] # NoThread
    \/ \E t \in AllThreads :
          \/ pc[t] = "dispatch" /\ ft[t].task = f
          \/ pc[t] \in Holding /\ cur[t] = f
          \/ cb_fiber[t] = f
    \/ m_cb[f] \in submitted \ ended

\* The assert of Fiber's destructor: when the last pointer to a callback's
\* fiber goes, its state is INIT, TERM or EXCEPT.  It relates what run() of
\* one thread stores after swapIn (HOLD) to what the fiber has done since on
\* another.
FreedWhenDone == \A f \in Cbs : ~Held(f) => m_state[f] \in {"INIT"} \cup Dead

\* Every task handed to schedule() is run to its end, or parks itself.
EveryTaskRuns ==
    \A c \in Tasks : c \in submitted ~> (c \in ended \/ Parked(c))

\* stop() returns.
StopReturns == pc[Root] = "stop_all" ~> pc[Root] = "returned"

-----------------------------------------------------------------------------
(* The inductive invariant behind StoppingIsQuiet.                         *)

\* What a thread's position says of its own locals.
LocalInv ==
    \A t \in AllThreads :
        /\ pc[t] \in Holding => cur[t] \in Tasks
        /\ pc[t] \in {"swapin", "after"} \cup OnStack => is_active[t]
        /\ pc[t] = "dispatch" => (is_active[t] <=> ft[t].kind # "none")
        /\ pc[t] \in {"off", "init", "main", "stop_root", "stop_all",
                      "stop_call", "scan", "post", "sethold", "idle",
                      "idleback"} => ~is_active[t]
        /\ pc[Root] = "init" /\ t # Root => pc[t] = "off"

ActiveSet == {t \in AllThreads : is_active[t]}
IdleSet   == {t \in AllThreads : pc[t] \in {"idle", "idleback"}}

\* The two atomic counters count threads.  A root thread that Fiber::back()
\* tore out of run() stays counted, hence the inequality and is_active.
CountInv ==
    /\ m_activethreadcount = Cardinality(ActiveSet)
    /\ m_idlethreadcount >= Cardinality(IdleSet)

IndInv == TypeOK /\ LocalInv /\ CountInv

-----------------------------------------------------------------------------
(* The inductive invariant behind OneThreadPerFiber, FiberAsserts, RunsOnce  *)
(* and NoTaskLost: who answers for a fiber.  It holds for clients that       *)
(* respect what the findings show the scheduler to need: no fiber yields on  *)
(* Root, and a parked fiber is resumed by its own thread.                    *)

CalmSetups == \A s \in Setups : s.wake # "any" /\ ~s.rootYields

Entries == {m_fibers[i] : i \in 1..Len(m_fibers)}

\* No two entries of the list are for the same task or fiber.
ListDistinct ==
    \A i, j \in 1..Len(m_fibers) :
        m_fibers[i].task = m_fibers[j].task => i = j

Listed(f)  == \E e \in Entries : e.task = f
Took(t, f) == pc[t] = "dispatch" /\ ft[t].task = f
On(t, f)   == pc[t] \in Holding /\ cur[t] = f

\* Fiber f has been given a task that has not ended.
Live(f) == m_cb[f] \in submitted \ ended

\* Nothing has happened to task c but, maybe, that it was submitted.
Fresh(c) ==
    /\ m_state[c] = "INIT" /\ m_cb[c] = (IF c \in UserFibers THEN c ELSE NoTask)
    /\ c \notin ended /\ parkedOn[c] = NoThread
    /\ \A t \in AllThreads : ~On(t, c) /\ cb_fiber[t] # c
    /\ \A g \in Cbs : m_cb[g] # c

\* A fiber that can be resumed.
Rests(f) == Live(f) /\ m_state[f] \in {"INIT", "READY", "HOLD"}

DeadUser(f) == f \in UserFibers /\ m_state[f] \in Dead

\* What an entry may be for, in the list or in a thread's hands: a callback
\* nobody has touched, a fiber to resume, or a user fiber that has ended.
Resumes(e) == e.kind = "fiber" /\ Live(e.task) /\ parkedOn[e.task] = NoThread
Proper(e) ==
    \/ e.kind = "cb" /\ e.task \in Cbs \cap submitted /\ Fresh(e.task)
    \/ e.kind = "fiber" /\ DeadUser(e.task)
    \/ Resumes(e)

ListInv ==
    \A e \in Entries :
        /\ Proper(e)
        /\ Resumes(e) =>
              \/ /\ Rests(e.task)
                 /\ \A t \in AllThreads : ~On(t, e.task) /\ cb_fiber[t] # e.task
              \/ \E t \in AllThreads : On(t, e.task) /\ e.thr = t

HandInv ==
    \A t \in AllThreads : pc[t] = "dispatch" /\ ft[t].kind # "none" =>
        LET f == ft[t].task
        IN  /\ Proper(ft[t])
            /\ Resumes(ft[t]) =>
                  Rests(f) /\ \A u \in AllThreads : ~On(u, f) /\ cb_fiber[u] # f
            /\ ~DeadUser(f) =>
                  ~Listed(f) /\ \A u \in AllThreads \ {t} : ~Took(u, f)

\* A fiber that gave itself away on thread t: parked, or woken for t.
Handed(t, f) ==
    \/ parkedOn[f] = t /\ ~Listed(f)
    \/ /\ parkedOn[f] = NoThread
       /\ [kind |-> "fiber", task |-> f, thr |-> t] \in Entries

\* The fiber a thread is on, by where the thread is.
Yielded(t, f) ==
    /\ Live(f)
    /\ \/ m_state[f] = "READY" /\ parkedOn[f] = NoThread /\ ~Listed(f)
       \/ m_state[f] = "HOLD" /\ Handed(t, f)
Ended(f) ==
    /\ m_state[f] \in Dead /\ parkedOn[f] = NoThread
    /\ f \in Cbs => ~Listed(f)

StageInv(l, t, f) ==
    /\ l = "swapin" => Rests(f) /\ parkedOn[f] = NoThread /\ ~Listed(f)
    /\ l = "exec" => /\ Live(f) /\ m_state[f] = "EXEC"
                     /\ parkedOn[f] = NoThread /\ ~Listed(f)
    /\ l = "park" => Live(f) /\ m_state[f] = "EXEC" /\ Handed(t, f)
    /\ l = "back" => Yielded(t, f)
    /\ l = "out" => Ended(f)
    /\ l \in {"after", "post"} => Yielded(t, f) \/ Ended(f)
    /\ l = "sethold" => Live(f) /\ m_state[f] = "HOLD" /\ Handed(t, f)
    /\ t = Root => l \notin {"park", "back"}

StackInv ==
    \A t \in AllThreads : pc[t] \in Holding =>
        LET f == cur[t]
        IN  /\ \A u \in AllThreads \ {t} : ~On(u, f) /\ cb_fiber[u] # f
            /\ ~DeadUser(f) => \A u \in AllThreads : ~Took(u, f)
            /\ \/ ft[t].kind = "cb" /\ cb_fiber[t] = f
               \/ ft[t].kind = "fiber" /\ ft[t].task = f /\ cb_fiber[t] # f
            /\ StageInv(pc[t], t, f)

\* A callback fiber that a thread keeps for its next callback is blank.
KeptInv ==
    \A t \in AllThreads : cb_fiber[t] # NoTask =>
        LET g == cb_fiber[t]
        IN  /\ g \in Cbs
            /\ \A u \in AllThreads \ {t} : cb_fiber[u] # g
            /\ ~On(t, g) =>
                  /\ m_state[g] = "INIT" /\ m_cb[g] = NoTask
                  /\ parkedOn[g] = NoThread /\ ~Listed(g)
                  /\ \A u \in AllThreads : ~Took(u, g) /\ ~On(u, g)

ParkInv ==
    \A f \in Tasks : parkedOn[f] # NoThread =>
        /\ Live(f) /\ ~Listed(f) /\ setup.wake = "own"
        /\ \A u \in AllThreads : ~Took(u, f)
        /\ \/ On(parkedOn[f], f)
           \/ /\ m_state[f] = "HOLD"
              /\ \A u \in AllThreads : ~On(u, f) /\ cb_fiber[u] # f

BookInv ==
    /\ \A c \in Tasks \ submitted :
          Fresh(c) /\ ~Listed(c) /\ \A t \in AllThreads : ~Took(t, c)
    /\ \A f \in UserFibers : m_cb[f] \in {f, NoTask}
    /\ \A f \in Cbs : m_cb[f] \in (Cbs \cap submitted) \cup {NoTask}
    /\ \A f, g \in Tasks : m_cb[f] = m_cb[g] /\ m_cb[f] # NoTask => f = g
    /\ \A f \in Tasks : m_cb[f] \in ended => m_state[f] \in Dead
    /\ \A f \in Tasks : m_state[f] \in Dead => m_cb[f] \in ended \cup {NoTask}
    /\ NoTask \notin ended

OwnInv ==
    /\ ListDistinct /\ ListInv /\ HandInv /\ StackInv /\ KeptInv /\ ParkInv
    /\ BookInv /\ NoTaskLost

-----------------------------------------------------------------------------
(* The inductive invariant behind StopDrains.                              *)

NobodyYields ==
    /\ \A t \in AllThreads : pc[t] \notin {"park", "back"}
    /\ \A f \in Tasks : m_state[f] # "READY" /\ parkedOn[f] = NoThread

\* If the setup lets no fiber yield, none has yielded.
StillInv == setup.yields = 0 => NobodyYields

\* Pinned tasks that yield are stuck if their thread has left run() meanwhile.
PinnedSetups == \A s \in Setups : s.pinned => s.yields = 0

\* No fiber parks itself, and pinned ones do not yield.
DrainSetups ==
    /\ \A s \in Setups : s.wake = "none" /\ ~s.rootYields
    /\ PinnedSetups

\* Every entry can be taken by every thread that scans.
Loose == setup.threads = {} \/ ~setup.pinned

\* Thread t looks at the list again before it leaves run().
WillScan(t) ==
    \/ pc[t] \in {"scan", "idleback"} \cup Holding
    \/ pc[t] = "dispatch" /\ (ft[t].kind # "none" \/ (t # Root /\ idle_fiber[t] # "TERM"))
    \/ pc[t] = "idle" /\ t # Root
    \/ t = Root /\ setup.use_caller /\ pc[t] \in {"stop_root", "stop_all", "stop_call"}

OnRoot == {"init", "main", "stop_root", "stop_all", "stop_call", "join", "returned"}

\* What the workers and stop() have reached, by where they are.
PhaseInv ==
    /\ \A w \in Workers : /\ pc[w] \notin OnRoot
                          /\ pc[w] = "off" <=> pc[Root] = "init" \/ w \notin setup.threads
    /\ m_autostop <=> pc[Root] \notin {"init", "main"}
    /\ pc[Root] = "stop_root" => setup.threads = {}
    /\ \A t \in AllThreads : /\ idle_fiber[t] = "TERM" => m_autostop
                             /\ pc[t] = "exit" => idle_fiber[t] = "TERM"

\* If no fiber yields, stopping() stays true once an idle fiber has seen it.
StaysStopped ==
    setup.yields = 0 /\ (\E t \in AllThreads : idle_fiber[t] = "TERM") => stopping

\* Else the list may fill again, while a thread is there that will look at it.
SomebodyScans ==
    /\ \A e \in Entries : /\ e.thr \in Runners \cup {NoThread}
                          /\ ~setup.pinned => e.thr = NoThread
    /\ Loose /\ m_autostop /\ m_fibers # <<>> => \E t \in AllThreads : WillScan(t)

Drained ==
    pc[Root] = "returned" =>
        m_fibers = <<>> /\ \A w \in Workers : pc[w] \in {"off", "exit"}

DrainInv == PhaseInv /\ StaysStopped /\ SomebodyScans /\ Drained

=============================================================================
