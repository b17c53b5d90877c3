---------------------------- MODULE TimerManager ----------------------------
(***************************************************************************)
(* The timers of HCServer/timer.{h,cc} and the part of IOManager::idle     *)
(* (iomanager.cc) that sleeps until the next one is due.                   *)
(*                                                                         *)
(* Workers alternate between running tasks and their idle fiber:           *)
(* getNextTimer, epoll_wait, listExpiredCb.  Tasks, and Clients, threads   *)
(* that are not the scheduler's, add, cancel, refresh and reset timers.    *)
(* One action is one critical section of the manager's lock, or one step   *)
(* a thread takes outside it: reading the clock before the lock is taken,  *)
(* the tickle after it was released, testing m_timers under the read lock  *)
(* and acting on it under the write lock.                                  *)
(*                                                                         *)
(* Timers are named by integers that stand for their addresses; m_timers   *)
(* is a set because its order, by m_next and then address, is determined   *)
(* by them.  The clock is gettimeofday's and may be set back.              *)
(***************************************************************************)
EXTENDS Integers, FiniteSets

CONSTANTS
    Workers,      \* threads that run IOManager::idle
    Clients,      \* other threads that use the timers
    Programs,     \* the threads a program may have, and whether the wall
                  \* clock is set back while it runs
    Timers,       \* Timer objects
    Delays,       \* the ms arguments in use
    MaxTime,      \* bound: the clock stops here
    ClockBacks,   \* how far the wall clock may be set back, once
    MaxEintr,     \* bound: signals that interrupt epoll_wait
    Hour,         \* 60*60*1000 in detectClockRollover
    MAX_TIMEOUT,  \* 3000 in IOManager::idle
    IntBits,      \* width of int
    NoTimer       \* nullptr

Threads == Workers \cup Clients

ASSUME TimerAssumption ==
    /\ Workers \cap Clients = {} /\ IsFiniteSet(Workers)
    /\ Programs \subseteq [threads : SUBSET Threads, clockSet : BOOLEAN]
    /\ NoTimer \notin Timers
    /\ Delays \subseteq Nat /\ ClockBacks \subseteq Nat
    /\ MaxTime \in Nat /\ MaxEintr \in Nat
    /\ Hour \in Nat /\ MAX_TIMEOUT \in Nat /\ IntBits \in Nat \ {0}

\* Two facts of arithmetic, which the provers do not know.
ASSUME PowerAssumption ==
    2 ^ (IntBits - 1) > 0 /\ 2 ^ IntBits = 2 * 2 ^ (IntBits - 1)

VARIABLES
    clock,           \* GetcurrentMS()
    setBack,         \* the wall clock "never" is, "may" be, "was" set back
    m_timers,        \* the set of pending timers
    m_cb,            \* timers whose m_cb is not null
    m_next, m_ms, m_recurring,
    m_tickled,
    m_previousTime,
    pipe,            \* a tickle nobody has received yet
    rt,              \* epoll_wait returned the pipe, which is to be drained
    pc,
    new,             \* timer addTimer is about to insert
    now_ms,          \* listExpiredCb's local clock reading
    timeout,         \* idle's epoll_wait argument; -1 waits for ever
    deadline,        \* when that wait ends; -1 never
    eintr,
    added,           \* timers addTimer has inserted
    cancelled,       \* timers cancel() returned true for
    fired            \* how often a timer's callback was handed to schedule():
                     \* 0, 1 or (bound) 2 for more

times  == <<clock, setBack, eintr>>
timers == <<m_timers, m_cb, m_next, m_ms, m_recurring>>
locals == <<new, now_ms, rt, timeout, deadline>>
hist   == <<added, cancelled, fired>>
vars   == <<times, timers, m_tickled, m_previousTime, pipe, pc, locals, hist>>

\* The clock starts an hour in, as epoch time has: m_previousTime - Hour does
\* not wrap.
Init ==
    /\ clock = Hour /\ eintr = 0
    /\ m_timers = {} /\ m_cb = {}
    /\ m_next = [x \in Timers |-> 0] /\ m_ms = [x \in Timers |-> 0]
    /\ m_recurring = [x \in Timers |-> FALSE]
    /\ m_tickled = FALSE /\ m_previousTime = Hour /\ pipe = FALSE
    /\ \E p \in Programs :
          /\ pc = [t \in Threads |->
                     IF t \in p.threads THEN "client" ELSE "off"]
          /\ setBack = IF p.clockSet THEN "may" ELSE "never"
    /\ new = [t \in Threads |-> NoTimer]
    /\ now_ms = [t \in Threads |-> 0] /\ rt = [t \in Threads |-> FALSE]
    /\ timeout = [t \in Threads |-> 0] /\ deadline = [t \in Threads |-> 0]
    /\ added = {} /\ cancelled = {}
    /\ fired = [x \in Timers |-> 0]

Goto(t, l) == pc' = [pc EXCEPT ![t] = l]

-----------------------------------------------------------------------------
(* The clock.                                                              *)

Tick ==
    /\ clock < MaxTime
    /\ clock' = clock + 1
    /\ UNCHANGED <<setBack, eintr, timers, m_tickled, m_previousTime, pipe, pc,
                   locals, hist>>

\* The bound is reached: threads that wait for a later time stay asleep.
TimeIsUp == clock = MaxTime /\ UNCHANGED vars

\* The wall clock is set back; epoll_wait's timeout is not affected.
SetClockBack ==
    /\ setBack = "may"
    /\ \E d \in ClockBacks :
          /\ d <= clock
          /\ clock' = clock - d
          /\ deadline' = [t \in Threads |->
                IF pc[t] # "wait" \/ deadline[t] < 0 THEN deadline[t]
                ELSE IF deadline[t] < d THEN 0 ELSE deadline[t] - d]
    /\ setBack' = "was"
    /\ UNCHANGED <<eintr, timers, m_tickled, m_previousTime, pipe, pc, new,
                   now_ms, rt, timeout, hist>>

-----------------------------------------------------------------------------
(* Adding timers.                                                          *)

\* Timer::Comparator: by time, then by address.
Before(next, x, y) == next[x] < next[y] \/ (next[x] = next[y] /\ x < y)

AtFront(next, x, S) == \A y \in S \ {x} : Before(next, x, y)

\* IsaddTimer, with the write lock held: insert x; the caller owes a tickle
\* if x is now first and none was sent since the last getNextTimer.
IsaddTimer(t, x, next) ==
    LET at_front == AtFront(next, x, m_timers \cup {x}) /\ ~m_tickled
    IN  /\ m_timers' = m_timers \cup {x}
        /\ m_next' = next
        /\ m_tickled' = (m_tickled \/ at_front)
        /\ Goto(t, IF at_front THEN "front" ELSE "client")

\* addTimer and addConditiomTimer: the Timer, and with it m_next, is made
\* before the lock is taken.
NewTimer(t) ==
    /\ pc[t] = "client"
    /\ \E x \in Timers \ (added \cup {new[u] : u \in Threads}),
          ms \in Delays, recurring \in BOOLEAN :
          /\ new' = [new EXCEPT ![t] = x]
          /\ m_next' = [m_next EXCEPT ![x] = clock + ms]
          /\ m_ms' = [m_ms EXCEPT ![x] = ms]
          /\ m_recurring' = [m_recurring EXCEPT ![x] = recurring]
          /\ m_cb' = m_cb \cup {x}
    /\ Goto(t, "add")
    /\ UNCHANGED <<times, m_timers, m_tickled, m_previousTime, pipe, now_ms,
                   rt, timeout, deadline, hist>>

\* Mutant: the pointer was moved away; nullptr, first of all, is inserted.
addTimerMoved(t) ==
    /\ pc[t] = "add"
    /\ m_timers' = m_timers \cup {NoTimer}
    /\ added' = added \cup {new[t]}
    /\ new' = [new EXCEPT ![t] = NoTimer]
    /\ Goto(t, "front")
    /\ UNCHANGED <<times, m_cb, m_next, m_ms, m_recurring, m_tickled,
                   m_previousTime, pipe, now_ms, rt, timeout, deadline,
                   cancelled, fired>>

addTimer(t) ==
    /\ pc[t] = "add"
    /\ IsaddTimer(t, new[t], m_next)
    /\ added' = added \cup {new[t]}
    /\ new' = [new EXCEPT ![t] = NoTimer]
    /\ UNCHANGED <<times, m_cb, m_ms, m_recurring, m_previousTime, pipe,
                   now_ms, rt, timeout, deadline, cancelled, fired>>

\* IOManager::tickle writes only if some thread is in its idle fiber.
IdlePhase == {"getnext", "wait", "list1", "list2", "drain"}
hasIdleThreads == \E t \in Workers : pc[t] \in IdlePhase

onTimerInsertedAtFront(t) ==
    /\ pc[t] = "front"
    /\ pipe' = (pipe \/ hasIdleThreads)
    /\ Goto(t, "client")
    /\ UNCHANGED <<times, timers, m_tickled, m_previousTime, locals, hist>>

\* Other work is scheduled: schedule() sends a tickle if its list was empty.
schedule(t) ==
    /\ pc[t] = "client" /\ hasIdleThreads /\ ~pipe
    /\ pipe' = TRUE
    /\ UNCHANGED <<times, timers, m_tickled, m_previousTime, pc, locals, hist>>

-----------------------------------------------------------------------------
(* Timer::cancel, refresh, reset, each under the write lock.  (reset tests  *)
(* ms before it takes the lock: a reset that comes in between makes it      *)
(* store what is there already.)                                            *)

\* Mutant: the timer is not erased from m_timers.
cancelKeepsTimer(t) ==
    /\ pc[t] = "client"
    /\ \E x \in added \cap m_cb :
          m_cb' = m_cb \ {x} /\ cancelled' = cancelled \cup {x}
    /\ UNCHANGED <<times, m_timers, m_next, m_ms, m_recurring, m_tickled,
                   m_previousTime, pipe, pc, locals, added, fired>>

cancel(t) ==
    /\ pc[t] = "client"
    /\ \E x \in added \cap m_cb :
          /\ m_cb' = m_cb \ {x}
          /\ m_timers' = m_timers \ {x}
          /\ cancelled' = cancelled \cup {x}
    /\ UNCHANGED <<times, m_next, m_ms, m_recurring, m_tickled, m_previousTime,
                   pipe, pc, locals, added, fired>>

refresh(t) ==
    /\ pc[t] = "client"
    /\ \E x \in added \cap m_cb \cap m_timers :
          m_next' = [m_next EXCEPT ![x] = clock + m_ms[x]]
    /\ UNCHANGED <<times, m_timers, m_cb, m_ms, m_recurring, m_tickled,
                   m_previousTime, pipe, pc, locals, hist>>

reset(t) ==
    /\ pc[t] = "client"
    /\ \E x \in added \cap m_cb \cap m_timers, ms \in Delays,
          from_now \in BOOLEAN :
          /\ ms # m_ms[x] \/ from_now
          /\ LET from == IF from_now THEN clock ELSE m_next[x] - m_ms[x]
             IN  /\ m_ms' = [m_ms EXCEPT ![x] = ms]
                 /\ IsaddTimer(t, x, [m_next EXCEPT ![x] = from + ms])
    /\ UNCHANGED <<times, m_cb, m_recurring, m_previousTime, pipe, locals, hist>>

-----------------------------------------------------------------------------
(* IOManager::idle.                                                        *)

\* The run loop finds no task and enters the idle fiber.
GoIdle(t) ==
    /\ t \in Workers /\ pc[t] = "client"
    /\ Goto(t, "getnext")
    /\ UNCHANGED <<times, timers, m_tickled, m_previousTime, pipe, locals, hist>>

\* (int)x of a 64-bit unsigned x.
ToInt(x) ==
    LET m == 2 ^ IntBits  h == 2 ^ (IntBits - 1)
    IN  IF x % m >= h THEN (x % m) - m ELSE x % m

\* Mutant: no clamp.
EpollTimeoutUnclamped(next) == ToInt(next)

\* The clamp of next_timeout, and its conversion for epoll_wait.
EpollTimeout(next) ==
    ToInt(IF ToInt(next) > MAX_TIMEOUT THEN MAX_TIMEOUT ELSE next)

NextDue == CHOOSE n \in {m_next[x] : x \in m_timers} :
              \A x \in m_timers : n <= m_next[x]

\* epoll_wait starts, until the first timer is due.
StartWait(t) ==
    LET next == IF clock >= NextDue THEN 0 ELSE NextDue - clock
        ms == IF m_timers = {} THEN MAX_TIMEOUT ELSE EpollTimeout(next)
    IN  /\ timeout' = [timeout EXCEPT ![t] = ms]
        /\ deadline' = [deadline EXCEPT ![t] = IF ms < 0 THEN -1
                                               ELSE clock + ms]

\* Mutant: m_tickled is not reset.
getNextTimerKeepsTickled(t) ==
    /\ pc[t] = "getnext"
    /\ StartWait(t)
    /\ Goto(t, "wait")
    /\ UNCHANGED <<times, timers, m_tickled, m_previousTime, pipe, new, now_ms,
                   rt, hist>>

\* stopping(next_timeout) calls getNextTimer; epoll_wait starts.
getNextTimer(t) ==
    /\ pc[t] = "getnext"
    /\ m_tickled' = FALSE
    /\ StartWait(t)
    /\ Goto(t, "wait")
    /\ UNCHANGED <<times, timers, m_previousTime, pipe, new, now_ms, rt, hist>>

\* (Locals that are dead from here on are zeroed, here and below.)
EndWait(t) ==
    /\ timeout' = [timeout EXCEPT ![t] = 0]
    /\ deadline' = [deadline EXCEPT ![t] = 0]
    /\ Goto(t, "list1")

\* epoll_wait returns for a tickle ...
Tickled(t) ==
    /\ pc[t] = "wait" /\ pipe
    /\ pipe' = FALSE
    /\ rt' = [rt EXCEPT ![t] = TRUE]
    /\ EndWait(t)
    /\ UNCHANGED <<times, timers, m_tickled, m_previousTime, new, now_ms, hist>>

\* ... or because the time is over ...
TimedOut(t) ==
    /\ pc[t] = "wait" /\ deadline[t] >= 0 /\ clock >= deadline[t]
    /\ EndWait(t)
    /\ UNCHANGED <<times, timers, m_tickled, m_previousTime, pipe, new, now_ms,
                   rt, hist>>

\* ... or is interrupted by a signal and starts again with the same timeout
\* (bound: one that is over before the clock stops).
Interrupted(t) ==
    /\ pc[t] = "wait" /\ eintr < MaxEintr
    /\ clock + timeout[t] <= MaxTime
    /\ eintr' = eintr + 1
    /\ deadline' = [deadline EXCEPT ![t] = IF timeout[t] < 0 THEN -1
                                           ELSE clock + timeout[t]]
    /\ UNCHANGED <<clock, setBack, timers, m_tickled, m_previousTime, pipe, pc,
                   new, now_ms, rt, timeout, hist>>

\* What follows listExpiredCb: the loop over the events epoll_wait returned.
Handle(t) == IF rt[t] THEN "drain" ELSE "client"

\* listExpiredCb reads the clock and looks at m_timers under the read lock.
ListExpiredTest(t) ==
    /\ pc[t] = "list1"
    /\ now_ms' = [now_ms EXCEPT ![t] = IF m_timers = {} THEN 0 ELSE clock]
    /\ Goto(t, IF m_timers = {} THEN Handle(t) ELSE "list2")
    /\ UNCHANGED <<times, timers, m_tickled, m_previousTime, pipe, new, rt,
                   timeout, deadline, hist>>

detectClockRollover(now) ==
    now < m_previousTime /\ now < m_previousTime - Hour

\* Mutant: once the first timer is due the whole set is taken.
ExpiredAll(now) ==
    IF \E x \in m_timers : m_next[x] <= now THEN m_timers ELSE {}

\* The timers listExpiredCb takes at time now.
Expired(now) ==
    IF detectClockRollover(now) THEN m_timers
    ELSE {x \in m_timers : m_next[x] <= now}

\* Take the expired timers out of the set, but for the recurring ones; their
\* callbacks go to schedule() as one batch, which sends a tickle if the
\* scheduler's list was empty.
Collect(t, cbAfter, nextAfter) ==
    /\ pc[t] = "list2"
    /\ m_timers # {} \/ detectClockRollover(now_ms[t])
    /\ LET E == Expired(now_ms[t])
       IN  /\ m_timers' = {x \in m_timers : x \in E => m_recurring[x]}
           /\ fired' = [x \in Timers |-> IF x \in E /\ fired[x] < 2
                                         THEN fired[x] + 1 ELSE fired[x]]
           /\ pipe' \in {pipe, pipe \/ E # {}}
    /\ m_cb' = cbAfter /\ m_next' = nextAfter
    /\ m_previousTime' = now_ms[t]
    /\ now_ms' = [now_ms EXCEPT ![t] = 0]
    /\ Goto(t, Handle(t))
    /\ UNCHANGED <<times, m_ms, m_recurring, m_tickled, new, rt, timeout,
                   deadline, added, cancelled>>

\* A one-shot timer loses its m_cb, a recurring one gets its next time.
CbAfter(now) == {x \in m_cb : x \in Expired(now) => m_recurring[x]}
NextAfter(now) ==
    [x \in Timers |-> IF x \in Expired(now) /\ m_recurring[x]
                      THEN now + m_ms[x] ELSE m_next[x]]

\* Mutants: the m_cb of one-shot timers is kept; recurring timers are put
\* back with their old m_next.
listExpiredCbKeepsCb(t) == Collect(t, m_cb, NextAfter(now_ms[t]))
listExpiredCbKeepsNext(t) == Collect(t, CbAfter(now_ms[t]), m_next)

\* listExpiredCb under the write lock.
listExpiredCb(t) == Collect(t, CbAfter(now_ms[t]), NextAfter(now_ms[t]))

\* *m_timers.begin() of an empty set: the read may fault, or yield a value
\* that makes no difference as there is nothing to collect.
ListExpiredEmpty(t) ==
    /\ pc[t] = "list2"
    /\ m_timers = {} /\ ~detectClockRollover(now_ms[t])
    /\ m_previousTime' = now_ms[t]
    /\ now_ms' = [now_ms EXCEPT ![t] = 0]
    /\ \E l \in {Handle(t), "crashed"} : Goto(t, l)
    /\ UNCHANGED <<times, timers, m_tickled, pipe, new, rt, timeout, deadline,
                   hist>>

\* The event loop reads the pipe until it is empty; a tickle sent since
\* epoll_wait returned is swallowed with the rest.
DrainPipe(t) ==
    /\ pc[t] = "drain"
    /\ pipe' = FALSE
    /\ rt' = [rt EXCEPT ![t] = FALSE]
    /\ Goto(t, "client")
    /\ UNCHANGED <<times, timers, m_tickled, m_previousTime, new, now_ms,
                   timeout, deadline, hist>>

-----------------------------------------------------------------------------
client(t) ==
    \/ NewTimer(t) \/ addTimer(t) \/ onTimerInsertedAtFront(t)
    \/ cancel(t) \/ refresh(t) \/ reset(t) \/ schedule(t)

idle(t) ==
    \/ GoIdle(t) \/ getNextTimer(t)
    \/ Tickled(t) \/ TimedOut(t) \/ Interrupted(t)
    \/ ListExpiredTest(t) \/ listExpiredCb(t) \/ ListExpiredEmpty(t)
    \/ DrainPipe(t)

Next ==
    \/ Tick \/ TimeIsUp \/ SetClockBack
    \/ \E t \in Threads : client(t) \/ idle(t)

Spec == Init /\ [][Next]_vars

\* Time passes; tasks end, so that a worker comes back to its idle fiber;
\* the kernel runs every thread and ends every epoll_wait in time.
Fairness ==
    /\ WF_vars(Tick)
    /\ \A t \in Threads :
          /\ WF_vars(addTimer(t)) /\ WF_vars(onTimerInsertedAtFront(t))
          /\ WF_vars(GoIdle(t)) /\ WF_vars(getNextTimer(t))
          /\ WF_vars(Tickled(t) \/ TimedOut(t))
          /\ WF_vars(ListExpiredTest(t))
          /\ WF_vars(listExpiredCb(t) \/ ListExpiredEmpty(t))
          /\ WF_vars(DrainPipe(t))

FairSpec == Spec /\ Fairness

-----------------------------------------------------------------------------
(* Properties.                                                             *)

\* Type invariant.
TypeOK ==
    /\ clock \in Nat /\ setBack \in {"never", "may", "was"} /\ eintr \in Nat
    /\ m_timers \subseteq Timers /\ m_cb \subseteq Timers
    /\ m_next \in [Timers -> Int] /\ m_ms \in [Timers -> Nat]
    /\ m_recurring \in [Timers -> BOOLEAN]
    /\ m_tickled \in BOOLEAN /\ m_previousTime \in Nat /\ pipe \in BOOLEAN
    /\ pc \in [Threads ->
                  {"off", "client", "add", "front", "crashed"} \cup IdlePhase]
    /\ new \in [Threads -> Timers \cup {NoTimer}]
    /\ now_ms \in [Threads -> Nat] /\ rt \in [Threads -> BOOLEAN]
    /\ timeout \in [Threads -> Int] /\ deadline \in [Threads -> Nat \cup {-1}]
    /\ added \subseteq Timers /\ cancelled \subseteq added
    /\ fired \in [Timers -> 0..2]

\* Timer::cancel erases m_timers.find(this) without comparing it with end():
\* a timer the client can reach has its m_cb exactly as long as it is in the
\* set, whoever expired, cancelled or reset it.
EraseFindsTimer == m_timers = added \cap m_cb

\* A one-shot timer's callback is scheduled at most once, and never if
\* cancel() returned true.
OneShotOnce ==
    \A x \in added : ~m_recurring[x] =>
        fired[x] + (IF x \in cancelled THEN 1 ELSE 0) <= 1

\* A callback is never scheduled before its timer is due, although now_ms is
\* read before the lock is taken and m_next may change in between.  (A wall
\* clock set back by more than an hour makes listExpiredCb take every timer at
\* once; so would a thread held up for an hour between its reading of the
\* clock and the lock, while another moves m_previousTime on, which is beyond
\* the runs' clock.)
NotEarly ==
    [][\A x \in Timers : fired'[x] # fired[x] =>
          setBack = "was" \/ m_next[x] <= clock]_vars

\* Timers have "millisecond precision" (README, module 7): a worker that has
\* the scheduler for itself never sleeps past the first timer's time, unless
\* a tickle is under way.  (With more workers it may: m_tickled is reset by
\* any worker's getNextTimer and says nothing of the others' sleep.  So it
\* may after a signal, which makes it start its whole timeout again, and on a
\* clock set back, when refresh moves a timer forward but sends no tickle.)
SleepersInTime ==
    LET awake == {t \in Workers : pc[t] \notin {"off", "wait"}}
        asleep == {t \in Workers : pc[t] = "wait"}
    IN  /\ awake = {} /\ Cardinality(asleep) = 1
        /\ m_timers # {} /\ ~pipe /\ setBack # "was" /\ eintr = 0
        /\ \A t \in Clients : pc[t] # "front"
        => \A t \in asleep :
              /\ deadline[t] >= 0
              /\ deadline[t] <= NextDue \/ deadline[t] <= clock

\* MAX_TIMEOUT is "the maximum timeout" (iomanager.cc:313): no epoll_wait
\* lasts longer.
SleepBounded ==
    \A t \in Workers :
        pc[t] = "wait" => deadline[t] \in 0..(clock + MAX_TIMEOUT)

\* listExpiredCb dereferences m_timers.begin() only when there is a first
\* timer: what the read lock showed still holds under the write lock.
FirstTimerExists ==
    \A t \in Workers :
        pc[t] = "list2" => m_timers # {} \/ detectClockRollover(now_ms[t])

\* Every pending deadline is dealt with in the end: the timer expires, is
\* cancelled or is moved.  (Deadlines so close to MaxTime that the model's
\* clock stops before the sleepers wake up are left out.)
DeadlineMet ==
    \A x \in Timers, n \in Hour..(MaxTime - MAX_TIMEOUT) :
        (x \in m_timers /\ m_next[x] = n) ~> ~(x \in m_timers /\ m_next[x] = n)

-----------------------------------------------------------------------------
(* The inductive invariant behind EraseFindsTimer and OneShotOnce.         *)

BookTypes ==
    /\ pc \in [Threads -> {"off", "client", "add", "front", "crashed"}
                           \cup IdlePhase]
    /\ new \in [Threads -> Timers \cup {NoTimer}]
    /\ fired \in [Timers -> 0..2] /\ m_recurring \in [Timers -> BOOLEAN]
    /\ added \subseteq Timers

\* A timer that is about to be added has its callback, is not known to
\* anybody yet, and is not about to be added by two threads.
AddingInv ==
    /\ \A t \in Threads :
          pc[t] = "add" => new[t] \in Timers \cap m_cb /\ new[t] \notin added
    /\ \A t, u \in Threads :
          pc[t] = "add" /\ pc[u] = "add" /\ t # u => new[t] # new[u]

\* A one-shot timer that still has its callback was neither fired nor
\* cancelled, one that lost it was one of the two.
FiredInv ==
    \A x \in Timers :
        /\ x \notin added => fired[x] = 0 /\ x \notin cancelled
        /\ x \in added /\ ~m_recurring[x] =>
              IF x \in m_cb THEN fired[x] = 0 /\ x \notin cancelled
              ELSE IF x \in cancelled THEN fired[x] = 0 ELSE fired[x] = 1

TimerInv == BookTypes /\ AddingInv /\ EraseFindsTimer /\ FiredInv

-----------------------------------------------------------------------------
(* The inductive invariant behind NotEarly, SleepBounded and SleepersInTime. *)

\* Every time that was read off the clock, and every time a timer was started
\* at, is at most d ahead of the clock.
Within(d) ==
    /\ \A x \in Timers : m_next[x] - m_ms[x] \in 0..(clock + d)
    /\ \A t \in Threads : now_ms[t] <= clock + d
    /\ m_previousTime <= clock + d

\* Only setting the clock back leaves times that are ahead of it.
ReadingsInv ==
    /\ \A x \in Timers : m_ms[x] \in Delays \cup {0}
    /\ \E d \in ClockBacks \cup {0} : (setBack # "was" => d = 0) /\ Within(d)

TimesInv == TypeOK /\ ReadingsInv

\* No timer is so far away that its distance in ms is not an int.
NoWrap ==
    /\ MAX_TIMEOUT < 2 ^ (IntBits - 1)
    /\ \A ms \in Delays \cup {0}, d \in ClockBacks \cup {0} :
          ms + d < 2 ^ (IntBits - 1)

WaitInv ==
    \A t \in Threads : pc[t] = "wait" =>
        /\ timeout[t] \in 0..MAX_TIMEOUT
        /\ deadline[t] \in 0..(clock + MAX_TIMEOUT)

\* Somebody who put a timer in front has sent its tickle or is about to.
TickleComes == pipe \/ \E t \in Clients : pc[t] = "front"

\* The only worker w is asleep, after an undisturbed getNextTimer.
OnlySleeper(w) ==
    /\ pc[w] = "wait" /\ \A v \in Workers \ {w} : pc[v] = "off"
    /\ setBack # "was" /\ eintr = 0

\* Then m_tickled is as good as a tickle, and w sleeps past no timer.
SleepInv ==
    /\ \A t \in Clients : pc[t] \notin IdlePhase
    /\ \A w \in Workers : OnlySleeper(w) /\ ~TickleComes =>
          /\ ~m_tickled
          /\ \A x \in m_timers :
                deadline[w] <= m_next[x] \/ deadline[w] <= clock

\* On a clock that was not set, no thread is held up for more than an hour
\* between listExpiredCb's reading of the clock and the lock.
NotHeldUp ==
    \A t \in Threads : pc[t] = "list2" /\ setBack # "was" =>
        clock - now_ms[t] <= Hour

=============================================================================
