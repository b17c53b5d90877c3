------------------------------ MODULE IOManager ------------------------------
(***************************************************************************)
(* The event side of HCServer/iomanager.{h,cc}: descriptors' contexts      *)
(* (FdContext), their registration with epoll, and the waiters, fibers or  *)
(* callbacks, that addEvent leaves in a context and triggerEvent hands to  *)
(* schedule().                                                             *)
(*                                                                         *)
(* Every thread calls addEvent, delEvent, cancelEvent and cancelAll from   *)
(* its tasks and handles epoll events in its idle fiber.  The functions    *)
(* look a context up in m_fdContexts under the manager's lock, release it, *)
(* and then work on the context under its own lock: two actions.  What     *)
(* epoll_wait returned is handled one event at a time, each under the      *)
(* lock of its context, some time after epoll_wait returned it.            *)
(*                                                                         *)
(* A context is [fd, gen]: gen counts the contexts made for that slot of   *)
(* m_fdContexts.  epoll knows descriptors and hands back the context's     *)
(* address.  Which events become ready, and when, is the environment's.    *)
(***************************************************************************)
EXTENDS Integers, FiniteSets

CONSTANTS
    Threads,
    Fds,         \* the descriptors in use, as numbers
    InitSize,    \* m_fdContexts after the constructor, 32 in the code
    Uses,        \* what programs do with the manager, see Use
    BadFds,      \* descriptors epoll refuses (EPERM, EBADF)
    MaxAdds,     \* bound: calls of addEvent
    MaxGen       \* bound: contexts made for one slot

Events == {"READ", "WRITE"}

\* The threads and descriptors a program has, the events it waits for, the
\* other calls it makes, and whether its descriptors see errors or hang-ups.
Use == [threads : SUBSET Threads, fds : SUBSET Fds, events : SUBSET Events,
        ops : SUBSET {"del", "cancel", "cancelAll"}, err : BOOLEAN]

\* (fd*1.5 is more than fd from 2 on: a smaller table would not grow for 1.)
ASSUME IOAssumption ==
    /\ IsFiniteSet(Threads) /\ IsFiniteSet(Fds)
    /\ Fds \subseteq Nat /\ BadFds \subseteq Fds
    /\ InitSize \in Nat \ {0, 1} /\ MaxAdds \in Nat /\ MaxGen \in Nat
    /\ Uses \subseteq Use

Contexts == [fd : Fds, gen : 0..MaxGen]
Waiters  == 1..MaxAdds

VARIABLES
    use,                  \* this program's use of the manager
    size,                 \* m_fdContexts.size()
    gen,                  \* the context in a descriptor's slot
    m_events,             \* FdContext::m_events
    waiter,               \* FdContext's read and write EventContext; 0: empty
    epoll,                \* per descriptor: the context and the events
                          \* registered, or Unregistered
    m_pendingEventCount,
    pc, op, ctx,          \* a thread's call and the context it looked up
    events,               \* what epoll_wait returned and is not yet handled
    adds,                 \* addEvent calls so far
    resumed,              \* how often each waiter was handed to schedule()
    dropped,              \* waiters delEvent removed or addEvent refused
    failed                \* the assert that ended the process, or "none"

Unregistered == [reg |-> FALSE]
Registered(c, evs) == [reg |-> TRUE, ptr |-> c, mask |-> evs]

table  == <<use, size, gen>>
calls  == <<pc, op, ctx>>
state  == <<m_events, waiter, epoll, m_pendingEventCount>>
hist   == <<adds, resumed, dropped>>
vars   == <<table, state, calls, events, hist, failed>>

NoOp == [kind |-> "none"]

Init ==
    /\ use \in Uses
    /\ size = InitSize
    /\ gen = [fd \in Fds |-> 0]
    /\ m_events = [c \in Contexts |-> {}]
    /\ waiter = [c \in Contexts |-> [e \in Events |-> 0]]
    /\ epoll = [fd \in Fds |-> Unregistered]
    /\ m_pendingEventCount = 0
    /\ pc = [t \in Threads |-> "client"]
    /\ op = [t \in Threads |-> NoOp]
    /\ ctx = [t \in Threads |-> NoOp]
    /\ events = [t \in Threads |-> {}]
    /\ adds = 0 /\ resumed = [w \in Waiters |-> 0] /\ dropped = {}
    /\ failed = "none"

Goto(t, l) == pc' = [pc EXCEPT ![t] = l]

Slot(fd) == [fd |-> fd, gen |-> gen[fd]]

\* The thread's call returns.
Return(t) ==
    /\ Goto(t, "client")
    /\ op' = [op EXCEPT ![t] = NoOp]
    /\ ctx' = [ctx EXCEPT ![t] = NoOp]

-----------------------------------------------------------------------------
(* epoll_ctl, and the two ways a waiter leaves its context.                *)

\* Can op change the registration of descriptor fd?  ADD wants it absent,
\* MOD and DEL want it present.
EpollAccepts(fd, add) == fd \notin BadFds /\ epoll[fd].reg = ~add

EpollSet(fd, c, evs) ==
    epoll' = [epoll EXCEPT ![fd] = IF evs = {} THEN Unregistered
                                   ELSE Registered(c, evs)]

\* Mutant: triggerEvent and its caller both count the event off.
TriggerCountsTwice(c, evs) ==
    /\ m_events' = [m_events EXCEPT ![c] = @ \ evs]
    /\ waiter' = [waiter EXCEPT ![c] = [e \in Events |->
                     IF e \in evs THEN 0 ELSE @[e]]]
    /\ resumed' = [w \in Waiters |->
                     IF \E e \in evs : waiter[c][e] = w
                     THEN resumed[w] + 1 ELSE resumed[w]]
    /\ m_pendingEventCount' = m_pendingEventCount - 2 * Cardinality(evs)

\* triggerEvent for every event in evs: the waiters go to schedule(), and
\* m_pendingEventCount drops by one for each.
Trigger(c, evs) ==
    /\ m_events' = [m_events EXCEPT ![c] = @ \ evs]
    /\ waiter' = [waiter EXCEPT ![c] = [e \in Events |->
                     IF e \in evs THEN 0 ELSE @[e]]]
    /\ resumed' = [w \in Waiters |->
                     IF \E e \in evs : waiter[c][e] = w
                     THEN resumed[w] + 1 ELSE resumed[w]]
    /\ m_pendingEventCount' = m_pendingEventCount - Cardinality(evs)

Fail(a) ==
    /\ failed' = a
    /\ UNCHANGED <<table, state, calls, events, hist>>

-----------------------------------------------------------------------------
(* Looking up a context.                                                   *)

\* One fiber at a time waits for an event of a descriptor: the client does
\* not ask for an event that is registered or being asked for.
MayAdd(fd, e) ==
    /\ \A c \in Contexts : c.fd = fd => e \notin m_events[c]
    /\ \A t \in Threads : op[t].kind = "add" => ~(op[t].fd = fd /\ op[t].e = e)

\* addEvent: the size is tested under the read lock ...
AddLookup(t) ==
    /\ pc[t] = "client" /\ adds < MaxAdds
    /\ \E fd \in use.fds, e \in use.events :
          /\ MayAdd(fd, e)
          /\ op' = [op EXCEPT ![t] = [kind |-> "add", fd |-> fd, e |-> e,
                                      w |-> adds + 1]]
          /\ IF size > fd
             THEN ctx' = [ctx EXCEPT ![t] = Slot(fd)] /\ Goto(t, "locked")
             ELSE ctx' = ctx /\ Goto(t, "resize")
    /\ adds' = adds + 1
    /\ UNCHANGED <<table, state, events, resumed, dropped, failed>>

\* Mutant: the size is off by one, the new vector has no slot for fd.
contextResizeShort(t) ==
    /\ pc[t] = "resize"
    /\ size' = op[t].fd
    /\ ctx' = [ctx EXCEPT ![t] = Slot(op[t].fd)]
    /\ Goto(t, "locked")
    /\ UNCHANGED <<use, gen, state, op, events, hist, failed>>

\* ... and m_fdContexts resized under the write lock, to fd*1.5 whatever the
\* size is by then; slots that come into being get a new context.
contextResize(t) ==
    /\ pc[t] = "resize"
    /\ LET fd == op[t].fd
           new == (fd * 3) \div 2
           fresh == {f \in Fds : f >= size /\ f < new}
       IN  /\ \A f \in fresh : gen[f] < MaxGen
           /\ size' = new
           /\ gen' = [f \in Fds |-> IF f \in fresh THEN gen[f] + 1 ELSE gen[f]]
           /\ ctx' = [ctx EXCEPT ![t] = [fd |-> fd, gen |-> gen'[fd]]]
    /\ Goto(t, "locked")
    /\ UNCHANGED <<use, state, op, events, hist, failed>>

\* delEvent, cancelEvent and cancelAll return false if there is no slot.
OtherLookup(t) ==
    /\ pc[t] = "client"
    /\ \E k \in use.ops, fd \in use.fds, e \in use.events :
          /\ size > fd
          /\ op' = [op EXCEPT ![t] = [kind |-> k, fd |-> fd, e |-> e]]
          /\ ctx' = [ctx EXCEPT ![t] = Slot(fd)]
    /\ Goto(t, "locked")
    /\ UNCHANGED <<table, state, events, hist, failed>>

-----------------------------------------------------------------------------
(* The calls, under the context's lock.                                    *)

addEvent(t) ==
    /\ pc[t] = "locked" /\ op[t].kind = "add"
    /\ LET c == ctx[t]  fd == c.fd  e == op[t].e
       IN  \/ /\ EpollAccepts(fd, m_events[c] = {})
              /\ EpollSet(fd, c, m_events[c] \cup {e})
              /\ m_pendingEventCount' = m_pendingEventCount + 1
              /\ m_events' = [m_events EXCEPT ![c] = @ \cup {e}]
              /\ waiter' = [waiter EXCEPT ![c][e] = op[t].w]
              /\ UNCHANGED dropped
           \/ /\ ~EpollAccepts(fd, m_events[c] = {})         \* returns -1
              /\ dropped' = dropped \cup {op[t].w}
              /\ UNCHANGED state
    /\ Return(t)
    /\ UNCHANGED <<table, events, adds, resumed, failed>>

\* !(m_events & event), and epoll_ctl failing, both return false.
Refuses(c, e) ==
    e \notin m_events[c] \/ ~EpollAccepts(c.fd, FALSE)

\* Mutants: m_pendingEventCount is not decremented; resetContext is missing.
delEventNoCount(t) ==
    /\ pc[t] = "locked" /\ op[t].kind = "del"
    /\ LET c == ctx[t]  e == op[t].e
       IN  IF Refuses(c, e) THEN UNCHANGED <<state, dropped>>
           ELSE /\ EpollSet(c.fd, c, m_events[c] \ {e})
                /\ m_events' = [m_events EXCEPT ![c] = @ \ {e}]
                /\ dropped' = dropped \cup {waiter[c][e]}
                /\ waiter' = [waiter EXCEPT ![c][e] = 0]
                /\ UNCHANGED m_pendingEventCount
    /\ Return(t)
    /\ UNCHANGED <<table, events, adds, resumed, failed>>
delEventNoReset(t) ==
    /\ pc[t] = "locked" /\ op[t].kind = "del"
    /\ LET c == ctx[t]  e == op[t].e
       IN  IF Refuses(c, e) THEN UNCHANGED <<state, dropped>>
           ELSE /\ EpollSet(c.fd, c, m_events[c] \ {e})
                /\ m_pendingEventCount' = m_pendingEventCount - 1
                /\ m_events' = [m_events EXCEPT ![c] = @ \ {e}]
                /\ dropped' = dropped \cup {waiter[c][e]}
                /\ UNCHANGED waiter
    /\ Return(t)
    /\ UNCHANGED <<table, events, adds, resumed, failed>>

delEvent(t) ==
    /\ pc[t] = "locked" /\ op[t].kind = "del"
    /\ LET c == ctx[t]  e == op[t].e
       IN  IF Refuses(c, e) THEN UNCHANGED <<state, dropped>>
           ELSE /\ EpollSet(c.fd, c, m_events[c] \ {e})
                /\ m_pendingEventCount' = m_pendingEventCount - 1
                /\ m_events' = [m_events EXCEPT ![c] = @ \ {e}]
                /\ dropped' = dropped \cup {waiter[c][e]}
                /\ waiter' = [waiter EXCEPT ![c][e] = 0]     \* resetContext
    /\ Return(t)
    /\ UNCHANGED <<table, events, adds, resumed, failed>>

\* Mutant: the waiter is resumed, epoll is not told.
cancelEventNoCtl(t) ==
    /\ pc[t] = "locked" /\ op[t].kind = "cancel"
    /\ LET c == ctx[t]  e == op[t].e
       IN  IF Refuses(c, e) THEN UNCHANGED <<state, resumed>>
           ELSE Trigger(c, {e}) /\ UNCHANGED epoll
    /\ Return(t)
    /\ UNCHANGED <<table, events, adds, dropped, failed>>

cancelEvent(t) ==
    /\ pc[t] = "locked" /\ op[t].kind = "cancel"
    /\ LET c == ctx[t]  e == op[t].e
       IN  IF Refuses(c, e) THEN UNCHANGED <<state, resumed>>
           ELSE EpollSet(c.fd, c, m_events[c] \ {e}) /\ Trigger(c, {e})
    /\ Return(t)
    /\ UNCHANGED <<table, events, adds, dropped, failed>>

\* Mutant: only WRITE is looked at.
CancelAllTriggersWrite(c) == m_events[c] \cap {"WRITE"}

\* if READ ... else if WRITE ...: one of the two events is triggered.
CancelAllTriggers(c) ==
    IF "READ" \in m_events[c] THEN {"READ"} ELSE m_events[c]

\* The final assert wants m_events to be empty.
cancelAll(t) ==
    /\ pc[t] = "locked" /\ op[t].kind = "cancelAll"
    /\ LET c == ctx[t]
       IN  IF m_events[c] = {} \/ ~EpollAccepts(c.fd, FALSE)
           THEN Return(t) /\ UNCHANGED <<table, state, events, hist, failed>>
           ELSE IF CancelAllTriggers(c) # m_events[c]
           THEN Fail("cancelAll")
           ELSE /\ EpollSet(c.fd, c, {})
                /\ Trigger(c, CancelAllTriggers(c))
                /\ Return(t)
                /\ UNCHANGED <<table, events, adds, dropped, failed>>

-----------------------------------------------------------------------------
(* IOManager::idle: epoll_wait and the loop over what it returned.         *)

\* What epoll may report of a descriptor: some of the events registered for
\* it; errors and hang-ups whether registered or not.
Reports(fd) ==
    (SUBSET (epoll[fd].mask \cup (IF use.err THEN {"ERR"} ELSE {}))) \ {{}}

EpollWait(t) ==
    /\ pc[t] = "client"
    /\ \E F \in SUBSET {fd \in Fds : epoll[fd].reg} :
          /\ F # {}
          /\ \E m \in [F -> SUBSET (Events \cup {"ERR"})] :
                /\ \A fd \in F : m[fd] \in Reports(fd)
                /\ events' = [events EXCEPT ![t] =
                      {[ptr |-> epoll[fd].ptr, mask |-> m[fd]] : fd \in F}]
    /\ Goto(t, "events")
    /\ UNCHANGED <<table, state, op, ctx, hist, failed>>

\* event.events |= EPOLLIN | EPOLLOUT & m_events: & binds tighter than |.
RealEvents(c, mask) ==
    (mask \cap {"READ", "WRITE"})
        \cup (IF "ERR" \in mask THEN {"READ"} \cup ({"WRITE"} \cap m_events[c])
                                ELSE {})

Handled(t, ev) ==
    /\ events' = [events EXCEPT ![t] = @ \ {ev}]
    /\ Goto(t, IF events[t] = {ev} THEN "client" ELSE "events")

HandleEvent(t) ==
    /\ pc[t] = "events"
    /\ \E ev \in events[t] :
          LET c == ev.ptr  real == RealEvents(c, ev.mask)
          IN  \/ /\ m_events[c] \cap real = {} \/ ~EpollAccepts(c.fd, FALSE)
                 /\ Handled(t, ev)
                 /\ UNCHANGED <<table, state, op, ctx, hist, failed>>
              \/ /\ m_events[c] \cap real # {} /\ EpollAccepts(c.fd, FALSE)
                 /\ ~(real \subseteq m_events[c])
                 /\ Fail("triggerEvent")
              \/ /\ m_events[c] \cap real # {} /\ EpollAccepts(c.fd, FALSE)
                 /\ real \subseteq m_events[c]
                 /\ EpollSet(c.fd, c, m_events[c] \ real)
                 /\ Trigger(c, real)
                 /\ Handled(t, ev)
                 /\ UNCHANGED <<table, op, ctx, adds, dropped, failed>>

-----------------------------------------------------------------------------
Step(t) ==
    \/ AddLookup(t) \/ contextResize(t) \/ OtherLookup(t)
    \/ addEvent(t) \/ delEvent(t) \/ cancelEvent(t) \/ cancelAll(t)
    \/ EpollWait(t) \/ HandleEvent(t)

\* Nothing is waited for any more, or an assert has ended the process.
Quiet == (adds = MaxAdds \/ failed # "none") /\ UNCHANGED vars

Next == Quiet \/ (failed = "none" /\ \E t \in use.threads : Step(t))

Spec == Init /\ [][Next]_vars

-----------------------------------------------------------------------------
(* Properties.                                                             *)

\* Type invariant.
TypeOK ==
    /\ use \in Uses
    /\ size \in Nat /\ gen \in [Fds -> 0..MaxGen]
    /\ m_events \in [Contexts -> SUBSET Events]
    /\ waiter \in [Contexts -> [Events -> 0..MaxAdds]]
    /\ \A fd \in Fds : epoll[fd] = Unregistered \/
          epoll[fd] \in [reg : {TRUE}, ptr : Contexts, mask : SUBSET Events]
    /\ m_pendingEventCount \in Nat
    /\ pc \in [Threads -> {"client", "resize", "locked", "events"}]
    /\ \A t \in Threads : pc[t] = "locked" => ctx[t] \in Contexts
    /\ adds \in 0..MaxAdds
    /\ resumed \in [Waiters -> Nat] /\ dropped \subseteq Waiters
    /\ failed \in {"none", "triggerEvent", "cancelAll"}

\* epoll watches exactly the events of m_events: no event is registered with
\* the kernel that nobody waits for, none is waited for that the kernel does
\* not report, in whatever order calls and events interleave.
KernelAgrees ==
    \A c \in Contexts :
        m_events[c] = IF epoll[c.fd].reg /\ epoll[c.fd].ptr = c
                      THEN epoll[c.fd].mask ELSE {}

\* m_pendingEventCount, on which stopping() relies, is the number of events
\* somebody waits for.
PendingIsExact ==
    m_pendingEventCount =
        Cardinality({p \in Contexts \X Events : p[2] \in m_events[p[1]]})

\* A waiter is resumed once or dropped by delEvent, and until then sits in
\* one context, under an event that is registered; a context without an
\* event has no waiter (the assert in addEvent).
Waiting(w) == {p \in Contexts \X Events : waiter[p[1]][p[2]] = w}
Adding(w) == \E t \in Threads : op[t].kind = "add" /\ op[t].w = w
WaiterOnce ==
    /\ \A w \in 1..adds :
          Cardinality(Waiting(w)) + resumed[w]
            + (IF w \in dropped THEN 1 ELSE 0) + (IF Adding(w) THEN 1 ELSE 0) = 1
    /\ \A c \in Contexts, e \in Events :
          waiter[c][e] # 0 <=> e \in m_events[c]

\* The asserts of triggerEvent and cancelAll hold for a program that waits
\* for READ only, and for one thread that waits for both events but meets no
\* error and does not call cancelAll.
NoAssertFails ==
    \/ failed = "none"
    \/ /\ "WRITE" \in use.events
       /\ Cardinality(use.threads) > 1 \/ use.err \/ "cancelAll" \in use.ops

\* HCSERVER_ASSERT1(m_events & event) in triggerEvent: an event is triggered
\* only while somebody waits for it.
TriggerAssert == failed # "triggerEvent"

\* cancelEvent puts the event's waiter into the run queue (the comment at
\* iomanager.cc:196): the context of a waiter is the one cancelEvent looks
\* up, as long as no two threads make m_fdContexts grow at a time.
CancelReaches ==
    Cardinality(use.threads) = 1 =>
        \A c \in Contexts : m_events[c] # {} => size > c.fd /\ Slot(c.fd) = c

-----------------------------------------------------------------------------
(* The inductive invariants behind them.                                   *)

AddOp   == [kind : {"add"}, fd : Fds, e : Events, w : Waiters]
OtherOp == [kind : {"del", "cancel", "cancelAll"}, fd : Fds, e : Events]
Report  == [ptr : Contexts, mask : SUBSET (Events \cup {"ERR"})]

\* What a thread's position says of its call.
CallInv ==
    /\ op \in [Threads -> {NoOp} \cup AddOp \cup OtherOp]
    /\ ctx \in [Threads -> {NoOp} \cup Contexts]
    /\ events \in [Threads -> SUBSET Report]
    /\ epoll \in [Fds -> {Unregistered} \cup
                           [reg : {TRUE}, ptr : Contexts, mask : SUBSET Events]]
    /\ \A t \in Threads :
          /\ pc[t] \in {"client", "events"} => op[t] = NoOp
          /\ pc[t] = "resize" => op[t] \in AddOp
          /\ pc[t] = "locked" => op[t] # NoOp /\ ctx[t] \in Contexts
                                 /\ ctx[t].fd = op[t].fd

\* Nobody else asks for the event a thread is about to add, nobody waits for
\* it, and its waiter is the thread's own.
AddInv ==
    \A t \in Threads : op[t] \in AddOp =>
        /\ op[t].w <= adds
        /\ \A c \in Contexts : c.fd = op[t].fd => op[t].e \notin m_events[c]
        /\ \A u \in Threads : op[u] \in AddOp /\ u # t =>
              op[u].w # op[t].w /\ (op[u].fd # op[t].fd \/ op[u].e # op[t].e)

\* A waiter is in one place: one EventContext, the call that adds it, the run
\* queue or the dropped ones; one that is not in use yet is in none.
WaitInv ==
    /\ \A c, d \in Contexts, e, f \in Events :
          waiter[c][e] = waiter[d][f] /\ waiter[c][e] # 0 => c = d /\ e = f
    /\ \A c \in Contexts, e \in Events :
          /\ waiter[c][e] # 0 <=> e \in m_events[c]
          /\ waiter[c][e] # 0 => /\ waiter[c][e] <= adds
                                 /\ waiter[c][e] \notin dropped
                                 /\ resumed[waiter[c][e]] = 0
                                 /\ ~Adding(waiter[c][e])
    /\ \A w \in Waiters :
          /\ resumed[w] \in {0, 1}
          /\ resumed[w] = 1 => w <= adds /\ w \notin dropped /\ ~Adding(w)
          /\ w \in dropped => w <= adds /\ ~Adding(w)
          /\ w <= adds /\ resumed[w] = 0 /\ w \notin dropped /\ ~Adding(w) =>
                \E c \in Contexts, e \in Events : waiter[c][e] = w

IOInv == TypeOK /\ CallInv /\ AddInv /\ KernelAgrees /\ PendingIsExact /\ WaitInv

\* epoll hands back a context of the descriptor it is asked about.
EpollOwn == \A fd \in Fds : epoll[fd].reg => epoll[fd].ptr.fd = fd

\* A program that waits for READ only never sees WRITE anywhere.
ReadOnlyInv ==
    "WRITE" \notin use.events =>
        /\ failed = "none"
        /\ \A t \in Threads : op[t] # NoOp => op[t].e = "READ"
        /\ \A c \in Contexts : m_events[c] \subseteq {"READ"}
        /\ \A t \in Threads : \A ev \in events[t] : "WRITE" \notin ev.mask

\* What epoll_wait returned to the only thread is still waited for when it is
\* handled, and the table has not changed since that thread looked at it.
AloneInv ==
    /\ size > 1
    /\ \A t \in Threads \ use.threads : pc[t] = "client" /\ events[t] = {}
    /\ \A t \in Threads :
          /\ pc[t] # "events" => events[t] = {}
          /\ pc[t] = "resize" => size <= op[t].fd
          /\ pc[t] = "locked" => size > ctx[t].fd /\ Slot(ctx[t].fd) = ctx[t]
          /\ "cancelAll" \notin use.ops /\ op[t] # NoOp => op[t].kind # "cancelAll"
          /\ \A a, b \in events[t] : a.ptr = b.ptr => a = b
          /\ ~use.err => \A ev \in events[t] : ev.mask \subseteq m_events[ev.ptr]
    /\ \A c \in Contexts : m_events[c] # {} => size > c.fd /\ Slot(c.fd) = c
    /\ ~use.err /\ "cancelAll" \notin use.ops => failed = "none"
OneThreadInv == Cardinality(use.threads) <= 1 => AloneInv

=============================================================================
