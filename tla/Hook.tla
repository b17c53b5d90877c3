-------------------------------- MODULE Hook ---------------------------------
(***************************************************************************)
(* HCServer/hook.cc: the system calls a hooked thread makes.  A call that  *)
(* would block registers an event with the IOManager, starts a condition   *)
(* timer if the socket has a timeout, and yields; the event, the timer's   *)
(* callback or a close() wakes the fiber.                                  *)
(*                                                                         *)
(* Fibers run on several threads: any interleaving of their steps.  Here   *)
(* addEvent, cancelEvent and cancelAll are atomic (IOManager.tla has their *)
(* parts), and so are addEvent and the YieldToHold behind it: a fiber that *)
(* is scheduled before it has yielded runs again afterwards (Scheduler.tla)*)
(* A timer may expire any time after it was added; its callback runs       *)
(* later, as a task of its own, and its two halves, setting `cancelled`    *)
(* and cancelEvent, are two steps.                                         *)
(***************************************************************************)
EXTENDS FdManager

CONSTANTS
    Uses         \* programs: see Use

\* The fibers a program has, the calls each makes, and the descriptors it has
\* at the beginning, with their kernel states, all with contexts;
\* calls bounds the number of calls the fibers make, nofile that of descriptors.
Ops == {"socket", "connect", "io", "sleep", "close", "close_f", "setsockopt",
        "fcntl", "ioctl"}
Use == [ops : [Fibers -> SUBSET Ops], init : [Fds -> {"none", "new", "connected", "listening"}],
        events : SUBSET Events, server : BOOLEAN, restart : BOOLEAN,
        calls : Nat, nofile : Nat]

ASSUME HookAssumption == Fds \subseteq Nat /\ Uses \subseteq Use

VARIABLES
    use,         \* the program
    pc,          \* where each fiber is
    call,        \* its call: [op, fd, e, to, id]
    cancelled,   \* tinfo->cancelled of the call
    m_events,    \* the fiber waiting for an event of a descriptor, or NoFiber
    timers,      \* timers armed, and callbacks under way
    calls,       \* calls made so far
    expired,     \* calls of which a timer has expired
    cause,       \* what ended each fiber's last wait
    last,        \* each fiber's last call, what it returned, what ended its last
                 \* wait, and whether a timer of the call had expired
    failed       \* the assert that ended the process, or "none"

NoFiber == "nobody"
ASSUME FiberAssumption == NoFiber \notin Fibers
NoCall  == [op |-> "none", fd |-> -1, e |-> "READ", to |-> "forever", id |-> 0]
NoneYet == [op |-> "none", fd |-> -1, res |-> "none", by |-> "nothing", late |-> FALSE]

fibers   == <<pc, call, cancelled>>
history  == <<calls, expired, cause, last>>
hookVars == <<use, m_datas, kernel, fibers, m_events, timers, history, failed>>

HookInit ==
    /\ use \in Uses
    /\ kernel = [fd \in Fds |->
          IF use.init[fd] = "none" THEN Closed
          ELSE [Opened(use.init[fd]) EXCEPT !.nonblock = TRUE]]
    /\ m_datas = [fd \in Fds |-> IF use.init[fd] = "none" THEN NoCtx ELSE FdCtx(fd)]
    /\ pc = [f \in Fibers |-> "run"]
    /\ call = [f \in Fibers |-> NoCall]
    /\ cancelled = [f \in Fibers |-> FALSE]
    /\ m_events = [fd \in Fds |-> [e \in Events |-> NoFiber]]
    /\ timers = {} /\ calls = 0 /\ expired = {}
    /\ cause = [f \in Fibers |-> "nothing"]
    /\ last = [f \in Fibers |-> NoneYet]
    /\ failed = "none"

Goto(f, l) == pc' = [pc EXCEPT ![f] = l]

\* Mutant: the timer_info of the call before is used again.
BeginKeepsInfo(f, op, fd, e, to) ==
    /\ calls < use.calls
    /\ calls' = calls + 1
    /\ call' = [call EXCEPT ![f] = [op |-> op, fd |-> fd, e |-> e, to |-> to,
                                    id |-> calls + 1]]
    /\ UNCHANGED cancelled

\* A call begins: a new timer_info, with cancelled = 0.
Begin(f, op, fd, e, to) ==
    /\ calls < use.calls
    /\ calls' = calls + 1
    /\ call' = [call EXCEPT ![f] = [op |-> op, fd |-> fd, e |-> e, to |-> to,
                                    id |-> calls + 1]]
    /\ cancelled' = [cancelled EXCEPT ![f] = FALSE]

\* The call returns res to the program; its timer_info is gone.
Return(f, res) ==
    /\ Goto(f, "run")
    /\ last' = [last EXCEPT ![f] = [op |-> call[f].op, fd |-> call[f].fd, res |-> res,
                                    by |-> cause[f], late |-> call[f].id \in expired]]
    /\ call' = [call EXCEPT ![f] = NoCall]

\* A call that does not wait.
Quick(f, op, fd, res) ==
    /\ calls < use.calls
    /\ calls' = calls + 1
    /\ last' = [last EXCEPT ![f] = [op |-> op, fd |-> fd, res |-> res,
                                    by |-> "nothing", late |-> FALSE]]
    /\ UNCHANGED <<use, fibers, m_events, timers, expired, cause, failed>>

\* One fiber at a time waits for an event of a descriptor.
MayWait(fd, e) == \A f \in Fibers : call[f].fd = fd => call[f].e # e

\* A close() that has cancelled the events and not deleted the context yet: it
\* is f's last call, and has not returned.
Closing(f) == last[f].op = "close" /\ last[f].res = "none"

Calls(f, op) == pc[f] = "run" /\ ~Closing(f) /\ op \in use.ops[f]

\* The timer of this call that is still in m_timers.
Armed(f) == {t \in timers : t.f = f /\ t.id = call[f].id /\ t.st = "armed"}

\* addConditiomTimer, and addTimer for the sleeping calls.
AddTimer(f) ==
    timers' = timers \cup {[f |-> f, id |-> call'[f].id, op |-> call'[f].op,
                            fd |-> call'[f].fd, e |-> call'[f].e, st |-> "armed"]}

Wake(F, why) ==
    /\ pc' = [f \in Fibers |-> IF f \in F THEN "woken" ELSE pc[f]]
    /\ cause' = [f \in Fibers |-> IF f \in F THEN why ELSE cause[f]]

-----------------------------------------------------------------------------
(* do_io: read, write, recv, send, ..., and accept.                        *)

\* What fun does in the kernel when it does not have to wait: some of the data
\* or room may be left.
Served(fd, e) ==
    \/ UNCHANGED kernel
    \/ kernel' = [kernel EXCEPT ![fd].ready = @ \ {e}]

\* The guards of do_io: without a context, or with one the user made
\* non-blocking, the system call itself is made, and its result returned.
Direct(fd) == ~Get(fd).there \/ ~Get(fd).m_isSocket \/ Get(fd).m_userNonblock

do_io(f) ==
    /\ Calls(f, "io")
    /\ \E fd \in Fds, e \in use.events :
          /\ kernel[fd].state = "connected" /\ MayWait(fd, e)
          /\ Begin(f, "io", fd, e, IF Direct(fd) THEN "forever" ELSE Get(fd).m_timeout[e])
          /\ Goto(f, IF Direct(fd) THEN "direct" ELSE "fun")
    /\ UNCHANGED <<use, m_datas, kernel, m_events, timers, expired, cause, last, failed>>

\* A system call that has to wait blocks its thread, if the descriptor does.
WouldBlock(fd, e) == fd \in Fds /\ kernel[fd].open /\ e \notin kernel[fd].ready
Blocks(f) ==
    /\ pc[f] \in {"direct", "fun"}
    /\ WouldBlock(call[f].fd, call[f].e) /\ ~kernel[call[f].fd].nonblock
    /\ Goto(f, "blocked")
    /\ UNCHANGED <<use, m_datas, kernel, call, cancelled, m_events, timers, history, failed>>

\* fun returns something other than EAGAIN, and do_io returns it.
FunReturns(f) ==
    LET fd == call[f].fd  e == call[f].e
    IN  /\ pc[f] \in {"direct", "fun", "blocked"} /\ call[f].op = "io"
        /\ ~WouldBlock(fd, e)
        /\ IF kernel[fd].open THEN Served(fd, e) /\ Return(f, "n")
                              ELSE UNCHANGED kernel /\ Return(f, "EBADF")
        /\ UNCHANGED <<use, m_datas, cancelled, m_events, timers, calls, expired, cause, failed>>

DirectAgain(f) ==
    /\ pc[f] = "direct"
    /\ WouldBlock(call[f].fd, call[f].e) /\ kernel[call[f].fd].nonblock
    /\ Return(f, "EAGAIN")
    /\ UNCHANGED <<use, m_datas, kernel, cancelled, m_events, timers, calls, expired, cause, failed>>

\* EAGAIN: a condition timer is added, if there is a timeout ...
FunAgain(f) ==
    /\ pc[f] = "fun"
    /\ WouldBlock(call[f].fd, call[f].e) /\ kernel[call[f].fd].nonblock
    /\ UNCHANGED call
    /\ IF call[f].to = "forever" THEN UNCHANGED timers ELSE AddTimer(f)
    /\ Goto(f, "add")
    /\ UNCHANGED <<use, m_datas, kernel, cancelled, m_events, history, failed>>

\* ... and then the event.  epoll refuses a closed descriptor: do_io cancels
\* the timer and returns -1, connect goes on to getsockopt.  addEvent asserts
\* that nobody waits for the event.
AddEvent(f) ==
    LET fd == call[f].fd  e == call[f].e
    IN  /\ pc[f] = "add"
        /\ CASE m_events[fd][e] # NoFiber ->
                  /\ failed' = "addEvent"
                  /\ UNCHANGED <<fibers, m_events, timers, last>>
             [] m_events[fd][e] = NoFiber /\ kernel[fd].open ->
                  /\ m_events' = [m_events EXCEPT ![fd][e] = f]
                  /\ Goto(f, "hold")
                  /\ UNCHANGED <<call, cancelled, timers, last, failed>>
             [] OTHER ->
                  /\ timers' = timers \ Armed(f)
                  /\ IF call[f].op = "connect" THEN Goto(f, "getsockopt") /\ UNCHANGED <<call, last>>
                                               ELSE Return(f, "EBADF")
                  /\ UNCHANGED <<cancelled, m_events, failed>>
        /\ UNCHANGED <<use, m_datas, kernel, calls, expired, cause>>

\* Mutant: connect does not look at cancelled.
WokenConnectGoesOn(f) ==
    /\ pc[f] = "woken" /\ call[f].op # "sleep"
    /\ timers' = timers \ Armed(f)
    /\ IF cancelled[f] /\ call[f].op # "connect" THEN Return(f, "ETIMEDOUT")
       ELSE Goto(f, IF call[f].op = "connect" THEN "getsockopt" ELSE "fun") /\ UNCHANGED <<call, last>>
    /\ UNCHANGED <<use, m_datas, kernel, cancelled, m_events, calls, expired, cause, failed>>

\* The fiber runs again: the timer is cancelled, and the call fails with
\* ETIMEDOUT, or tries again (do_io), or asks the socket for its error (connect).
Woken(f) ==
    /\ pc[f] = "woken" /\ call[f].op # "sleep"
    /\ timers' = timers \ Armed(f)
    /\ IF cancelled[f] THEN Return(f, "ETIMEDOUT")
       ELSE Goto(f, IF call[f].op = "connect" THEN "getsockopt" ELSE "fun") /\ UNCHANGED <<call, last>>
    /\ UNCHANGED <<use, m_datas, kernel, cancelled, m_events, calls, expired, cause, failed>>

-----------------------------------------------------------------------------
(* Timers and events.                                                      *)

Timed == UNCHANGED <<use, m_datas, kernel, call, m_events, calls, last, failed>>

\* listExpiredCb takes the timer out of m_timers, and its callback becomes a
\* task.  (Two callbacks of one call are one: the second finds cancelled set.)
Expire(t) ==
    /\ t.st = "armed"
    /\ timers' = (timers \ {t}) \cup {[t EXCEPT !.st = "queued"]}
    /\ expired' = expired \cup {t.id}
    /\ UNCHANGED <<pc, cancelled, cause>> /\ Timed

\* Mutant: the callback sets cancelled and does not call cancelEvent.
OnTimerNoCancel(t) ==
    /\ t.st = "queued" /\ t.op # "sleep"
    /\ timers' = timers \ {t}
    /\ cancelled' = [cancelled EXCEPT ![t.f] = @ \/ call[t.f].id = t.id]
    /\ UNCHANGED <<pc, expired, cause>> /\ Timed

\* OnTimer and the callback: nothing if the timer_info is gone or cancelled is
\* set; else cancelled becomes ETIMEDOUT ...
OnTimer(t) ==
    /\ t.st = "queued" /\ t.op # "sleep"
    /\ IF call[t.f].id # t.id \/ cancelled[t.f]
       THEN timers' = timers \ {t} /\ UNCHANGED cancelled
       ELSE /\ timers' = (timers \ {t}) \cup {[t EXCEPT !.st = "fired"]}
            /\ cancelled' = [cancelled EXCEPT ![t.f] = TRUE]
    /\ UNCHANGED <<pc, expired, cause>> /\ Timed

\* ... and cancelEvent wakes who waits for the event, whoever it is by now.
CancelEvent(t) ==
    LET g == m_events[t.fd][t.e]
    IN  /\ t.st = "fired"
        /\ timers' = timers \ {t}
        /\ IF g = NoFiber THEN UNCHANGED <<pc, cause, m_events>>
           ELSE /\ Wake({g}, IF call[g].id = t.id THEN "timeout" ELSE "stale_timeout")
                /\ m_events' = [m_events EXCEPT ![t.fd][t.e] = NoFiber]
        /\ UNCHANGED <<use, m_datas, kernel, call, cancelled, calls, expired, last, failed>>

\* The callback of sleep, usleep and nanosleep: schedule(fiber).
SleepOver(t) ==
    /\ t.st = "queued" /\ t.op = "sleep"
    /\ timers' = timers \ {t}
    /\ Wake({t.f}, "timeout")
    /\ UNCHANGED <<cancelled, expired>> /\ Timed

\* epoll reports an event that is ready, and the idle fiber triggers it.
TriggerEvent(fd, e) ==
    /\ m_events[fd][e] # NoFiber /\ e \in kernel[fd].ready
    /\ Wake({m_events[fd][e]}, "event")
    /\ m_events' = [m_events EXCEPT ![fd][e] = NoFiber]
    /\ UNCHANGED <<use, m_datas, kernel, call, cancelled, timers, calls, expired, last, failed>>

\* Data, room or a client arrives; a connection attempt succeeds or fails.
Arrive(fd, e) ==
    /\ kernel[fd].open /\ e \notin kernel[fd].ready
    /\ kernel[fd].state = "connected" \/ (kernel[fd].state = "listening" /\ e = "READ")
    /\ kernel' = [kernel EXCEPT ![fd].ready = @ \cup {e}]
    /\ UNCHANGED <<use, m_datas, fibers, m_events, timers, history, failed>>
ConnectEnds(fd) ==
    /\ kernel[fd].open /\ kernel[fd].state = "connecting"
    /\ \E s \in {"connected", "refused"} :
          kernel' = Turns(fd, s, {"WRITE"})
    /\ UNCHANGED <<use, m_datas, fibers, m_events, timers, history, failed>>

-----------------------------------------------------------------------------
(* accept, connect, socket and close.                                      *)

\* The number the kernel gives a new descriptor.
Lowest(fd) ==
    /\ fd < use.nofile /\ ~kernel[fd].open
    /\ \A x \in Fds : x < fd => kernel[x].open

\* accept_f: a new descriptor, if there is one left (EMFILE), for which a
\* context is created behind do_io; call.fd is the new descriptor from then on.
AcceptReturns(f) ==
    LET fd == call[f].fd
    IN  /\ pc[f] \in {"direct", "fun", "blocked"} /\ call[f].op = "accept" /\ ~WouldBlock(fd, "READ")
        /\ IF fd \in Fds /\ kernel[fd].open /\ \E n \in Fds : Lowest(n)
           THEN \E n \in Fds :
                  /\ Lowest(n)
                  /\ kernel' = [kernel EXCEPT ![fd].ready = {}, ![n] = Opened("connected")]
                  /\ call' = [call EXCEPT ![f].fd = n]
                  /\ Goto(f, IF Get(n).there THEN "created" ELSE "create")
                  /\ UNCHANGED last
           ELSE UNCHANGED kernel /\ Return(f, "-1")
        /\ UNCHANGED <<use, m_datas, cancelled, m_events, timers, calls, expired, cause, failed>>

\* socket_f, and get(fd, true): the look-up under the read lock ...
socket(f) ==
    /\ Calls(f, "socket")
    /\ \E n \in Fds :
          /\ Lowest(n)
          /\ Begin(f, "socket", n, "READ", "forever")
          /\ kernel' = [kernel EXCEPT ![n] = Opened("new")]
          /\ Goto(f, IF Get(n).there THEN "created" ELSE "create")
    /\ UNCHANGED <<use, m_datas, m_events, timers, expired, cause, last, failed>>

\* ... and the new context under the write lock.
CreateCtx(f) ==
    /\ pc[f] = "create"
    /\ Create(call[f].fd)
    /\ Goto(f, "created")
    /\ UNCHANGED <<use, call, cancelled, m_events, timers, history, failed>>

SocketReturns(f) ==
    /\ pc[f] = "created" /\ call[f].op = "socket"
    /\ Return(f, "n")
    /\ UNCHANGED <<use, m_datas, kernel, cancelled, m_events, timers, calls, expired, cause, failed>>

\* connect_f: 0, an error (a failed attempt is reported once; EALREADY; EISCONN),
\* or EINPROGRESS on a non-blocking socket.
ConnectF(fd, res) ==
    /\ CASE kernel[fd].state = "new" -> res \in {"0", "error"} \cup
               IF kernel[fd].nonblock THEN {"EINPROGRESS"} ELSE {}
         [] OTHER -> res = "error"
    /\ kernel' = CASE res = "0" -> [kernel EXCEPT ![fd].state = "connected"]
                   [] res = "EINPROGRESS" -> [kernel EXCEPT ![fd].state = "connecting"]
                   [] kernel[fd].state = "refused" ->
                        Turns(fd, "new", {})
                   [] OTHER -> kernel

\* connect_with_timeout: no context is EBADF, a user's non-blocking socket gets
\* what connect_f says; an attempt in progress waits as do_io does.
connect(f) ==
    /\ Calls(f, "connect")
    /\ \E fd \in Fds, to \in Timeouts, res \in {"0", "error", "EINPROGRESS"} :
          /\ kernel[fd].open /\ kernel[fd].state # "listening" /\ MayWait(fd, "WRITE")
          /\ IF ~Get(fd).there THEN Quick(f, "connect", fd, "EBADF") /\ UNCHANGED kernel
             ELSE /\ ConnectF(fd, res)
                  /\ IF Get(fd).m_userNonblock \/ res # "EINPROGRESS"
                     THEN Quick(f, "connect", fd, res)
                     ELSE /\ Begin(f, "connect", fd, "WRITE", to)
                          /\ IF to = "forever" THEN UNCHANGED timers ELSE AddTimer(f)
                          /\ Goto(f, "add")
                          /\ UNCHANGED <<use, m_events, expired, cause, last, failed>>
    /\ UNCHANGED m_datas

\* getsockopt(SO_ERROR): 0 unless the attempt has failed; asking clears it.
Getsockopt(f) ==
    LET k == kernel[call[f].fd]
    IN  /\ pc[f] = "getsockopt"
        /\ CASE ~k.open -> Return(f, "error") /\ UNCHANGED kernel
             [] k.open /\ k.state = "refused" ->
                  /\ Return(f, "error")
                  /\ kernel' = Turns(call[f].fd, "new", {})
             [] OTHER -> Return(f, IF k.state = "connected" THEN "0" ELSE "unconnected")
                         /\ UNCHANGED kernel
        /\ UNCHANGED <<use, m_datas, cancelled, m_events, timers, calls, expired, cause, failed>>

\* The waiters of a descriptor, whom cancelAll wakes; its assert wants one
\* event at most (IOManager.tla).
Waiting(fd) == {m_events[fd][e] : e \in Events} \ {NoFiber}

\* Mutant: the event stays registered.
CancelAllKeeps(fd) == Wake(Waiting(fd), "close") /\ UNCHANGED m_events

CancelAll(fd) ==
    /\ Wake(Waiting(fd), "close")
    /\ m_events' = [m_events EXCEPT ![fd] = [e \in Events |-> NoFiber]]

\* close: cancelAll, if there is a context ...  close_f is not called.
close(f) ==
    /\ Calls(f, "close")
    /\ \E fd \in Fds :
          /\ kernel[fd].open /\ Cardinality(Waiting(fd)) <= 1
          /\ calls < use.calls /\ calls' = calls + 1
          /\ IF Get(fd).there
             THEN CancelAll(fd) /\ last' = [last EXCEPT ![f] =
                                      [NoneYet EXCEPT !.op = "close", !.fd = fd]]
             ELSE UNCHANGED <<pc, cause, m_events, last>>
    /\ UNCHANGED <<use, m_datas, kernel, call, cancelled, timers, expired, failed>>

\* ... and then del, whatever the slot holds by then and whoever waits by then.
\* The function has no return statement: what the program gets is not modelled.
CloseEnds(f) ==
    /\ Closing(f)
    /\ Del(last[f].fd)
    /\ last' = [last EXCEPT ![f] = NoneYet]
    /\ UNCHANGED <<use, kernel, fibers, m_events, timers, calls, expired, cause, failed>>

\* A thread that is not hooked closes a descriptor no fiber is using: the
\* descriptor is gone, its context stays.
close_f(f) ==
    /\ Calls(f, "close_f")
    /\ \E fd \in Fds :
          /\ kernel[fd].open
          /\ \A g \in Fibers : call[g].fd # fd /\ (Closing(g) => last[g].fd # fd)
          /\ kernel' = [kernel EXCEPT ![fd] = Closed]
          /\ Quick(f, "close_f", fd, "0")
    /\ UNCHANGED m_datas

-----------------------------------------------------------------------------
(* Settings, and the sleeping calls.                                       *)

setsockopt(f) ==
    /\ Calls(f, "setsockopt")
    /\ \E fd \in Fds, e \in use.events, to \in Timeouts :
          /\ kernel[fd].open
          /\ m_datas' = IF Get(fd).there THEN [m_datas EXCEPT ![fd].m_timeout[e] = to] ELSE m_datas
          /\ Quick(f, "setsockopt", fd, "0")
    /\ UNCHANGED kernel

\* F_SETFL: the flag becomes the system's, never the user's, and the kernel's.
fcntl(f) ==
    /\ Calls(f, "fcntl")
    /\ \E fd \in Fds, nb \in BOOLEAN :
          /\ kernel[fd].open
          /\ m_datas' = IF Get(fd).there /\ Get(fd).m_isSocket
                        THEN [m_datas EXCEPT ![fd].m_sysNonblock = nb] ELSE m_datas
          /\ kernel' = [kernel EXCEPT ![fd].nonblock = nb]
          /\ Quick(f, "fcntl", fd, "0")

\* FIONBIO: the user's flag, and the kernel's.
ioctl(f) ==
    /\ Calls(f, "ioctl")
    /\ \E fd \in Fds, nb \in BOOLEAN :
          /\ kernel[fd].open
          /\ m_datas' = IF Get(fd).there /\ Get(fd).m_isSocket
                        THEN [m_datas EXCEPT ![fd].m_userNonblock = nb] ELSE m_datas
          /\ kernel' = [kernel EXCEPT ![fd].nonblock = nb]
          /\ Quick(f, "ioctl", fd, "0")

sleep(f) ==
    /\ Calls(f, "sleep")
    /\ Begin(f, "sleep", -1, "READ", "some")
    /\ AddTimer(f)
    /\ Goto(f, "hold")
    /\ UNCHANGED <<use, m_datas, kernel, m_events, expired, cause, last, failed>>

SleepReturns(f) ==
    /\ pc[f] = "woken" /\ call[f].op = "sleep"
    /\ Return(f, "0")
    /\ UNCHANGED <<use, m_datas, kernel, cancelled, m_events, timers, calls, expired, cause, failed>>

-----------------------------------------------------------------------------
\* The steps a fiber takes inside a call, and the calls it may begin.
Inside(f) ==
    \/ Blocks(f) \/ FunReturns(f) \/ DirectAgain(f) \/ FunAgain(f) \/ AddEvent(f) \/ Woken(f)
    \/ AcceptReturns(f) \/ CreateCtx(f) \/ SocketReturns(f) \/ Getsockopt(f) \/ SleepReturns(f)
    \/ CloseEnds(f)

Client(f) ==
    \/ do_io(f) \/ socket(f) \/ connect(f) \/ close(f) \/ close_f(f) \/ setsockopt(f)
    \/ fcntl(f) \/ ioctl(f) \/ sleep(f)

\* The timers of a fiber's calls, and their callbacks.
Timer(f) == \E t \in timers : t.f = f /\ Expire(t)

Callbacks(f) == \E t \in timers : t.f = f /\ (OnTimer(t) \/ CancelEvent(t) \/ SleepOver(t))

Kernel == \E fd \in Fds : ConnectEnds(fd) \/ \E e \in use.events : Arrive(fd, e)

Epoll == \E fd \in Fds, e \in Events : TriggerEvent(fd, e)

=============================================================================
