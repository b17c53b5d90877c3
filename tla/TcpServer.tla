------------------------------ MODULE TcpServer ------------------------------
(***************************************************************************)
(* HCServer/tcp_server.cc on top of the hooked calls: start() and stop()   *)
(* of the program, the accept loop, and the fibers that handle clients     *)
(* (HttpServer::handleClient, with its session reduced to reads).  One     *)
(* listening socket, descriptor Listener.  Fibers that no task occupies    *)
(* take the tasks the server schedules.                                    *)
(***************************************************************************)
EXTENDS Hook

CONSTANTS Listener, MaxStarts

\* bind() has made a server's socket a listening one before start().
ASSUME ServerAssumption ==
    /\ Listener \in Fds /\ MaxStarts \in Nat
    /\ \A u \in Uses : u.server => u.init[Listener] = "listening"

VARIABLES
    m_isStop,
    m_sock,      \* the listening Socket's m_sock: Listener or -1
    m_socks,     \* is the Socket in TcpServer::m_socks?
    task,        \* tasks of the server: [accept, stop] counts, client descriptors
    role,        \* what a fiber runs: "startAccept", "handleClient" ("over" between the
                 \* halves of its close()), "stop" ("close", then "closed"), or "none"
    client,      \* the descriptor handleClient got
    starts,      \* calls of start()
    late         \* clients accepted since stop()

server == <<m_isStop, m_sock, m_socks, task, role, client, starts, late>>
vars   == <<hookVars, server>>

ServerInit ==
    /\ m_isStop = TRUE /\ m_sock = Listener /\ m_socks = use.server
    /\ task = [accept |-> 0, stop |-> 0, clients |-> {}]
    /\ role = [f \in Fibers |-> "none"]
    /\ client = [f \in Fibers |-> -1]
    /\ starts = 0 /\ late = 0

Init == HookInit /\ ServerInit

\* start() and stop(), called by the program; a program that does not restart
\* its server calls each once.
start ==
    /\ use.server /\ starts < IF use.restart THEN MaxStarts ELSE 1
    /\ starts' = starts + 1
    /\ IF ~m_isStop THEN UNCHANGED <<m_isStop, task>>
       ELSE /\ m_isStop' = FALSE
            /\ task' = [task EXCEPT !.accept = @ + IF m_socks THEN 1 ELSE 0]
    /\ UNCHANGED <<hookVars, m_sock, m_socks, role, client, late>>

stop ==
    /\ starts > 0 /\ ~m_isStop
    /\ m_isStop' = TRUE
    /\ task' = [task EXCEPT !.stop = @ + 1]
    /\ late' = 0
    /\ UNCHANGED <<hookVars, m_sock, m_socks, role, client, starts>>

Free(f) == role[f] = "none" /\ pc[f] = "run" /\ use.ops[f] = {}

\* The scheduler gives a task to a fiber.
TakeTask(f) ==
    /\ Free(f)
    /\ \/ /\ task.accept > 0 /\ task' = [task EXCEPT !.accept = @ - 1]
          /\ role' = [role EXCEPT ![f] = "startAccept"]
          /\ UNCHANGED client
       \/ /\ task.stop > 0 /\ task' = [task EXCEPT !.stop = @ - 1]
          /\ role' = [role EXCEPT ![f] = "stop"]
          /\ UNCHANGED client
       \/ \E fd \in task.clients :
             /\ task' = [task EXCEPT !.clients = @ \ {fd}]
             /\ role' = [role EXCEPT ![f] = "handleClient"]
             /\ client' = [client EXCEPT ![f] = fd]
    /\ UNCHANGED <<hookVars, m_isStop, m_sock, m_socks, starts, late>>

Done(f) == role' = [role EXCEPT ![f] = "none"] /\ client' = [client EXCEPT ![f] = -1]

\* The listening socket has no timeout, and its calls no number.
AcceptCall == [op |-> "accept", fd |-> m_sock, e |-> "READ", to |-> "forever", id |-> 0]

\* Mutant: the loop does not look at m_isStop.
startAcceptForever(f) ==
    /\ role[f] = "startAccept" /\ pc[f] = "run"
    /\ call' = [call EXCEPT ![f] = AcceptCall]
    /\ cancelled' = [cancelled EXCEPT ![f] = FALSE]
    /\ Goto(f, IF m_sock = -1 \/ Direct(m_sock) THEN "direct" ELSE "fun")
    /\ UNCHANGED <<use, m_datas, kernel, m_events, timers, history, failed, server>>

\* The loop of startAccept: while(!m_isStop) sock->accept().  accept(-1) and
\* accept on a descriptor without context go to accept_f directly.
startAccept(f) ==
    /\ role[f] = "startAccept" /\ pc[f] = "run"
    /\ IF m_isStop THEN Done(f) /\ UNCHANGED hookVars
       ELSE /\ call' = [call EXCEPT ![f] = AcceptCall]
            /\ cancelled' = [cancelled EXCEPT ![f] = FALSE]
            /\ Goto(f, IF m_sock = -1 \/ Direct(m_sock) THEN "direct" ELSE "fun")
            /\ UNCHANGED <<use, m_datas, kernel, m_events, timers, history, failed, role, client>>
    /\ UNCHANGED <<m_isStop, m_sock, m_socks, task, starts, late>>

\* Socket::init, setRecvTimeout and schedule(handleClient).
Accepted(f) ==
    LET fd == call[f].fd
    IN  /\ pc[f] = "created" /\ call[f].op = "accept"
        /\ IF Get(fd).there /\ Get(fd).m_isSocket
           THEN /\ m_datas' = [m_datas EXCEPT ![fd].m_timeout["READ"] = "some"]
                /\ task' = [task EXCEPT !.clients = @ \cup {fd}]
                /\ late' = IF m_isStop THEN late + 1 ELSE late
           ELSE UNCHANGED <<m_datas, task, late>>
        /\ Return(f, "n")
        /\ UNCHANGED <<use, kernel, cancelled, m_events, timers, calls, expired, cause, failed>>
        /\ UNCHANGED <<m_isStop, m_sock, m_socks, role, client, starts>>

\* stop's task: cancelAll, and Socket::close, whose close() cancels all again ...
StopTask(f) ==
    /\ role[f] = "stop" /\ m_socks
    /\ CancelAll(Listener)
    /\ role' = [role EXCEPT ![f] = "close"]
    /\ UNCHANGED <<use, m_datas, kernel, call, cancelled, timers, calls, expired, last, failed>>
    /\ UNCHANGED <<m_isStop, m_sock, m_socks, task, client, starts, late>>
StopCloses(f) ==
    /\ role[f] = "close" /\ m_sock # -1 /\ Get(Listener).there
    /\ CancelAll(Listener)
    /\ role' = [role EXCEPT ![f] = "closed"]
    /\ UNCHANGED <<use, m_datas, kernel, call, cancelled, timers, calls, expired, last, failed>>
    /\ UNCHANGED <<m_isStop, m_sock, m_socks, task, client, starts, late>>

\* ... and deletes the context, if it found one; m_sock = -1 and m_socks.clear().
StopClosed(f) ==
    /\ \/ role[f] = "closed" /\ Del(Listener)
       \/ role[f] = "close" /\ (m_sock = -1 \/ ~Get(Listener).there) /\ UNCHANGED m_datas
       \/ role[f] = "stop" /\ ~m_socks /\ UNCHANGED m_datas
    /\ m_sock' = -1 /\ m_socks' = FALSE
    /\ Done(f)
    /\ UNCHANGED <<use, kernel, fibers, m_events, timers, history, failed>>
    /\ UNCHANGED <<m_isStop, task, starts, late>>

\* handleClient: reads until one fails or the session is over, then close(),
\* whose cancelAll and del are two steps.
ClientReads(f) ==
    LET fd == client[f]
    IN  /\ role[f] = "handleClient" /\ pc[f] = "run"
        /\ last[f].fd = fd => last[f].res = "n"
        /\ Begin(f, "io", fd, "READ", IF Direct(fd) THEN "forever" ELSE Get(fd).m_timeout["READ"])
        /\ Goto(f, IF Direct(fd) THEN "direct" ELSE "fun")
        /\ UNCHANGED <<use, m_datas, kernel, m_events, timers, expired, cause, last, failed>>
        /\ UNCHANGED server
ClientCloses(f) ==
    LET fd == client[f]
    IN  /\ role[f] = "handleClient" /\ pc[f] = "run" /\ last[f].fd = fd
        /\ Get(fd).there
        /\ CancelAll(fd)
        /\ role' = [role EXCEPT ![f] = "over"]
        /\ UNCHANGED <<use, m_datas, kernel, call, cancelled, timers, calls, expired, last, failed>>
        /\ UNCHANGED <<m_isStop, m_sock, m_socks, task, client, starts, late>>
ClientOver(f) ==
    LET fd == client[f]
    IN  /\ \/ role[f] = "over" /\ Del(fd)
           \/ /\ role[f] = "handleClient" /\ pc[f] = "run" /\ last[f].fd = fd
              /\ ~Get(fd).there /\ UNCHANGED m_datas
        /\ Done(f)
        /\ last' = [last EXCEPT ![f] = NoneYet]
        /\ UNCHANGED <<use, kernel, fibers, m_events, timers, calls, expired, cause, failed>>
        /\ UNCHANGED <<m_isStop, m_sock, m_socks, task, starts, late>>

-----------------------------------------------------------------------------
Fiber(f) ==
    \/ Inside(f) /\ UNCHANGED server
    \/ TakeTask(f) \/ startAccept(f) \/ Accepted(f) \/ StopTask(f) \/ StopCloses(f)
    \/ StopClosed(f) \/ ClientCloses(f) \/ ClientOver(f)

Next ==
    /\ failed = "none"
    /\ \/ \E f \in Fibers : Fiber(f) \/ ClientReads(f) \/ (Client(f) /\ UNCHANGED server)
       \/ start \/ stop
       \/ (Kernel \/ Epoll \/ \E f \in Fibers : Timer(f) \/ Callbacks(f)) /\ UNCHANGED server

\* Threads go on with the tasks and fibers they have, the idle fibers run and
\* so timers expire and epoll reports what is ready.  Nothing is assumed of the
\* program or of what arrives.
Fairness ==
    /\ \A f \in Fibers :
          /\ WF_vars(failed = "none" /\ Fiber(f))
          /\ WF_vars(failed = "none" /\ Timer(f) /\ UNCHANGED server)
          /\ WF_vars(failed = "none" /\ Callbacks(f) /\ UNCHANGED server)
    /\ \A fd \in Fds, e \in Events :
          WF_vars(failed = "none" /\ TriggerEvent(fd, e) /\ UNCHANGED server)

Spec == Init /\ [][Next]_vars /\ Fairness

-----------------------------------------------------------------------------
(* Properties.                                                             *)

\* A call fails with ETIMEDOUT only if a timer of that very call has expired,
\* however late the callbacks of earlier calls run.
TimeoutHonest == \A f \in Fibers : last[f].res = "ETIMEDOUT" => last[f].late

\* connect returns 0 for a socket that is not connected only if somebody else
\* ended its wait: a close() of the descriptor, or the second half of a timer
\* callback of an earlier call, after both of which SO_ERROR is still 0.
ConnectHonest ==
    \A f \in Fibers :
        last[f].op = "connect" /\ last[f].res = "unconnected" =>
            last[f].by \in {"close", "stale_timeout"}

\* In a program that leaves O_NONBLOCK alone, and whose descriptors are closed
\* by hooked threads only, no call blocks its thread, and none returns EAGAIN
\* unless the descriptor has been closed.  (A close by another thread leaves a
\* context behind, which the next socket of that number takes over unread.)
BlockingKept ==
    (\A f \in Fibers : use.ops[f] \cap {"fcntl", "ioctl", "close_f"} = {}) =>
        \A f \in Fibers :
            /\ pc[f] # "blocked"
            /\ last[f].res = "EAGAIN" => ~Get(last[f].fd).there

\* addEvent's assert, that nobody waits for the event yet, fails only if the
\* server is started again after a stop(): then two fibers may accept.
OneWaiter == failed = "addEvent" => use.restart

\* After stop() the accept loop takes one more client at most.
LateClients == ~use.restart => late <= 1

\* A call with a timeout that waits and has not timed out yet stops waiting; so
\* does a sleeper.  (A callback that runs before addEvent sets cancelled and
\* finds no event to cancel: the call then waits without a timer.)
WaitEnds ==
    \A f \in Fibers :
        (pc[f] = "hold" /\ call[f].to = "some" /\ ~cancelled[f])
            ~> (pc[f] # "hold" \/ failed # "none")

\* stop() ends the accept loop.
StopEndsAccepting ==
    (starts > 0 /\ m_isStop) ~> (m_isStop => \A f \in Fibers : role[f] # "startAccept")

-----------------------------------------------------------------------------
(* The inductive invariants behind them.                                   *)

Descriptor == [open : BOOLEAN, nonblock : BOOLEAN,
               state : {"new", "connecting", "connected", "refused", "listening"},
               ready : SUBSET Events]
Context == [there : {TRUE}, m_isSocket : BOOLEAN, m_sysNonblock : BOOLEAN,
            m_userNonblock : BOOLEAN, m_timeout : [Events -> Timeouts]]
Numbers == Fds \cup {-1}
CallOps == {"none", "io", "accept", "connect", "socket", "sleep"}
Call == [op : CallOps, fd : Numbers, e : Events, to : Timeouts, id : Nat]
TimerCb == [f : Fibers, id : Nat, op : CallOps, fd : Numbers, e : Events,
            st : {"armed", "queued", "fired"}]
Causes == {"nothing", "event", "close", "timeout", "stale_timeout"}
Results == {"none", "n", "0", "error", "-1", "EBADF", "EAGAIN", "EINPROGRESS",
            "ETIMEDOUT", "unconnected"}
Outcome == [op : Ops \cup CallOps, fd : Numbers, res : Results, by : Causes,
            late : BOOLEAN]

\* The types of the hooked calls' state, and of the server's.
HookTypeOK ==
    /\ use \in Uses
    /\ m_datas \in [Fds -> Context \cup {NoCtx}]
    /\ kernel \in [Fds -> Descriptor]
    /\ pc \in [Fibers -> {"run", "direct", "fun", "blocked", "add", "hold", "woken",
                          "getsockopt", "create", "created"}]
    /\ call \in [Fibers -> Call]
    /\ cancelled \in [Fibers -> BOOLEAN]
    /\ m_events \in [Fds -> [Events -> Fibers \cup {NoFiber}]]
    /\ timers \subseteq TimerCb
    /\ calls \in Nat /\ expired \subseteq Nat
    /\ cause \in [Fibers -> Causes]
    /\ last \in [Fibers -> Outcome]
    /\ failed \in {"none", "addEvent"}
Roles == {"none", "startAccept", "handleClient", "over", "stop", "close", "closed"}
ServerTypeOK ==
    /\ m_isStop \in BOOLEAN /\ m_sock \in {Listener, -1} /\ m_socks \in BOOLEAN
    /\ task \in [accept : Nat, stop : Nat, clients : SUBSET Fds]
    /\ role \in [Fibers -> Roles]
    /\ client \in [Fibers -> Numbers]
    /\ starts \in Nat /\ late \in Nat
TypeOK == HookTypeOK /\ ServerTypeOK

\* Where a fiber of role r may be in its call c.
Legal(c, l, r) ==
    /\ c.op = "none" => l = "run" /\ c = NoCall
    /\ c.op = "io" => l \in {"direct", "fun", "blocked", "add", "hold", "woken"}
    /\ c.op = "accept" =>
          /\ l \in {"direct", "fun", "blocked", "add", "hold", "woken", "create", "created"}
          /\ r = "startAccept" /\ c.to = "forever"
    /\ c.op = "connect" => l \in {"add", "hold", "woken", "getsockopt"} /\ c.e = "WRITE"
    /\ c.op = "socket" => l \in {"create", "created"}
    /\ c.op = "sleep" => l \in {"hold", "woken"} /\ c.fd = -1
    /\ c.op \in {"io", "connect", "socket"} \/ (c.op = "accept" /\ l # "direct")
          => c.fd \in Fds
    /\ c.id = 0 <=> c.op \in {"none", "accept"}

\* The roles of fibers that are closing a socket: they never wait.
Closers == {"over", "stop", "close", "closed"}

\* Every fiber is where its call lets it be; calls have numbers of their own.
CallInv ==
    /\ \A f \in Fibers : Legal(call[f], pc[f], role[f]) /\ call[f].id <= calls
    /\ \A f, g \in Fibers : call[f].id = call[g].id /\ call[f].id # 0 => f = g
    /\ \A f \in Fibers : role[f] # "none" => use.ops[f] = {}
    /\ \A f \in Fibers : role[f] \in {"handleClient", "over"} => client[f] \in Fds
    /\ \A f \in Fibers : role[f] \in Closers => pc[f] = "run"

\* The waiter of an event waits for it, in the call it is in.
EventInv ==
    \A fd \in Fds, e \in Events : m_events[fd][e] # NoFiber =>
        LET g == m_events[fd][e]
        IN  /\ pc[g] = "hold" /\ call[g].fd = fd /\ call[g].e = e
            /\ call[g].op \in {"io", "accept", "connect"}

\* A timer belongs to one call: a sleeper waits for its timer, and a callback
\* between its halves has set cancelled.
TimerInv ==
    /\ \A t \in timers :
          /\ t.id \in 1..calls
          /\ t.st # "armed" => t.id \in expired
          /\ t.op # "sleep" => t.fd \in Fds
          /\ t.op = "sleep" => /\ t.st # "fired" /\ call[t.f].id = t.id
                               /\ call[t.f].op = "sleep" /\ pc[t.f] = "hold"
          /\ \A g \in Fibers : call[g].id = t.id =>
                g = t.f /\ (t.st = "fired" => cancelled[g])
    /\ \A t, u \in timers : t.op = "sleep" /\ u.op = "sleep" /\ t.f = u.f => t = u

\* cancelled is set by a timer of the call that is going on.
CancelledInv ==
    \A f \in Fibers : cancelled[f] /\ call[f].op # "none" => call[f].id \in expired

\* A connection attempt is one fiber's affair until it has its result.
KernelInv ==
    \A fd \in Fds :
        /\ ~kernel[fd].open => kernel[fd] = Closed
        /\ kernel[fd].state \in {"new", "connecting"} => kernel[fd].ready = {}
Attempt(f) ==
    LET k == kernel[call[f].fd]
    IN  /\ k.open /\ k.state \in {"connecting", "connected", "refused"}
        /\ \A g \in Fibers \ {f} : call[g].op = "connect" => call[g].fd # call[f].fd
        /\ pc[f] \in {"woken", "getsockopt"} =>
              /\ cause[f] # "nothing"
              /\ cause[f] = "event" => k.state # "connecting"
              /\ cause[f] = "timeout" => pc[f] = "woken" /\ cancelled[f]
ConnectInv == \A f \in Fibers : call[f].op = "connect" => Attempt(f)

HookInv ==
    /\ CallInv /\ EventInv /\ TimerInv /\ CancelledInv /\ KernelInv /\ ConnectInv
    /\ TimeoutHonest /\ ConnectHonest

\* A server that is started once has one accept loop, which ends with the
\* first client after stop().
AcceptInv ==
    ~use.restart =>
        /\ starts <= 1 /\ late <= 1
        /\ starts = 0 => task.accept = 0 /\ \A f \in Fibers : role[f] # "startAccept"
        /\ starts = 0 => m_isStop /\ late = 0
        /\ task.accept <= 1
        /\ task.accept = 1 => \A f \in Fibers : role[f] # "startAccept"
        /\ \A f, g \in Fibers : role[f] = "startAccept" /\ role[g] = "startAccept" => f = g
        /\ late = 1 => /\ m_isStop /\ task.accept = 0
                       /\ \A f \in Fibers : role[f] = "startAccept" => pc[f] = "run"

\* The program of a server leaves fibers and sockets to it.
ServerAlone == \A u \in Uses : u.server => \A f \in Fibers : u.ops[f] = {}

\* The sockets of a server: the listening one, those being set up, those that
\* wait for a fiber, those that a fiber has.
Serving(f) == role[f] = "handleClient"
Coming(f)  == call[f].op = "accept" /\ pc[f] \in {"create", "created"}
SocketInv ==
    /\ \A f \in Fibers : call[f].fd # -1 => kernel[call[f].fd].open
    /\ use.server =>
        /\ kernel[Listener].open /\ Listener \notin task.clients
        /\ \A f \in Fibers : call[f].op # "none" =>
              /\ call[f].e = "READ"
              /\ \/ call[f].op = "io" /\ Serving(f) /\ call[f].fd = client[f]
                 \/ call[f].op = "accept" /\ (call[f].fd \in {Listener, -1} \/ Coming(f))
        /\ \A f \in Fibers : Coming(f) =>
              /\ call[f].fd # Listener /\ call[f].fd \notin task.clients
              /\ \A g \in Fibers \ {f} : Coming(g) => call[g].fd # call[f].fd
              /\ \A g \in Fibers : Serving(g) => client[g] # call[f].fd
        /\ \A fd \in task.clients : kernel[fd].open
        /\ \A f \in Fibers : Serving(f) =>
              /\ kernel[client[f]].open
              /\ client[f] # Listener /\ client[f] \notin task.clients
              /\ \A g \in Fibers \ {f} : Serving(g) => client[g] # client[f]
    /\ ~use.server =>
        /\ starts = 0 /\ task.accept = 0 /\ task.stop = 0 /\ task.clients = {}
        /\ \A f \in Fibers : role[f] = "none"

\* No two calls are about one event of one descriptor.
SoleInv ==
    ~use.restart =>
        \A f, g \in Fibers : f # g /\ call[f].fd = call[g].fd /\ call[f].fd # -1 =>
            call[f].e # call[g].e

\* Nobody touches O_NONBLOCK but FdCtx::init.
Untouched == \A f \in Fibers : use.ops[f] \cap {"fcntl", "ioctl", "close_f"} = {}
NonblockInv ==
    Untouched =>
        /\ \A fd \in Fds : Get(fd).there =>
              /\ kernel[fd].open /\ kernel[fd].nonblock
              /\ Get(fd).m_isSocket /\ ~Get(fd).m_userNonblock
        /\ \A fd \in Fds : kernel[fd].open /\ ~kernel[fd].nonblock =>
              \E f \in Fibers : pc[f] = "create" /\ call[f].fd = fd
        /\ \A f \in Fibers : pc[f] = "create" =>
              /\ ~kernel[call[f].fd].nonblock /\ ~Get(call[f].fd).there
              /\ call[f].op = "socket" => kernel[call[f].fd].state = "new"
              /\ \A g \in Fibers \ {f} : pc[g] \in {"create", "created"} => call[g].fd # call[f].fd
              /\ \A g \in Fibers : Serving(g) => client[g] # call[f].fd
              /\ call[f].fd \notin task.clients
        /\ \A f \in Fibers : pc[f] = "direct" /\ call[f].fd # -1 => ~Get(call[f].fd).there
        /\ \A f \in Fibers :
              pc[f] \in {"direct", "fun", "add", "hold", "woken"} /\ call[f].fd # -1 =>
                 kernel[call[f].fd].nonblock
        /\ \A f \in Fibers :
              /\ pc[f] # "blocked"
              /\ last[f].res = "EAGAIN" =>
                    last[f].fd \in Fds /\ ~Get(last[f].fd).there /\ kernel[last[f].fd].nonblock

DescriptorInv == SocketInv /\ SoleInv /\ NonblockInv /\ OneWaiter

=============================================================================
