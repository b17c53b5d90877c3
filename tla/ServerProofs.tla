---------------------------- MODULE ServerProofs ----------------------------
(***************************************************************************)
(* Proofs about the hooked calls and the server, Hook.tla and TcpServer.tla,*)
(* for any number of fibers, descriptors and calls.                        *)
(***************************************************************************)
EXTENDS TcpServer, TLAPS

\* The records a step builds have their types.
LEMMA RecordTypes ==
  /\ Closed \in Descriptor /\ NoCall \in Call /\ NoneYet \in Outcome
  /\ \A s \in {"new", "connecting", "connected", "refused", "listening"} :
        Opened(s) \in Descriptor
  /\ ~NoCtx.there /\ -1 \in Numbers /\ -1 \notin Fds /\ Fds \subseteq Numbers
  <1>1. Closed \in Descriptor  BY DEF Closed, Descriptor
  <1>2. NoCall \in Call  BY DEF NoCall, Call, Numbers, CallOps, Events, Timeouts
  <1>3. NoneYet \in Outcome
    BY DEF NoneYet, Outcome, Numbers, CallOps, Results, Causes
  <1>4. \A s \in {"new", "connecting", "connected", "refused", "listening"} :
          Opened(s) \in Descriptor
    BY DEF Opened, Descriptor
  <1>5. -1 \notin Fds  BY HookAssumption
  <1> QED  BY <1>1, <1>2, <1>3, <1>4, <1>5 DEF NoCtx, Numbers

LEMMA UseTypes ==
  ASSUME TypeOK
  PROVE  /\ use.ops \in [Fibers -> SUBSET Ops] /\ use.events \subseteq Events
         /\ use.server \in BOOLEAN /\ use.restart \in BOOLEAN
         /\ use.calls \in Nat /\ use.nofile \in Nat
         /\ use.init \in [Fds -> {"none", "new", "connected", "listening"}]
  BY HookAssumption DEF TypeOK, HookTypeOK, Use

\* What a call leaves behind when it returns.
LEMMA ReturnType ==
  ASSUME TypeOK, NEW f \in Fibers, NEW res \in Results, Return(f, res)
  PROVE  /\ pc' = [pc EXCEPT ![f] = "run"] /\ call' = [call EXCEPT ![f] = NoCall]
         /\ call' \in [Fibers -> Call] /\ last' \in [Fibers -> Outcome]
  <1>1. /\ call[f].op \in CallOps /\ call[f].fd \in Numbers /\ cause[f] \in Causes
    BY DEF TypeOK, HookTypeOK, Call
  <1>2. [op |-> call[f].op, fd |-> call[f].fd, res |-> res, by |-> cause[f],
         late |-> call[f].id \in expired] \in Outcome
    BY <1>1 DEF Outcome
  <1> QED  BY <1>2, RecordTypes DEF Return, Goto, TypeOK, HookTypeOK

LEMMA BeginType ==
  ASSUME TypeOK, NEW f \in Fibers, NEW op \in CallOps, NEW fd \in Numbers,
         NEW e \in Events, NEW to \in Timeouts, Begin(f, op, fd, e, to)
  PROVE  /\ call' \in [Fibers -> Call] /\ cancelled' \in [Fibers -> BOOLEAN]
         /\ calls' = calls + 1 /\ calls' \in Nat
         /\ call' = [call EXCEPT ![f] = [op |-> op, fd |-> fd, e |-> e, to |-> to,
                                         id |-> calls + 1]]
  BY DEF Begin, TypeOK, HookTypeOK, Call

LEMMA AddTimerType ==
  ASSUME TypeOK, NEW f \in Fibers, call' \in [Fibers -> Call], AddTimer(f)
  PROVE  timers' \subseteq TimerCb
  <1>1. call'[f] \in Call  OBVIOUS
  <1>2. [f |-> f, id |-> call'[f].id, op |-> call'[f].op, fd |-> call'[f].fd,
         e |-> call'[f].e, st |-> "armed"] \in TimerCb
    BY <1>1 DEF Call, TimerCb
  <1> QED  BY <1>2 DEF AddTimer, TypeOK, HookTypeOK

LEMMA QuickType ==
  ASSUME TypeOK, NEW f \in Fibers, NEW op \in Ops, NEW fd \in Fds,
         NEW res \in Results, Quick(f, op, fd, res)
  PROVE  /\ calls' \in Nat /\ last' \in [Fibers -> Outcome]
         /\ last' = [last EXCEPT ![f] = [op |-> op, fd |-> fd, res |-> res,
                                         by |-> "nothing", late |-> FALSE]]
  <1>1. [op |-> op, fd |-> fd, res |-> res, by |-> "nothing", late |-> FALSE] \in Outcome
    BY DEF Outcome, Numbers, Causes
  <1> QED  BY <1>1 DEF Quick, TypeOK, HookTypeOK

LEMMA WakeType ==
  ASSUME TypeOK, NEW F, NEW why \in Causes, Wake(F, why)
  PROVE  /\ cause' \in [Fibers -> Causes]
         /\ pc' \in [Fibers -> {"run", "direct", "fun", "blocked", "add", "hold", "woken",
                                "getsockopt", "create", "created"}]
         /\ \A f \in Fibers : pc'[f] = (IF f \in F THEN "woken" ELSE pc[f])
         /\ \A f \in Fibers : cause'[f] = (IF f \in F THEN why ELSE cause[f])
  BY DEF Wake, TypeOK, HookTypeOK

LEMMA CancelAllType ==
  ASSUME TypeOK, NEW fd \in Fds, CancelAll(fd)
  PROVE  /\ cause' \in [Fibers -> Causes]
         /\ pc' \in [Fibers -> {"run", "direct", "fun", "blocked", "add", "hold", "woken",
                                "getsockopt", "create", "created"}]
         /\ m_events' \in [Fds -> [Events -> Fibers \cup {NoFiber}]]
  <1>1. Wake(Waiting(fd), "close")  BY DEF CancelAll
  <1>2. "close" \in Causes  BY DEF Causes
  <1> QED  BY <1>1, <1>2, WakeType DEF CancelAll, TypeOK, HookTypeOK

LEMMA CtxType ==
  ASSUME TypeOK, NEW fd \in Fds
  PROVE  /\ FdCtx(fd) \in Context
         /\ Create(fd) => /\ m_datas' \in [Fds -> Context \cup {NoCtx}]
                          /\ kernel' \in [Fds -> Descriptor]
         /\ Del(fd) => m_datas' \in [Fds -> Context \cup {NoCtx}]
         /\ Get(fd) \in Context \/ ~Get(fd).there
  <1>1. kernel[fd] \in Descriptor /\ kernel[fd].open \in BOOLEAN
    BY DEF TypeOK, HookTypeOK, Descriptor
  <1>2. FdCtx(fd) \in Context  BY <1>1 DEF FdCtx, Context, Timeouts
  <1>3. [kernel[fd] EXCEPT !.nonblock = kernel[fd].open] \in Descriptor
    BY <1>1 DEF Descriptor
  <1>4. Create(fd) => /\ m_datas' \in [Fds -> Context \cup {NoCtx}]
                      /\ kernel' \in [Fds -> Descriptor]
    BY <1>2, <1>3 DEF TypeOK, HookTypeOK, Create
  <1>5. Del(fd) => m_datas' \in [Fds -> Context \cup {NoCtx}]
    BY DEF TypeOK, HookTypeOK, Del
  <1>6. Get(fd) \in Context \/ ~Get(fd).there
    BY RecordTypes DEF TypeOK, HookTypeOK, Get
  <1> QED  BY <1>2, <1>4, <1>5, <1>6

LEMMA KernelType ==
  ASSUME TypeOK, NEW fd \in Fds
  PROVE  /\ kernel[fd] \in Descriptor
         /\ \A s \in {"new", "connecting", "connected", "refused", "listening"} :
               /\ \A r \in SUBSET Events : Turns(fd, s, r) \in [Fds -> Descriptor]
               /\ [kernel EXCEPT ![fd].state = s] \in [Fds -> Descriptor]
         /\ \A r \in SUBSET Events : [kernel EXCEPT ![fd].ready = r] \in [Fds -> Descriptor]
         /\ \A b \in BOOLEAN : [kernel EXCEPT ![fd].nonblock = b] \in [Fds -> Descriptor]
         /\ [kernel EXCEPT ![fd] = Closed] \in [Fds -> Descriptor]
  <1>1. kernel[fd] \in Descriptor  BY DEF TypeOK, HookTypeOK
  <1>2. ASSUME NEW s \in {"new", "connecting", "connected", "refused", "listening"},
               NEW r \in SUBSET Events
        PROVE  Turns(fd, s, r) \in [Fds -> Descriptor]
    BY DEF Turns, TypeOK, HookTypeOK, Descriptor
  <1>3. ASSUME NEW s \in {"new", "connecting", "connected", "refused", "listening"}
        PROVE  [kernel EXCEPT ![fd].state = s] \in [Fds -> Descriptor]
    <2>1. [kernel[fd] EXCEPT !.state = s] \in Descriptor  BY <1>1 DEF Descriptor
    <2> QED  BY <2>1 DEF TypeOK, HookTypeOK
  <1>4. ASSUME NEW r \in SUBSET Events
        PROVE  [kernel EXCEPT ![fd].ready = r] \in [Fds -> Descriptor]
    <2>1. [kernel[fd] EXCEPT !.ready = r] \in Descriptor  BY <1>1 DEF Descriptor
    <2> QED  BY <2>1 DEF TypeOK, HookTypeOK
  <1>5. ASSUME NEW b \in BOOLEAN
        PROVE  [kernel EXCEPT ![fd].nonblock = b] \in [Fds -> Descriptor]
    <2>1. [kernel[fd] EXCEPT !.nonblock = b] \in Descriptor  BY <1>1 DEF Descriptor
    <2> QED  BY <2>1 DEF TypeOK, HookTypeOK
  <1>6. [kernel EXCEPT ![fd] = Closed] \in [Fds -> Descriptor]
    BY RecordTypes DEF TypeOK, HookTypeOK
  <1> QED  BY <1>1, <1>2, <1>3, <1>4, <1>5, <1>6

LEMMA DelType ==
  ASSUME TypeOK, NEW fd \in Numbers, Del(fd)
  PROVE  m_datas' \in [Fds -> Context \cup {NoCtx}]
  <1>1. CASE fd \in Fds  BY <1>1, CtxType
  <1>2. CASE fd = -1
    BY <1>2, RecordTypes DEF Del, TypeOK, HookTypeOK
  <1> QED  BY <1>1, <1>2 DEF Numbers

\* The steps inside a call keep the types.
LEMMA InsideType ==
  ASSUME TypeOK, CallInv, NEW f \in Fibers, Inside(f)
  PROVE  HookTypeOK'
  <1> USE DEF TypeOK, HookTypeOK, fibers, history
  <1>0. /\ call[f] \in Call /\ call[f].fd \in Numbers /\ call[f].e \in Events
        /\ call[f].fd \in Numbers \ Fds => call[f].fd = -1
    BY DEF Call, Numbers
  <1>1. CASE Blocks(f)  BY <1>1 DEF Blocks, Goto
  <1>2. CASE FunReturns(f)
    <2>1. call[f].fd \in Fds  BY <1>2 DEF FunReturns, CallInv, Legal
    <2>2. UNCHANGED kernel \/ kernel' = [kernel EXCEPT ![call[f].fd].ready = @ \ {call[f].e}]
      BY <1>2 DEF FunReturns, Served
    <2>3. kernel' \in [Fds -> Descriptor]
      <3>1. kernel[call[f].fd] \in Descriptor  BY <2>1
      <3>2. [kernel[call[f].fd] EXCEPT !.ready = @ \ {call[f].e}] \in Descriptor
        BY <3>1 DEF Descriptor
      <3> QED  BY <2>1, <2>2, <3>2
    <2>4. \E res \in Results : Return(f, res)  BY <1>2 DEF FunReturns, Results
    <2> QED  BY <1>2, <2>3, <2>4, ReturnType DEF FunReturns
  <1>3. CASE DirectAgain(f)
    <2>1. "EAGAIN" \in Results  BY DEF Results
    <2> QED  BY <1>3, <2>1, ReturnType DEF DirectAgain
  <1>4. CASE FunAgain(f)
    BY <1>4, AddTimerType DEF FunAgain, Goto
  <1>5. CASE AddEvent(f)
    <2>0. call[f].fd \in Fds  BY <1>0, <1>5 DEF AddEvent, CallInv, Legal, Call, CallOps
    <2>1. CASE Return(f, "EBADF")
      <3>1. "EBADF" \in Results  BY DEF Results
      <3>2. /\ timers' \subseteq timers \/ timers' \subseteq TimerCb
            /\ m_events' \in [Fds -> [Events -> Fibers \cup {NoFiber}]]
            /\ failed' \in {"none", "addEvent"} /\ cancelled' \in [Fibers -> BOOLEAN]
        BY <1>5, <2>0, <1>0 DEF AddEvent, Armed
      <3> QED  BY <1>5, <2>1, <3>1, <3>2, ReturnType DEF AddEvent
    <2>2. CASE ~Return(f, "EBADF")
      <3>1. /\ pc' = pc \/ \E l \in {"hold", "getsockopt"} : pc' = [pc EXCEPT ![f] = l]
            /\ timers' \subseteq timers /\ failed' \in {"none", "addEvent"}
            /\ UNCHANGED <<use, m_datas, kernel, call, cancelled, calls, expired, cause, last>>
        BY <1>5, <2>2 DEF AddEvent, Goto, Armed
      <3>2. m_events' \in [Fds -> [Events -> Fibers \cup {NoFiber}]]
        <4>1. m_events' = m_events \/ m_events' = [m_events EXCEPT ![call[f].fd][call[f].e] = f]
          BY <1>5 DEF AddEvent
        <4>2. [m_events[call[f].fd] EXCEPT ![call[f].e] = f] \in [Events -> Fibers \cup {NoFiber}]
          BY <2>0, <1>0
        <4> QED  BY <2>0, <4>1, <4>2
      <3> QED  BY <3>1, <3>2
    <2> QED  BY <2>1, <2>2
  <1>6. CASE Woken(f)
    <2>1. "ETIMEDOUT" \in Results  BY DEF Results
    <2>2. timers' \subseteq TimerCb  BY <1>6 DEF Woken
    <2>3. CASE Return(f, "ETIMEDOUT")
      BY <1>6, <2>1, <2>2, <2>3, ReturnType DEF Woken
    <2>4. CASE ~Return(f, "ETIMEDOUT")
      BY <1>6, <2>2, <2>4 DEF Woken, Goto
    <2> QED  BY <2>3, <2>4
  <1>7. CASE AcceptReturns(f)
    <2>1. "-1" \in Results  BY DEF Results
    <2>2. CASE Return(f, "-1") /\ UNCHANGED kernel
      BY <1>7, <2>1, <2>2, ReturnType DEF AcceptReturns
    <2>3. CASE ~(Return(f, "-1") /\ UNCHANGED kernel)
      <3>1. PICK n \in Fds :
              /\ call[f].fd \in Fds /\ kernel[call[f].fd].open
              /\ Lowest(n)
              /\ kernel' = [kernel EXCEPT ![call[f].fd].ready = {}, ![n] = Opened("connected")]
              /\ call' = [call EXCEPT ![f].fd = n]
              /\ Goto(f, IF Get(n).there THEN "created" ELSE "create")
              /\ UNCHANGED last
        BY <1>7, <2>3 DEF AcceptReturns
      <3>2. kernel' \in [Fds -> Descriptor]
        <4>1. [kernel[call[f].fd] EXCEPT !.ready = {}] \in Descriptor
          <5>1. kernel[call[f].fd] \in Descriptor  BY <3>1
          <5> QED  BY <5>1 DEF Descriptor
        <4> QED  BY <3>1, <4>1, RecordTypes
      <3>3. call' \in [Fibers -> Call]
        <4>1. [call[f] EXCEPT !.fd = n] \in Call  BY <1>0 DEF Call, Numbers
        <4> QED  BY <3>1, <4>1
      <3>4. pc' = [pc EXCEPT ![f] = "created"] \/ pc' = [pc EXCEPT ![f] = "create"]
        BY <3>1 DEF Goto
      <3> QED  BY <1>7, <3>1, <3>2, <3>3, <3>4 DEF AcceptReturns
    <2> QED  BY <2>2, <2>3
  <1>8. CASE CreateCtx(f)
    <2>1. call[f].fd \in Fds  BY <1>0, <1>8 DEF CreateCtx, CallInv, Legal, Call, CallOps
    <2> QED  BY <1>8, <2>1, CtxType DEF CreateCtx, Goto
  <1>9. CASE SocketReturns(f)
    <2>1. "n" \in Results  BY DEF Results
    <2> QED  BY <1>9, <2>1, ReturnType DEF SocketReturns
  <1>10. CASE Getsockopt(f)
    <2>1. call[f].fd \in Fds  BY <1>0, <1>10 DEF Getsockopt, CallInv, Legal, Call, CallOps
    <2>2. kernel' \in [Fds -> Descriptor]
      <3>1. UNCHANGED kernel \/ kernel' = Turns(call[f].fd, "new", {})
        BY <1>10 DEF Getsockopt
      <3>2. Turns(call[f].fd, "new", {}) \in [Fds -> Descriptor]  BY <2>1, KernelType
      <3> QED  BY <3>1, <3>2
    <2>3. \E res \in Results : Return(f, res)  BY <1>10 DEF Getsockopt, Results
    <2> QED  BY <1>10, <2>2, <2>3, ReturnType DEF Getsockopt
  <1>11. CASE SleepReturns(f)
    <2>1. "0" \in Results  BY DEF Results
    <2> QED  BY <1>11, <2>1, ReturnType DEF SleepReturns
  <1>12. CASE CloseEnds(f)
    <2>1. last[f].fd \in Numbers  BY DEF Outcome
    <2>2. m_datas' \in [Fds -> Context \cup {NoCtx}]  BY <1>12, <2>1, DelType DEF CloseEnds
    <2>3. last' \in [Fibers -> Outcome]  BY <1>12, RecordTypes DEF CloseEnds
    <2> QED  BY <1>12, <2>2, <2>3 DEF CloseEnds
  <1> QED
    BY <1>1, <1>2, <1>3, <1>4, <1>5, <1>6, <1>7, <1>8, <1>9, <1>10, <1>11, <1>12 DEF Inside

\* So do the calls a program begins ...
LEMMA ClientType ==
  ASSUME TypeOK, NEW f \in Fibers, Client(f)
  PROVE  HookTypeOK'
  <1> USE DEF TypeOK, HookTypeOK, fibers, history
  <1>0. /\ "io" \in CallOps /\ "connect" \in CallOps /\ "socket" \in CallOps /\ "sleep" \in CallOps
        /\ "forever" \in Timeouts /\ "some" \in Timeouts
        /\ "READ" \in Events /\ "WRITE" \in Events /\ use.events \subseteq Events
        /\ \A fd \in Fds : fd \in Numbers /\ Get(fd) = m_datas[fd]
        /\ \A fd \in Fds, e \in Events : Get(fd).there => Get(fd).m_timeout[e] \in Timeouts
    <2>1. use.events \subseteq Events  BY UseTypes
    <2>2. ASSUME NEW fd \in Fds, NEW e \in Events, Get(fd).there
          PROVE  Get(fd).m_timeout[e] \in Timeouts
      <3>1. Get(fd) \in Context  BY <2>2, CtxType
      <3> QED  BY <3>1 DEF Context
    <2> QED  BY <2>1, <2>2, RecordTypes DEF CallOps, Timeouts, Events, Get
  <1>1. CASE do_io(f)
    <2>1. PICK fd \in Fds, e \in use.events :
            /\ Begin(f, "io", fd, e, IF Direct(fd) THEN "forever" ELSE Get(fd).m_timeout[e])
            /\ Goto(f, IF Direct(fd) THEN "direct" ELSE "fun")
      BY <1>1 DEF do_io
    <2>2. (IF Direct(fd) THEN "forever" ELSE Get(fd).m_timeout[e]) \in Timeouts
      BY <1>0 DEF Direct
    <2>3. call' \in [Fibers -> Call] /\ cancelled' \in [Fibers -> BOOLEAN] /\ calls' \in Nat
      BY <1>0, <2>1, <2>2, BeginType
    <2> QED  BY <1>1, <2>1, <2>3 DEF do_io, Goto
  <1>2. CASE socket(f)
    <2>1. PICK n \in Fds : /\ Begin(f, "socket", n, "READ", "forever")
                           /\ kernel' = [kernel EXCEPT ![n] = Opened("new")]
                           /\ Goto(f, IF Get(n).there THEN "created" ELSE "create")
      BY <1>2 DEF socket
    <2>2. call' \in [Fibers -> Call] /\ cancelled' \in [Fibers -> BOOLEAN] /\ calls' \in Nat
      BY <1>0, <2>1, BeginType
    <2>3. kernel' \in [Fds -> Descriptor]  BY <2>1, RecordTypes
    <2> QED  BY <1>2, <2>1, <2>2, <2>3 DEF socket, Goto
  <1>3. CASE connect(f)
    <2>1. PICK fd \in Fds, to \in Timeouts, res \in {"0", "error", "EINPROGRESS"} :
            IF ~Get(fd).there THEN Quick(f, "connect", fd, "EBADF") /\ UNCHANGED kernel
            ELSE /\ ConnectF(fd, res)
                 /\ IF Get(fd).m_userNonblock \/ res # "EINPROGRESS"
                    THEN Quick(f, "connect", fd, res)
                    ELSE /\ Begin(f, "connect", fd, "WRITE", to)
                         /\ IF to = "forever" THEN UNCHANGED timers ELSE AddTimer(f)
                         /\ Goto(f, "add")
                         /\ UNCHANGED <<use, m_events, expired, cause, last, failed>>
      BY <1>3 DEF connect
    <2>2. kernel' \in [Fds -> Descriptor]
      <3>1. \/ UNCHANGED kernel
            \/ \E s \in {"connected", "connecting"} : kernel' = [kernel EXCEPT ![fd].state = s]
            \/ kernel' = Turns(fd, "new", {})
        BY <2>1 DEF ConnectF
      <3>2. Turns(fd, "new", {}) \in [Fds -> Descriptor]  BY KernelType
      <3>3. \A s \in {"connected", "connecting"} : [kernel EXCEPT ![fd].state = s] \in [Fds -> Descriptor]
        BY KernelType
      <3> QED  BY <3>1, <3>2, <3>3
    <2>3. CASE Begin(f, "connect", fd, "WRITE", to) /\ UNCHANGED <<use, m_events, expired, cause, last, failed>>
                 /\ (UNCHANGED timers \/ AddTimer(f)) /\ Goto(f, "add")
      <3>1. call' \in [Fibers -> Call] /\ cancelled' \in [Fibers -> BOOLEAN] /\ calls' \in Nat
        BY <1>0, <2>3, BeginType
      <3>2. timers' \subseteq TimerCb  BY <2>3, <3>1, AddTimerType
      <3> QED  BY <1>3, <2>2, <2>3, <3>1, <3>2 DEF connect, Goto
    <2>4. CASE \E r \in Results : Quick(f, "connect", fd, r)
      <3>1. "connect" \in Ops  BY DEF Ops
      <3>2. calls' \in Nat /\ last' \in [Fibers -> Outcome]  BY <2>4, <3>1, QuickType
      <3> QED  BY <1>3, <2>2, <2>4, <3>2 DEF connect, Quick
    <2> QED  BY <2>1, <2>3, <2>4 DEF Results
  <1>4. CASE close(f)
    <2>1. PICK fd \in Fds : /\ calls' = calls + 1
                            /\ \/ CancelAll(fd) /\ last' = [last EXCEPT ![f] =
                                     [NoneYet EXCEPT !.op = "close", !.fd = fd]]
                               \/ UNCHANGED <<pc, cause, m_events, last>>
      BY <1>4 DEF close
    <2>2. [NoneYet EXCEPT !.op = "close", !.fd = fd] \in Outcome
      BY <1>0, RecordTypes DEF NoneYet, Outcome, Ops
    <2> QED  BY <1>4, <2>1, <2>2, CancelAllType DEF close
  <1>5. CASE close_f(f) \/ setsockopt(f) \/ fcntl(f) \/ ioctl(f)
    <2>1. \E op \in Ops, fd \in Fds : Quick(f, op, fd, "0")
      BY <1>5 DEF close_f, setsockopt, fcntl, ioctl, Ops
    <2>2. calls' \in Nat /\ last' \in [Fibers -> Outcome]  BY <2>1, QuickType DEF Results
    <2>3. kernel' \in [Fds -> Descriptor]
      <3>1. \A fd \in Fds : /\ [kernel EXCEPT ![fd] = Closed] \in [Fds -> Descriptor]
                            /\ \A b \in BOOLEAN : [kernel EXCEPT ![fd].nonblock = b] \in [Fds -> Descriptor]
        BY KernelType
      <3>2. \/ UNCHANGED kernel
            \/ \E fd \in Fds : kernel' = [kernel EXCEPT ![fd] = Closed]
            \/ \E fd \in Fds, b \in BOOLEAN : kernel' = [kernel EXCEPT ![fd].nonblock = b]
        BY <1>5 DEF close_f, setsockopt, fcntl, ioctl
      <3> QED  BY <3>1, <3>2
    <2>4. m_datas' \in [Fds -> Context \cup {NoCtx}]
      <3>1. ASSUME NEW fd \in Fds, Get(fd).there, NEW b \in BOOLEAN, NEW e \in Events, NEW to \in Timeouts
            PROVE  /\ [m_datas[fd] EXCEPT !.m_sysNonblock = b] \in Context
                   /\ [m_datas[fd] EXCEPT !.m_userNonblock = b] \in Context
                   /\ [m_datas[fd] EXCEPT !.m_timeout[e] = to] \in Context
        <4>1. m_datas[fd] \in Context  BY <3>1, <1>0, CtxType
        <4>2. [m_datas[fd] EXCEPT !.m_sysNonblock = b] \in Context  BY <4>1 DEF Context
        <4>3. [m_datas[fd] EXCEPT !.m_userNonblock = b] \in Context  BY <4>1 DEF Context
        <4>4. [m_datas[fd] EXCEPT !.m_timeout[e] = to] \in Context
          <5>1. [m_datas[fd].m_timeout EXCEPT ![e] = to] \in [Events -> Timeouts]
            BY <4>1 DEF Context
          <5> QED  BY <4>1, <5>1 DEF Context
        <4> QED  BY <4>2, <4>3, <4>4
      <3>2. CASE close_f(f)  BY <3>2 DEF close_f
      <3>3. CASE setsockopt(f)
        <4>1. PICK fd \in Fds, e \in use.events, to \in Timeouts :
                m_datas' = IF Get(fd).there THEN [m_datas EXCEPT ![fd].m_timeout[e] = to] ELSE m_datas
          BY <3>3 DEF setsockopt
        <4>2. Get(fd).there => [m_datas[fd] EXCEPT !.m_timeout[e] = to] \in Context
          BY <1>0, <3>1
        <4> QED  BY <4>1, <4>2
      <3>4. CASE fcntl(f)
        <4>1. PICK fd \in Fds, nb \in BOOLEAN :
                m_datas' = IF Get(fd).there /\ Get(fd).m_isSocket
                           THEN [m_datas EXCEPT ![fd].m_sysNonblock = nb] ELSE m_datas
          BY <3>4 DEF fcntl
        <4>2. Get(fd).there => [m_datas[fd] EXCEPT !.m_sysNonblock = nb] \in Context
          BY <1>0, <3>1
        <4> QED  BY <4>1, <4>2
      <3>5. CASE ioctl(f)
        <4>1. PICK fd \in Fds, nb \in BOOLEAN :
                m_datas' = IF Get(fd).there /\ Get(fd).m_isSocket
                           THEN [m_datas EXCEPT ![fd].m_userNonblock = nb] ELSE m_datas
          BY <3>5 DEF ioctl
        <4>2. Get(fd).there => [m_datas[fd] EXCEPT !.m_userNonblock = nb] \in Context
          BY <1>0, <3>1
        <4> QED  BY <4>1, <4>2
      <3> QED  BY <1>5, <3>2, <3>3, <3>4, <3>5
    <2> QED  BY <2>1, <2>2, <2>3, <2>4 DEF Quick
  <1>6. CASE sleep(f)
    <2>1. call' \in [Fibers -> Call] /\ cancelled' \in [Fibers -> BOOLEAN] /\ calls' \in Nat
      BY <1>0, <1>6, BeginType, RecordTypes DEF sleep
    <2>2. timers' \subseteq TimerCb  BY <1>6, <2>1, AddTimerType DEF sleep
    <2> QED  BY <1>6, <2>1, <2>2 DEF sleep, Goto
  <1> QED  BY <1>1, <1>2, <1>3, <1>4, <1>5, <1>6 DEF Client

\* ... and what the kernel, the timers and epoll do.
LEMMA OutsideType ==
  ASSUME TypeOK, CallInv, EventInv, TimerInv,
         Kernel \/ Epoll \/ \E f \in Fibers : Timer(f) \/ Callbacks(f)
  PROVE  HookTypeOK'
  <1> USE DEF TypeOK, HookTypeOK, fibers, history
  <1>0. {"event", "timeout", "stale_timeout"} \subseteq Causes  BY DEF Causes
  <1>1. CASE Kernel
    <2>1. PICK fd \in Fds : ConnectEnds(fd) \/ \E e \in use.events : Arrive(fd, e)
      BY <1>1 DEF Kernel
    <2>2. /\ \A s \in {"connected", "refused"} : Turns(fd, s, {"WRITE"}) \in [Fds -> Descriptor]
          /\ \A r \in SUBSET Events : [kernel EXCEPT ![fd].ready = r] \in [Fds -> Descriptor]
      BY KernelType DEF Events
    <2>3. CASE ConnectEnds(fd)  BY <2>2, <2>3 DEF ConnectEnds
    <2>4. ASSUME NEW e \in use.events, Arrive(fd, e)  PROVE HookTypeOK'
      <3>1. kernel[fd] \in Descriptor /\ e \in Events  BY UseTypes
      <3>2. [kernel[fd] EXCEPT !.ready = @ \cup {e}] \in Descriptor  BY <3>1 DEF Descriptor
      <3> QED  BY <2>4, <3>2 DEF Arrive
    <2> QED  BY <2>1, <2>3, <2>4
  <1>2. CASE Epoll
    <2>1. PICK fd \in Fds, e \in Events : TriggerEvent(fd, e)  BY <1>2 DEF Epoll
    <2>2. [m_events[fd] EXCEPT ![e] = NoFiber] \in [Events -> Fibers \cup {NoFiber}]  OBVIOUS
    <2> QED  BY <1>0, <2>1, <2>2, WakeType DEF TriggerEvent
  <1>3. ASSUME NEW t \in timers, Expire(t) \/ OnTimer(t) \/ CancelEvent(t) \/ SleepOver(t)
        PROVE  HookTypeOK'
    <2>0. t \in TimerCb  OBVIOUS
    <2>1. \A st \in {"queued", "fired"} : [t EXCEPT !.st = st] \in TimerCb
      BY <2>0 DEF TimerCb
    <2>2. t.f \in Fibers /\ t.id \in Nat /\ t.e \in Events  BY <2>0 DEF TimerCb
    <2>3. CASE Expire(t)  BY <2>1, <2>2, <2>3 DEF Expire, Timed
    <2>4. CASE OnTimer(t)  BY <2>1, <2>2, <2>4 DEF OnTimer, Timed
    <2>5. CASE CancelEvent(t)
      <3>1. t.fd \in Fds  BY <2>5 DEF CancelEvent, TimerInv
      <3>2. m_events' = m_events \/ m_events' = [m_events EXCEPT ![t.fd][t.e] = NoFiber]
        BY <2>5 DEF CancelEvent
      <3>3. [m_events[t.fd] EXCEPT ![t.e] = NoFiber] \in [Events -> Fibers \cup {NoFiber}]
        BY <2>2, <3>1
      <3>4. m_events' \in [Fds -> [Events -> Fibers \cup {NoFiber}]]  BY <3>1, <3>2, <3>3
      <3>5. \/ UNCHANGED <<pc, cause>>
            \/ \E F, why : why \in Causes /\ Wake(F, why)
        <4>1. \/ UNCHANGED <<pc, cause>>
              \/ Wake({m_events[t.fd][t.e]}, "timeout")
              \/ Wake({m_events[t.fd][t.e]}, "stale_timeout")
          BY <2>5 DEF CancelEvent
        <4> QED  BY <1>0, <4>1
      <3> QED  BY <2>5, <3>4, <3>5, WakeType DEF CancelEvent
    <2>6. CASE SleepOver(t)
      <3>1. Wake({t.f}, "timeout")  BY <2>6 DEF SleepOver
      <3> QED  BY <1>0, <2>6, <3>1, WakeType DEF SleepOver, Timed
    <2> QED  BY <1>3, <2>3, <2>4, <2>5, <2>6
  <1> QED  BY <1>1, <1>2, <1>3 DEF Timer, Callbacks

\* What is left of the tasks when a fiber has taken one.
LEMMA TakenType ==
  ASSUME TypeOK
  PROVE  /\ task.accept > 0 =>
               [task EXCEPT !.accept = @ - 1] \in [accept : Nat, stop : Nat, clients : SUBSET Fds]
         /\ task.stop > 0 =>
               [task EXCEPT !.stop = @ - 1] \in [accept : Nat, stop : Nat, clients : SUBSET Fds]
         /\ \A fd \in task.clients :
               [task EXCEPT !.clients = @ \ {fd}] \in [accept : Nat, stop : Nat, clients : SUBSET Fds]
  <1>1. task \in [accept : Nat, stop : Nat, clients : SUBSET Fds]
    BY DEF TypeOK, ServerTypeOK
  <1> QED  BY <1>1

\* The server's own steps.
LEMMA ServerType ==
  ASSUME TypeOK, CallInv, NEW f \in Fibers,
         \/ TakeTask(f) \/ startAccept(f) \/ Accepted(f) \/ StopTask(f) \/ StopCloses(f)
         \/ StopClosed(f) \/ ClientCloses(f) \/ ClientOver(f) \/ ClientReads(f)
  PROVE  TypeOK'
  <1>R. {"none", "startAccept", "handleClient", "over", "stop", "close", "closed"} \subseteq Roles
    BY DEF Roles
  <1> USE ServerAssumption DEF TypeOK, HookTypeOK, ServerTypeOK, fibers, history
  <1>0. -1 \in Numbers /\ Fds \subseteq Numbers  BY RecordTypes
  <1>A. Done(f) => /\ role' \in [Fibers -> Roles]
                   /\ client' \in [Fibers -> Numbers]
    BY <1>0, <1>R DEF Done
  <1>1. CASE TakeTask(f)
    <2>1. UNCHANGED hookVars /\ UNCHANGED <<m_isStop, m_sock, m_socks, starts, late>>
      BY <1>1 DEF TakeTask
    <2>2. HookTypeOK'  BY <2>1 DEF hookVars
    <2>3. /\ role' \in [Fibers -> Roles]
          /\ client' \in [Fibers -> Numbers]
      <3>1. /\ \E r \in {"startAccept", "stop", "handleClient"} : role' = [role EXCEPT ![f] = r]
            /\ UNCHANGED client \/ \E fd \in task.clients : client' = [client EXCEPT ![f] = fd]
        BY <1>1 DEF TakeTask
      <3>2. task.clients \subseteq Numbers  BY <1>0
      <3> QED  BY <1>R, <3>1, <3>2
    <2>4. task' \in [accept : Nat, stop : Nat, clients : SUBSET Fds]
      <3>1. \/ task.accept > 0 /\ task' = [task EXCEPT !.accept = @ - 1]
            \/ task.stop > 0 /\ task' = [task EXCEPT !.stop = @ - 1]
            \/ \E fd \in task.clients : task' = [task EXCEPT !.clients = @ \ {fd}]
        BY <1>1 DEF TakeTask
      <3> QED  BY <3>1, TakenType
    <2> QED  BY <2>1, <2>2, <2>3, <2>4
  <1>2. CASE startAccept(f)
    <2>1. CASE m_isStop
      <3>1. UNCHANGED hookVars /\ UNCHANGED <<m_isStop, m_sock, m_socks, task, starts, late>> /\ Done(f)
        BY <1>2, <2>1 DEF startAccept
      <3>2. HookTypeOK'  BY <3>1 DEF hookVars
      <3> QED  BY <1>A, <3>1, <3>2
    <2>2. CASE ~m_isStop
      <3>1. AcceptCall \in Call
        BY <1>0 DEF AcceptCall, Call, CallOps, Events, Timeouts
      <3>2. /\ call' = [call EXCEPT ![f] = AcceptCall]
            /\ cancelled' = [cancelled EXCEPT ![f] = FALSE]
            /\ pc' = [pc EXCEPT ![f] = "direct"] \/ pc' = [pc EXCEPT ![f] = "fun"]
            /\ UNCHANGED <<use, m_datas, kernel, m_events, timers, history, failed, role, client>>
            /\ UNCHANGED <<m_isStop, m_sock, m_socks, task, starts, late>>
        BY <1>2, <2>2 DEF startAccept, Goto
      <3> QED  BY <3>1, <3>2
    <2> QED  BY <2>1, <2>2
  <1>3. CASE Accepted(f)
    <2>0. call[f].fd \in Fds  BY <1>3 DEF Accepted, CallInv, Legal
    <2>1. "n" \in Results /\ Return(f, "n")  BY <1>3 DEF Accepted, Results
    <2>2. m_datas' \in [Fds -> Context \cup {NoCtx}]
      <3>1. CASE Get(call[f].fd).there
        <4>1. m_datas[call[f].fd] \in Context  BY <2>0, <3>1, CtxType DEF Get
        <4>2. [m_datas[call[f].fd].m_timeout EXCEPT !["READ"] = "some"] \in [Events -> Timeouts]
          BY <4>1 DEF Context, Timeouts
        <4>3. [m_datas[call[f].fd] EXCEPT !.m_timeout["READ"] = "some"] \in Context
          BY <4>1, <4>2 DEF Context
        <4> QED  BY <1>3, <2>0, <4>3 DEF Accepted
      <3> QED  BY <1>3, <3>1 DEF Accepted
    <2>3. task' \in [accept : Nat, stop : Nat, clients : SUBSET Fds] /\ late' \in Nat
      BY <1>3, <2>0 DEF Accepted
    <2> QED  BY <1>3, <2>1, <2>2, <2>3, ReturnType DEF Accepted
  <1>4. CASE StopTask(f)
    BY <1>4, <1>R, CancelAllType DEF StopTask
  <1>5. CASE StopCloses(f)
    BY <1>5, <1>R, CancelAllType DEF StopCloses
  <1>6. CASE StopClosed(f)
    <2>1. m_datas' \in [Fds -> Context \cup {NoCtx}]  BY <1>6, CtxType DEF StopClosed
    <2> QED  BY <1>A, <1>6, <2>1 DEF StopClosed
  <1>8. CASE ClientCloses(f)
    <2>1. client[f] \in Fds  BY <1>8 DEF ClientCloses, CallInv
    <2> QED  BY <1>8, <1>R, <2>1, CancelAllType DEF ClientCloses
  <1>9. CASE ClientOver(f)
    <2>1. client[f] \in Fds  BY <1>9 DEF ClientOver, CallInv
    <2>2. m_datas' \in [Fds -> Context \cup {NoCtx}]  BY <1>9, <2>1, CtxType DEF ClientOver
    <2>3. last' \in [Fibers -> Outcome]  BY <1>9, RecordTypes DEF ClientOver
    <2> QED  BY <1>A, <1>9, <2>2, <2>3 DEF ClientOver
  <1>7. CASE ClientReads(f)
    <2>0. client[f] \in Fds  BY <1>7 DEF ClientReads, CallInv, Legal
    <2>1. (IF Direct(client[f]) THEN "forever" ELSE Get(client[f]).m_timeout["READ"]) \in Timeouts
      <3>1. CASE Get(client[f]).there
        <4>1. Get(client[f]) \in Context  BY <2>0, <3>1, CtxType
        <4> QED  BY <4>1 DEF Context, Timeouts, Events
      <3> QED  BY <3>1 DEF Direct, Timeouts
    <2>2. "io" \in CallOps /\ "READ" \in Events /\ client[f] \in Numbers
      BY <1>0, <2>0 DEF CallOps, Events
    <2>3. call' \in [Fibers -> Call] /\ cancelled' \in [Fibers -> BOOLEAN] /\ calls' \in Nat
      BY <1>7, <2>1, <2>2, BeginType DEF ClientReads
    <2> QED  BY <1>7, <2>3 DEF ClientReads, Goto, server
  <1> QED  BY <1>1, <1>2, <1>3, <1>4, <1>5, <1>6, <1>7, <1>8, <1>9

LEMMA TypeStep ==
  ASSUME TypeOK, HookInv, [Next]_vars
  PROVE  TypeOK'
  <1>0. CallInv /\ EventInv /\ TimerInv  BY DEF HookInv
  <1>A. UNCHANGED server => ServerTypeOK'  BY DEF TypeOK, ServerTypeOK, server
  <1>B. UNCHANGED hookVars => HookTypeOK'
    BY DEF TypeOK, HookTypeOK, hookVars, fibers, history
  <1>1. CASE UNCHANGED vars  BY <1>1, <1>A, <1>B DEF vars, TypeOK
  <1>2. CASE start \/ stop
    <2>1. UNCHANGED hookVars  BY <1>2 DEF start, stop
    <2>2. task' \in [accept : Nat, stop : Nat, clients : SUBSET Fds]
      <3>1. task \in [accept : Nat, stop : Nat, clients : SUBSET Fds]  BY DEF TypeOK, ServerTypeOK
      <3>2. \A n \in {0, 1} :
              [task EXCEPT !.accept = @ + n] \in [accept : Nat, stop : Nat, clients : SUBSET Fds]
        BY <3>1
      <3>3. [task EXCEPT !.stop = @ + 1] \in [accept : Nat, stop : Nat, clients : SUBSET Fds]
        BY <3>1
      <3>4. \/ task' = task \/ task' = [task EXCEPT !.stop = @ + 1]
            \/ \E n \in {0, 1} : task' = [task EXCEPT !.accept = @ + n]
        BY <1>2 DEF start, stop
      <3> QED  BY <3>1, <3>2, <3>3, <3>4
    <2>3. /\ m_isStop' = m_isStop \/ m_isStop' \in BOOLEAN
          /\ UNCHANGED <<m_sock, m_socks, role, client>>
          /\ starts' = starts \/ starts' = starts + 1
          /\ late' = late \/ late' = 0
      BY <1>2 DEF start, stop
    <2>4. ServerTypeOK'  BY <2>2, <2>3 DEF TypeOK, ServerTypeOK
    <2> QED  BY <1>B, <2>1, <2>4 DEF TypeOK
  <1>3. CASE (Kernel \/ Epoll \/ \E f \in Fibers : Timer(f) \/ Callbacks(f)) /\ UNCHANGED server
    BY <1>0, <1>A, <1>3, OutsideType DEF TypeOK
  <1>4. ASSUME NEW f \in Fibers, Fiber(f) \/ ClientReads(f) \/ (Client(f) /\ UNCHANGED server)
        PROVE  TypeOK'
    <2>1. CASE Inside(f) /\ UNCHANGED server  BY <1>0, <1>A, <2>1, InsideType DEF TypeOK
    <2>2. CASE Client(f) /\ UNCHANGED server  BY <1>0, <1>A, <2>2, ClientType DEF TypeOK
    <2> QED  BY <1>0, <1>4, <2>1, <2>2, ServerType DEF Fiber
  <1> QED  BY <1>1, <1>2, <1>3, <1>4 DEF Next

-----------------------------------------------------------------------------
(* Calls, events, timers and connection attempts.                          *)

\* A step leaves the connection attempts of the fibers G alone, or ends one.
Attempts(G) ==
    \A g \in G : call[g].op = "connect" =>
        LET k == kernel[call[g].fd]  l == kernel'[call[g].fd]
        IN  l.open /\ (l.state = k.state \/ l.state \in {"connected", "refused"})

\* A step adds a timer for the call c of the fiber f, which is at l by then.
NewTimer(f, c, l) ==
    \A t \in timers' \ timers :
        /\ t.f = f /\ t.id = c.id /\ t.op = c.op /\ t.fd = c.fd /\ t.st = "armed"
        /\ c.id # 0 /\ (c.op = "sleep" => l = "hold")
        /\ \A u \in timers' \ timers : u = t

\* A fiber goes on in its call, begins one or ends one.
LEMMA HookFiber ==
  ASSUME TypeOK, TypeOK', HookInv, NEW f \in Fibers, NEW l, NEW c, NEW x,
         pc' = [pc EXCEPT ![f] = l], call' = [call EXCEPT ![f] = c],
         cancelled' = [cancelled EXCEPT ![f] = x],
         UNCHANGED <<use, role, client, expired, cause>>,
         Legal(c, l, role[f]), calls' >= calls, c.id <= calls',
         c.id \in {0, call[f].id} \/ c.id > calls, c.id = call[f].id /\ c.id # 0 /\ cancelled[f] => x,
         x /\ c.op # "none" => c.id \in expired,
         pc[f] # "hold", role[f] \in Closers => l = "run",
         \/ UNCHANGED m_events
         \/ /\ m_events' = [m_events EXCEPT ![c.fd][c.e] = f] /\ l = "hold"
            /\ c.fd \in Fds /\ c.op \in {"io", "accept", "connect"},
         timers' \subseteq timers \/ NewTimer(f, c, l),
         KernelInv', Attempts(Fibers \ {f}),
         c.op = "connect" => Attempt(f)',
         c.op = "connect" => \A g \in Fibers \ {f} : call[g].op = "connect" => call[g].fd # c.fd,
         TimeoutHonest', ConnectHonest'
  PROVE  HookInv'
  <1> USE DEF TypeOK, HookTypeOK
  <1>N. NewTimer(f, c, l)  BY DEF NewTimer
  <1>0. /\ \A g \in Fibers : call[g] \in Call /\ call[g].id \in Nat /\ call'[g].id \in Nat
        /\ c \in Call /\ c.id \in Nat /\ calls \in Nat /\ calls' \in Nat
        /\ \A t \in timers : t.f \in Fibers /\ t.id \in Nat
        /\ \A t \in timers' : t.f \in Fibers /\ t.id \in Nat
    BY DEF Call, TimerCb
  <1>1. CallInv'
    BY <1>0 DEF HookInv, CallInv
  <1>2. EventInv'
    <2> SUFFICES ASSUME NEW fd \in Fds, NEW e \in Events, m_events'[fd][e] # NoFiber
                 PROVE  /\ pc'[m_events'[fd][e]] = "hold" /\ call'[m_events'[fd][e]].fd = fd
                        /\ call'[m_events'[fd][e]].e = e
                        /\ call'[m_events'[fd][e]].op \in {"io", "accept", "connect"}
      BY DEF EventInv
    <2>1. CASE m_events'[fd][e] = m_events[fd][e]
      <3>1. m_events[fd][e] \in Fibers \ {f}  BY <2>1 DEF HookInv, EventInv
      <3> QED  BY <2>1, <3>1 DEF HookInv, EventInv
    <2>2. CASE m_events'[fd][e] # m_events[fd][e]
      <3>1. c.e \in Events  BY <1>0 DEF Call
      <3>2. fd = c.fd /\ e = c.e /\ m_events'[fd][e] = f  BY <2>2, <3>1
      <3> QED  BY <2>2, <3>2
    <2> QED  BY <2>1, <2>2
  <1>3. TimerInv'
    <2>1. ASSUME NEW t \in timers'
          PROVE  /\ t.id \in 1..calls'
                 /\ t.st # "armed" => t.id \in expired
                 /\ t.op # "sleep" => t.fd \in Fds
                 /\ t.op = "sleep" => /\ t.st # "fired" /\ call'[t.f].id = t.id
                                      /\ call'[t.f].op = "sleep" /\ pc'[t.f] = "hold"
                 /\ \A g \in Fibers : call'[g].id = t.id =>
                       g = t.f /\ (t.st = "fired" => cancelled'[g])
      <3>1. CASE t \in timers
        <4>1. t.op = "sleep" => t.f # f  BY <3>1 DEF HookInv, TimerInv
        <4> QED  BY <1>0, <3>1, <4>1 DEF HookInv, TimerInv
      <3>2. CASE t \notin timers
        <4>1. c.fd \in Fds \/ c.op = "sleep"
          BY <1>0, <1>N, <3>2 DEF NewTimer, Legal, Call, CallOps
        <4>2. \A g \in Fibers \ {f} : call[g].id # c.id
          BY <1>0, <1>N, <3>2 DEF NewTimer, HookInv, CallInv
        <4> QED  BY <1>0, <1>N, <3>2, <4>1, <4>2 DEF NewTimer
      <3> QED  BY <3>1, <3>2
    <2>2. ASSUME NEW t \in timers', NEW u \in timers', t.op = "sleep", u.op = "sleep", t.f = u.f
          PROVE  t = u
      <3>1. \A v \in timers : v.op = "sleep" => v.f # f  BY DEF HookInv, TimerInv
      <3> QED  BY <1>N, <2>2, <3>1 DEF NewTimer, HookInv, TimerInv
    <2> QED  BY <2>1, <2>2 DEF TimerInv
  <1>4. CancelledInv'  BY DEF HookInv, CancelledInv
  <1>5. ConnectInv'
    <2>1. ASSUME NEW g \in Fibers \ {f}, call[g].op = "connect"  PROVE Attempt(g)'
      <3>1. Attempt(g) /\ call'[g] = call[g] /\ pc'[g] = pc[g] /\ cancelled'[g] = cancelled[g]
        BY <2>1 DEF HookInv, ConnectInv
      <3>2. kernel'[call[g].fd].open /\ \/ kernel'[call[g].fd].state = kernel[call[g].fd].state
                                        \/ kernel'[call[g].fd].state \in {"connected", "refused"}
        BY <2>1 DEF Attempts
      <3>3. \A h \in Fibers \ {g} : call'[h].op = "connect" => call'[h].fd # call[g].fd
        BY <2>1, <3>1 DEF Attempt
      <3> QED  BY <3>1, <3>2, <3>3 DEF Attempt
    <2> QED  BY <2>1 DEF ConnectInv
  <1> QED  BY <1>1, <1>2, <1>3, <1>4, <1>5 DEF HookInv

\* A step that wakes the waiters F, or nobody, and may give tasks to fibers.
LEMMA HookWake ==
  ASSUME TypeOK, TypeOK', HookInv, NEW F \in SUBSET Fibers, NEW why,
         \A g \in Fibers : pc'[g] = (IF g \in F THEN "woken" ELSE pc[g]),
         \A g \in Fibers : cause'[g] = (IF g \in F THEN why ELSE cause[g]),
         \A g \in F : \E fd \in Fds, e \in Events : m_events[fd][e] = g,
         \A fd \in Fds, e \in Events : \/ m_events'[fd][e] = NoFiber
                                       \/ /\ m_events'[fd][e] = m_events[fd][e]
                                          /\ m_events[fd][e] \notin F,
         why # "nothing",
         why = "event" => \A g \in F : call[g].op = "connect" =>
                              kernel'[call[g].fd].state # "connecting",
         why = "timeout" => \A g \in F : cancelled[g],
         UNCHANGED <<use, call, cancelled, expired>>, calls' >= calls,
         timers' \subseteq timers, KernelInv', Attempts(Fibers),
         \A g \in Fibers : \/ role'[g] = role[g] /\ client'[g] = client[g]
                           \/ /\ pc[g] = "run" /\ (role'[g] # "none" => use.ops[g] = {})
                              /\ role'[g] \in {"handleClient", "over"} => client'[g] \in Fds,
         TimeoutHonest', ConnectHonest'
  PROVE  HookInv'
  <1> USE DEF TypeOK, HookTypeOK
  <1>0. /\ \A g \in Fibers : call[g] \in Call /\ call[g].id \in Nat /\ call[g].op \in CallOps
        /\ calls \in Nat /\ calls' \in Nat
        /\ \A t \in timers : t.f \in Fibers /\ t.id \in Nat
    BY DEF Call, TimerCb
  <1>F. \A g \in F : pc[g] = "hold" /\ call[g].op \in {"io", "accept", "connect"}
    BY FiberAssumption DEF HookInv, EventInv
  <1>1. CallInv'
    <2>1. ASSUME NEW g \in Fibers  PROVE Legal(call[g], pc'[g], role'[g])
      <3>1. Legal(call[g], pc[g], role[g])  BY DEF HookInv, CallInv
      <3> QED  BY <1>0, <1>F, <3>1 DEF Legal, CallOps
    <2>2. \A g \in Fibers : role'[g] \in Closers => pc'[g] = "run"
      BY <1>F DEF HookInv, CallInv
    <2>3. \A g \in Fibers : (role'[g] # "none" => use.ops[g] = {})
                            /\ (role'[g] \in {"handleClient", "over"} => client'[g] \in Fds)
      BY DEF HookInv, CallInv
    <2>4. \A g \in Fibers : call[g].id <= calls'  BY <1>0 DEF HookInv, CallInv
    <2>5. \A g, h \in Fibers : call[g].id = call[h].id /\ call[g].id # 0 => g = h
      BY DEF HookInv, CallInv
    <2> QED  BY <2>1, <2>2, <2>3, <2>4, <2>5 DEF CallInv
  <1>2. EventInv'
    BY FiberAssumption DEF HookInv, EventInv
  <1>3. TimerInv'
    <2>1. \A t \in timers : t.op = "sleep" => t.f \notin F
      BY <1>F DEF HookInv, TimerInv
    <2> QED  BY <1>0, <2>1 DEF HookInv, TimerInv
  <1>4. CancelledInv'  BY DEF HookInv, CancelledInv
  <1>5. ConnectInv'
    <2>1. ASSUME NEW g \in Fibers, call[g].op = "connect"  PROVE Attempt(g)'
      <3>1. Attempt(g)  BY <2>1 DEF HookInv, ConnectInv
      <3>2. kernel'[call[g].fd].open /\ \/ kernel'[call[g].fd].state = kernel[call[g].fd].state
                                        \/ kernel'[call[g].fd].state \in {"connected", "refused"}
        BY <2>1 DEF Attempts
      <3> QED  BY <2>1, <3>1, <3>2 DEF Attempt
    <2> QED  BY <2>1 DEF ConnectInv
  <1> QED  BY <1>1, <1>2, <1>3, <1>4, <1>5 DEF HookInv

\* What a call returns: ETIMEDOUT after its own timer, a connect's 0 after
\* nothing but what ConnectHonest names.
LEMMA ReturnHonest ==
  ASSUME TypeOK, HookInv, NEW f \in Fibers, NEW res \in Results, Return(f, res),
         res = "ETIMEDOUT" => call[f].id \in expired,
         res = "unconnected" /\ call[f].op = "connect" =>
            cause[f] \in {"close", "stale_timeout"}
  PROVE  TimeoutHonest' /\ ConnectHonest'
  <1>1. PICK b \in BOOLEAN : b = (call[f].id \in expired)
    <2>1. (call[f].id \in expired) \in BOOLEAN  OBVIOUS
    <2> QED  BY <2>1
  <1>2. last' = [last EXCEPT ![f] = [op |-> call[f].op, fd |-> call[f].fd, res |-> res,
                                     by |-> cause[f], late |-> b]]
    BY <1>1 DEF Return
  <1>4. /\ last'[f].op = call[f].op /\ last'[f].res = res /\ last'[f].by = cause[f]
        /\ last'[f].late = b /\ \A g \in Fibers \ {f} : last'[g] = last[g]
    BY <1>2 DEF TypeOK, HookTypeOK
  <1>5. TimeoutHonest'  BY <1>1, <1>4 DEF HookInv, TimeoutHonest
  <1>6. ConnectHonest'  BY <1>4 DEF HookInv, ConnectHonest
  <1> QED  BY <1>5, <1>6

\* Fibers in other calls do not see a call return.
LEMMA HookReturn ==
  ASSUME TypeOK, TypeOK', HookInv, NEW f \in Fibers, NEW res \in Results, Return(f, res),
         pc[f] # "hold", UNCHANGED <<use, role, client, cancelled, m_events, calls, expired, cause>>,
         timers' \subseteq timers, KernelInv', Attempts(Fibers \ {f}),
         res = "ETIMEDOUT" => call[f].id \in expired,
         res = "unconnected" /\ call[f].op = "connect" =>
            cause[f] \in {"close", "stale_timeout"}
  PROVE  HookInv'
  <1>1. pc' = [pc EXCEPT ![f] = "run"] /\ call' = [call EXCEPT ![f] = NoCall]  BY ReturnType
  <1>2. TimeoutHonest' /\ ConnectHonest'  BY ReturnHonest
  <1>3. NoCall.op = "none" /\ NoCall.id = 0 /\ Legal(NoCall, "run", role[f])
    BY DEF NoCall, Legal
  <1>4. cancelled' = [cancelled EXCEPT ![f] = cancelled[f]]
    BY DEF TypeOK, HookTypeOK
  <1>5. calls' >= calls /\ 0 <= calls'
    <2>1. calls \in Nat /\ calls' = calls  BY DEF TypeOK, HookTypeOK
    <2> QED  BY <2>1
  <1>6. timers' \subseteq timers  OBVIOUS
  <1> QED  BY <1>1, <1>2, <1>3, <1>4, <1>5, <1>6, HookFiber

\* What accept_f does to the descriptors.
LEMMA AcceptKernel ==
  ASSUME TypeOK, NEW fd \in Fds, NEW n \in Fds, fd # n,
         kernel' = [kernel EXCEPT ![fd].ready = {}, ![n] = Opened("connected")]
  PROVE  /\ kernel'[n] = Opened("connected")
         /\ \A x \in Fds \ {n} : /\ kernel'[x].open = kernel[x].open
                                 /\ kernel'[x].nonblock = kernel[x].nonblock
                                 /\ kernel'[x].state = kernel[x].state
                                 /\ kernel'[x] = kernel[x] \/ kernel'[x].ready = {}
                                 /\ x # fd => kernel'[x] = kernel[x]
  <1> DEFINE k == [kernel EXCEPT ![fd].ready = {}]
  <1>1. k \in [Fds -> Descriptor]  BY KernelType
  <1>2. /\ k[fd].open = kernel[fd].open /\ k[fd].nonblock = kernel[fd].nonblock
        /\ k[fd].state = kernel[fd].state /\ k[fd].ready = {}
        /\ \A x \in Fds \ {fd} : k[x] = kernel[x]
    <2>1. kernel \in [Fds -> Descriptor]  BY DEF TypeOK, HookTypeOK
    <2>2. k[fd] = [kernel[fd] EXCEPT !.ready = {}] /\ kernel[fd] \in Descriptor  BY <2>1
    <2> QED  BY <2>1, <2>2 DEF Descriptor
  <1>3. kernel' = [k EXCEPT ![n] = Opened("connected")]  OBVIOUS
  <1> HIDE DEF k
  <1> QED  BY <1>1, <1>2, <1>3

\* A step in which nobody is woken.
LEMMA HookStill ==
  ASSUME TypeOK, TypeOK', HookInv,
         UNCHANGED <<use, pc, call, cancelled, m_events, expired, cause>>,
         timers' \subseteq timers, calls' >= calls, KernelInv', Attempts(Fibers),
         \A g \in Fibers : \/ role'[g] = role[g] /\ client'[g] = client[g]
                           \/ /\ pc[g] = "run" /\ (role'[g] # "none" => use.ops[g] = {})
                              /\ role'[g] \in {"handleClient", "over"} => client'[g] \in Fds,
         TimeoutHonest', ConnectHonest'
  PROVE  HookInv'
  <1>1. /\ \A g \in Fibers : pc'[g] = IF g \in {} THEN "woken" ELSE pc[g]
        /\ \A g \in Fibers : cause'[g] = IF g \in {} THEN "close" ELSE cause[g]
        /\ \A x \in Fds, e \in Events : \/ m_events'[x][e] = NoFiber
                                        \/ /\ m_events'[x][e] = m_events[x][e]
                                           /\ m_events[x][e] \notin {}
    OBVIOUS
  <1>2. /\ {} \in SUBSET Fibers /\ "close" # "nothing"
        /\ \A g \in {} : \E x \in Fds, e \in Events : m_events[x][e] = g
    OBVIOUS
  <1> QED  BY <1>1, <1>2, HookWake

\* The steps inside a call.
LEMMA HookInside ==
  ASSUME TypeOK, TypeOK', HookInv, NEW f \in Fibers, Inside(f), UNCHANGED server
  PROVE  HookInv'
  <1> USE DEF fibers, history
  <1>0. /\ call[f] \in Call /\ call[f].op \in CallOps /\ call[f].e \in Events /\ call[f].id \in Nat
        /\ calls \in Nat /\ Legal(call[f], pc[f], role[f]) /\ call[f].id <= calls
        /\ call = [call EXCEPT ![f] = call[f]] /\ cancelled = [cancelled EXCEPT ![f] = cancelled[f]]
        /\ role[f] \in Closers => pc[f] = "run"
        /\ UNCHANGED <<role, client>> /\ (cancelled[f] /\ call[f].op # "none" => call[f].id \in expired)
    BY DEF TypeOK, HookTypeOK, Call, HookInv, CallInv, CancelledInv, server
  <1>K. UNCHANGED kernel => KernelInv' /\ Attempts(Fibers)
    <2>1. ASSUME NEW g \in Fibers, call[g].op = "connect"  PROVE kernel[call[g].fd].open
      BY <2>1 DEF HookInv, ConnectInv, Attempt
    <2> QED  BY <2>1 DEF HookInv, KernelInv, Attempts
  <1>A. Attempts(Fibers) => Attempts(Fibers \ {f})  BY DEF Attempts
  <1>L. UNCHANGED last => TimeoutHonest' /\ ConnectHonest'
    BY DEF HookInv, TimeoutHonest, ConnectHonest
  <1>1. CASE Blocks(f)
    <2>1. pc' = [pc EXCEPT ![f] = "blocked"] /\ pc[f] \in {"direct", "fun"}
          /\ UNCHANGED <<use, m_datas, kernel, call, cancelled, m_events, timers, history, failed>>
      BY <1>1 DEF Blocks, Goto
    <2>2. Legal(call[f], "blocked", role[f]) /\ call[f].op # "connect"
      BY <1>0, <1>1, <2>1 DEF Legal, CallOps, Blocks, WouldBlock
    <2>3. /\ call' = [call EXCEPT ![f] = call[f]]
          /\ cancelled' = [cancelled EXCEPT ![f] = cancelled[f]]
          /\ KernelInv' /\ Attempts(Fibers \ {f}) /\ TimeoutHonest' /\ ConnectHonest'
          /\ timers' \subseteq timers /\ calls' >= calls /\ call[f].id <= calls'
          /\ role[f] \notin Closers
      BY <1>0, <1>K, <1>A, <1>L, <2>1
    <2> QED  BY <1>0, <2>1, <2>2, <2>3, HookFiber
  <1>2. CASE FunReturns(f)
    <2>0. call[f].op = "io" /\ call[f].fd \in Fds /\ pc[f] # "hold"
      BY <1>0, <1>2 DEF FunReturns, Legal
    <2>1. UNCHANGED kernel \/ kernel' = [kernel EXCEPT ![call[f].fd].ready = @ \ {call[f].e}]
      BY <1>2 DEF FunReturns, Served
    <2>2. KernelInv' /\ Attempts(Fibers)
      <3>1. CASE UNCHANGED kernel  BY <1>K, <3>1
      <3>2. CASE kernel' = [kernel EXCEPT ![call[f].fd].ready = @ \ {call[f].e}]
        <4>1. \A fd \in Fds : /\ kernel'[fd].open = kernel[fd].open
                              /\ kernel'[fd].state = kernel[fd].state
                              /\ kernel'[fd].ready \subseteq kernel[fd].ready
                              /\ fd # call[f].fd => kernel'[fd] = kernel[fd]
          BY <3>2, <2>0 DEF TypeOK, HookTypeOK, Descriptor
        <4>2. \A fd \in Fds : ~kernel[fd].open => kernel'[fd] = kernel[fd]
          <5>1. ~kernel[call[f].fd].open => kernel[call[f].fd].ready = {}
            BY <2>0 DEF HookInv, KernelInv, Closed
          <5>2. ~kernel[call[f].fd].open => UNCHANGED kernel  BY <1>2 DEF FunReturns
          <5> QED  BY <4>1, <5>2
        <4>3. KernelInv'
          BY <4>1, <4>2 DEF HookInv, KernelInv
        <4>4. ASSUME NEW g \in Fibers, call[g].op = "connect"
              PROVE  kernel[call[g].fd].open /\ call[g].fd \in Fds
          BY <4>4 DEF HookInv, ConnectInv, Attempt, CallInv, Legal
        <4> QED  BY <4>1, <4>3, <4>4 DEF Attempts
      <3> QED  BY <2>1, <3>1, <3>2
    <2>3. PICK res \in {"n", "EBADF"} : Return(f, res)  BY <1>2 DEF FunReturns
    <2>4. res \in Results  BY DEF Results
    <2> QED  BY <1>0, <1>2, <1>A, <2>0, <2>2, <2>3, <2>4, HookReturn DEF FunReturns
  <1>3. CASE DirectAgain(f)
    <2>1. "EAGAIN" \in Results  BY DEF Results
    <2> QED  BY <1>0, <1>3, <1>A, <1>K, <2>1, HookReturn DEF DirectAgain
  <1>4. CASE FunAgain(f)
    <2>1. /\ pc' = [pc EXCEPT ![f] = "add"] /\ pc[f] = "fun"
          /\ UNCHANGED <<use, m_datas, kernel, call, cancelled, m_events, expired, cause, calls, last>>
      BY <1>4 DEF FunAgain, Goto
    <2>2. Legal(call[f], "add", role[f]) /\ call[f].op \in {"io", "accept"}
      BY <1>0, <2>1 DEF Legal, CallOps
    <2>3. \A t \in timers' \ timers :
            /\ t = [f |-> f, id |-> call[f].id, op |-> call[f].op, fd |-> call[f].fd,
                    e |-> call[f].e, st |-> "armed"]
            /\ call[f].to # "forever"
      BY <1>4 DEF FunAgain, AddTimer
    <2>4. call[f].to # "forever" => call[f].id # 0
      BY <1>0, <2>2 DEF Legal
    <2>5. /\ call' = [call EXCEPT ![f] = call[f]]
          /\ cancelled' = [cancelled EXCEPT ![f] = cancelled[f]]
          /\ KernelInv' /\ Attempts(Fibers \ {f}) /\ TimeoutHonest' /\ ConnectHonest'
          /\ calls' >= calls /\ call[f].id <= calls' /\ role[f] \notin Closers
      BY <1>0, <1>K, <1>A, <1>L, <2>1
    <2>6. NewTimer(f, call[f], "add")  BY <2>2, <2>3, <2>4 DEF NewTimer
    <2> QED  BY <1>0, <2>1, <2>2, <2>5, <2>6, HookFiber
  <1>5. CASE AddEvent(f)
    <2>0. /\ pc[f] = "add" /\ call[f].fd \in Fds /\ call[f].op \in {"io", "accept", "connect"}
          /\ UNCHANGED <<use, m_datas, kernel, calls, expired, cause, cancelled>>
      BY <1>0, <1>5 DEF AddEvent, Legal, CallOps
    <2>1. CASE m_events[call[f].fd][call[f].e] # NoFiber
      <3>1. UNCHANGED <<pc, call, m_events, timers, last>>  BY <1>5, <2>1 DEF AddEvent
      <3>2. pc' = [pc EXCEPT ![f] = "add"]  BY <2>0, <3>1 DEF TypeOK, HookTypeOK
      <3>3. call[f].op = "connect" => Attempt(f)'
        BY <2>0, <3>1 DEF HookInv, ConnectInv, Attempt
      <3>4. call[f].op = "connect" =>
              \A g \in Fibers \ {f} : call[g].op = "connect" => call[g].fd # call[f].fd
        BY DEF HookInv, ConnectInv, Attempt
      <3>5. /\ call' = [call EXCEPT ![f] = call[f]]
            /\ cancelled' = [cancelled EXCEPT ![f] = cancelled[f]]
            /\ KernelInv' /\ Attempts(Fibers \ {f}) /\ TimeoutHonest' /\ ConnectHonest'
            /\ timers' \subseteq timers /\ calls' >= calls /\ call[f].id <= calls'
            /\ Legal(call[f], "add", role[f]) /\ role[f] \notin Closers
        BY <1>0, <1>K, <1>A, <1>L, <2>0, <3>1
      <3> QED  BY <1>0, <2>0, <3>1, <3>2, <3>3, <3>4, <3>5, HookFiber
    <2>2. CASE m_events[call[f].fd][call[f].e] = NoFiber /\ kernel[call[f].fd].open
      <3>1. /\ m_events' = [m_events EXCEPT ![call[f].fd][call[f].e] = f]
            /\ pc' = [pc EXCEPT ![f] = "hold"]
            /\ UNCHANGED <<call, timers, last>>
        BY <1>5, <2>2 DEF AddEvent, Goto
      <3>2. Legal(call[f], "hold", role[f])  BY <1>0, <2>0 DEF Legal
      <3>3. call[f].op = "connect" => Attempt(f)'
        BY <2>0, <3>1 DEF HookInv, ConnectInv, Attempt, TypeOK, HookTypeOK
      <3>4. call[f].op = "connect" =>
              \A g \in Fibers \ {f} : call[g].op = "connect" => call[g].fd # call[f].fd
        BY DEF HookInv, ConnectInv, Attempt
      <3>5. /\ role[f] \notin Closers /\ timers' \subseteq timers
            /\ calls' >= calls /\ call[f].id <= calls'
        BY <1>0, <2>0, <3>1
      <3>6. /\ call' = [call EXCEPT ![f] = call[f]]
            /\ cancelled' = [cancelled EXCEPT ![f] = cancelled[f]]
            /\ KernelInv' /\ Attempts(Fibers \ {f}) /\ TimeoutHonest' /\ ConnectHonest'
        BY <1>0, <1>K, <1>A, <1>L, <2>0, <3>1
      <3> QED  BY <1>0, <2>0, <3>1, <3>2, <3>3, <3>4, <3>5, <3>6, HookFiber
    <2>3. CASE m_events[call[f].fd][call[f].e] = NoFiber /\ ~kernel[call[f].fd].open
      <3>1. call[f].op # "connect"
        BY <2>3 DEF HookInv, ConnectInv, Attempt
      <3>2. /\ Return(f, "EBADF") /\ timers' \subseteq timers /\ UNCHANGED m_events
        BY <1>5, <2>3, <3>1 DEF AddEvent
      <3>3. "EBADF" \in Results  BY DEF Results
      <3> QED  BY <1>0, <1>K, <1>A, <2>0, <3>2, <3>3, HookReturn
    <2> QED  BY <2>1, <2>2, <2>3
  <1>6. CASE Woken(f)
    <2>0. /\ pc[f] = "woken" /\ call[f].op \notin {"none", "sleep"} /\ timers' \subseteq timers
          /\ UNCHANGED <<use, m_datas, kernel, cancelled, m_events, calls, expired, cause, failed>>
      BY <1>0, <1>6 DEF Woken, Legal
    <2>1. CASE cancelled[f]
      <3>1. Return(f, "ETIMEDOUT")  BY <1>6, <2>1 DEF Woken
      <3>2. "ETIMEDOUT" \in Results  BY DEF Results
      <3> QED  BY <1>0, <1>K, <1>A, <2>0, <2>1, <3>1, <3>2, HookReturn
    <2>2. CASE ~cancelled[f]
      <3>1. PICK l \in {"getsockopt", "fun"} :
              /\ pc' = [pc EXCEPT ![f] = l] /\ (l = "getsockopt" <=> call[f].op = "connect")
              /\ UNCHANGED <<call, last>>
        BY <1>6, <2>2 DEF Woken, Goto
      <3>3. Legal(call[f], l, role[f])
        BY <1>0, <2>0, <3>1 DEF Legal, CallOps
      <3>4. call[f].op = "connect" => Attempt(f)'
        BY <2>0, <2>2, <3>1 DEF HookInv, ConnectInv, Attempt, TypeOK, HookTypeOK
      <3>5. call[f].op = "connect" =>
              \A g \in Fibers \ {f} : call[g].op = "connect" => call[g].fd # call[f].fd
        BY DEF HookInv, ConnectInv, Attempt
      <3>6. /\ role[f] \notin Closers /\ timers' \subseteq timers
            /\ calls' >= calls /\ call[f].id <= calls'
        BY <1>0, <2>0
      <3>7. /\ call' = [call EXCEPT ![f] = call[f]]
            /\ cancelled' = [cancelled EXCEPT ![f] = cancelled[f]]
            /\ KernelInv' /\ Attempts(Fibers \ {f}) /\ TimeoutHonest' /\ ConnectHonest'
        BY <1>0, <1>K, <1>A, <1>L, <2>0, <3>1
      <3> QED  BY <1>0, <2>0, <3>1, <3>3, <3>4, <3>5, <3>6, <3>7, HookFiber
    <2> QED  BY <2>1, <2>2
  <1>7. CASE AcceptReturns(f)
    <2>0. /\ call[f].op = "accept" /\ pc[f] # "hold" /\ pc[f] # "run" /\ call[f].id = 0
          /\ UNCHANGED <<use, m_datas, cancelled, m_events, timers, calls, expired, cause, failed>>
      BY <1>0, <1>7 DEF AcceptReturns, Legal
    <2>1. CASE Return(f, "-1") /\ UNCHANGED kernel
      <3>1. "-1" \in Results  BY DEF Results
      <3> QED  BY <1>0, <1>K, <1>A, <2>0, <2>1, <3>1, HookReturn
    <2>2. CASE ~(Return(f, "-1") /\ UNCHANGED kernel)
      <3>1. PICK n \in Fds :
              /\ call[f].fd \in Fds /\ kernel[call[f].fd].open
              /\ Lowest(n)
              /\ kernel' = [kernel EXCEPT ![call[f].fd].ready = {}, ![n] = Opened("connected")]
              /\ call' = [call EXCEPT ![f].fd = n]
              /\ Goto(f, IF Get(n).there THEN "created" ELSE "create")
              /\ UNCHANGED last
        BY <1>7, <2>2 DEF AcceptReturns
      <3>2. ~kernel[n].open /\ n # call[f].fd  BY <3>1 DEF Lowest
      <3>3. /\ kernel'[n] = Opened("connected")
            /\ \A fd \in Fds \ {n} : /\ kernel'[fd].open = kernel[fd].open
                                     /\ kernel'[fd].state = kernel[fd].state
                                     /\ kernel'[fd] = kernel[fd] \/ kernel'[fd].ready = {}
                                     /\ fd # call[f].fd => kernel'[fd] = kernel[fd]
        <4>1. PICK d \in Fds : d = call[f].fd  BY <3>1
        <4>2. d # n /\ kernel' = [kernel EXCEPT ![d].ready = {}, ![n] = Opened("connected")]
          BY <3>1, <3>2, <4>1
        <4>3. /\ kernel'[n] = Opened("connected")
              /\ \A x \in Fds \ {n} : /\ kernel'[x].open = kernel[x].open
                                      /\ kernel'[x].nonblock = kernel[x].nonblock
                                      /\ kernel'[x].state = kernel[x].state
                                      /\ kernel'[x] = kernel[x] \/ kernel'[x].ready = {}
                                      /\ x # d => kernel'[x] = kernel[x]
          BY <4>2, AcceptKernel
        <4> QED  BY <4>1, <4>3
      <3>4. KernelInv'
        <4>1. Opened("connected").open /\ Opened("connected").state = "connected"  BY DEF Opened
        <4>2. ASSUME NEW fd \in Fds
              PROVE  /\ ~kernel'[fd].open => kernel'[fd] = Closed
                     /\ kernel'[fd].state \in {"new", "connecting"} => kernel'[fd].ready = {}
          BY <3>1, <3>3, <4>1 DEF HookInv, KernelInv
        <4> QED  BY <4>2 DEF KernelInv
      <3>5. Attempts(Fibers)
        <4>1. ASSUME NEW g \in Fibers, call[g].op = "connect"
              PROVE  kernel[call[g].fd].open /\ call[g].fd \in Fds \ {n}
          BY <3>2, <4>1 DEF HookInv, ConnectInv, Attempt, CallInv, Legal
        <4> QED  BY <3>3, <4>1 DEF Attempts
      <3> DEFINE c == [call[f] EXCEPT !.fd = n]
      <3>6. /\ call' = [call EXCEPT ![f] = c] /\ c.op = "accept" /\ c.id = 0
            /\ c.fd = n /\ c.to = call[f].to
        BY <1>0, <2>0, <3>1 DEF Call
      <3>7. PICK l \in {"create", "created"} : pc' = [pc EXCEPT ![f] = l]
        BY <3>1 DEF Goto
      <3>8. Legal(c, l, role[f])  BY <1>0, <2>0, <3>6 DEF Legal
      <3>9. /\ role[f] \notin Closers /\ timers' \subseteq timers
            /\ cancelled[f] => 0 \in expired
            /\ calls' >= calls /\ 0 <= calls'
        BY <1>0, <2>0
      <3>10. /\ cancelled' = [cancelled EXCEPT ![f] = cancelled[f]]
             /\ Attempts(Fibers \ {f}) /\ TimeoutHonest' /\ ConnectHonest'
        BY <1>0, <1>A, <1>L, <2>0, <3>1, <3>5
      <3>11. /\ c.id <= calls' /\ (c.id \in {0, call[f].id} \/ c.id > calls)
             /\ c.op # "connect" /\ c.op # "sleep"
             /\ cancelled[f] /\ c.op # "none" => c.id \in expired
             /\ c.id = call[f].id /\ cancelled[f] => cancelled[f]
             /\ UNCHANGED <<use, role, client, expired, cause>> /\ UNCHANGED m_events
        BY <1>0, <2>0, <3>6, <3>9
      <3> HIDE DEF c
      <3> QED
        BY <2>0, <3>4, <3>6, <3>7, <3>8, <3>9, <3>10, <3>11, HookFiber
    <2> QED  BY <2>1, <2>2
  <1>8. CASE CreateCtx(f)
    <2>0. /\ pc[f] = "create" /\ pc' = [pc EXCEPT ![f] = "created"] /\ call[f].fd \in Fds
          /\ UNCHANGED <<use, call, cancelled, m_events, timers, history, failed>>
      BY <1>0, <1>8 DEF CreateCtx, Goto, Legal, CallOps
    <2>1. \A fd \in Fds : /\ kernel'[fd].open = kernel[fd].open
                          /\ kernel'[fd].state = kernel[fd].state
                          /\ kernel'[fd].ready = kernel[fd].ready
                          /\ fd # call[f].fd => kernel'[fd] = kernel[fd]
      BY <1>8, <2>0 DEF CreateCtx, Create, TypeOK, HookTypeOK, Descriptor
    <2>2. ~kernel[call[f].fd].open => kernel'[call[f].fd] = Closed
      <3>1. ASSUME ~kernel[call[f].fd].open  PROVE kernel'[call[f].fd] = kernel[call[f].fd]
        <4> DEFINE k == kernel[call[f].fd]
        <4>1. k = Closed /\ k \in Descriptor /\ kernel'[call[f].fd] \in Descriptor
          BY <2>0, <3>1 DEF HookInv, KernelInv, TypeOK, HookTypeOK
        <4>2. k.nonblock = FALSE  BY <4>1 DEF Closed
        <4>3. kernel'[call[f].fd].nonblock = FALSE
          BY <1>8, <2>0, <3>1 DEF CreateCtx, Create, TypeOK, HookTypeOK, Descriptor
        <4>4. \A a, b \in Descriptor : a.open = b.open /\ a.nonblock = b.nonblock
                 /\ a.state = b.state /\ a.ready = b.ready => a = b
          BY DEF Descriptor
        <4> QED  BY <2>0, <2>1, <4>1, <4>2, <4>3, <4>4
      <3> QED  BY <2>0, <3>1 DEF HookInv, KernelInv
    <2>3. KernelInv'  BY <2>0, <2>1, <2>2 DEF HookInv, KernelInv
    <2>4. Attempts(Fibers)
      <3>1. ASSUME NEW g \in Fibers, call[g].op = "connect"
            PROVE  kernel[call[g].fd].open /\ call[g].fd \in Fds
        BY <3>1 DEF HookInv, ConnectInv, Attempt, CallInv, Legal
      <3> QED  BY <2>1, <3>1 DEF Attempts
    <2>5. Legal(call[f], "created", role[f]) /\ call[f].op # "connect"
          /\ role[f] \notin Closers
      BY <1>0, <2>0 DEF Legal
    <2>6. /\ call' = [call EXCEPT ![f] = call[f]]
          /\ cancelled' = [cancelled EXCEPT ![f] = cancelled[f]]
          /\ Attempts(Fibers \ {f}) /\ TimeoutHonest' /\ ConnectHonest'
          /\ timers' \subseteq timers /\ calls' >= calls /\ call[f].id <= calls'
      BY <1>0, <1>A, <1>L, <2>0, <2>4
    <2> QED  BY <1>0, <2>0, <2>3, <2>5, <2>6, HookFiber
  <1>9. CASE SocketReturns(f)
    <2>1. "n" \in Results  BY DEF Results
    <2> QED  BY <1>0, <1>9, <1>A, <1>K, <2>1, HookReturn DEF SocketReturns
  <1>10. CASE Getsockopt(f)
    <2>0. /\ pc[f] = "getsockopt" /\ call[f].op = "connect" /\ call[f].fd \in Fds
          /\ UNCHANGED <<use, m_datas, cancelled, m_events, timers, calls, expired, cause, failed>>
      BY <1>0, <1>10 DEF Getsockopt, Legal, CallOps
    <2>1. Attempt(f)  BY <2>0 DEF HookInv, ConnectInv
    <2>2. PICK res \in {"error", "0", "unconnected"} :
            /\ Return(f, res)
            /\ res = "unconnected" => kernel[call[f].fd].state \notin {"connected", "refused"}
      BY <1>10, <2>1 DEF Getsockopt, Attempt
    <2>3. res = "unconnected" => cause[f] \in {"close", "stale_timeout"}
      BY <2>0, <2>1, <2>2 DEF Attempt, TypeOK, HookTypeOK, Causes
    <2>4. UNCHANGED kernel \/ (kernel' = Turns(call[f].fd, "new", {}) /\ kernel[call[f].fd].open)
      BY <1>10 DEF Getsockopt
    <2>5. /\ \A fd \in Fds \ {call[f].fd} : kernel'[fd] = kernel[fd]
          /\ kernel'[call[f].fd] = kernel[call[f].fd]
             \/ (kernel'[call[f].fd].open /\ kernel'[call[f].fd].ready = {})
      <3>1. CASE UNCHANGED kernel  BY <3>1
      <3>2. CASE kernel' = Turns(call[f].fd, "new", {}) /\ kernel[call[f].fd].open
        BY <2>0, <3>2 DEF Turns, TypeOK, HookTypeOK
      <3> QED  BY <2>4, <3>1, <3>2
    <2>6. KernelInv'  BY <2>5 DEF HookInv, KernelInv
    <2>7. Attempts(Fibers \ {f})
      <3>1. ASSUME NEW g \in Fibers \ {f}, call[g].op = "connect"
            PROVE  kernel[call[g].fd].open /\ call[g].fd \in Fds \ {call[f].fd}
        BY <2>1, <3>1 DEF HookInv, ConnectInv, Attempt, CallInv, Legal
      <3> QED  BY <2>5, <3>1 DEF Attempts
    <2>8. res \in Results  BY DEF Results
    <2> QED  BY <1>0, <2>0, <2>2, <2>3, <2>6, <2>7, <2>8, HookReturn
  <1>11. CASE SleepReturns(f)
    <2>1. "0" \in Results  BY DEF Results
    <2> QED  BY <1>0, <1>11, <1>A, <1>K, <2>1, HookReturn DEF SleepReturns
  <1>12. CASE CloseEnds(f)
    <2>1. /\ UNCHANGED <<use, kernel, pc, call, cancelled, m_events, timers, calls, expired, cause>>
          /\ last' = [last EXCEPT ![f] = NoneYet]
      BY <1>12 DEF CloseEnds
    <2>2. last'[f] = NoneYet /\ \A g \in Fibers \ {f} : last'[g] = last[g]
      BY <2>1 DEF TypeOK, HookTypeOK
    <2>3. TimeoutHonest' /\ ConnectHonest'
      BY <2>2 DEF HookInv, TimeoutHonest, ConnectHonest, NoneYet
    <2>4. calls' >= calls  BY <1>0, <2>1
    <2> QED  BY <1>0, <1>K, <2>1, <2>3, <2>4, HookStill
  <1> QED
    BY <1>1, <1>2, <1>3, <1>4, <1>5, <1>6, <1>7, <1>8, <1>9, <1>10, <1>11, <1>12 DEF Inside

\* The kernel's descriptors, when a step changes some of them.
LEMMA KernelMove ==
  ASSUME TypeOK, HookInv,
         \A fd \in Fds :
            \/ kernel'[fd] = kernel[fd]
            \/ /\ kernel'[fd].open
               /\ kernel'[fd].state \in {"new", "connecting"} => kernel'[fd].ready = {}
               /\ \A g \in Fibers : call[g].op = "connect" /\ call[g].fd = fd =>
                     kernel'[fd].state \in {kernel[fd].state, "connected", "refused"}
  PROVE  KernelInv' /\ Attempts(Fibers)
  <1>1. KernelInv'  BY DEF HookInv, KernelInv
  <1>2. ASSUME NEW g \in Fibers, call[g].op = "connect"
        PROVE  kernel[call[g].fd].open /\ call[g].fd \in Fds
    BY <1>2 DEF HookInv, ConnectInv, Attempt, CallInv, Legal
  <1>3. Attempts(Fibers)  BY <1>2 DEF Attempts
  <1> QED  BY <1>1, <1>3

\* What a step leaves alone.
LEMMA HookQuiet ==
  ASSUME TypeOK, HookInv
  PROVE  /\ UNCHANGED kernel => KernelInv' /\ Attempts(Fibers)
         /\ \A f \in Fibers : Attempts(Fibers) => Attempts(Fibers \ {f})
         /\ UNCHANGED last => TimeoutHonest' /\ ConnectHonest'
  <1>1. UNCHANGED kernel => KernelInv' /\ Attempts(Fibers)  BY KernelMove
  <1>2. \A f \in Fibers : Attempts(Fibers) => Attempts(Fibers \ {f})  BY DEF Attempts
  <1>3. UNCHANGED last => TimeoutHonest' /\ ConnectHonest'
    BY DEF HookInv, TimeoutHonest, ConnectHonest
  <1> QED  BY <1>1, <1>2, <1>3

\* A fiber begins a call.
LEMMA HookBegin ==
  ASSUME TypeOK, TypeOK', HookInv, NEW f \in Fibers, NEW op \in {"io", "connect", "socket", "sleep"},
         NEW fd \in Numbers, NEW e \in Events, NEW to \in Timeouts, NEW l,
         Begin(f, op, fd, e, to), pc' = [pc EXCEPT ![f] = l], pc[f] = "run",
         IF op = "sleep" THEN fd = -1 ELSE fd \in Fds,
         op = "io" => l \in {"direct", "fun"},
         op = "connect" => l = "add" /\ e = "WRITE",
         op = "socket" => l \in {"create", "created"},
         op = "sleep" => l = "hold",
         role[f] \notin Closers,
         UNCHANGED <<use, role, client, expired, cause, m_events, last>>,
         UNCHANGED timers \/ AddTimer(f),
         KernelInv', Attempts(Fibers),
         op = "connect" =>
            /\ kernel'[fd].open /\ kernel'[fd].state = "connecting"
            /\ \A g \in Fibers : call[g].op = "connect" => call[g].fd # fd
  PROVE  HookInv'
  <1>0. calls \in Nat /\ op \in CallOps  BY DEF TypeOK, HookTypeOK, CallOps
  <1>1. PICK c : c = [op |-> op, fd |-> fd, e |-> e, to |-> to, id |-> calls + 1]
    OBVIOUS
  <1>2. /\ call' = [call EXCEPT ![f] = c] /\ cancelled' = [cancelled EXCEPT ![f] = FALSE]
        /\ calls' = calls + 1
    BY <1>1 DEF Begin
  <1>3. c.op = op /\ c.fd = fd /\ c.e = e /\ c.to = to /\ c.id = calls + 1  BY <1>1
  <1>4. Legal(c, l, role[f])
    BY <1>0, <1>3 DEF Legal
  <1>5. /\ calls' >= calls /\ c.id <= calls' /\ c.id > calls /\ c.id # 0
    BY <1>0, <1>2, <1>3
  <1>6. c.id # call[f].id
    <2>1. call[f].id \in Nat /\ call[f].id <= calls
      BY DEF TypeOK, HookTypeOK, Call, HookInv, CallInv
    <2> QED  BY <1>0, <1>3, <2>1
  <1>7. timers' \subseteq timers \/ NewTimer(f, c, l)
    <2>1. call'[f] = c  BY <1>2 DEF TypeOK, HookTypeOK
    <2>2. CASE AddTimer(f)
      <3>1. \A t \in timers' \ timers :
              t = [f |-> f, id |-> c.id, op |-> c.op, fd |-> c.fd, e |-> c.e, st |-> "armed"]
        BY <2>1, <2>2 DEF AddTimer
      <3> QED  BY <1>3, <1>5, <3>1 DEF NewTimer
    <2> QED  BY <2>2
  <1>8. TimeoutHonest' /\ ConnectHonest' /\ Attempts(Fibers \ {f})  BY HookQuiet
  <1>9. c.op = "connect" => Attempt(f)'
    <2>1. call'[f] = c /\ pc'[f] = l /\ \A g \in Fibers \ {f} : call'[g] = call[g]
      BY <1>2 DEF TypeOK, HookTypeOK
    <2> QED  BY <1>3, <2>1 DEF Attempt
  <1>10. c.op = "connect" =>
           \A g \in Fibers \ {f} : call[g].op = "connect" => call[g].fd # c.fd
    BY <1>3
  <1> QED  BY <1>2, <1>4, <1>5, <1>6, <1>7, <1>8, <1>9, <1>10, HookFiber

\* A call that does not wait.
LEMMA QuickHonest ==
  ASSUME TypeOK, HookInv, NEW f \in Fibers, NEW op, NEW fd,
         NEW res \in {"0", "error", "EBADF", "EINPROGRESS"}, Quick(f, op, fd, res)
  PROVE  TimeoutHonest' /\ ConnectHonest'
  <1>1. last'[f].res = res /\ \A g \in Fibers \ {f} : last'[g] = last[g]
    BY DEF Quick, TypeOK, HookTypeOK
  <1>2. TimeoutHonest'  BY <1>1 DEF HookInv, TimeoutHonest
  <1>3. ConnectHonest'  BY <1>1 DEF HookInv, ConnectHonest
  <1> QED  BY <1>2, <1>3

LEMMA HookQuick ==
  ASSUME TypeOK, TypeOK', HookInv, NEW f \in Fibers, NEW op, NEW fd,
         NEW res \in {"0", "error", "EBADF", "EINPROGRESS"}, Quick(f, op, fd, res),
         UNCHANGED server, KernelInv', Attempts(Fibers)
  PROVE  HookInv'
  <1>1. TimeoutHonest' /\ ConnectHonest'  BY QuickHonest
  <1>2. /\ UNCHANGED <<use, pc, call, cancelled, m_events, timers, expired, cause, role, client>>
        /\ calls' = calls + 1 /\ calls \in Nat
    BY DEF Quick, fibers, server, TypeOK, HookTypeOK
  <1>3. calls' >= calls  BY <1>2
  <1> QED  BY <1>1, <1>2, <1>3, HookStill

\* A close() wakes the waiters of a descriptor.
LEMMA HookCancelAll ==
  ASSUME TypeOK, TypeOK', HookInv, NEW fd \in Fds,
         CancelAll(fd) \/ UNCHANGED <<pc, cause, m_events>>,
         UNCHANGED <<use, kernel, call, cancelled, timers, expired>>, calls' >= calls,
         \A g \in Fibers : \/ role'[g] = role[g] /\ client'[g] = client[g]
                           \/ /\ pc[g] = "run" /\ (role'[g] # "none" => use.ops[g] = {})
                              /\ role'[g] \in {"handleClient", "over"} => client'[g] \in Fds,
         TimeoutHonest', ConnectHonest'
  PROVE  HookInv'
  <1>0. KernelInv' /\ Attempts(Fibers)  BY HookQuiet
  <1>1. CASE CancelAll(fd)
    <2>1. Wake(Waiting(fd), "close") /\ "close" \in Causes  BY <1>1 DEF CancelAll, Causes
    <2>2. Waiting(fd) \in SUBSET Fibers
      BY DEF Waiting, TypeOK, HookTypeOK
    <2>3. \A g \in Waiting(fd) : \E x \in Fds, e \in Events : m_events[x][e] = g
      BY DEF Waiting
    <2>4. \A x \in Fds, e \in Events : \/ m_events'[x][e] = NoFiber
                                       \/ /\ m_events'[x][e] = m_events[x][e]
                                          /\ m_events[x][e] \notin Waiting(fd)
      <3> SUFFICES ASSUME NEW x \in Fds, NEW e \in Events, m_events'[x][e] # NoFiber
                   PROVE  m_events'[x][e] = m_events[x][e] /\ m_events[x][e] \notin Waiting(fd)
        OBVIOUS
      <3>1. x # fd /\ m_events'[x][e] = m_events[x][e]
        BY <1>1 DEF CancelAll, TypeOK, HookTypeOK
      <3>2. \A d \in Events : m_events[fd][d] # m_events[x][e]
        BY <3>1 DEF HookInv, EventInv
      <3> QED  BY <3>1, <3>2 DEF Waiting
    <2>5. /\ \A g \in Fibers : pc'[g] = IF g \in Waiting(fd) THEN "woken" ELSE pc[g]
          /\ \A g \in Fibers : cause'[g] = IF g \in Waiting(fd) THEN "close" ELSE cause[g]
      BY <2>1, WakeType
    <2> QED  BY <1>0, <2>2, <2>3, <2>4, <2>5, HookWake
  <1>2. CASE UNCHANGED <<pc, cause, m_events>>  BY <1>0, <1>2, HookStill
  <1> QED  BY <1>1, <1>2

\* The calls a program begins.
LEMMA HookClient ==
  ASSUME TypeOK, TypeOK', HookInv, NEW f \in Fibers, Client(f), UNCHANGED server
  PROVE  HookInv'
  <1>0. /\ UNCHANGED <<role, client>> /\ "READ" \in Events /\ "WRITE" \in Events
        /\ "forever" \in Timeouts /\ "some" \in Timeouts /\ use.events \subseteq Events
        /\ -1 \in Numbers /\ Fds \subseteq Numbers
    BY UseTypes, RecordTypes DEF server, Events, Timeouts
  <1>R. ASSUME NEW op, Calls(f, op)  PROVE pc[f] = "run" /\ role[f] \notin Closers
    BY <1>R DEF Calls, HookInv, CallInv, Closers
  <1>K. \A fd \in Fds : kernel[fd] \in Descriptor  BY KernelType
  <1>1. CASE do_io(f)
    <2>1. PICK fd \in Fds, e \in use.events :
            /\ Begin(f, "io", fd, e, IF Direct(fd) THEN "forever" ELSE Get(fd).m_timeout[e])
            /\ Goto(f, IF Direct(fd) THEN "direct" ELSE "fun")
      BY <1>1 DEF do_io
    <2>2. PICK to \in Timeouts : to = IF Direct(fd) THEN "forever" ELSE Get(fd).m_timeout[e]
      <3>1. CASE Get(fd).there
        <4>1. Get(fd) \in Context  BY <3>1, CtxType
        <4> QED  BY <1>0, <4>1 DEF Context
      <3> QED  BY <1>0, <3>1 DEF Direct
    <2>3. PICK l \in {"direct", "fun"} : pc' = [pc EXCEPT ![f] = l]
      BY <2>1 DEF Goto
    <2>4. /\ UNCHANGED <<use, m_datas, kernel, m_events, timers, expired, cause, last, failed>>
          /\ Calls(f, "io")
      BY <1>1 DEF do_io
    <2>5. Begin(f, "io", fd, e, to) /\ e \in Events /\ fd \in Numbers  BY <1>0, <2>1, <2>2
    <2>6. KernelInv' /\ Attempts(Fibers)  BY <2>4, HookQuiet
    <2> QED  BY <1>0, <1>R, <2>3, <2>4, <2>5, <2>6, HookBegin
  <1>2. CASE socket(f)
    <2>1. PICK n \in Fds : /\ Lowest(n) /\ Begin(f, "socket", n, "READ", "forever")
                           /\ kernel' = [kernel EXCEPT ![n] = Opened("new")]
                           /\ Goto(f, IF Get(n).there THEN "created" ELSE "create")
      BY <1>2 DEF socket
    <2>2. /\ UNCHANGED <<use, m_datas, m_events, timers, expired, cause, last, failed>>
          /\ Calls(f, "socket")
      BY <1>2 DEF socket
    <2>3. PICK l \in {"create", "created"} : pc' = [pc EXCEPT ![f] = l]
      BY <2>1 DEF Goto
    <2>4. KernelInv' /\ Attempts(Fibers)
      <3>1. \A g \in Fibers : call[g].op = "connect" => call[g].fd # n
        BY <2>1 DEF HookInv, ConnectInv, Attempt, Lowest
      <3>2. kernel'[n] = Opened("new") /\ \A fd \in Fds \ {n} : kernel'[fd] = kernel[fd]
        BY <2>1 DEF TypeOK, HookTypeOK
      <3>3. Opened("new").open /\ Opened("new").ready = {}  BY DEF Opened
      <3> QED  BY <3>1, <3>2, <3>3, KernelMove
    <2> QED  BY <1>0, <1>R, <2>1, <2>2, <2>3, <2>4, HookBegin
  <1>3. CASE connect(f)
    <2>1. PICK fd \in Fds, to \in Timeouts, res \in {"0", "error", "EINPROGRESS"} :
            /\ kernel[fd].open /\ MayWait(fd, "WRITE")
            /\ IF ~Get(fd).there THEN Quick(f, "connect", fd, "EBADF") /\ UNCHANGED kernel
               ELSE /\ ConnectF(fd, res)
                    /\ IF Get(fd).m_userNonblock \/ res # "EINPROGRESS"
                       THEN Quick(f, "connect", fd, res)
                       ELSE /\ Begin(f, "connect", fd, "WRITE", to)
                            /\ IF to = "forever" THEN UNCHANGED timers ELSE AddTimer(f)
                            /\ Goto(f, "add")
                            /\ UNCHANGED <<use, m_events, expired, cause, last, failed>>
      BY <1>3 DEF connect
    <2>2. \A g \in Fibers : call[g].op = "connect" => call[g].fd # fd
      BY <2>1 DEF MayWait, HookInv, CallInv, Legal
    <2>3. ASSUME ConnectF(fd, res)
          PROVE  /\ KernelInv' /\ Attempts(Fibers)
                 /\ res = "EINPROGRESS" => kernel'[fd].open /\ kernel'[fd].state = "connecting"
      <3>1. \/ UNCHANGED kernel /\ res # "EINPROGRESS"
            \/ kernel' = Turns(fd, "new", {}) /\ res # "EINPROGRESS"
            \/ /\ kernel[fd].state = "new"
               /\ \E s \in {"connected", "connecting"} : kernel' = [kernel EXCEPT ![fd].state = s]
               /\ res = "EINPROGRESS" => kernel' = [kernel EXCEPT ![fd].state = "connecting"]
        BY <2>3 DEF ConnectF
      <3>2. CASE UNCHANGED kernel /\ res # "EINPROGRESS"  BY <3>2, HookQuiet
      <3>3. CASE kernel' = Turns(fd, "new", {}) /\ res # "EINPROGRESS"
        <4>1. /\ kernel'[fd].open /\ kernel'[fd].ready = {}
              /\ \A x \in Fds \ {fd} : kernel'[x] = kernel[x]
          BY <2>1, <3>3 DEF Turns, TypeOK, HookTypeOK
        <4> QED  BY <2>2, <3>3, <4>1, KernelMove
      <3>4. CASE /\ kernel[fd].state = "new"
                 /\ \E s \in {"connected", "connecting"} : kernel' = [kernel EXCEPT ![fd].state = s]
                 /\ res = "EINPROGRESS" => kernel' = [kernel EXCEPT ![fd].state = "connecting"]
        <4>1. /\ kernel'[fd].open /\ kernel'[fd].ready = kernel[fd].ready
              /\ \A x \in Fds \ {fd} : kernel'[x] = kernel[x]
              /\ res = "EINPROGRESS" => kernel'[fd].state = "connecting"
          BY <1>K, <2>1, <3>4 DEF TypeOK, HookTypeOK, Descriptor
        <4>2. kernel[fd].ready = {}  BY <3>4 DEF HookInv, KernelInv
        <4> QED  BY <2>2, <4>1, <4>2, KernelMove
      <3> QED  BY <3>1, <3>2, <3>3, <3>4
    <2>4. CASE ~Get(fd).there
      <3>1. Quick(f, "connect", fd, "EBADF") /\ UNCHANGED kernel  BY <2>1, <2>4
      <3> QED  BY <3>1, HookQuiet, HookQuick
    <2>5. CASE Get(fd).there /\ (Get(fd).m_userNonblock \/ res # "EINPROGRESS")
      <3>1. Quick(f, "connect", fd, res) /\ ConnectF(fd, res)  BY <2>1, <2>5
      <3> QED  BY <2>3, <3>1, HookQuick
    <2>6. CASE Get(fd).there /\ ~(Get(fd).m_userNonblock \/ res # "EINPROGRESS")
      <3>1. /\ Begin(f, "connect", fd, "WRITE", to) /\ pc' = [pc EXCEPT ![f] = "add"]
            /\ UNCHANGED timers \/ AddTimer(f)
            /\ UNCHANGED <<use, m_events, expired, cause, last, failed>> /\ ConnectF(fd, res)
            /\ res = "EINPROGRESS" /\ Calls(f, "connect")
        BY <1>3, <2>1, <2>6 DEF Goto, connect
      <3>2. fd \in Numbers  BY <1>0
      <3> QED  BY <1>0, <1>R, <2>2, <2>3, <3>1, <3>2, HookBegin
    <2> QED  BY <2>4, <2>5, <2>6
  <1>4. CASE close(f)
    <2>1. PICK fd \in Fds : /\ calls' = calls + 1
                            /\ CancelAll(fd) \/ UNCHANGED <<pc, cause, m_events>>
                            /\ \/ UNCHANGED last
                               \/ last' = [last EXCEPT ![f] =
                                              [NoneYet EXCEPT !.op = "close", !.fd = fd]]
      BY <1>4 DEF close
    <2>2. calls' >= calls  BY <2>1 DEF TypeOK, HookTypeOK
    <2>3. UNCHANGED <<use, kernel, call, cancelled, timers, expired, failed>>
      BY <1>4 DEF close
    <2>4. TimeoutHonest' /\ ConnectHonest'
      <3>1. PICK r : /\ r = [NoneYet EXCEPT !.op = "close", !.fd = fd]
                     /\ last' = last \/ last' = [last EXCEPT ![f] = r]
        BY <2>1
      <3>2. r.res = "none"  BY <3>1 DEF NoneYet
      <3>3. \A g \in Fibers : last'[g] = last[g] \/ last'[g].res = "none"
        BY <3>1, <3>2 DEF TypeOK, HookTypeOK
      <3> QED  BY <3>3 DEF HookInv, TimeoutHonest, ConnectHonest
    <2> QED  BY <1>0, <2>1, <2>2, <2>3, <2>4, HookCancelAll
  <1>5. CASE close_f(f)
    <2>1. PICK fd \in Fds : /\ \A g \in Fibers : call[g].fd # fd
                            /\ kernel' = [kernel EXCEPT ![fd] = Closed]
                            /\ Quick(f, "close_f", fd, "0")
      BY <1>5 DEF close_f
    <2>2. kernel'[fd] = Closed /\ \A x \in Fds \ {fd} : kernel'[x] = kernel[x]
      BY <2>1 DEF TypeOK, HookTypeOK
    <2>3. KernelInv'
      BY <2>2 DEF HookInv, KernelInv, Closed
    <2>4. Attempts(Fibers)
      <3>1. ASSUME NEW g \in Fibers, call[g].op = "connect"
            PROVE  kernel[call[g].fd].open /\ call[g].fd \in Fds \ {fd}
        BY <2>1, <3>1 DEF HookInv, ConnectInv, Attempt, CallInv, Legal
      <3> QED  BY <2>2, <3>1 DEF Attempts
    <2> QED  BY <2>1, <2>3, <2>4, HookQuick
  <1>6. CASE setsockopt(f)
    <2>1. UNCHANGED kernel /\ \E fd \in Fds : Quick(f, "setsockopt", fd, "0")
      BY <1>6 DEF setsockopt
    <2> QED  BY <2>1, HookQuiet, HookQuick
  <1>7. CASE fcntl(f) \/ ioctl(f)
    <2>1. PICK fd \in Fds, nb \in BOOLEAN, op \in {"fcntl", "ioctl"} :
            /\ kernel[fd].open /\ kernel' = [kernel EXCEPT ![fd].nonblock = nb]
            /\ Quick(f, op, fd, "0")
      BY <1>7 DEF fcntl, ioctl
    <2>2. /\ \A x \in Fds \ {fd} : kernel'[x] = kernel[x]
          /\ kernel'[fd].open /\ kernel'[fd].state = kernel[fd].state
          /\ kernel'[fd].ready = kernel[fd].ready
      BY <1>K, <2>1 DEF TypeOK, HookTypeOK, Descriptor
    <2>3. kernel[fd].state \in {"new", "connecting"} => kernel[fd].ready = {}
      BY DEF HookInv, KernelInv
    <2>4. KernelInv' /\ Attempts(Fibers)  BY <2>2, <2>3, KernelMove
    <2> QED  BY <2>1, <2>4, HookQuick
  <1>8. CASE sleep(f)
    <2>1. /\ Begin(f, "sleep", -1, "READ", "some") /\ AddTimer(f) /\ Calls(f, "sleep")
          /\ pc' = [pc EXCEPT ![f] = "hold"]
          /\ UNCHANGED <<use, m_datas, kernel, m_events, expired, cause, last, failed>>
      BY <1>8 DEF sleep, Goto
    <2>2. KernelInv' /\ Attempts(Fibers)  BY <2>1, HookQuiet
    <2> QED  BY <1>0, <1>R, <2>1, <2>2, HookBegin
  <1> QED  BY <1>1, <1>2, <1>3, <1>4, <1>5, <1>6, <1>7, <1>8 DEF Client

\* A timer expires.
LEMMA HookExpire ==
  ASSUME TypeOK, TypeOK', HookInv, NEW t \in timers, Expire(t), UNCHANGED server
  PROVE  HookInv'
  <1> USE DEF TypeOK, HookTypeOK
  <1>0. /\ UNCHANGED <<use, m_datas, kernel, pc, call, cancelled, m_events, calls, cause, last,
                       role, client>>
        /\ expired' = expired \cup {t.id}
    BY DEF Expire, Timed, server
  <1>1. PICK q \in TimerCb : /\ timers' = (timers \ {t}) \cup {q}
                             /\ q.f = t.f /\ q.id = t.id /\ q.op = t.op /\ q.fd = t.fd /\ q.st = "queued"
    <2>1. t \in TimerCb  OBVIOUS
    <2>2. [t EXCEPT !.st = "queued"] \in TimerCb  BY <2>1 DEF TimerCb
    <2> DEFINE q == [t EXCEPT !.st = "queued"]
    <2>3. q.f = t.f /\ q.id = t.id /\ q.op = t.op /\ q.fd = t.fd /\ q.st = "queued"
      BY <2>1 DEF TimerCb
    <2>4. timers' = (timers \ {t}) \cup {q}  BY DEF Expire
    <2> QED  BY <2>2, <2>3, <2>4
  <1>2. CallInv' /\ EventInv'  BY <1>0 DEF HookInv, CallInv, EventInv
  <1>3. TimerInv'
    <2>1. ASSUME NEW u \in timers'
          PROVE  \E v \in timers : /\ v.f = u.f /\ v.id = u.id /\ v.op = u.op /\ v.fd = u.fd
                                   /\ (u = v \/ (v = t /\ u = q))
      BY <1>1, <2>1
    <2>2. ASSUME NEW u \in timers'
          PROVE  /\ u.id \in 1..calls'
                 /\ u.st # "armed" => u.id \in expired'
                 /\ u.op # "sleep" => u.fd \in Fds
                 /\ u.op = "sleep" => /\ u.st # "fired" /\ call'[u.f].id = u.id
                                      /\ call'[u.f].op = "sleep" /\ pc'[u.f] = "hold"
                 /\ \A g \in Fibers : call'[g].id = u.id =>
                       g = u.f /\ (u.st = "fired" => cancelled'[g])
      BY <1>0, <1>1, <2>1, <2>2 DEF HookInv, TimerInv
    <2>3. ASSUME NEW u \in timers', NEW v \in timers', u.op = "sleep", v.op = "sleep", u.f = v.f
          PROVE  u = v
      BY <1>1, <2>1, <2>3 DEF HookInv, TimerInv
    <2> QED  BY <2>2, <2>3 DEF TimerInv
  <1>4. CancelledInv'  BY <1>0 DEF HookInv, CancelledInv
  <1>5. KernelInv'  BY <1>0 DEF HookInv, KernelInv
  <1>6. ConnectInv'  BY <1>0 DEF HookInv, ConnectInv, Attempt
  <1>7. TimeoutHonest' /\ ConnectHonest'  BY <1>0, HookQuiet
  <1> QED  BY <1>2, <1>3, <1>4, <1>5, <1>6, <1>7 DEF HookInv

\* The first half of a timer's callback.
LEMMA HookOnTimer ==
  ASSUME TypeOK, TypeOK', HookInv, NEW t \in timers, OnTimer(t), UNCHANGED server
  PROVE  HookInv'
  <1> USE DEF TypeOK, HookTypeOK
  <1>0. /\ UNCHANGED <<use, m_datas, kernel, pc, call, m_events, calls, cause, last, expired,
                       role, client>>
        /\ t.st = "queued" /\ t.op # "sleep" /\ t \in TimerCb /\ t.f \in Fibers
    BY DEF OnTimer, Timed, server, TimerCb
  <1>K. KernelInv' /\ Attempts(Fibers) /\ TimeoutHonest' /\ ConnectHonest'  BY <1>0, HookQuiet
  <1>1. CASE call[t.f].id # t.id \/ cancelled[t.f]
    <2>1. timers' \subseteq timers /\ UNCHANGED cancelled  BY <1>1 DEF OnTimer
    <2>2. calls' >= calls  BY <1>0
    <2> QED  BY <1>0, <1>K, <2>1, <2>2, HookStill
  <1>2. CASE ~(call[t.f].id # t.id \/ cancelled[t.f])
    <2>1. PICK q \in TimerCb : /\ timers' = (timers \ {t}) \cup {q}
                               /\ q.f = t.f /\ q.id = t.id /\ q.op = t.op /\ q.fd = t.fd
                               /\ q.st = "fired"
      <3>1. [t EXCEPT !.st = "fired"] \in TimerCb  BY <1>0 DEF TimerCb
      <3> DEFINE q == [t EXCEPT !.st = "fired"]
      <3>2. q.f = t.f /\ q.id = t.id /\ q.op = t.op /\ q.fd = t.fd /\ q.st = "fired"
        BY <1>0 DEF TimerCb
      <3>3. timers' = (timers \ {t}) \cup {q}  BY <1>2 DEF OnTimer
      <3> QED  BY <3>1, <3>2, <3>3
    <2>2. /\ cancelled'[t.f] /\ \A g \in Fibers \ {t.f} : cancelled'[g] = cancelled[g]
          /\ \A g \in Fibers : cancelled[g] => cancelled'[g]
      BY <1>0, <1>2 DEF OnTimer
    <2>3. CallInv' /\ EventInv'  BY <1>0 DEF HookInv, CallInv, EventInv
    <2>4. TimerInv'
      <3>1. ASSUME NEW u \in timers'
            PROVE  \E v \in timers : /\ v.f = u.f /\ v.id = u.id /\ v.op = u.op /\ v.fd = u.fd
                                     /\ (u = v \/ (v = t /\ u = q))
        BY <2>1, <3>1
      <3>2. ASSUME NEW u \in timers'
            PROVE  /\ u.id \in 1..calls'
                   /\ u.st # "armed" => u.id \in expired'
                   /\ u.op # "sleep" => u.fd \in Fds
                   /\ u.op = "sleep" => /\ u.st # "fired" /\ call'[u.f].id = u.id
                                        /\ call'[u.f].op = "sleep" /\ pc'[u.f] = "hold"
                   /\ \A g \in Fibers : call'[g].id = u.id =>
                         g = u.f /\ (u.st = "fired" => cancelled'[g])
        BY <1>0, <2>1, <2>2, <3>1, <3>2 DEF HookInv, TimerInv
      <3>3. ASSUME NEW u \in timers', NEW v \in timers', u.op = "sleep", v.op = "sleep", u.f = v.f
            PROVE  u = v
        BY <1>0, <2>1, <3>1, <3>3 DEF HookInv, TimerInv
      <3> QED  BY <3>2, <3>3 DEF TimerInv
    <2>5. CancelledInv'
      <3>1. t.id \in expired  BY <1>0 DEF HookInv, TimerInv
      <3> QED  BY <1>0, <1>2, <2>2, <3>1 DEF HookInv, CancelledInv
    <2>6. ConnectInv'  BY <1>0, <2>2 DEF HookInv, ConnectInv, Attempt
    <2> QED  BY <1>K, <2>3, <2>4, <2>5, <2>6 DEF HookInv
  <1> QED  BY <1>1, <1>2

\* A sleeper is woken by its timer.
LEMMA HookSleepOver ==
  ASSUME TypeOK, TypeOK', HookInv, NEW t \in timers, SleepOver(t), UNCHANGED server
  PROVE  HookInv'
  <1> USE DEF TypeOK, HookTypeOK
  <1>0. /\ UNCHANGED <<use, m_datas, kernel, call, cancelled, m_events, calls, last, expired,
                       role, client>>
        /\ t.op = "sleep" /\ t.f \in Fibers /\ timers' = timers \ {t}
    BY DEF SleepOver, Timed, server, TimerCb
  <1>1. /\ \A g \in Fibers : pc'[g] = IF g = t.f THEN "woken" ELSE pc[g]
        /\ \A g \in Fibers : cause'[g] = IF g = t.f THEN "timeout" ELSE cause[g]
    BY <1>0 DEF SleepOver, Wake
  <1>2. call[t.f].op = "sleep" /\ pc[t.f] = "hold"  BY <1>0 DEF HookInv, TimerInv
  <1>3. CallInv'
    <2>1. \A g \in Fibers : Legal(call[g], pc'[g], role[g])
      BY <1>1, <1>2 DEF HookInv, CallInv, Legal
    <2> QED  BY <1>0, <1>1, <1>2, <2>1 DEF HookInv, CallInv
  <1>4. EventInv'
    BY <1>0, <1>1, <1>2 DEF HookInv, EventInv
  <1>5. TimerInv'
    <2>1. \A u \in timers' : u \in timers /\ u.f \in Fibers /\ (u.op = "sleep" => u.f # t.f)
      BY <1>0 DEF HookInv, TimerInv, TimerCb
    <2> QED  BY <1>0, <1>1, <2>1 DEF HookInv, TimerInv
  <1>6. CancelledInv'  BY <1>0 DEF HookInv, CancelledInv
  <1>7. KernelInv' /\ TimeoutHonest' /\ ConnectHonest'  BY <1>0, HookQuiet
  <1>8. ConnectInv'  BY <1>0, <1>1, <1>2 DEF HookInv, ConnectInv, Attempt
  <1> QED  BY <1>3, <1>4, <1>5, <1>6, <1>7, <1>8 DEF HookInv

\* What the kernel, epoll and the timers do.
LEMMA HookOutside ==
  ASSUME TypeOK, TypeOK', HookInv, UNCHANGED server,
         Kernel \/ Epoll \/ \E f \in Fibers : Timer(f) \/ Callbacks(f)
  PROVE  HookInv'
  <1>0. UNCHANGED <<role, client>> /\ calls \in Nat  BY DEF server, TypeOK, HookTypeOK
  <1>1. CASE Kernel
    <2>1. PICK fd \in Fds : ConnectEnds(fd) \/ \E e \in use.events : Arrive(fd, e)
      BY <1>1 DEF Kernel
    <2>2. UNCHANGED <<use, m_datas, pc, call, cancelled, m_events, timers, calls, expired, cause,
                      last, failed>>
      BY <2>1 DEF ConnectEnds, Arrive, fibers, history
    <2>3. KernelInv' /\ Attempts(Fibers)
      <3>1. CASE ConnectEnds(fd)
        <4>1. \E s \in {"connected", "refused"} : kernel' = Turns(fd, s, {"WRITE"})
          BY <3>1 DEF ConnectEnds
        <4>2. /\ kernel'[fd].open /\ kernel'[fd].state \in {"connected", "refused"}
              /\ \A x \in Fds \ {fd} : kernel'[x] = kernel[x]
          BY <3>1, <4>1 DEF ConnectEnds, Turns, TypeOK, HookTypeOK
        <4> QED  BY <4>2, KernelMove
      <3>2. ASSUME NEW e \in use.events, Arrive(fd, e)  PROVE KernelInv' /\ Attempts(Fibers)
        <4>1. kernel[fd] \in Descriptor  BY KernelType
        <4>2. /\ kernel'[fd].open /\ kernel'[fd].state = kernel[fd].state
              /\ kernel[fd].state \in {"connected", "listening"}
              /\ \A x \in Fds \ {fd} : kernel'[x] = kernel[x]
          BY <3>2, <4>1 DEF Arrive, TypeOK, HookTypeOK, Descriptor
        <4> QED  BY <4>2, KernelMove
      <3> QED  BY <2>1, <3>1, <3>2
    <2>4. TimeoutHonest' /\ ConnectHonest' /\ calls' >= calls /\ timers' \subseteq timers
      BY <1>0, <2>2, HookQuiet
    <2> QED  BY <1>0, <2>2, <2>3, <2>4, HookStill
  <1>2. CASE Epoll
    <2>1. PICK fd \in Fds, e \in Events : TriggerEvent(fd, e)  BY <1>2 DEF Epoll
    <2>2. PICK g \in Fibers : g = m_events[fd][e]
      BY <2>1 DEF TriggerEvent, TypeOK, HookTypeOK
    <2>3. /\ \A h \in Fibers : pc'[h] = IF h \in {g} THEN "woken" ELSE pc[h]
          /\ \A h \in Fibers : cause'[h] = IF h \in {g} THEN "event" ELSE cause[h]
      BY <2>1, <2>2 DEF TriggerEvent, Wake
    <2>4. UNCHANGED <<use, m_datas, kernel, call, cancelled, timers, calls, expired, last, failed>>
      BY <2>1 DEF TriggerEvent
    <2>5. \A x \in Fds, d \in Events : \/ m_events'[x][d] = NoFiber
                                       \/ /\ m_events'[x][d] = m_events[x][d]
                                          /\ m_events[x][d] \notin {g}
      <3>1. \A x \in Fds, d \in Events : m_events[x][d] = g => x = fd /\ d = e
        BY <2>2, FiberAssumption DEF HookInv, EventInv
      <3> QED  BY <2>1, <2>2, <3>1 DEF TriggerEvent, TypeOK, HookTypeOK
    <2>6. call[g].op = "connect" => kernel'[call[g].fd].state # "connecting"
      <3>1. call[g].fd = fd  BY <2>2, FiberAssumption DEF HookInv, EventInv
      <3>2. kernel[fd].ready # {}  BY <2>1 DEF TriggerEvent
      <3> QED  BY <2>4, <3>1, <3>2 DEF HookInv, KernelInv
    <2>7. /\ KernelInv' /\ Attempts(Fibers) /\ TimeoutHonest' /\ ConnectHonest'
          /\ calls' >= calls /\ timers' \subseteq timers /\ {g} \in SUBSET Fibers
          /\ \A h \in {g} : \E x \in Fds, d \in Events : m_events[x][d] = h
      BY <1>0, <2>2, <2>4, HookQuiet
    <2>8. /\ "event" # "nothing" /\ "event" # "timeout"
          /\ \A h \in {g} : call[h].op = "connect" => kernel'[call[h].fd].state # "connecting"
      BY <2>6
    <2> QED  BY <1>0, <2>3, <2>4, <2>5, <2>7, <2>8, HookWake
  <1>3. ASSUME NEW t \in timers, CancelEvent(t)  PROVE HookInv'
    <2>0. /\ t.st = "fired" /\ timers' \subseteq timers /\ t.fd \in Fds /\ t.e \in Events
          /\ UNCHANGED <<use, m_datas, kernel, call, cancelled, calls, expired, last, failed>>
      BY <1>3 DEF CancelEvent, HookInv, TimerInv, TypeOK, HookTypeOK, TimerCb
    <2>1. /\ KernelInv' /\ Attempts(Fibers) /\ TimeoutHonest' /\ ConnectHonest'
          /\ calls' >= calls
      BY <1>0, <2>0, HookQuiet
    <2>2. CASE m_events[t.fd][t.e] = NoFiber
      <3>1. UNCHANGED <<pc, cause, m_events>>  BY <1>3, <2>2 DEF CancelEvent
      <3> QED  BY <1>0, <2>0, <2>1, <3>1, HookStill
    <2>3. CASE m_events[t.fd][t.e] # NoFiber
      <3>1. PICK g \in Fibers : g = m_events[t.fd][t.e]
        BY <2>0, <2>3 DEF TypeOK, HookTypeOK
      <3>2. PICK why \in {"timeout", "stale_timeout"} :
              /\ Wake({g}, why) /\ (why = "timeout" => call[g].id = t.id)
              /\ m_events' = [m_events EXCEPT ![t.fd][t.e] = NoFiber]
        BY <1>3, <2>3, <3>1 DEF CancelEvent
      <3>3. /\ \A h \in Fibers : pc'[h] = IF h \in {g} THEN "woken" ELSE pc[h]
            /\ \A h \in Fibers : cause'[h] = IF h \in {g} THEN why ELSE cause[h]
        BY <3>2 DEF Wake
      <3>4. why = "timeout" => \A h \in {g} : cancelled[h]
        BY <2>0, <3>2 DEF HookInv, TimerInv
      <3>5. \A x \in Fds, d \in Events : \/ m_events'[x][d] = NoFiber
                                         \/ /\ m_events'[x][d] = m_events[x][d]
                                            /\ m_events[x][d] \notin {g}
        <4>1. \A x \in Fds, d \in Events : m_events[x][d] = g => x = t.fd /\ d = t.e
          BY <2>0, <3>1, FiberAssumption DEF HookInv, EventInv
        <4> QED  BY <2>0, <3>2, <4>1 DEF TypeOK, HookTypeOK
      <3>6. /\ {g} \in SUBSET Fibers /\ why # "nothing" /\ why # "event"
            /\ \A h \in {g} : \E x \in Fds, d \in Events : m_events[x][d] = h
        BY <2>0, <3>1
      <3> QED  BY <1>0, <2>0, <2>1, <3>3, <3>4, <3>5, <3>6, HookWake
    <2> QED  BY <2>2, <2>3
  <1>4. ASSUME NEW t \in timers, Expire(t) \/ OnTimer(t) \/ SleepOver(t)  PROVE HookInv'
    BY <1>4, HookExpire, HookOnTimer, HookSleepOver
  <1> QED  BY <1>1, <1>2, <1>3, <1>4 DEF Timer, Callbacks

\* The server's own steps.
LEMMA HookServer ==
  ASSUME TypeOK, TypeOK', HookInv, NEW f \in Fibers,
         \/ TakeTask(f) \/ startAccept(f) \/ Accepted(f) \/ StopTask(f) \/ StopCloses(f)
         \/ StopClosed(f) \/ ClientCloses(f) \/ ClientOver(f) \/ ClientReads(f)
  PROVE  HookInv'
  <1>0. calls \in Nat /\ role \in [Fibers -> Roles]
        /\ client \in [Fibers -> Numbers] /\ task.clients \subseteq Fds /\ Listener \in Fds
        /\ Fds \subseteq Numbers
    BY ServerAssumption, RecordTypes DEF TypeOK, HookTypeOK, ServerTypeOK, Roles
  <1>D. ASSUME Done(f), pc[f] = "run"
        PROVE  \A g \in Fibers : \/ role'[g] = role[g] /\ client'[g] = client[g]
                                 \/ /\ pc[g] = "run" /\ (role'[g] # "none" => use.ops[g] = {})
                                    /\ role'[g] \in {"handleClient", "over"} => client'[g] \in Fds
    BY <1>0, <1>D DEF Done
  <1>S. UNCHANGED hookVars => /\ KernelInv' /\ Attempts(Fibers) /\ TimeoutHonest' /\ ConnectHonest'
                              /\ UNCHANGED <<use, pc, call, cancelled, m_events, expired, cause>>
                              /\ timers' \subseteq timers /\ calls' >= calls
    <2>1. UNCHANGED hookVars =>
            UNCHANGED <<use, kernel, pc, call, cancelled, m_events, timers, calls, expired, cause, last>>
      BY DEF hookVars, fibers, history
    <2> QED  BY <1>0, <2>1, HookQuiet
  <1>1. CASE TakeTask(f)
    <2>1. /\ UNCHANGED hookVars
          /\ \E r \in {"startAccept", "stop", "handleClient"} :
                /\ role' = [role EXCEPT ![f] = r]
                /\ r # "handleClient" => UNCHANGED client
                /\ r = "handleClient" => \E fd \in task.clients : client' = [client EXCEPT ![f] = fd]
          /\ pc[f] = "run" /\ use.ops[f] = {}
      BY <1>1 DEF TakeTask, Free
    <2>2. \A g \in Fibers : \/ role'[g] = role[g] /\ client'[g] = client[g]
                            \/ /\ pc[g] = "run" /\ (role'[g] # "none" => use.ops[g] = {})
                               /\ role'[g] \in {"handleClient", "over"} => client'[g] \in Fds
      BY <1>0, <2>1
    <2> QED  BY <1>S, <2>1, <2>2, HookStill
  <1>2. CASE startAccept(f)
    <2>0. role[f] = "startAccept" /\ pc[f] = "run"  BY <1>2 DEF startAccept
    <2>1. CASE m_isStop
      <3>1. Done(f) /\ UNCHANGED hookVars  BY <1>2, <2>1 DEF startAccept
      <3> QED  BY <1>D, <1>S, <2>0, <3>1, HookStill
    <2>2. CASE ~m_isStop
      <3>1. /\ call' = [call EXCEPT ![f] = AcceptCall]
            /\ cancelled' = [cancelled EXCEPT ![f] = FALSE]
            /\ pc' = [pc EXCEPT ![f] = IF m_sock = -1 \/ Direct(m_sock) THEN "direct" ELSE "fun"]
            /\ UNCHANGED <<use, m_datas, kernel, m_events, timers, calls, expired, cause, last, failed, role, client>>
        BY <1>2, <2>2 DEF startAccept, Goto, history
      <3>2. PICK l \in {"direct", "fun"} :
              pc' = [pc EXCEPT ![f] = l] /\ (l = "fun" => m_sock \in Fds)
        BY <1>0, <3>1 DEF TypeOK, ServerTypeOK
      <3>3. PICK c : c = AcceptCall  OBVIOUS
      <3>4. c.op = "accept" /\ c.fd = m_sock /\ c.to = "forever" /\ c.id = 0
        BY <3>3 DEF AcceptCall
      <3>5. Legal(c, l, role[f])  BY <2>0, <3>2, <3>4 DEF Legal
      <3>6. /\ KernelInv' /\ Attempts(Fibers \ {f}) /\ TimeoutHonest' /\ ConnectHonest'
            /\ timers' \subseteq timers /\ calls' >= calls /\ c.id <= calls'
        BY <1>0, <3>1, <3>4, HookQuiet
      <3> QED  BY <2>0, <3>1, <3>2, <3>3, <3>4, <3>5, <3>6, HookFiber DEF Closers
    <2> QED  BY <2>1, <2>2
  <1>3. CASE Accepted(f)
    <2>1. /\ Return(f, "n") /\ pc[f] = "created" /\ "n" \in Results
          /\ UNCHANGED <<use, kernel, cancelled, m_events, timers, calls, expired, cause, failed>>
          /\ UNCHANGED <<role, client>>
      BY <1>3 DEF Accepted, Results
    <2>2. KernelInv' /\ Attempts(Fibers \ {f})  BY <2>1, HookQuiet
    <2> QED  BY <2>1, <2>2, HookReturn
  <1>4. CASE StopTask(f)
    <2>1. /\ role[f] = "stop" /\ CancelAll(Listener) /\ role' = [role EXCEPT ![f] = "close"]
          /\ UNCHANGED <<use, m_datas, kernel, call, cancelled, timers, calls, expired, last, failed>>
          /\ UNCHANGED client
      BY <1>4 DEF StopTask
    <2>2. pc[f] = "run" /\ use.ops[f] = {}  BY <2>1 DEF HookInv, CallInv, Closers
    <2>3. \A g \in Fibers : \/ role'[g] = role[g] /\ client'[g] = client[g]
                            \/ /\ pc[g] = "run" /\ (role'[g] # "none" => use.ops[g] = {})
                               /\ role'[g] \in {"handleClient", "over"} => client'[g] \in Fds
      BY <1>0, <2>1, <2>2
    <2>4. TimeoutHonest' /\ ConnectHonest' /\ calls' >= calls  BY <1>0, <2>1, HookQuiet
    <2> QED  BY <1>0, <2>1, <2>3, <2>4, HookCancelAll
  <1>5. CASE StopCloses(f)
    <2>1. /\ role[f] = "close" /\ CancelAll(Listener) /\ role' = [role EXCEPT ![f] = "closed"]
          /\ UNCHANGED <<use, kernel, call, cancelled, timers, calls, expired, last, failed>>
          /\ UNCHANGED client
      BY <1>5 DEF StopCloses
    <2>2. pc[f] = "run" /\ use.ops[f] = {}  BY <2>1 DEF HookInv, CallInv, Closers
    <2>3. \A g \in Fibers : \/ role'[g] = role[g] /\ client'[g] = client[g]
                            \/ /\ pc[g] = "run" /\ (role'[g] # "none" => use.ops[g] = {})
                               /\ role'[g] \in {"handleClient", "over"} => client'[g] \in Fds
      BY <1>0, <2>1, <2>2
    <2>4. TimeoutHonest' /\ ConnectHonest' /\ calls' >= calls  BY <1>0, <2>1, HookQuiet
    <2> QED  BY <1>0, <2>1, <2>3, <2>4, HookCancelAll
  <1>6. CASE StopClosed(f)
    <2>1. /\ role[f] \in {"stop", "close", "closed"} /\ Done(f)
          /\ UNCHANGED <<use, kernel, pc, call, cancelled, m_events, timers, calls, expired,
                         cause, last, failed>>
      BY <1>6 DEF StopClosed, fibers, history
    <2>2. pc[f] = "run"  BY <2>1 DEF HookInv, CallInv, Closers
    <2>3. TimeoutHonest' /\ ConnectHonest' /\ calls' >= calls  BY <1>0, <2>1, HookQuiet
    <2> QED  BY <1>0, <1>D, <2>1, <2>2, <2>3, HookCancelAll
  <1>8. CASE ClientCloses(f)
    <2>1. /\ role[f] = "handleClient" /\ pc[f] = "run"
          /\ CancelAll(client[f]) /\ role' = [role EXCEPT ![f] = "over"]
          /\ UNCHANGED <<use, kernel, call, cancelled, timers, calls, expired, last, failed>>
          /\ UNCHANGED client
      BY <1>8 DEF ClientCloses
    <2>2. client[f] \in Fds /\ use.ops[f] = {}  BY <2>1 DEF HookInv, CallInv
    <2>3. \A g \in Fibers : \/ role'[g] = role[g] /\ client'[g] = client[g]
                            \/ /\ pc[g] = "run" /\ (role'[g] # "none" => use.ops[g] = {})
                               /\ role'[g] \in {"handleClient", "over"} => client'[g] \in Fds
      BY <1>0, <2>1, <2>2
    <2>4. TimeoutHonest' /\ ConnectHonest' /\ calls' >= calls  BY <1>0, <2>1, HookQuiet
    <2> QED  BY <2>1, <2>2, <2>3, <2>4, HookCancelAll
  <1>9. CASE ClientOver(f)
    <2>1. /\ role[f] = "over" \/ pc[f] = "run"
          /\ Done(f) /\ last' = [last EXCEPT ![f] = NoneYet]
          /\ UNCHANGED <<use, kernel, pc, call, cancelled, m_events, timers, calls, expired,
                         cause, failed>>
      BY <1>9 DEF ClientOver, fibers
    <2>2. pc[f] = "run"  BY <2>1 DEF HookInv, CallInv, Closers
    <2>3. last'[f] = NoneYet /\ \A g \in Fibers \ {f} : last'[g] = last[g]
      BY <2>1 DEF TypeOK, HookTypeOK
    <2>4. TimeoutHonest' /\ ConnectHonest'
      BY <2>3 DEF HookInv, TimeoutHonest, ConnectHonest, NoneYet
    <2>5. calls' >= calls  BY <1>0, <2>1
    <2> QED  BY <1>0, <1>D, <2>1, <2>2, <2>4, <2>5, HookCancelAll
  <1>7. CASE ClientReads(f)
    <2>1. /\ role[f] = "handleClient" /\ pc[f] = "run"
          /\ Begin(f, "io", client[f], "READ",
                   IF Direct(client[f]) THEN "forever" ELSE Get(client[f]).m_timeout["READ"])
          /\ Goto(f, IF Direct(client[f]) THEN "direct" ELSE "fun")
          /\ UNCHANGED <<use, m_datas, kernel, m_events, timers, expired, cause, last, failed>>
          /\ UNCHANGED <<role, client>>
      BY <1>7 DEF ClientReads, server
    <2>2. client[f] \in Fds /\ client[f] \in Numbers /\ "READ" \in Events
      BY <1>0, <2>1 DEF HookInv, CallInv, Events
    <2>3. PICK to \in Timeouts :
            to = IF Direct(client[f]) THEN "forever" ELSE Get(client[f]).m_timeout["READ"]
      <3>1. CASE Get(client[f]).there
        <4>1. Get(client[f]) \in Context  BY <2>2, <3>1, CtxType
        <4> QED  BY <2>2, <4>1 DEF Context, Timeouts
      <3> QED  BY <3>1 DEF Direct, Timeouts
    <2>4. PICK l \in {"direct", "fun"} : pc' = [pc EXCEPT ![f] = l]
      BY <2>1 DEF Goto
    <2>5. KernelInv' /\ Attempts(Fibers) /\ Begin(f, "io", client[f], "READ", to)
      BY <2>1, <2>3, HookQuiet
    <2> QED  BY <2>1, <2>2, <2>4, <2>5, HookBegin DEF Closers
  <1> QED  BY <1>1, <1>2, <1>3, <1>4, <1>5, <1>6, <1>7, <1>8, <1>9

LEMMA HookStart ==
  ASSUME Init
  PROVE  TypeOK /\ HookInv
  <1> USE DEF Init, HookInit, ServerInit
  <1>0. use \in Use /\ use \in Uses  BY HookAssumption
  <1>1. \A fd \in Fds : kernel[fd] = Closed
                        \/ /\ use.init[fd] \in {"new", "connected", "listening"}
                           /\ kernel[fd] = [Opened(use.init[fd]) EXCEPT !.nonblock = TRUE]
    BY <1>0 DEF Use
  <1>2. \A fd \in Fds : /\ kernel[fd] \in Descriptor
                        /\ ~kernel[fd].open => kernel[fd] = Closed
                        /\ kernel[fd].ready = {}
    <2>1. ASSUME NEW s \in {"new", "connected", "listening"}
          PROVE  /\ [Opened(s) EXCEPT !.nonblock = TRUE] \in Descriptor
                 /\ [Opened(s) EXCEPT !.nonblock = TRUE].open
                 /\ [Opened(s) EXCEPT !.nonblock = TRUE].ready = {}
      <3>1. Opened(s) \in Descriptor /\ Opened(s).open /\ Opened(s).ready = {}
        BY RecordTypes DEF Opened
      <3> HIDE DEF Opened
      <3> QED  BY <3>1 DEF Descriptor
    <2>2. Closed \in Descriptor /\ Closed.ready = {}  BY RecordTypes DEF Closed
    <2> QED  BY <1>1, <2>1, <2>2
  <1>3. kernel \in [Fds -> Descriptor]
    <2>1. DOMAIN kernel = Fds /\ kernel = [fd \in Fds |-> kernel[fd]]  OBVIOUS
    <2> QED  BY <1>2, <2>1
  <1>4. m_datas \in [Fds -> Context \cup {NoCtx}]
    <2>1. ASSUME NEW fd \in Fds  PROVE FdCtx(fd) \in Context
      <3>1. kernel[fd].open \in BOOLEAN  BY <1>2 DEF Descriptor
      <3> QED  BY <3>1 DEF FdCtx, Context, Timeouts
    <2> QED  BY <2>1
  <1>5. HookTypeOK
    BY <1>0, <1>3, <1>4, RecordTypes DEF HookTypeOK, Causes
  <1>6. ServerTypeOK
    <2>1. use.server \in BOOLEAN  BY <1>0 DEF Use
    <2> QED  BY <2>1, RecordTypes DEF ServerTypeOK, Roles
  <1>7. \A f \in Fibers : /\ call[f] = NoCall /\ pc[f] = "run" /\ ~cancelled[f]
                          /\ last[f] = NoneYet /\ role[f] = "none"
    OBVIOUS
  <1>8. NoCall.op = "none" /\ NoCall.id = 0 /\ NoneYet.res = "none" /\ NoneYet.op = "none"
    BY DEF NoCall, NoneYet
  <1>9. CallInv  BY <1>7, <1>8 DEF CallInv, Legal
  <1>10. EventInv /\ TimerInv  BY DEF EventInv, TimerInv
  <1>11. CancelledInv /\ ConnectInv  BY <1>7, <1>8 DEF CancelledInv, ConnectInv
  <1>12. KernelInv  BY <1>2 DEF KernelInv
  <1>13. TimeoutHonest /\ ConnectHonest  BY <1>7, <1>8 DEF TimeoutHonest, ConnectHonest
  <1> QED  BY <1>5, <1>6, <1>9, <1>10, <1>11, <1>12, <1>13 DEF HookInv, TypeOK

LEMMA HookStep ==
  ASSUME TypeOK, HookInv, [Next]_vars
  PROVE  TypeOK' /\ HookInv'
  <1>0. TypeOK'  BY TypeStep
  <1>1. CASE UNCHANGED vars \/ start \/ stop
    <2>1. UNCHANGED <<hookVars, role, client>>  BY <1>1 DEF vars, server, start, stop
    <2>2. UNCHANGED <<use, kernel, pc, call, cancelled, m_events, timers, calls, expired, cause, last>>
      BY <2>1 DEF hookVars, fibers, history
    <2>3. KernelInv' /\ Attempts(Fibers) /\ TimeoutHonest' /\ ConnectHonest'
      BY <2>2, HookQuiet
    <2>4. calls' >= calls /\ timers' \subseteq timers  BY <2>2 DEF TypeOK, HookTypeOK
    <2> QED  BY <1>0, <2>1, <2>2, <2>3, <2>4, HookStill
  <1>2. CASE (Kernel \/ Epoll \/ \E f \in Fibers : Timer(f) \/ Callbacks(f)) /\ UNCHANGED server
    BY <1>0, <1>2, HookOutside
  <1>3. ASSUME NEW f \in Fibers, Fiber(f) \/ ClientReads(f) \/ (Client(f) /\ UNCHANGED server)
        PROVE  HookInv'
    BY <1>0, <1>3, HookInside, HookClient, HookServer DEF Fiber
  <1> QED  BY <1>0, <1>1, <1>2, <1>3 DEF Next

-----------------------------------------------------------------------------
(* The theorems that need no more than that.                               *)

\* Calls, events, timers and connection attempts keep to one another in every
\* reachable state: the inductive invariant behind the two theorems below.
THEOREM HookInvariant == Spec => [](TypeOK /\ HookInv)
  <1>1. Init => TypeOK /\ HookInv  BY HookStart
  <1>2. (TypeOK /\ HookInv) /\ [Next]_vars => (TypeOK /\ HookInv)'  BY HookStep
  <1> QED  BY <1>1, <1>2, PTL DEF Spec

\* No call returns ETIMEDOUT unless its own timer has expired, whatever the
\* callbacks of earlier calls do (hook.cc: do_io and connect_with_timeout).
THEOREM TimeoutsAreHonest == Spec => []TimeoutHonest
  <1>1. TypeOK /\ HookInv => TimeoutHonest  BY DEF HookInv
  <1> QED  BY <1>1, HookInvariant, PTL

\* A connect that returns 0 on a socket that is not connected was woken by a
\* close() or by a callback of an earlier call, and by nothing else.
THEOREM ConnectsAreHonest == Spec => []ConnectHonest
  <1>1. TypeOK /\ HookInv => ConnectHonest  BY DEF HookInv
  <1> QED  BY <1>1, HookInvariant, PTL

-----------------------------------------------------------------------------
(* The accept loop.                                                        *)

\* A fiber that runs a task of the server is where it was after a step of
\* another fiber, of the kernel or of a timer, unless it waits.
LEMMA RunStays ==
  ASSUME TypeOK, HookInv,
         \/ \E f \in Fibers : Inside(f) \/ Client(f)
         \/ Kernel \/ Epoll \/ \E f \in Fibers : Timer(f) \/ Callbacks(f)
  PROVE  \A g \in Fibers : role[g] # "none" /\ pc[g] = "run" => pc'[g] = "run"
  <1> SUFFICES ASSUME NEW g \in Fibers, role[g] # "none", pc[g] = "run"
               PROVE  pc'[g] = "run"
    OBVIOUS
  <1> USE DEF TypeOK, HookTypeOK
  <1>0. use.ops[g] = {} /\ \A fd \in Fds, e \in Events : m_events[fd][e] # g
    BY FiberAssumption DEF HookInv, CallInv, EventInv
  <1>1. ASSUME NEW f \in Fibers, Inside(f)  PROVE pc'[g] = "run"
    <2>1. pc[f] # "run" \/ UNCHANGED pc
      BY <1>1 DEF Inside, CloseEnds, fibers, Blocks, FunReturns, DirectAgain, FunAgain, AddEvent, Woken,
                  AcceptReturns, CreateCtx, SocketReturns, Getsockopt, SleepReturns
    <2>2. UNCHANGED pc \/ \E l : pc' = [pc EXCEPT ![f] = l]
      BY <1>1 DEF Inside, CloseEnds,
                  Blocks, FunReturns, DirectAgain, FunAgain, AddEvent, Woken, Return, Goto,
                  AcceptReturns, CreateCtx, SocketReturns, Getsockopt, SleepReturns, fibers
    <2> QED  BY <2>1, <2>2
  <1>2. ASSUME NEW f \in Fibers, Client(f)  PROVE pc'[g] = "run"
    <2>1. f # g
      BY <1>0, <1>2 DEF Client, do_io, socket, connect, close, close_f, setsockopt, fcntl, ioctl,
                        sleep, Calls
    <2>2. CASE close(f)
      <3>1. UNCHANGED pc \/ \E fd \in Fds : CancelAll(fd)  BY <2>2 DEF close
      <3>2. \A fd \in Fds : g \notin Waiting(fd)  BY <1>0 DEF Waiting
      <3> QED  BY <3>1, <3>2 DEF CancelAll, Wake
    <2>3. CASE ~close(f)
      <3>1. UNCHANGED pc \/ \E l : pc' = [pc EXCEPT ![f] = l]
        BY <1>2, <2>3 DEF Client, do_io, socket, connect, close_f, setsockopt, fcntl, ioctl,
                          sleep, Quick, Goto, fibers
      <3> QED  BY <2>1, <3>1
    <2> QED  BY <2>2, <2>3
  <1>3. CASE Kernel
    BY <1>3 DEF Kernel, ConnectEnds, Arrive, fibers
  <1>4. CASE Epoll
    BY <1>0, <1>4 DEF Epoll, TriggerEvent, Wake
  <1>5. ASSUME NEW t \in timers, Expire(t) \/ OnTimer(t) \/ CancelEvent(t) \/ SleepOver(t)
        PROVE  pc'[g] = "run"
    <2>1. CASE Expire(t) \/ OnTimer(t)  BY <2>1 DEF Expire, OnTimer
    <2>2. CASE CancelEvent(t)
      <3>1. t.fd \in Fds /\ t.e \in Events  BY <2>2 DEF CancelEvent, HookInv, TimerInv, TimerCb
      <3> QED  BY <1>0, <2>2, <3>1 DEF CancelEvent, Wake
    <2>3. CASE SleepOver(t)
      <3>1. pc[t.f] = "hold"  BY <2>3 DEF SleepOver, HookInv, TimerInv
      <3> QED  BY <2>3, <3>1 DEF SleepOver, Wake
    <2> QED  BY <1>5, <2>1, <2>2, <2>3
  <1> QED  BY <1>1, <1>2, <1>3, <1>4, <1>5 DEF Timer, Callbacks

LEMMA UseKept ==
  ASSUME [Next]_vars
  PROVE  UNCHANGED use
  <1>1. CASE UNCHANGED vars  BY <1>1 DEF vars, hookVars
  <1>2. CASE start \/ stop  BY <1>2 DEF start, stop, hookVars
  <1>3. CASE Kernel \/ Epoll \/ \E f \in Fibers : Timer(f) \/ Callbacks(f)
    BY <1>3 DEF Kernel, ConnectEnds, Arrive, Epoll, TriggerEvent, Timer, Expire, Callbacks,
                OnTimer, CancelEvent, SleepOver, Timed
  <1>4. ASSUME NEW f \in Fibers, Inside(f) \/ Client(f)  PROVE UNCHANGED use
    BY <1>4 DEF Inside, Blocks, FunReturns, DirectAgain, FunAgain, AddEvent, Woken,
                AcceptReturns, CreateCtx, SocketReturns, Getsockopt, SleepReturns, CloseEnds,
                Client, do_io, socket, connect, close, close_f, setsockopt, fcntl, ioctl,
                sleep, Quick
  <1>5. ASSUME NEW f \in Fibers,
               \/ TakeTask(f) \/ startAccept(f) \/ Accepted(f) \/ StopTask(f) \/ StopCloses(f)
               \/ StopClosed(f) \/ ClientCloses(f) \/ ClientOver(f) \/ ClientReads(f)
        PROVE  UNCHANGED use
    BY <1>5 DEF TakeTask, startAccept, Accepted, StopTask, StopCloses,
                StopClosed, ClientCloses, ClientOver,
                ClientReads, hookVars
  <1> QED  BY <1>1, <1>2, <1>3, <1>4, <1>5 DEF Next, Fiber

LEMMA AcceptStart ==
  ASSUME Init
  PROVE  AcceptInv
  BY DEF Init, ServerInit, AcceptInv

LEMMA AcceptStep ==
  ASSUME TypeOK, HookInv, AcceptInv, [Next]_vars
  PROVE  AcceptInv'
  <1>U. UNCHANGED use  BY UseKept
  <1> SUFFICES ASSUME ~use.restart  PROVE AcceptInv'
    BY <1>U DEF AcceptInv
  <1>0. /\ starts \in Nat /\ late \in Nat /\ starts <= 1 /\ late <= 1
        /\ task \in [accept : Nat, stop : Nat, clients : SUBSET Fds] /\ task.accept \in Nat
        /\ role \in [Fibers -> Roles]
        /\ m_isStop \in BOOLEAN /\ pc \in [Fibers -> {"run", "direct", "fun", "blocked", "add",
                                   "hold", "woken", "getsockopt", "create", "created"}]
    BY DEF TypeOK, HookTypeOK, ServerTypeOK, AcceptInv, Roles
  <1>Q. ASSUME UNCHANGED server,
               \A g \in Fibers : role[g] # "none" /\ pc[g] = "run" => pc'[g] = "run"
        PROVE  AcceptInv'
    <2>1. UNCHANGED <<starts, late, task, role, m_isStop>>  BY <1>Q DEF server
    <2> QED  BY <1>U, <1>Q, <2>1 DEF AcceptInv
  <1>1. CASE UNCHANGED vars
    <2>1. UNCHANGED server /\ UNCHANGED pc  BY <1>1 DEF vars, hookVars, fibers
    <2> QED  BY <1>Q, <2>1
  <1>2. CASE start
    <2>1. /\ starts = 0 /\ starts' = 1 /\ UNCHANGED <<role, late>> /\ m_isStop /\ late = 0
          /\ \E n \in {0, 1} : task' = [task EXCEPT !.accept = @ + n]
      <3>1. starts < 1 /\ starts' = starts + 1 /\ UNCHANGED <<role, late>>
        BY <1>2 DEF start
      <3>2. starts = 0 /\ m_isStop /\ late = 0  BY <1>0, <3>1 DEF AcceptInv
      <3>3. task' = [task EXCEPT !.accept = @ + IF m_socks THEN 1 ELSE 0]
        BY <1>2, <3>2 DEF start
      <3> QED  BY <3>1, <3>2, <3>3
    <2>2. task'.accept <= 1 /\ \A g \in Fibers : role[g] # "startAccept"
      <3>1. task.accept = 0 /\ \A g \in Fibers : role[g] # "startAccept"  BY <2>1 DEF AcceptInv
      <3> QED  BY <1>0, <2>1, <3>1
    <2> QED  BY <2>1, <2>2 DEF AcceptInv
  <1>3. CASE stop
    <2>1. /\ starts > 0 /\ m_isStop' /\ late' = 0 /\ UNCHANGED <<role, starts>>
          /\ task' = [task EXCEPT !.stop = @ + 1]
      BY <1>3 DEF stop
    <2>2. task'.accept = task.accept  BY <1>0, <2>1
    <2> QED  BY <1>0, <2>1, <2>2 DEF AcceptInv
  <1>4. CASE (Kernel \/ Epoll \/ \E f \in Fibers : Timer(f) \/ Callbacks(f)) /\ UNCHANGED server
    BY <1>4, <1>Q, RunStays
  <1>5. ASSUME NEW f \in Fibers, Inside(f) \/ Client(f), UNCHANGED server  PROVE AcceptInv'
    BY <1>5, <1>Q, RunStays
  <1>6. ASSUME NEW f \in Fibers, TakeTask(f)  PROVE AcceptInv'
    <2>1. /\ UNCHANGED <<m_isStop, starts, late>> /\ UNCHANGED pc /\ role[f] = "none"
          /\ \/ /\ task.accept > 0 /\ task' = [task EXCEPT !.accept = @ - 1]
                /\ role' = [role EXCEPT ![f] = "startAccept"]
             \/ /\ \E r \in {"stop", "handleClient"} : role' = [role EXCEPT ![f] = r]
                /\ \/ task' = [task EXCEPT !.stop = @ - 1]
                   \/ \E fd \in task.clients : task' = [task EXCEPT !.clients = @ \ {fd}]
      BY <1>6 DEF TakeTask, Free, hookVars, fibers
    <2>2. CASE task.accept > 0 /\ task' = [task EXCEPT !.accept = @ - 1]
               /\ role' = [role EXCEPT ![f] = "startAccept"]
      <3>1. task.accept = 1 /\ task'.accept = 0  BY <1>0, <2>2 DEF AcceptInv
      <3>2. late # 1 /\ starts # 0  BY <1>0, <3>1 DEF AcceptInv
      <3>3. \A g \in Fibers : role'[g] = "startAccept" => g = f
        BY <1>0, <2>2, <3>1 DEF AcceptInv
      <3> QED  BY <1>0, <2>1, <3>1, <3>2, <3>3 DEF AcceptInv
    <2>3. CASE \E r \in {"stop", "handleClient"} : role' = [role EXCEPT ![f] = r]
               /\ \/ task' = [task EXCEPT !.stop = @ - 1]
                  \/ \E fd \in task.clients : task' = [task EXCEPT !.clients = @ \ {fd}]
      <3>1. task'.accept = task.accept  BY <1>0, <2>3
      <3>2. \A g \in Fibers : role'[g] = "startAccept" => role[g] = "startAccept"
        BY <1>0, <2>3
      <3> QED  BY <1>0, <2>1, <3>1, <3>2 DEF AcceptInv
    <2> QED  BY <2>1, <2>2, <2>3
  <1>7. ASSUME NEW f \in Fibers, startAccept(f)  PROVE AcceptInv'
    <2>1. /\ UNCHANGED <<m_isStop, starts, late, task>> /\ role[f] = "startAccept"
          /\ \A g \in Fibers : role'[g] = "startAccept" => role[g] = "startAccept"
          /\ m_isStop => UNCHANGED pc
      BY <1>0, <1>7 DEF startAccept, hookVars, fibers, Done
    <2> QED  BY <1>0, <2>1 DEF AcceptInv
  <1>8. ASSUME NEW f \in Fibers, Accepted(f)  PROVE AcceptInv'
    <2>1. /\ UNCHANGED <<m_isStop, starts, role>> /\ pc[f] = "created" /\ call[f].op = "accept"
          /\ pc' = [pc EXCEPT ![f] = "run"] /\ late' \in {late, late + 1}
          /\ late' = late + 1 => m_isStop
          /\ task' = task \/ task' = [task EXCEPT !.clients = @ \cup {call[f].fd}]
      BY <1>0, <1>8 DEF Accepted, Return, Goto
    <2>2. role[f] = "startAccept"  BY <2>1 DEF HookInv, CallInv, Legal
    <2>3. task'.accept = task.accept  BY <1>0, <2>1
    <2>4. task.accept = 0 /\ late = 0 /\ starts # 0
      BY <1>0, <2>1, <2>2 DEF AcceptInv
    <2> QED  BY <1>0, <2>1, <2>2, <2>3, <2>4 DEF AcceptInv
  <1>9. ASSUME NEW f \in Fibers,
               StopTask(f) \/ StopCloses(f) \/ StopClosed(f) \/ ClientCloses(f) \/ ClientOver(f)
        PROVE  AcceptInv'
    <2>1. /\ UNCHANGED <<m_isStop, starts, late, task>>
          /\ \A g \in Fibers : role'[g] = "startAccept" => role[g] = "startAccept"
      BY <1>0, <1>9 DEF StopTask, StopCloses, StopClosed, ClientCloses, ClientOver, Done
    <2>2. UNCHANGED pc \/ \E fd \in Fds : CancelAll(fd)
      <3>1. ClientCloses(f) => client[f] \in Fds  BY DEF ClientCloses, HookInv, CallInv
      <3> QED  BY <1>9, <3>1, ServerAssumption
             DEF StopTask, StopCloses, StopClosed, ClientCloses, ClientOver, fibers
    <2>3. \A g \in Fibers : pc[g] = "run" => pc'[g] = "run"
      <3>1. \A g \in Fibers, fd \in Fds : pc[g] = "run" => g \notin Waiting(fd)
        BY FiberAssumption DEF Waiting, HookInv, EventInv
      <3> QED  BY <2>2, <3>1 DEF CancelAll, Wake
    <2> QED  BY <1>0, <2>1, <2>3 DEF AcceptInv
  <1>10. ASSUME NEW f \in Fibers, ClientReads(f)  PROVE AcceptInv'
    <2>1. /\ UNCHANGED <<m_isStop, starts, late, task, role>> /\ role[f] = "handleClient"
          /\ \E l : pc' = [pc EXCEPT ![f] = l]
      BY <1>10 DEF ClientReads, server, Goto
    <2> QED  BY <1>0, <2>1 DEF AcceptInv
  <1> QED
    BY <1>1, <1>2, <1>3, <1>4, <1>5, <1>6, <1>7, <1>8, <1>9, <1>10 DEF Next, Fiber

\* However stop() falls between the accept loop's check and its accept, a
\* server that is not restarted takes one client more at most
\* (tcp_server.cc: startAccept and stop).
THEOREM OneLateClient == Spec => []LateClients
  <1>1. Init => AcceptInv  BY AcceptStart
  <1>2. TypeOK /\ HookInv /\ AcceptInv /\ [Next]_vars => AcceptInv'  BY AcceptStep
  <1>3. AcceptInv => LateClients  BY DEF AcceptInv, LateClients
  <1> QED  BY <1>1, <1>2, <1>3, HookInvariant, PTL DEF Spec

-----------------------------------------------------------------------------
(* The descriptors: who waits for what, and O_NONBLOCK.                    *)

\* A fiber is inside a call, or it has none.
LEMMA RunIsNoCall ==
  ASSUME TypeOK, HookInv, NEW g \in Fibers
  PROVE  /\ pc[g] = "run" <=> call[g] = NoCall
         /\ call[g].op = "none" <=> call[g] = NoCall
         /\ NoCall.op = "none" /\ NoCall.fd = -1
         /\ call[g].fd \in Fds \/ call[g].fd = -1
  <1>1. call[g] \in Call /\ call[g].op \in CallOps /\ call[g].fd \in Numbers
    BY DEF TypeOK, HookTypeOK, Call
  <1>2. Legal(call[g], pc[g], role[g])  BY DEF HookInv, CallInv
  <1>3. NoCall.op = "none" /\ NoCall.fd = -1  BY DEF NoCall
  <1> QED  BY <1>1, <1>2, <1>3 DEF Legal, CallOps, Numbers

\* What a step may do that begins no call: fibers go on in their calls or end
\* them, roles end, contexts change their timeouts or go.
GoesOn ==
    \A g \in Fibers :
        \/ call'[g] = call[g] /\ pc'[g] = pc[g]
        \/ /\ call'[g] = call[g]
           /\ pc[g] \in {"direct", "fun", "add", "hold", "woken"}
           /\ pc'[g] \in {"fun", "add", "hold", "woken", "getsockopt", "blocked"}
        \/ call'[g] = call[g] /\ pc[g] = "create" /\ pc'[g] = "created"
        \/ call'[g] = NoCall /\ pc'[g] = "run" /\ pc[g] # "create"
NobodyBlocks ==
    \A g \in Fibers : /\ pc'[g] = "blocked" => pc[g] = "blocked"
                      /\ pc[g] = "create" => pc'[g] = "create"
RolesEnd ==
    /\ task'.clients = task.clients
    /\ use.server \/ UNCHANGED <<task, starts>>
    /\ \A g \in Fibers :
          \/ role'[g] = role[g] /\ client'[g] = client[g]
          \/ use.server /\ pc[g] = "run" /\ role'[g] # "handleClient"
KernelKept ==
    \A fd \in Fds :
        /\ kernel'[fd].open = kernel[fd].open /\ kernel'[fd].nonblock = kernel[fd].nonblock
        /\ kernel'[fd].state = kernel[fd].state \/ kernel[fd].state # "new" \/ Get(fd).there
ContextsKept ==
    \A fd \in Fds : m_datas'[fd].there =>
        /\ m_datas[fd].there /\ m_datas'[fd].m_isSocket = m_datas[fd].m_isSocket
        /\ m_datas'[fd].m_userNonblock = m_datas[fd].m_userNonblock
NoNewAgain ==
    \A g \in Fibers : \/ last'[g] = last[g] \/ last'[g].res # "EAGAIN"
                      \/ /\ last'[g].fd \in Fds /\ ~m_datas'[last'[g].fd].there
                         /\ kernel'[last'[g].fd].nonblock

LEMMA SocketQuiet ==
  ASSUME TypeOK, HookInv, SocketInv, SoleInv, UNCHANGED use, GoesOn, RolesEnd,
         \A fd \in Fds : kernel[fd].open => kernel'[fd].open
  PROVE  SocketInv' /\ SoleInv'
  <1>0. \A g \in Fibers : /\ call[g].fd \in Fds \/ call[g].fd = -1
                          /\ pc[g] = "run" <=> call[g] = NoCall
                          /\ call[g].op = "none" <=> call[g] = NoCall
                          /\ NoCall.op = "none" /\ NoCall.fd = -1
    BY RunIsNoCall
  <1>1. \A g \in Fibers : call'[g] \in {call[g], NoCall}  BY DEF GoesOn
  <1>2. SoleInv'
    BY <1>0, <1>1 DEF SoleInv
  <1>3. \A g \in Fibers : call'[g].fd # -1 => kernel'[call'[g].fd].open
    BY <1>0, <1>1 DEF SocketInv
  <1>4. \A g \in Fibers : /\ Serving(g)' => Serving(g) /\ client'[g] = client[g]
                          /\ Coming(g)' => Coming(g) /\ call'[g] = call[g]
    BY <1>0 DEF Serving, Coming, GoesOn, RolesEnd
  <1>5. CASE use.server
    <2>1. Listener \in Fds /\ task.clients \subseteq Fds
      BY ServerAssumption DEF TypeOK, ServerTypeOK
    <2>2. /\ kernel'[Listener].open /\ Listener \notin task.clients
          /\ \A fd \in task.clients : kernel'[fd].open
      BY <1>5, <2>1 DEF SocketInv
    <2>3. ASSUME NEW g \in Fibers, call'[g].op # "none"
          PROVE  /\ call'[g].e = "READ"
                 /\ \/ call'[g].op = "io" /\ Serving(g)' /\ call'[g].fd = client'[g]
                    \/ call'[g].op = "accept" /\ (call'[g].fd \in {Listener, -1} \/ Coming(g)')
      <3>1. call'[g] = call[g] /\ call[g].op # "none" /\ pc[g] # "run"  BY <1>0, <1>1, <2>3
      <3>2. role'[g] = role[g] /\ client'[g] = client[g]  BY <3>1 DEF RolesEnd
      <3>3. Coming(g) => Coming(g)'
        BY <1>0, <3>1 DEF Coming, GoesOn
      <3> QED  BY <1>5, <3>1, <3>2, <3>3 DEF SocketInv, Serving
    <2>4. ASSUME NEW g \in Fibers, Coming(g)'
          PROVE  /\ call'[g].fd # Listener /\ call'[g].fd \notin task.clients
                 /\ \A h \in Fibers \ {g} : Coming(h)' => call'[h].fd # call'[g].fd
                 /\ \A h \in Fibers : Serving(h)' => client'[h] # call'[g].fd
      BY <1>4, <1>5, <2>4 DEF SocketInv
    <2>5. ASSUME NEW g \in Fibers, Serving(g)'
          PROVE  /\ kernel'[client'[g]].open
                 /\ client'[g] # Listener /\ client'[g] \notin task.clients
                 /\ \A h \in Fibers \ {g} : Serving(h)' => client'[h] # client'[g]
      <3>1. client[g] \in Fds  BY <1>4, <2>5 DEF HookInv, CallInv, Serving
      <3> QED  BY <1>4, <1>5, <2>5, <3>1 DEF SocketInv
    <2>6. use' = use /\ task'.clients = task.clients  BY DEF RolesEnd
    <2> QED  BY <1>2, <1>3, <1>5, <2>2, <2>3, <2>4, <2>5, <2>6 DEF SocketInv
  <1>6. CASE ~use.server
    <2>1. \A g \in Fibers : role'[g] = "none"  BY <1>6 DEF SocketInv, RolesEnd
    <2>2. use' = use /\ task' = task /\ starts' = starts  BY <1>6 DEF RolesEnd
    <2> QED  BY <1>2, <1>3, <1>6, <2>1, <2>2 DEF SocketInv
  <1> QED  BY <1>2, <1>5, <1>6

LEMMA NonblockQuiet ==
  ASSUME TypeOK, HookInv, SocketInv, NonblockInv, UNCHANGED use, GoesOn, RolesEnd,
         Untouched => NobodyBlocks, KernelKept, ContextsKept, NoNewAgain
  PROVE  NonblockInv'
  <1> SUFFICES ASSUME Untouched  PROVE NonblockInv'
    BY DEF NonblockInv, Untouched
  <1> USE DEF Get, KernelKept, ContextsKept, NoNewAgain, NobodyBlocks
  <1>0. \A g \in Fibers : /\ call[g].fd \in Fds \/ call[g].fd = -1
                          /\ NoCall.op = "none" /\ NoCall.fd = -1
                          /\ pc[g] = "create" => call[g].fd \in Fds
    <2>1. \A g \in Fibers : pc[g] = "create" => call[g].fd \in Fds
      BY DEF HookInv, CallInv, Legal, TypeOK, HookTypeOK, Call, CallOps
    <2> QED  BY <2>1, RunIsNoCall
  <1>1. \A fd \in Fds : m_datas'[fd].there =>
           /\ kernel'[fd].open /\ kernel'[fd].nonblock
           /\ m_datas'[fd].m_isSocket /\ ~m_datas'[fd].m_userNonblock
    BY DEF NonblockInv
  <1>2. \A g \in Fibers : /\ pc'[g] = "create" <=> pc[g] = "create"
                          /\ pc'[g] \in {"create", "created"} => call'[g] = call[g] /\ pc'[g] = pc[g]
                          /\ Serving(g)' => Serving(g) /\ client'[g] = client[g]
    BY DEF GoesOn, RolesEnd, Serving
  <1>3. \A fd \in Fds : kernel'[fd].open /\ ~kernel'[fd].nonblock =>
           \E g \in Fibers : pc'[g] = "create" /\ call'[g].fd = fd
    BY <1>2 DEF NonblockInv
  <1>4. ASSUME NEW g \in Fibers, pc'[g] = "create"
        PROVE  /\ ~kernel'[call'[g].fd].nonblock /\ ~m_datas'[call'[g].fd].there
               /\ call'[g].op = "socket" => kernel'[call'[g].fd].state = "new"
               /\ \A h \in Fibers \ {g} : pc'[h] \in {"create", "created"} => call'[h].fd # call'[g].fd
               /\ \A h \in Fibers : Serving(h)' => client'[h] # call'[g].fd
               /\ call'[g].fd \notin task'.clients
    <2>1. pc[g] = "create" /\ call'[g] = call[g] /\ call[g].fd \in Fds  BY <1>0, <1>2, <1>4
    <2>2. task'.clients = task.clients  BY DEF RolesEnd
    <2>3. /\ ~kernel[call[g].fd].nonblock /\ ~m_datas[call[g].fd].there
          /\ call[g].op = "socket" => kernel[call[g].fd].state = "new"
      BY <2>1 DEF NonblockInv
    <2>4. /\ ~kernel'[call[g].fd].nonblock /\ ~m_datas'[call[g].fd].there
          /\ call[g].op = "socket" => kernel'[call[g].fd].state = "new"
      BY <2>1, <2>3
    <2>5. /\ \A h \in Fibers \ {g} : pc[h] \in {"create", "created"} => call[h].fd # call[g].fd
          /\ \A h \in Fibers : Serving(h) => client[h] # call[g].fd
          /\ call[g].fd \notin task.clients
      BY <2>1 DEF NonblockInv
    <2> QED  BY <1>2, <2>1, <2>2, <2>4, <2>5
  <1>5. ASSUME NEW g \in Fibers
        PROVE  /\ pc'[g] = "direct" /\ call'[g].fd # -1 => ~m_datas'[call'[g].fd].there
               /\ pc'[g] \in {"direct", "fun", "add", "hold", "woken"} /\ call'[g].fd # -1 =>
                     kernel'[call'[g].fd].nonblock
               /\ pc'[g] # "blocked"
               /\ last'[g].res = "EAGAIN" =>
                     /\ last'[g].fd \in Fds /\ ~m_datas'[last'[g].fd].there
                     /\ kernel'[last'[g].fd].nonblock
    BY <1>0 DEF NonblockInv, GoesOn
  <1> QED  BY <1>1, <1>3, <1>4, <1>5 DEF NonblockInv

\* A fiber begins a call, or its accept gets a descriptor.
LEMMA SocketBegin ==
  ASSUME TypeOK, HookInv, SocketInv, SoleInv, NEW f \in Fibers, NEW c \in Call, NEW l,
         call' = [call EXCEPT ![f] = c], pc' = [pc EXCEPT ![f] = l],
         UNCHANGED <<use, role, client, task, starts>>,
         \A fd \in Fds : kernel[fd].open => kernel'[fd].open,
         c.fd \in Fds => kernel'[c.fd].open,
         c.fd \in Fds /\ ~use.restart =>
            \A g \in Fibers \ {f} : call[g].fd = c.fd => call[g].e # c.e,
         use.server =>
            /\ c.e = "READ"
            /\ \/ c.op = "io" /\ Serving(f) /\ c.fd = client[f]
               \/ c.op = "accept" /\ l \notin {"create", "created"} /\ c.fd \in {Listener, -1}
               \/ c.op = "accept" /\ l \in {"create", "created"} /\ c.fd \in Fds /\ ~kernel[c.fd].open
  PROVE  SocketInv' /\ SoleInv'
  <1>0. /\ \A g \in Fibers : call[g].fd \in Fds \/ call[g].fd = -1
        /\ c.fd \in Fds \/ c.fd = -1
        /\ Listener \in Fds /\ task.clients \subseteq Fds
    BY RunIsNoCall, ServerAssumption DEF TypeOK, ServerTypeOK, Call, Numbers
  <1>1. /\ call'[f] = c /\ pc'[f] = l
        /\ \A g \in Fibers \ {f} : call'[g] = call[g] /\ pc'[g] = pc[g]
    BY DEF TypeOK, HookTypeOK
  <1>2. SoleInv'
    <2> SUFFICES ASSUME ~use.restart, NEW g \in Fibers, NEW h \in Fibers, g # h,
                        call'[g].fd = call'[h].fd, call'[g].fd # -1
                 PROVE  call'[g].e # call'[h].e
      BY DEF SoleInv
    <2>1. CASE g # f /\ h # f  BY <1>1, <2>1 DEF SoleInv
    <2>2. CASE g = f \/ h = f  BY <1>0, <1>1, <2>2
    <2> QED  BY <2>1, <2>2
  <1>3. \A g \in Fibers : call'[g].fd # -1 => kernel'[call'[g].fd].open
    <2>1. \A g \in Fibers \ {f} : call[g].fd # -1 => kernel'[call[g].fd].open
      BY <1>0 DEF SocketInv
    <2> QED  BY <1>0, <1>1, <2>1
  <1>S. /\ \A g \in Fibers : Serving(g)' <=> Serving(g)
        /\ \A g \in Fibers \ {f} : Coming(g)' <=> Coming(g)
        /\ Coming(f)' <=> c.op = "accept" /\ l \in {"create", "created"}
    BY <1>1 DEF Serving, Coming
  <1>5. CASE use.server
    <2>2. /\ kernel'[Listener].open /\ Listener \notin task.clients
          /\ \A fd \in task.clients : kernel'[fd].open
      BY <1>0, <1>5 DEF SocketInv
    <2>3. ASSUME NEW g \in Fibers, call'[g].op # "none"
          PROVE  /\ call'[g].e = "READ"
                 /\ \/ call'[g].op = "io" /\ Serving(g)' /\ call'[g].fd = client[g]
                    \/ call'[g].op = "accept" /\ (call'[g].fd \in {Listener, -1} \/ Coming(g)')
      <3>1. CASE g = f  BY <1>1, <1>5, <1>S, <3>1
      <3>2. CASE g # f  BY <1>1, <1>5, <1>S, <2>3, <3>2 DEF SocketInv
      <3> QED  BY <3>1, <3>2
    <2>F. ASSUME Coming(f)'
          PROVE  /\ c.fd \in Fds /\ ~kernel[c.fd].open /\ c.fd # Listener /\ c.fd \notin task.clients
                 /\ \A h \in Fibers : call[h].fd # c.fd
                 /\ \A h \in Fibers : Serving(h) => client[h] # c.fd
      <3>1. c.fd \in Fds /\ ~kernel[c.fd].open  BY <1>5, <1>S, <2>F
      <3> QED  BY <1>0, <1>5, <3>1, RecordTypes DEF SocketInv
    <2>4. ASSUME NEW g \in Fibers, Coming(g)'
          PROVE  /\ call'[g].fd # Listener /\ call'[g].fd \notin task.clients
                 /\ \A h \in Fibers \ {g} : Coming(h)' => call'[h].fd # call'[g].fd
                 /\ \A h \in Fibers : Serving(h)' => client[h] # call'[g].fd
      <3>1. CASE g = f  BY <1>1, <1>S, <2>F, <2>4, <3>1
      <3>2. CASE g # f
        <4>1. Coming(g) /\ call'[g] = call[g]  BY <1>1, <1>S, <2>4, <3>2
        <4>2. /\ call[g].fd # Listener /\ call[g].fd \notin task.clients
              /\ \A h \in Fibers \ {g} : Coming(h) => call[h].fd # call[g].fd
              /\ \A h \in Fibers : Serving(h) => client[h] # call[g].fd
          BY <1>5, <4>1 DEF SocketInv
        <4> QED  BY <1>1, <1>S, <2>F, <3>2, <4>1, <4>2
      <3> QED  BY <3>1, <3>2
    <2>5. ASSUME NEW g \in Fibers, Serving(g)'
          PROVE  /\ kernel'[client[g]].open
                 /\ client[g] # Listener /\ client[g] \notin task.clients
                 /\ \A h \in Fibers \ {g} : Serving(h)' => client[h] # client[g]
      <3>1. Serving(g) /\ client[g] \in Fds
        BY <1>S, <2>5 DEF HookInv, CallInv, Serving
      <3> QED  BY <1>S, <1>5, <3>1 DEF SocketInv
    <2>6. use' = use /\ task' = task /\ client' = client  OBVIOUS
    <2> QED  BY <1>2, <1>3, <1>5, <2>2, <2>3, <2>4, <2>5, <2>6 DEF SocketInv
  <1>6. CASE ~use.server
    BY <1>2, <1>3, <1>6 DEF SocketInv
  <1> QED  BY <1>5, <1>6

\* A call on a descriptor that is non-blocking.
LEMMA NonblockBegin ==
  ASSUME TypeOK, HookInv, SocketInv, NonblockInv, NEW f \in Fibers, NEW c \in Call,
         NEW l \in {"direct", "fun", "add", "hold"},
         call' = [call EXCEPT ![f] = c], pc' = [pc EXCEPT ![f] = l], pc[f] = "run",
         UNCHANGED <<use, role, client, task, m_datas, last>>,
         \A fd \in Fds :
            /\ kernel'[fd].open = kernel[fd].open /\ kernel'[fd].nonblock = kernel[fd].nonblock
            /\ kernel'[fd].state = kernel[fd].state \/ Get(fd).there,
         Untouched /\ c.fd # -1 => kernel[c.fd].nonblock /\ (l = "direct" => ~Get(c.fd).there)
  PROVE  NonblockInv'
  <1> SUFFICES ASSUME Untouched  PROVE NonblockInv'
    BY DEF NonblockInv, Untouched
  <1> USE DEF Get
  <1>0. /\ \A g \in Fibers : call[g].fd \in Fds \/ call[g].fd = -1
        /\ \A g \in Fibers : pc[g] = "create" => call[g].fd \in Fds
        /\ c.fd \in Fds \/ c.fd = -1
    <2>1. \A g \in Fibers : pc[g] = "create" => call[g].fd \in Fds
      BY DEF HookInv, CallInv, Legal, TypeOK, HookTypeOK, Call, CallOps
    <2> QED  BY <2>1, RunIsNoCall DEF Call, Numbers
  <1>1. /\ call'[f] = c /\ pc'[f] = l
        /\ \A g \in Fibers \ {f} : call'[g] = call[g] /\ pc'[g] = pc[g]
        /\ \A g \in Fibers : Serving(g)' <=> Serving(g)
    BY DEF TypeOK, HookTypeOK, Serving
  <1>2. \A fd \in Fds : m_datas'[fd].there =>
           /\ kernel'[fd].open /\ kernel'[fd].nonblock
           /\ m_datas'[fd].m_isSocket /\ ~m_datas'[fd].m_userNonblock
    BY DEF NonblockInv
  <1>3. \A fd \in Fds : kernel'[fd].open /\ ~kernel'[fd].nonblock =>
           \E g \in Fibers : pc'[g] = "create" /\ call'[g].fd = fd
    <2> SUFFICES ASSUME NEW fd \in Fds, kernel'[fd].open, ~kernel'[fd].nonblock
                 PROVE  \E g \in Fibers : pc'[g] = "create" /\ call'[g].fd = fd
      OBVIOUS
    <2>1. PICK g \in Fibers : pc[g] = "create" /\ call[g].fd = fd  BY DEF NonblockInv
    <2> QED  BY <1>1, <2>1
  <1>4. ASSUME NEW g \in Fibers, pc'[g] = "create"
        PROVE  /\ ~kernel'[call'[g].fd].nonblock /\ ~m_datas'[call'[g].fd].there
               /\ call'[g].op = "socket" => kernel'[call'[g].fd].state = "new"
               /\ \A h \in Fibers \ {g} : pc'[h] \in {"create", "created"} => call'[h].fd # call'[g].fd
               /\ \A h \in Fibers : Serving(h)' => client'[h] # call'[g].fd
               /\ call'[g].fd \notin task'.clients
    <2>1. g # f /\ pc[g] = "create" /\ call'[g] = call[g] /\ call[g].fd \in Fds
      BY <1>0, <1>1, <1>4
    <2>2. /\ ~kernel[call[g].fd].nonblock /\ ~m_datas[call[g].fd].there
          /\ call[g].op = "socket" => kernel[call[g].fd].state = "new"
          /\ \A h \in Fibers \ {g} : pc[h] \in {"create", "created"} => call[h].fd # call[g].fd
          /\ \A h \in Fibers : Serving(h) => client[h] # call[g].fd
          /\ call[g].fd \notin task.clients
      BY <2>1 DEF NonblockInv
    <2> QED  BY <1>1, <2>1, <2>2
  <1>5. ASSUME NEW g \in Fibers
        PROVE  /\ pc'[g] = "direct" /\ call'[g].fd # -1 => ~m_datas'[call'[g].fd].there
               /\ pc'[g] \in {"direct", "fun", "add", "hold", "woken"} /\ call'[g].fd # -1 =>
                     kernel'[call'[g].fd].nonblock
               /\ pc'[g] # "blocked"
               /\ last'[g].res = "EAGAIN" =>
                     /\ last'[g].fd \in Fds /\ ~m_datas'[last'[g].fd].there
                     /\ kernel'[last'[g].fd].nonblock
    <2>1. CASE g = f  BY <1>0, <1>1, <2>1 DEF NonblockInv
    <2>2. CASE g # f  BY <1>0, <1>1, <2>2 DEF NonblockInv
    <2> QED  BY <2>1, <2>2
  <1> QED  BY <1>2, <1>3, <1>4, <1>5 DEF NonblockInv

\* A new descriptor: blocking until its context is made.
LEMMA NonblockOpen ==
  ASSUME TypeOK, HookInv, SocketInv, NonblockInv, NEW f \in Fibers, NEW c \in Call,
         c.fd \in Fds, ~kernel[c.fd].open, c.op \in {"socket", "accept"}, pc[f] # "create",
         call' = [call EXCEPT ![f] = c],
         pc' = [pc EXCEPT ![f] = IF Get(c.fd).there THEN "created" ELSE "create"],
         UNCHANGED <<use, role, client, task, m_datas, last>>,
         kernel'[c.fd] = Opened(IF c.op = "socket" THEN "new" ELSE "connected"),
         \A fd \in Fds \ {c.fd} :
            /\ kernel'[fd].open = kernel[fd].open /\ kernel'[fd].nonblock = kernel[fd].nonblock
            /\ kernel'[fd].state = kernel[fd].state
  PROVE  NonblockInv'
  <1> SUFFICES ASSUME Untouched  PROVE NonblockInv'
    BY DEF NonblockInv, Untouched
  <1> USE DEF Get
  <1>0. /\ \A g \in Fibers : call[g].fd \in Fds \/ call[g].fd = -1
        /\ \A g \in Fibers : pc[g] = "create" => call[g].fd \in Fds
    <2>1. \A g \in Fibers : pc[g] = "create" => call[g].fd \in Fds
      BY DEF HookInv, CallInv, Legal, TypeOK, HookTypeOK, Call, CallOps
    <2> QED  BY <2>1, RunIsNoCall
  <1>N. /\ ~m_datas[c.fd].there
        /\ \A g \in Fibers : call[g].fd # c.fd
        /\ \A g \in Fibers : Serving(g) => client[g] # c.fd
        /\ c.fd \notin task.clients
        /\ kernel[c.fd].nonblock = FALSE
    <2>1. ~m_datas[c.fd].there  BY DEF NonblockInv
    <2>2. \A g \in Fibers : call[g].fd # c.fd  BY RecordTypes DEF SocketInv
    <2>3. \A g \in Fibers : Serving(g) => client[g] # c.fd  BY DEF SocketInv, Serving
    <2>4. c.fd \notin task.clients  BY DEF SocketInv
    <2>5. kernel[c.fd].nonblock = FALSE
      <3>1. kernel[c.fd] = Closed  BY DEF HookInv, KernelInv
      <3> QED  BY <3>1 DEF Closed
    <2> QED  BY <2>1, <2>2, <2>3, <2>4, <2>5
  <1>K. /\ kernel'[c.fd].open /\ ~kernel'[c.fd].nonblock
        /\ c.op = "socket" => kernel'[c.fd].state = "new"
    BY DEF Opened
  <1>1. /\ call'[f] = c /\ pc'[f] = "create"
        /\ \A g \in Fibers \ {f} : call'[g] = call[g] /\ pc'[g] = pc[g]
        /\ \A g \in Fibers : Serving(g)' <=> Serving(g)
    BY <1>N DEF TypeOK, HookTypeOK, Serving
  <1>2. \A fd \in Fds : m_datas'[fd].there =>
           /\ kernel'[fd].open /\ kernel'[fd].nonblock
           /\ m_datas'[fd].m_isSocket /\ ~m_datas'[fd].m_userNonblock
    BY <1>N DEF NonblockInv
  <1>3. \A fd \in Fds : kernel'[fd].open /\ ~kernel'[fd].nonblock =>
           \E g \in Fibers : pc'[g] = "create" /\ call'[g].fd = fd
    <2> SUFFICES ASSUME NEW fd \in Fds, kernel'[fd].open, ~kernel'[fd].nonblock
                 PROVE  \E g \in Fibers : pc'[g] = "create" /\ call'[g].fd = fd
      OBVIOUS
    <2>1. CASE fd = c.fd  BY <1>1, <2>1
    <2>2. CASE fd # c.fd
      <3>1. PICK g \in Fibers : pc[g] = "create" /\ call[g].fd = fd  BY <2>2 DEF NonblockInv
      <3> QED  BY <1>1, <3>1
    <2> QED  BY <2>1, <2>2
  <1>4. ASSUME NEW g \in Fibers, pc'[g] = "create"
        PROVE  /\ ~kernel'[call'[g].fd].nonblock /\ ~m_datas'[call'[g].fd].there
               /\ call'[g].op = "socket" => kernel'[call'[g].fd].state = "new"
               /\ \A h \in Fibers \ {g} : pc'[h] \in {"create", "created"} => call'[h].fd # call'[g].fd
               /\ \A h \in Fibers : Serving(h)' => client'[h] # call'[g].fd
               /\ call'[g].fd \notin task'.clients
    <2>1. CASE g = f  BY <1>1, <1>K, <1>N, <2>1
    <2>2. CASE g # f
      <3>1. pc[g] = "create" /\ call'[g] = call[g] /\ call[g].fd \in Fds \ {c.fd}
        BY <1>0, <1>1, <1>4, <1>N, <2>2
      <3>2. /\ ~kernel[call[g].fd].nonblock /\ ~m_datas[call[g].fd].there
            /\ call[g].op = "socket" => kernel[call[g].fd].state = "new"
            /\ \A h \in Fibers \ {g} : pc[h] \in {"create", "created"} => call[h].fd # call[g].fd
            /\ \A h \in Fibers : Serving(h) => client[h] # call[g].fd
            /\ call[g].fd \notin task.clients
        BY <3>1 DEF NonblockInv
      <3> QED  BY <1>1, <3>1, <3>2
    <2> QED  BY <2>1, <2>2
  <1>5. ASSUME NEW g \in Fibers
        PROVE  /\ pc'[g] = "direct" /\ call'[g].fd # -1 => ~m_datas'[call'[g].fd].there
               /\ pc'[g] \in {"direct", "fun", "add", "hold", "woken"} /\ call'[g].fd # -1 =>
                     kernel'[call'[g].fd].nonblock
               /\ pc'[g] # "blocked"
               /\ last'[g].res = "EAGAIN" =>
                     /\ last'[g].fd \in Fds /\ ~m_datas'[last'[g].fd].there
                     /\ kernel'[last'[g].fd].nonblock
    <2>0. last'[g].res = "EAGAIN" =>
                     /\ last'[g].fd \in Fds /\ ~m_datas'[last'[g].fd].there
                     /\ kernel'[last'[g].fd].nonblock
      BY <1>N DEF NonblockInv
    <2>1. CASE g = f  BY <1>1, <2>0, <2>1
    <2>2. CASE g # f  BY <1>0, <1>1, <1>N, <2>0, <2>2 DEF NonblockInv
    <2> QED  BY <2>1, <2>2
  <1> QED  BY <1>2, <1>3, <1>4, <1>5 DEF NonblockInv

\* The parts of such a step.
LEMMA ReturnGoesOn ==
  ASSUME TypeOK, NEW f \in Fibers, NEW res \in Results, Return(f, res), pc[f] # "create"
  PROVE  /\ GoesOn /\ NobodyBlocks
         /\ \A g \in Fibers \ {f} : last'[g] = last[g]
         /\ last'[f].res = res /\ last'[f].fd = call[f].fd
  <1>1. /\ pc' = [pc EXCEPT ![f] = "run"] /\ call' = [call EXCEPT ![f] = NoCall]
    BY ReturnType
  <1>2. /\ pc'[f] = "run" /\ call'[f] = NoCall
        /\ \A g \in Fibers \ {f} : pc'[g] = pc[g] /\ call'[g] = call[g]
    BY <1>1 DEF TypeOK, HookTypeOK
  <1>3. PICK b : last' = [last EXCEPT ![f] = [op |-> call[f].op, fd |-> call[f].fd, res |-> res,
                                              by |-> cause[f], late |-> b]]
    BY DEF Return
  <1>4. /\ \A g \in Fibers \ {f} : last'[g] = last[g]
        /\ last'[f].res = res /\ last'[f].fd = call[f].fd
    BY <1>3 DEF TypeOK, HookTypeOK
  <1>5. GoesOn /\ NobodyBlocks  BY <1>2 DEF GoesOn, NobodyBlocks
  <1> QED  BY <1>4, <1>5

LEMMA GotoGoesOn ==
  ASSUME TypeOK, NEW f \in Fibers, NEW l \in {"fun", "add", "hold", "woken", "getsockopt", "blocked"},
         pc' = [pc EXCEPT ![f] = l], UNCHANGED call,
         pc[f] \in {"direct", "fun", "add", "hold", "woken"}
  PROVE  GoesOn /\ (l # "blocked" => NobodyBlocks)
  BY DEF GoesOn, NobodyBlocks, TypeOK, HookTypeOK

LEMMA WakeGoesOn ==
  ASSUME TypeOK, HookInv, NEW F, NEW why, Wake(F, why), UNCHANGED call,
         \A g \in F \cap Fibers : pc[g] = "hold"
  PROVE  GoesOn /\ NobodyBlocks
  BY DEF Wake, GoesOn, NobodyBlocks

\* A quiet step in which the server does nothing.
LEMMA DescQuiet ==
  ASSUME TypeOK, HookInv, SocketInv, SoleInv, NonblockInv, UNCHANGED use, UNCHANGED server,
         GoesOn, Untouched => NobodyBlocks, KernelKept, ContextsKept, NoNewAgain
  PROVE  SocketInv' /\ SoleInv' /\ NonblockInv'
  <1>1. RolesEnd  BY DEF server, RolesEnd
  <1>2. \A fd \in Fds : kernel[fd].open => kernel'[fd].open  BY DEF KernelKept
  <1> QED  BY <1>1, <1>2, SocketQuiet, NonblockQuiet

LEMMA Kept ==
  /\ UNCHANGED kernel => KernelKept
  /\ UNCHANGED m_datas => ContextsKept
  /\ UNCHANGED last => NoNewAgain
  BY DEF KernelKept, ContextsKept, NoNewAgain

\* The context of a new descriptor.
LEMMA DescCreate ==
  ASSUME TypeOK, HookInv, SocketInv, SoleInv, NonblockInv, UNCHANGED use, UNCHANGED server,
         NEW f \in Fibers, CreateCtx(f)
  PROVE  SocketInv' /\ SoleInv' /\ NonblockInv'
  <1>0. /\ pc[f] = "create" /\ pc' = [pc EXCEPT ![f] = "created"] /\ Create(call[f].fd)
        /\ UNCHANGED <<call, last>> /\ UNCHANGED <<role, client, task, starts>>
    BY DEF CreateCtx, Goto, history, server
  <1>1. PICK n \in Fds : n = call[f].fd
    BY <1>0 DEF HookInv, CallInv, Legal, TypeOK, HookTypeOK, Call, CallOps
  <1>2. kernel[n].open  BY <1>1, RecordTypes DEF SocketInv
  <1>3. /\ kernel'[n].open = kernel[n].open /\ kernel'[n].nonblock
        /\ kernel'[n].state = kernel[n].state
        /\ \A fd \in Fds \ {n} : kernel'[fd] = kernel[fd]
    <2>1. kernel[n] \in Descriptor  BY KernelType
    <2> QED  BY <1>0, <1>1, <1>2, <2>1 DEF Create, TypeOK, HookTypeOK, Descriptor
  <1>4. /\ m_datas'[n].there /\ m_datas'[n].m_isSocket /\ ~m_datas'[n].m_userNonblock
        /\ \A fd \in Fds \ {n} : m_datas'[fd] = m_datas[fd]
    BY <1>0, <1>1, <1>2 DEF Create, FdCtx, TypeOK, HookTypeOK
  <1>5. /\ pc'[f] = "created" /\ \A g \in Fibers \ {f} : pc'[g] = pc[g]
    BY <1>0 DEF TypeOK, HookTypeOK
  <1>6. GoesOn /\ RolesEnd  BY <1>0, <1>5 DEF GoesOn, RolesEnd
  <1>7. SocketInv' /\ SoleInv'
    <2>1. \A fd \in Fds : kernel[fd].open => kernel'[fd].open  BY <1>3
    <2> QED  BY <1>6, <2>1, SocketQuiet
  <1>8. NonblockInv'
    <2> SUFFICES ASSUME Untouched  PROVE NonblockInv'
      BY DEF NonblockInv, Untouched
    <2> USE DEF Get
    <2>0. /\ \A g \in Fibers : call[g].fd \in Fds \/ call[g].fd = -1
          /\ \A g \in Fibers : pc[g] = "create" => call[g].fd \in Fds
      BY RunIsNoCall DEF HookInv, CallInv, Legal, TypeOK, HookTypeOK, Call, CallOps
    <2>1. /\ ~kernel[n].nonblock /\ ~m_datas[n].there
          /\ \A h \in Fibers \ {f} : pc[h] \in {"create", "created"} => call[h].fd # n
      BY <1>0, <1>1 DEF NonblockInv
    <2>2. \A fd \in Fds : m_datas'[fd].there =>
             /\ kernel'[fd].open /\ kernel'[fd].nonblock
             /\ m_datas'[fd].m_isSocket /\ ~m_datas'[fd].m_userNonblock
      BY <1>2, <1>3, <1>4 DEF NonblockInv
    <2>3. \A fd \in Fds : kernel'[fd].open /\ ~kernel'[fd].nonblock =>
             \E g \in Fibers : pc'[g] = "create" /\ call'[g].fd = fd
      <3> SUFFICES ASSUME NEW fd \in Fds, kernel'[fd].open, ~kernel'[fd].nonblock
                   PROVE  \E g \in Fibers : pc'[g] = "create" /\ call'[g].fd = fd
        OBVIOUS
      <3>1. fd # n /\ kernel'[fd] = kernel[fd]  BY <1>3
      <3>2. PICK g \in Fibers : pc[g] = "create" /\ call[g].fd = fd  BY <3>1 DEF NonblockInv
      <3> QED  BY <1>0, <1>1, <1>5, <3>1, <3>2
    <2>4. ASSUME NEW g \in Fibers, pc'[g] = "create"
          PROVE  /\ ~kernel'[call'[g].fd].nonblock /\ ~m_datas'[call'[g].fd].there
                 /\ call'[g].op = "socket" => kernel'[call'[g].fd].state = "new"
                 /\ \A h \in Fibers \ {g} : pc'[h] \in {"create", "created"} => call'[h].fd # call'[g].fd
                 /\ \A h \in Fibers : Serving(h)' => client'[h] # call'[g].fd
                 /\ call'[g].fd \notin task'.clients
      <3>1. g # f /\ pc[g] = "create" /\ call[g].fd \in Fds \ {n}
        BY <1>5, <2>0, <2>1, <2>4
      <3>2. /\ ~kernel[call[g].fd].nonblock /\ ~m_datas[call[g].fd].there
            /\ call[g].op = "socket" => kernel[call[g].fd].state = "new"
            /\ \A h \in Fibers \ {g} : pc[h] \in {"create", "created"} => call[h].fd # call[g].fd
            /\ \A h \in Fibers : Serving(h) => client[h] # call[g].fd
            /\ call[g].fd \notin task.clients
        BY <3>1 DEF NonblockInv
      <3>3. \A h \in Fibers : pc'[h] \in {"create", "created"} => pc[h] \in {"create", "created"}
        BY <1>0, <1>5
      <3>4. \A h \in Fibers : Serving(h)' <=> Serving(h)  BY <1>0 DEF Serving
      <3> QED  BY <1>0, <1>3, <1>4, <3>1, <3>2, <3>3, <3>4
    <2>5. ASSUME NEW g \in Fibers
          PROVE  /\ pc'[g] = "direct" /\ call'[g].fd # -1 => ~m_datas'[call'[g].fd].there
                 /\ pc'[g] \in {"direct", "fun", "add", "hold", "woken"} /\ call'[g].fd # -1 =>
                       kernel'[call'[g].fd].nonblock
                 /\ pc'[g] # "blocked"
                 /\ last'[g].res = "EAGAIN" =>
                       /\ last'[g].fd \in Fds /\ ~m_datas'[last'[g].fd].there
                       /\ kernel'[last'[g].fd].nonblock
      <3>1. last'[g].res = "EAGAIN" =>
                       /\ last'[g].fd \in Fds /\ ~m_datas'[last'[g].fd].there
                       /\ kernel'[last'[g].fd].nonblock
        BY <1>0, <1>3, <1>4, <2>1 DEF NonblockInv
      <3>2. CASE g = f  BY <1>5, <3>1, <3>2
      <3>3. CASE g # f
        <4>1. /\ pc[g] \in {"direct", "fun", "add", "hold", "woken"} /\ call[g].fd # -1 =>
                    kernel[call[g].fd].nonblock /\ call[g].fd \in Fds \ {n}
              /\ pc[g] = "direct" /\ call[g].fd # -1 => ~m_datas[call[g].fd].there
              /\ pc[g] # "blocked"
          BY <2>0, <2>1 DEF NonblockInv
        <4> QED  BY <1>0, <1>3, <1>4, <1>5, <3>1, <3>3, <4>1
      <3> QED  BY <3>2, <3>3
    <2> QED  BY <2>2, <2>3, <2>4, <2>5 DEF NonblockInv
  <1> QED  BY <1>7, <1>8

\* del: a context goes, if there was one.
LEMMA DelKeeps ==
  ASSUME TypeOK, NEW fd \in Numbers, Del(fd)
  PROVE  ContextsKept
  <1>1. (fd \in Fds => m_datas'[fd] = NoCtx) /\ \A x \in Fds \ {fd} : m_datas'[x] = m_datas[x]
    BY DEF Del, TypeOK, HookTypeOK
  <1> QED  BY <1>1, RecordTypes DEF ContextsKept

\* The steps inside a call.
LEMMA DescInside ==
  ASSUME TypeOK, TypeOK', HookInv, SocketInv, SoleInv, NonblockInv, UNCHANGED use,
         UNCHANGED server, NEW f \in Fibers, Inside(f)
  PROVE  SocketInv' /\ SoleInv' /\ NonblockInv'
  <1> USE DEF fibers, history
  <1>0. call[f] \in Call /\ (call[f].fd \in Fds \/ call[f].fd = -1) /\ -1 \notin Fds
    BY RunIsNoCall, RecordTypes DEF TypeOK, HookTypeOK
  <1>R. ASSUME NEW res \in Results \ {"EAGAIN"}, Return(f, res), pc[f] # "create",
               KernelKept, UNCHANGED m_datas
        PROVE  SocketInv' /\ SoleInv' /\ NonblockInv'
    <2>1. GoesOn /\ NobodyBlocks /\ NoNewAgain
      <3>1. /\ GoesOn /\ NobodyBlocks /\ last'[f].res = res
            /\ \A g \in Fibers \ {f} : last'[g] = last[g]
        BY <1>R, ReturnGoesOn
      <3> QED  BY <3>1 DEF NoNewAgain
    <2> QED  BY <1>R, <2>1, Kept, DescQuiet
  <1>1. CASE Blocks(f)
    <2>1. pc' = [pc EXCEPT ![f] = "blocked"] /\ pc[f] \in {"direct", "fun"}
          /\ UNCHANGED <<m_datas, kernel, call, last>>
      BY <1>1 DEF Blocks, Goto
    <2>2. ~Untouched
      BY <1>0, <1>1 DEF Blocks, WouldBlock, NonblockInv
    <2>3. GoesOn  BY <2>1, GotoGoesOn
    <2> QED  BY <2>1, <2>2, <2>3, Kept, DescQuiet
  <1>2. CASE FunReturns(f)
    <2>1. UNCHANGED kernel \/ kernel' = [kernel EXCEPT ![call[f].fd].ready = @ \ {call[f].e}]
      BY <1>2 DEF FunReturns, Served
    <2>2. call[f].fd \in Fds /\ pc[f] # "create" /\ UNCHANGED m_datas
      BY <1>2 DEF FunReturns, HookInv, CallInv, Legal
    <2>3. KernelKept
      <3>1. CASE UNCHANGED kernel  BY <3>1, Kept
      <3>2. CASE kernel' = [kernel EXCEPT ![call[f].fd].ready = @ \ {call[f].e}]
        <4>1. \A fd \in Fds : kernel[fd] \in Descriptor  BY KernelType
        <4>2. /\ \A fd \in Fds \ {call[f].fd} : kernel'[fd] = kernel[fd]
              /\ kernel'[call[f].fd].open = kernel[call[f].fd].open
              /\ kernel'[call[f].fd].nonblock = kernel[call[f].fd].nonblock
              /\ kernel'[call[f].fd].state = kernel[call[f].fd].state
          BY <2>2, <3>2, <4>1 DEF TypeOK, HookTypeOK, Descriptor
        <4> QED  BY <4>2 DEF KernelKept
      <3> QED  BY <2>1, <3>1, <3>2
    <2>4. \E res \in Results \ {"EAGAIN"} : Return(f, res)  BY <1>2 DEF FunReturns, Results
    <2> QED  BY <1>R, <2>2, <2>3, <2>4
  <1>3. CASE DirectAgain(f)
    <2>1. /\ pc[f] = "direct" /\ call[f].fd \in Fds /\ kernel[call[f].fd].nonblock
          /\ Return(f, "EAGAIN") /\ "EAGAIN" \in Results /\ UNCHANGED <<m_datas, kernel>>
      BY <1>3 DEF DirectAgain, WouldBlock, Results
    <2>2. /\ GoesOn /\ NobodyBlocks /\ last'[f].fd = call[f].fd
          /\ \A g \in Fibers \ {f} : last'[g] = last[g]
      BY <2>1, ReturnGoesOn
    <2>3. CASE Untouched
      <3>1. ~m_datas[call[f].fd].there  BY <1>0, <2>1, <2>3 DEF NonblockInv, Get
      <3>2. NoNewAgain  BY <2>1, <2>2, <3>1 DEF NoNewAgain
      <3> QED  BY <2>1, <2>2, <3>2, Kept, DescQuiet
    <2>4. CASE ~Untouched
      <3>1. NonblockInv'  BY <2>4 DEF NonblockInv, Untouched
      <3>2. RolesEnd /\ \A fd \in Fds : kernel[fd].open => kernel'[fd].open
        BY <2>1 DEF server, RolesEnd
      <3> QED  BY <2>2, <3>1, <3>2, SocketQuiet
    <2> QED  BY <2>3, <2>4
  <1>4. CASE FunAgain(f)
    <2>1. /\ pc' = [pc EXCEPT ![f] = "add"] /\ pc[f] = "fun"
          /\ UNCHANGED <<m_datas, kernel, call, last>>
      BY <1>4 DEF FunAgain, Goto
    <2>2. GoesOn /\ NobodyBlocks  BY <2>1, GotoGoesOn
    <2> QED  BY <2>1, <2>2, Kept, DescQuiet
  <1>5. CASE AddEvent(f)
    <2>0. pc[f] = "add" /\ UNCHANGED <<m_datas, kernel>>  BY <1>5 DEF AddEvent
    <2>1. CASE Return(f, "EBADF")
      <3>1. "EBADF" \in Results \ {"EAGAIN"}  BY DEF Results
      <3> QED  BY <1>R, <2>0, <2>1, <3>1, Kept
    <2>2. CASE ~Return(f, "EBADF")
      <3>1. /\ UNCHANGED <<call, last>>
            /\ UNCHANGED pc \/ \E l \in {"hold", "getsockopt"} : pc' = [pc EXCEPT ![f] = l]
        BY <1>5, <2>2 DEF AddEvent, Goto
      <3>2. GoesOn /\ NobodyBlocks
        <4>1. CASE UNCHANGED pc  BY <3>1, <4>1 DEF GoesOn, NobodyBlocks
        <4>2. CASE \E l \in {"hold", "getsockopt"} : pc' = [pc EXCEPT ![f] = l]
          BY <2>0, <3>1, <4>2, GotoGoesOn
        <4> QED  BY <3>1, <4>1, <4>2
      <3> QED  BY <2>0, <3>1, <3>2, Kept, DescQuiet
    <2> QED  BY <2>1, <2>2
  <1>6. CASE Woken(f)
    <2>0. pc[f] = "woken" /\ UNCHANGED <<m_datas, kernel>>  BY <1>6 DEF Woken
    <2>1. CASE Return(f, "ETIMEDOUT")
      <3>1. "ETIMEDOUT" \in Results \ {"EAGAIN"}  BY DEF Results
      <3> QED  BY <1>R, <2>0, <2>1, <3>1, Kept
    <2>2. CASE ~Return(f, "ETIMEDOUT")
      <3>1. /\ UNCHANGED <<call, last>>
            /\ \E l \in {"fun", "getsockopt"} : pc' = [pc EXCEPT ![f] = l]
        BY <1>6, <2>2 DEF Woken, Goto
      <3>2. GoesOn /\ NobodyBlocks  BY <2>0, <3>1, GotoGoesOn
      <3> QED  BY <2>0, <3>1, <3>2, Kept, DescQuiet
    <2> QED  BY <2>1, <2>2
  <1>7. CASE AcceptReturns(f)
    <2>0. /\ pc[f] \in {"direct", "fun", "blocked"} /\ call[f].op = "accept" /\ UNCHANGED m_datas
      BY <1>7 DEF AcceptReturns
    <2>1. CASE Return(f, "-1") /\ UNCHANGED kernel
      <3>1. "-1" \in Results \ {"EAGAIN"}  BY DEF Results
      <3> QED  BY <1>R, <2>0, <2>1, <3>1, Kept
    <2>2. CASE ~(Return(f, "-1") /\ UNCHANGED kernel)
      <3>1. PICK n \in Fds :
              /\ call[f].fd \in Fds /\ kernel[call[f].fd].open
              /\ Lowest(n)
              /\ kernel' = [kernel EXCEPT ![call[f].fd].ready = {}, ![n] = Opened("connected")]
              /\ call' = [call EXCEPT ![f].fd = n]
              /\ Goto(f, IF Get(n).there THEN "created" ELSE "create")
              /\ UNCHANGED last
        BY <1>7, <2>2 DEF AcceptReturns
      <3>2. PICK d \in Fds : d = call[f].fd  BY <3>1
      <3>3. /\ ~kernel[n].open /\ d # n
            /\ kernel' = [kernel EXCEPT ![d].ready = {}, ![n] = Opened("connected")]
        BY <3>1, <3>2 DEF Lowest
      <3>4. /\ kernel'[n] = Opened("connected")
            /\ \A x \in Fds \ {n} : /\ kernel'[x].open = kernel[x].open
                                    /\ kernel'[x].nonblock = kernel[x].nonblock
                                    /\ kernel'[x].state = kernel[x].state
                                    /\ kernel'[x] = kernel[x] \/ kernel'[x].ready = {}
                                    /\ x # d => kernel'[x] = kernel[x]
        BY <3>3, AcceptKernel
      <3>5. PICK c \in Call : /\ call' = [call EXCEPT ![f] = c]
                              /\ c.op = "accept" /\ c.fd = n /\ c.e = call[f].e
        <4> DEFINE c == [call[f] EXCEPT !.fd = n]
        <4>1. c \in Call  BY <1>0 DEF Call, Numbers
        <4>2. c.op = "accept" /\ c.fd = n /\ c.e = call[f].e  BY <1>0, <2>0 DEF Call
        <4>3. call' = [call EXCEPT ![f] = c]  BY <3>1
        <4> QED  BY <4>1, <4>2, <4>3
      <3>6. PICK l \in {"create", "created"} :
              pc' = [pc EXCEPT ![f] = l] /\ l = (IF Get(n).there THEN "created" ELSE "create")
        BY <3>1 DEF Goto
      <3>7. UNCHANGED <<role, client, task, starts>>  BY DEF server
      <3>8. /\ \A fd \in Fds : kernel[fd].open => kernel'[fd].open
            /\ kernel'[c.fd].open
        <4>1. Opened("connected").open  BY DEF Opened
        <4>2. kernel'[n].open  BY <3>4, <4>1
        <4>3. \A fd \in Fds \ {n} : kernel'[fd].open = kernel[fd].open  BY <3>4
        <4> QED  BY <3>5, <4>2, <4>3
      <3>9. \A g \in Fibers : call[g].fd # c.fd  BY <1>0, <3>3, <3>5 DEF SocketInv
      <3>10. use.server => c.e = "READ"  BY <2>0, <3>5 DEF SocketInv
      <3>11. SocketInv' /\ SoleInv'
        <4>1. c.fd \in Fds /\ ~kernel[c.fd].open  BY <3>3, <3>5
        <4> QED  BY <3>5, <3>6, <3>7, <3>8, <3>9, <3>10, <4>1, SocketBegin
      <3>12. NonblockInv'
        <4>1. /\ c.fd \in Fds /\ ~kernel[c.fd].open /\ c.op \in {"socket", "accept"} /\ pc[f] # "create"
              /\ kernel'[c.fd] = Opened(IF c.op = "socket" THEN "new" ELSE "connected")
              /\ pc' = [pc EXCEPT ![f] = IF Get(c.fd).there THEN "created" ELSE "create"]
              /\ \A fd \in Fds \ {c.fd} :
                    /\ kernel'[fd].open = kernel[fd].open /\ kernel'[fd].nonblock = kernel[fd].nonblock
                    /\ kernel'[fd].state = kernel[fd].state
              /\ UNCHANGED <<use, role, client, task, m_datas, last>>
          BY <2>0, <3>1, <3>3, <3>4, <3>5, <3>6, <3>7
        <4> QED  BY <3>5, <4>1, NonblockOpen
      <3> QED  BY <3>11, <3>12
    <2> QED  BY <2>1, <2>2
  <1>8. CASE CreateCtx(f)  BY <1>8, DescCreate
  <1>9. CASE SocketReturns(f)
    <2>1. "n" \in Results \ {"EAGAIN"}  BY DEF Results
    <2> QED  BY <1>9, <1>R, <2>1, Kept DEF SocketReturns
  <1>10. CASE Getsockopt(f)
    <2>1. \E res \in Results \ {"EAGAIN"} : Return(f, res)  BY <1>10 DEF Getsockopt, Results
    <2>2. call[f].fd \in Fds /\ pc[f] # "create" /\ UNCHANGED m_datas
      BY <1>10 DEF Getsockopt, HookInv, CallInv, Legal, TypeOK, HookTypeOK, Call, CallOps
    <2>3. KernelKept
      <3>1. CASE UNCHANGED kernel  BY <3>1, Kept
      <3>2. CASE ~UNCHANGED kernel
        <4>1. kernel' = Turns(call[f].fd, "new", {}) /\ kernel[call[f].fd].state = "refused"
          BY <1>10, <3>2 DEF Getsockopt
        <4>2. /\ \A fd \in Fds \ {call[f].fd} : kernel'[fd] = kernel[fd]
              /\ kernel'[call[f].fd].open = kernel[call[f].fd].open
              /\ kernel'[call[f].fd].nonblock = kernel[call[f].fd].nonblock
          BY <2>2, <4>1 DEF Turns, TypeOK, HookTypeOK
        <4> QED  BY <4>1, <4>2 DEF KernelKept
      <3> QED  BY <3>1, <3>2
    <2> QED  BY <1>R, <2>1, <2>2, <2>3
  <1>11. CASE SleepReturns(f)
    <2>1. "0" \in Results \ {"EAGAIN"}  BY DEF Results
    <2> QED  BY <1>11, <1>R, <2>1, Kept DEF SleepReturns
  <1>12. CASE CloseEnds(f)
    <2>1. UNCHANGED <<kernel, pc, call>> /\ Del(last[f].fd) /\ last' = [last EXCEPT ![f] = NoneYet]
      BY <1>12 DEF CloseEnds
    <2>2. last[f].fd \in Numbers  BY DEF TypeOK, HookTypeOK, Outcome
    <2>3. \A g \in Fibers : last'[g] = last[g] \/ last'[g].res = "none"
      BY <2>1 DEF TypeOK, HookTypeOK, NoneYet
    <2>4. NoNewAgain  BY <2>3 DEF NoNewAgain
    <2>5. GoesOn /\ NobodyBlocks  BY <2>1 DEF GoesOn, NobodyBlocks
    <2>6. ContextsKept  BY <2>1, <2>2, DelKeeps
    <2> QED  BY <2>1, <2>4, <2>5, <2>6, Kept, DescQuiet
  <1> QED
    BY <1>1, <1>2, <1>3, <1>4, <1>5, <1>6, <1>7, <1>8, <1>9, <1>10, <1>11, <1>12 DEF Inside

\* What the kernel, epoll and the timers do.
LEMMA DescOutside ==
  ASSUME TypeOK, HookInv, SocketInv, SoleInv, NonblockInv, UNCHANGED use, UNCHANGED server,
         Kernel \/ Epoll \/ \E f \in Fibers : Timer(f) \/ Callbacks(f)
  PROVE  SocketInv' /\ SoleInv' /\ NonblockInv'
  <1> USE DEF fibers, history
  <1>1. CASE Kernel
    <2>1. PICK fd \in Fds : ConnectEnds(fd) \/ \E e \in use.events : Arrive(fd, e)
      BY <1>1 DEF Kernel
    <2>2. UNCHANGED <<m_datas, pc, call, last>>  BY <2>1 DEF ConnectEnds, Arrive
    <2>3. GoesOn /\ NobodyBlocks  BY <2>2 DEF GoesOn, NobodyBlocks
    <2>4. KernelKept
      <3>1. CASE ConnectEnds(fd)
        <4>1. /\ \E s \in {"connected", "refused"} : kernel' = Turns(fd, s, {"WRITE"})
              /\ kernel[fd].state = "connecting"
          BY <3>1 DEF ConnectEnds
        <4>2. /\ \A x \in Fds \ {fd} : kernel'[x] = kernel[x]
              /\ kernel'[fd].open = kernel[fd].open /\ kernel'[fd].nonblock = kernel[fd].nonblock
          BY <4>1 DEF Turns, TypeOK, HookTypeOK
        <4> QED  BY <4>1, <4>2 DEF KernelKept
      <3>2. ASSUME NEW e \in use.events, Arrive(fd, e)  PROVE KernelKept
        <4>1. kernel[fd] \in Descriptor  BY KernelType
        <4>2. /\ \A x \in Fds \ {fd} : kernel'[x] = kernel[x]
              /\ kernel'[fd].open = kernel[fd].open /\ kernel'[fd].nonblock = kernel[fd].nonblock
              /\ kernel'[fd].state = kernel[fd].state
          BY <3>2, <4>1 DEF Arrive, TypeOK, HookTypeOK, Descriptor
        <4> QED  BY <4>2 DEF KernelKept
      <3> QED  BY <2>1, <3>1, <3>2
    <2> QED  BY <2>2, <2>3, <2>4, Kept, DescQuiet
  <1>2. CASE Epoll
    <2>1. PICK fd \in Fds, e \in Events : TriggerEvent(fd, e)  BY <1>2 DEF Epoll
    <2>2. pc[m_events[fd][e]] = "hold"  BY <2>1 DEF TriggerEvent, HookInv, EventInv
    <2>3. UNCHANGED <<m_datas, kernel, call, last>> /\ Wake({m_events[fd][e]}, "event")
      BY <2>1 DEF TriggerEvent
    <2>4. GoesOn /\ NobodyBlocks  BY <2>2, <2>3, WakeGoesOn
    <2> QED  BY <2>3, <2>4, Kept, DescQuiet
  <1>3. ASSUME NEW t \in timers, Expire(t) \/ OnTimer(t) \/ CancelEvent(t) \/ SleepOver(t)
        PROVE  SocketInv' /\ SoleInv' /\ NonblockInv'
    <2>1. UNCHANGED <<m_datas, kernel, call, last>>
      BY <1>3 DEF Expire, OnTimer, CancelEvent, SleepOver, Timed
    <2>2. GoesOn /\ NobodyBlocks
      <3>1. CASE UNCHANGED pc  BY <2>1, <3>1 DEF GoesOn, NobodyBlocks
      <3>2. CASE SleepOver(t)
        <4>1. pc[t.f] = "hold"  BY <3>2 DEF SleepOver, HookInv, TimerInv
        <4>2. Wake({t.f}, "timeout")  BY <3>2 DEF SleepOver
        <4> QED  BY <2>1, <4>1, <4>2, WakeGoesOn
      <3>3. CASE CancelEvent(t) /\ ~UNCHANGED pc
        <4>1. t.fd \in Fds /\ t.e \in Events
          BY <3>3 DEF CancelEvent, HookInv, TimerInv, TypeOK, HookTypeOK, TimerCb
        <4>2. /\ m_events[t.fd][t.e] # NoFiber
              /\ \/ Wake({m_events[t.fd][t.e]}, "timeout")
                 \/ Wake({m_events[t.fd][t.e]}, "stale_timeout")
          BY <3>3 DEF CancelEvent
        <4>3. pc[m_events[t.fd][t.e]] = "hold"  BY <4>1, <4>2 DEF HookInv, EventInv
        <4> QED  BY <2>1, <4>2, <4>3, WakeGoesOn
      <3> QED  BY <1>3, <3>1, <3>2, <3>3 DEF Expire, OnTimer
    <2> QED  BY <2>1, <2>2, Kept, DescQuiet
  <1> QED  BY <1>1, <1>2, <1>3 DEF Timer, Callbacks

\* The call a fiber begins.
LEMMA BeginCall ==
  ASSUME TypeOK, NEW f \in Fibers, NEW op \in CallOps, NEW fd \in Numbers, NEW e \in Events,
         NEW to, Begin(f, op, fd, e, to), call' \in [Fibers -> Call]
  PROVE  \E c \in Call : /\ call' = [call EXCEPT ![f] = c]
                         /\ c.op = op /\ c.fd = fd /\ c.e = e
  <1>1. PICK c : /\ c = [op |-> op, fd |-> fd, e |-> e, to |-> to, id |-> calls + 1]
                 /\ call' = [call EXCEPT ![f] = c]
    BY DEF Begin
  <1>2. c.op = op /\ c.fd = fd /\ c.e = e  BY <1>1
  <1>3. call'[f] = c  BY <1>1 DEF TypeOK, HookTypeOK
  <1>4. c \in Call  BY <1>3
  <1> QED  BY <1>1, <1>2, <1>4

\* cancelAll: who waits goes on.
LEMMA CancelGoesOn ==
  ASSUME TypeOK, HookInv, NEW fd \in Fds, CancelAll(fd), UNCHANGED call
  PROVE  GoesOn /\ NobodyBlocks
  <1>1. Wake(Waiting(fd), "close")  BY DEF CancelAll
  <1>2. \A g \in Waiting(fd) \cap Fibers : pc[g] = "hold"
    BY DEF Waiting, HookInv, EventInv
  <1> QED  BY <1>1, <1>2, WakeGoesOn

\* A connected socket of a program without a server has its context, or had.
LEMMA ConnectedNonblock ==
  ASSUME TypeOK, HookInv, SocketInv, NonblockInv, Untouched, ~use.server, NEW fd \in Fds,
         kernel[fd].state = "connected"
  PROVE  kernel[fd].open /\ kernel[fd].nonblock
  <1>1. kernel[fd].open  BY DEF HookInv, KernelInv, Closed
  <1>2. ASSUME ~kernel[fd].nonblock  PROVE FALSE
    <2>1. PICK g \in Fibers : pc[g] = "create" /\ call[g].fd = fd
      BY <1>1, <1>2 DEF NonblockInv
    <2>2. call[g].op \in {"socket", "accept"}
      BY <2>1 DEF HookInv, CallInv, Legal, TypeOK, HookTypeOK, Call, CallOps
    <2>3. call[g].op # "accept"
      BY DEF HookInv, CallInv, Legal, SocketInv
    <2> QED  BY <2>1, <2>2, <2>3 DEF NonblockInv
  <1>3. kernel[fd].nonblock \in BOOLEAN  BY KernelType DEF Descriptor
  <1> QED  BY <1>1, <1>2, <1>3

LEMMA DirectIsGone ==
  ASSUME NonblockInv, Untouched, NEW fd \in Fds, Direct(fd)
  PROVE  ~Get(fd).there
  BY DEF NonblockInv, Direct

\* The calls a program's fibers begin; a server's fibers begin none.
LEMMA DescClient ==
  ASSUME TypeOK, TypeOK', HookInv, SocketInv, SoleInv, NonblockInv, ServerAlone, UNCHANGED use,
         UNCHANGED server, NEW f \in Fibers, Client(f)
  PROVE  SocketInv' /\ SoleInv' /\ NonblockInv'
  <1> USE DEF fibers, history
  <1>0. /\ UNCHANGED <<role, client, task, starts>> /\ "READ" \in Events /\ "WRITE" \in Events
        /\ use.events \subseteq Events /\ -1 \in Numbers /\ Fds \subseteq Numbers /\ -1 \notin Fds
        /\ call' \in [Fibers -> Call] /\ RolesEnd
        /\ {"io", "socket", "connect", "sleep"} \subseteq CallOps
    BY UseTypes, RecordTypes DEF server, Events, TypeOK, HookTypeOK, RolesEnd, CallOps
  <1>S. ASSUME NEW op, Calls(f, op)  PROVE ~use.server /\ pc[f] = "run"
    BY <1>S DEF Calls, ServerAlone, TypeOK, HookTypeOK
  <1>K. \A fd \in Fds : kernel[fd] \in Descriptor  BY KernelType
  <1>Q. ASSUME NEW op, NEW fd, NEW res \in {"0", "error", "EINPROGRESS", "EBADF"},
               Quick(f, op, fd, res), KernelKept, ContextsKept
        PROVE  SocketInv' /\ SoleInv' /\ NonblockInv'
    <2>1. UNCHANGED <<pc, call>>  BY <1>Q DEF Quick
    <2>2. last' = [last EXCEPT ![f] = [op |-> op, fd |-> fd, res |-> res,
                                       by |-> "nothing", late |-> FALSE]]
      BY <1>Q DEF Quick
    <2>3. last'[f].res # "EAGAIN" /\ \A g \in Fibers \ {f} : last'[g] = last[g]
      BY <2>2 DEF TypeOK, HookTypeOK
    <2>4. NoNewAgain  BY <2>3 DEF NoNewAgain
    <2>5. GoesOn /\ NobodyBlocks  BY <2>1 DEF GoesOn, NobodyBlocks
    <2> QED  BY <1>Q, <2>4, <2>5, DescQuiet
  <1>1. CASE do_io(f)
    <2>1. PICK fd \in Fds, e \in use.events :
            /\ kernel[fd].state = "connected" /\ MayWait(fd, e)
            /\ Begin(f, "io", fd, e, IF Direct(fd) THEN "forever" ELSE Get(fd).m_timeout[e])
            /\ Goto(f, IF Direct(fd) THEN "direct" ELSE "fun")
      BY <1>1 DEF do_io
    <2>2. UNCHANGED <<m_datas, kernel, last>> /\ Calls(f, "io")  BY <1>1 DEF do_io
    <2>3. ~use.server /\ pc[f] = "run" /\ e \in Events /\ fd \in Numbers  BY <1>0, <1>S, <2>2
    <2>4. PICK to : Begin(f, "io", fd, e, to)  BY <2>1
    <2>5. PICK c \in Call : call' = [call EXCEPT ![f] = c] /\ c.op = "io" /\ c.fd = fd /\ c.e = e
      BY <1>0, <2>3, <2>4, BeginCall
    <2>6. PICK l \in {"direct", "fun", "add", "hold"} :
            pc' = [pc EXCEPT ![f] = l] /\ (l = "direct" => Direct(fd))
      BY <2>1 DEF Goto
    <2>7. kernel[fd].open  BY <2>1 DEF HookInv, KernelInv, Closed
    <2>8. \A g \in Fibers \ {f} : call[g].fd = c.fd => call[g].e # c.e
      BY <2>1, <2>5 DEF MayWait
    <2>9. SocketInv' /\ SoleInv'
      BY <1>0, <2>2, <2>3, <2>5, <2>6, <2>7, <2>8, SocketBegin
    <2>10. Untouched => kernel[c.fd].nonblock /\ (l = "direct" => ~Get(c.fd).there)
      BY <2>1, <2>3, <2>5, <2>6, ConnectedNonblock, DirectIsGone
    <2>11. NonblockInv'
      BY <1>0, <2>2, <2>3, <2>5, <2>6, <2>10, NonblockBegin
    <2> QED  BY <2>9, <2>11
  <1>2. CASE socket(f)
    <2>1. PICK n \in Fds : /\ Lowest(n) /\ Begin(f, "socket", n, "READ", "forever")
                           /\ kernel' = [kernel EXCEPT ![n] = Opened("new")]
                           /\ Goto(f, IF Get(n).there THEN "created" ELSE "create")
      BY <1>2 DEF socket
    <2>2. UNCHANGED <<m_datas, last>> /\ Calls(f, "socket")  BY <1>2 DEF socket
    <2>3. ~use.server /\ pc[f] = "run" /\ n \in Numbers /\ ~kernel[n].open
      BY <1>0, <1>S, <2>1, <2>2 DEF Lowest
    <2>4. PICK c \in Call : call' = [call EXCEPT ![f] = c] /\ c.op = "socket" /\ c.fd = n /\ c.e = "READ"
      BY <1>0, <2>1, <2>3, BeginCall
    <2>5. kernel'[n] = Opened("new") /\ \A fd \in Fds \ {n} : kernel'[fd] = kernel[fd]
      BY <2>1 DEF TypeOK, HookTypeOK
    <2>6. Opened("new").open  BY DEF Opened
    <2>7. /\ kernel'[c.fd].open /\ \A fd \in Fds : kernel[fd].open => kernel'[fd].open
      BY <2>4, <2>5, <2>6
    <2>8. pc' = [pc EXCEPT ![f] = IF Get(c.fd).there THEN "created" ELSE "create"]
      BY <2>1, <2>4 DEF Goto
    <2>9. \A g \in Fibers \ {f} : call[g].fd # c.fd
      BY <1>0, <2>3, <2>4 DEF SocketInv
    <2>10. SocketInv' /\ SoleInv'
      <3>1. PICK l : pc' = [pc EXCEPT ![f] = l]  BY <2>8
      <3> QED  BY <1>0, <2>3, <2>4, <2>7, <2>9, <3>1, SocketBegin
    <2>11. NonblockInv'
      <3>1. /\ c.fd \in Fds /\ ~kernel[c.fd].open /\ c.op \in {"socket", "accept"}
            /\ pc[f] # "create"
            /\ kernel'[c.fd] = Opened(IF c.op = "socket" THEN "new" ELSE "connected")
            /\ \A fd \in Fds \ {c.fd} :
                  /\ kernel'[fd].open = kernel[fd].open /\ kernel'[fd].nonblock = kernel[fd].nonblock
                  /\ kernel'[fd].state = kernel[fd].state
            /\ UNCHANGED <<use, role, client, task, m_datas, last>>
        BY <1>0, <2>2, <2>3, <2>4, <2>5
      <3> QED  BY <2>4, <2>8, <3>1, NonblockOpen
    <2> QED  BY <2>10, <2>11
  <1>3. CASE connect(f)
    <2>1. PICK fd \in Fds, to \in Timeouts, res \in {"0", "error", "EINPROGRESS"} :
            /\ kernel[fd].open /\ MayWait(fd, "WRITE")
            /\ IF ~Get(fd).there THEN Quick(f, "connect", fd, "EBADF") /\ UNCHANGED kernel
               ELSE /\ ConnectF(fd, res)
                    /\ IF Get(fd).m_userNonblock \/ res # "EINPROGRESS"
                       THEN Quick(f, "connect", fd, res)
                       ELSE /\ Begin(f, "connect", fd, "WRITE", to)
                            /\ IF to = "forever" THEN UNCHANGED timers ELSE AddTimer(f)
                            /\ Goto(f, "add")
                            /\ UNCHANGED <<use, m_events, expired, cause, last, failed>>
      BY <1>3 DEF connect
    <2>2. UNCHANGED m_datas /\ Calls(f, "connect")  BY <1>3 DEF connect
    <2>3. ASSUME ConnectF(fd, res), Get(fd).there
          PROVE  \A x \in Fds :
                    /\ kernel'[x].open = kernel[x].open /\ kernel'[x].nonblock = kernel[x].nonblock
                    /\ kernel'[x].state = kernel[x].state \/ Get(x).there
      <3>1. \/ UNCHANGED kernel \/ kernel' = Turns(fd, "new", {})
            \/ \E s \in {"connected", "connecting"} : kernel' = [kernel EXCEPT ![fd].state = s]
        BY <2>3 DEF ConnectF
      <3>2. CASE kernel' = Turns(fd, "new", {})
        BY <2>3, <3>2 DEF Turns, TypeOK, HookTypeOK
      <3>3. CASE \E s \in {"connected", "connecting"} : kernel' = [kernel EXCEPT ![fd].state = s]
        <4>1. /\ kernel'[fd].open = kernel[fd].open /\ kernel'[fd].nonblock = kernel[fd].nonblock
              /\ \A x \in Fds \ {fd} : kernel'[x] = kernel[x]
          BY <1>K, <3>3 DEF TypeOK, HookTypeOK, Descriptor
        <4> QED  BY <2>3, <4>1
      <3> QED  BY <3>1, <3>2, <3>3
    <2>4. CASE ~Get(fd).there
      <3>1. Quick(f, "connect", fd, "EBADF") /\ UNCHANGED kernel  BY <2>1, <2>4
      <3> QED  BY <1>Q, <2>2, <3>1, Kept
    <2>5. CASE Get(fd).there /\ (Get(fd).m_userNonblock \/ res # "EINPROGRESS")
      <3>1. Quick(f, "connect", fd, res) /\ ConnectF(fd, res)  BY <2>1, <2>5
      <3>2. KernelKept  BY <2>3, <2>5, <3>1 DEF KernelKept
      <3> QED  BY <1>Q, <2>2, <3>1, <3>2, Kept
    <2>6. CASE Get(fd).there /\ ~(Get(fd).m_userNonblock \/ res # "EINPROGRESS")
      <3>1. /\ Begin(f, "connect", fd, "WRITE", to) /\ pc' = [pc EXCEPT ![f] = "add"]
            /\ UNCHANGED last /\ ConnectF(fd, res)
        BY <2>1, <2>6 DEF Goto
      <3>2. ~use.server /\ pc[f] = "run" /\ fd \in Numbers  BY <1>0, <1>S, <2>2
      <3>3. PICK c \in Call : call' = [call EXCEPT ![f] = c] /\ c.op = "connect" /\ c.fd = fd /\ c.e = "WRITE"
        BY <1>0, <3>1, <3>2, BeginCall
      <3>4. \A g \in Fibers \ {f} : call[g].fd = c.fd => call[g].e # c.e
        BY <2>1, <3>3 DEF MayWait
      <3>5. \A x \in Fds :
                /\ kernel'[x].open = kernel[x].open /\ kernel'[x].nonblock = kernel[x].nonblock
                /\ kernel'[x].state = kernel[x].state \/ Get(x).there
        BY <2>3, <2>6, <3>1
      <3>6. kernel'[c.fd].open /\ \A x \in Fds : kernel[x].open => kernel'[x].open
        BY <2>1, <3>3, <3>5
      <3>7. SocketInv' /\ SoleInv'
        BY <1>0, <3>1, <3>2, <3>3, <3>4, <3>6, SocketBegin
      <3>8. Untouched => kernel[c.fd].nonblock  BY <2>6, <3>3 DEF NonblockInv
      <3>9. NonblockInv'
        BY <1>0, <2>2, <3>1, <3>2, <3>3, <3>5, <3>8, NonblockBegin
      <3> QED  BY <3>7, <3>9
    <2> QED  BY <2>4, <2>5, <2>6
  <1>4. CASE close(f)
    <2>1. PICK fd \in Fds : /\ CancelAll(fd) \/ UNCHANGED <<pc, cause, m_events>>
                            /\ \/ UNCHANGED last
                               \/ last' = [last EXCEPT ![f] =
                                              [NoneYet EXCEPT !.op = "close", !.fd = fd]]
      BY <1>4 DEF close
    <2>2. UNCHANGED <<kernel, call, m_datas>>  BY <1>4 DEF close
    <2>3. GoesOn /\ NobodyBlocks
      <3>1. CASE CancelAll(fd)  BY <2>2, <3>1, CancelGoesOn
      <3>2. CASE UNCHANGED <<pc, cause, m_events>>
        BY <2>2, <3>2 DEF GoesOn, NobodyBlocks
      <3> QED  BY <2>1, <3>1, <3>2
    <2>4. NoNewAgain
      <3>1. PICK r : /\ r = [NoneYet EXCEPT !.op = "close", !.fd = fd]
                     /\ last' = last \/ last' = [last EXCEPT ![f] = r]
        BY <2>1
      <3>2. r.res = "none"  BY <3>1 DEF NoneYet
      <3>3. \A g \in Fibers : last'[g] = last[g] \/ last'[g].res = "none"
        BY <3>1, <3>2 DEF TypeOK, HookTypeOK
      <3> QED  BY <3>3 DEF NoNewAgain
    <2> QED  BY <2>2, <2>3, <2>4, Kept, DescQuiet
  <1>5. CASE close_f(f)
    <2>1. PICK fd \in Fds : /\ \A g \in Fibers : call[g].fd # fd
                            /\ kernel' = [kernel EXCEPT ![fd] = Closed]
                            /\ Quick(f, "close_f", fd, "0")
      BY <1>5 DEF close_f
    <2>2. \A x \in Fds \ {fd} : kernel'[x] = kernel[x]  BY <2>1 DEF TypeOK, HookTypeOK
    <2>3. UNCHANGED call /\ Calls(f, "close_f")  BY <1>5, <2>1 DEF close_f, Quick
    <2>4. \A g \in Fibers : call[g].fd \in Fds \/ call[g].fd = -1  BY RunIsNoCall
    <2>5. ~use.server  BY <1>S, <2>3
    <2>6. \A g \in Fibers : call'[g].fd # -1 => kernel'[call'[g].fd].open
      BY <2>1, <2>2, <2>3, <2>4 DEF SocketInv
    <2>7. SocketInv'  BY <1>0, <2>5, <2>6 DEF SocketInv
    <2>8. SoleInv'  BY <2>3 DEF SoleInv
    <2>9. NonblockInv'  BY <2>3 DEF NonblockInv, Untouched, Calls
    <2> QED  BY <2>7, <2>8, <2>9
  <1>6. CASE setsockopt(f)
    <2>1. PICK fd \in Fds, e \in use.events, to \in Timeouts :
            /\ m_datas' = IF Get(fd).there THEN [m_datas EXCEPT ![fd].m_timeout[e] = to] ELSE m_datas
            /\ Quick(f, "setsockopt", fd, "0")
      BY <1>6 DEF setsockopt
    <2>2. UNCHANGED kernel  BY <1>6 DEF setsockopt
    <2>3. ContextsKept
      <3>1. CASE ~Get(fd).there  BY <2>1, <3>1, Kept
      <3>2. CASE Get(fd).there
        <4>1. m_datas[fd] \in Context  BY <3>2, CtxType DEF Get
        <4>2. m_datas' = [m_datas EXCEPT ![fd].m_timeout[e] = to]  BY <2>1, <3>2
        <4>3. /\ m_datas'[fd].m_isSocket = m_datas[fd].m_isSocket
              /\ m_datas'[fd].m_userNonblock = m_datas[fd].m_userNonblock
              /\ \A x \in Fds \ {fd} : m_datas'[x] = m_datas[x]
          BY <4>1, <4>2 DEF TypeOK, HookTypeOK, Context
        <4> QED  BY <3>2, <4>3 DEF ContextsKept, Get
      <3> QED  BY <3>1, <3>2
    <2> QED  BY <1>Q, <2>1, <2>2, <2>3, Kept
  <1>7. CASE fcntl(f) \/ ioctl(f)
    <2>1. PICK fd \in Fds, nb \in BOOLEAN, op \in {"fcntl", "ioctl"} :
            /\ kernel' = [kernel EXCEPT ![fd].nonblock = nb] /\ Quick(f, op, fd, "0")
            /\ Calls(f, op)
      BY <1>7 DEF fcntl, ioctl
    <2>2. /\ \A x \in Fds \ {fd} : kernel'[x] = kernel[x]
          /\ kernel'[fd].open = kernel[fd].open
      BY <1>K, <2>1 DEF TypeOK, HookTypeOK, Descriptor
    <2>3. GoesOn  BY <2>1 DEF Quick, GoesOn
    <2>4. SocketInv' /\ SoleInv'  BY <1>0, <2>2, <2>3, SocketQuiet
    <2>5. NonblockInv'  BY <2>1 DEF NonblockInv, Untouched, Calls
    <2> QED  BY <2>4, <2>5
  <1>8. CASE sleep(f)
    <2>1. /\ Begin(f, "sleep", -1, "READ", "some") /\ Calls(f, "sleep")
          /\ pc' = [pc EXCEPT ![f] = "hold"] /\ UNCHANGED <<m_datas, kernel, last>>
      BY <1>8 DEF sleep, Goto
    <2>2. ~use.server /\ pc[f] = "run"  BY <1>S, <2>1
    <2>3. PICK c \in Call : call' = [call EXCEPT ![f] = c] /\ c.op = "sleep" /\ c.fd = -1
      BY <1>0, <2>1, BeginCall
    <2>4. SocketInv' /\ SoleInv'  BY <1>0, <2>1, <2>2, <2>3, SocketBegin
    <2>5. NonblockInv'  BY <1>0, <2>1, <2>2, <2>3, NonblockBegin
    <2> QED  BY <2>4, <2>5
  <1> QED  BY <1>1, <1>2, <1>3, <1>4, <1>5, <1>6, <1>7, <1>8 DEF Client

\* A descriptor that a client's fiber has, or that waits for one.
LEMMA ServerTask ==
  ASSUME SocketInv, NEW f \in Fibers, role[f] # "none"
  PROVE  use.server
  BY DEF SocketInv

\* A step of the server that begins no call.
LEMMA ServerQuiet ==
  ASSUME TypeOK, HookInv, SocketInv, SoleInv, NonblockInv, UNCHANGED use,
         GoesOn, NobodyBlocks, RolesEnd, UNCHANGED kernel, ContextsKept, NoNewAgain
  PROVE  SocketInv' /\ SoleInv' /\ NonblockInv'
  <1>1. KernelKept /\ \A fd \in Fds : kernel[fd].open => kernel'[fd].open  BY Kept
  <1> QED  BY <1>1, SocketQuiet, NonblockQuiet

\* A fiber takes the client that waited for one.
LEMMA DescTake ==
  ASSUME TypeOK, HookInv, SocketInv, SoleInv, NonblockInv, UNCHANGED use, NEW f \in Fibers,
         NEW fd \in task.clients, UNCHANGED <<m_datas, kernel, pc, call, last>>,
         role[f] = "none", role' = [role EXCEPT ![f] = "handleClient"],
         client' = [client EXCEPT ![f] = fd], task'.clients = task.clients \ {fd}
  PROVE  SocketInv' /\ SoleInv' /\ NonblockInv'
  <1>0. use.server /\ fd \in Fds /\ use' = use
    BY DEF SocketInv, TypeOK, ServerTypeOK
  <1>1. /\ Serving(f)' /\ client'[f] = fd /\ ~Serving(f)
        /\ \A g \in Fibers \ {f} : (Serving(g)' <=> Serving(g)) /\ client'[g] = client[g]
        /\ \A g \in Fibers : Coming(g)' <=> Coming(g)
    BY DEF Serving, Coming, TypeOK, ServerTypeOK
  <1>2. SoleInv'  BY DEF SoleInv
  <1>3. SocketInv'
    <2>1. /\ \A g \in Fibers : call'[g].fd # -1 => kernel'[call'[g].fd].open
          /\ kernel'[Listener].open /\ Listener \notin task'.clients
          /\ \A x \in task'.clients : kernel'[x].open
      BY <1>0 DEF SocketInv
    <2>2. ASSUME NEW g \in Fibers, call'[g].op # "none"
          PROVE  /\ call'[g].e = "READ"
                 /\ \/ call'[g].op = "io" /\ Serving(g)' /\ call'[g].fd = client'[g]
                    \/ call'[g].op = "accept" /\ (call'[g].fd \in {Listener, -1} \/ Coming(g)')
      BY <1>0, <1>1, <2>2 DEF SocketInv
    <2>3. ASSUME NEW g \in Fibers, Coming(g)'
          PROVE  /\ call'[g].fd # Listener /\ call'[g].fd \notin task'.clients
                 /\ \A h \in Fibers \ {g} : Coming(h)' => call'[h].fd # call'[g].fd
                 /\ \A h \in Fibers : Serving(h)' => client'[h] # call'[g].fd
      BY <1>0, <1>1, <2>3 DEF SocketInv
    <2>4. ASSUME NEW g \in Fibers, Serving(g)'
          PROVE  /\ kernel'[client'[g]].open
                 /\ client'[g] # Listener /\ client'[g] \notin task'.clients
                 /\ \A h \in Fibers \ {g} : Serving(h)' => client'[h] # client'[g]
      <3>1. CASE g = f  BY <1>0, <1>1, <2>4, <3>1 DEF SocketInv
      <3>2. CASE g # f  BY <1>0, <1>1, <2>4, <3>2 DEF SocketInv
      <3> QED  BY <3>1, <3>2
    <2> QED  BY <1>0, <2>1, <2>2, <2>3, <2>4 DEF SocketInv
  <1>4. NonblockInv'
    <2> SUFFICES ASSUME Untouched  PROVE NonblockInv'
      BY DEF NonblockInv, Untouched
    <2> USE DEF Get
    <2>1. /\ \A x \in Fds : m_datas'[x].there =>
                /\ kernel'[x].open /\ kernel'[x].nonblock
                /\ m_datas'[x].m_isSocket /\ ~m_datas'[x].m_userNonblock
          /\ \A x \in Fds : kernel'[x].open /\ ~kernel'[x].nonblock =>
                \E g \in Fibers : pc'[g] = "create" /\ call'[g].fd = x
      BY DEF NonblockInv
    <2>2. ASSUME NEW g \in Fibers, pc'[g] = "create"
          PROVE  /\ ~kernel'[call'[g].fd].nonblock /\ ~m_datas'[call'[g].fd].there
                 /\ call'[g].op = "socket" => kernel'[call'[g].fd].state = "new"
                 /\ \A h \in Fibers \ {g} : pc'[h] \in {"create", "created"} => call'[h].fd # call'[g].fd
                 /\ \A h \in Fibers : Serving(h)' => client'[h] # call'[g].fd
                 /\ call'[g].fd \notin task'.clients
      BY <1>1, <2>2 DEF NonblockInv
    <2>3. \A g \in Fibers :
             /\ pc'[g] = "direct" /\ call'[g].fd # -1 => ~m_datas'[call'[g].fd].there
             /\ pc'[g] \in {"direct", "fun", "add", "hold", "woken"} /\ call'[g].fd # -1 =>
                   kernel'[call'[g].fd].nonblock
             /\ pc'[g] # "blocked"
             /\ last'[g].res = "EAGAIN" =>
                   /\ last'[g].fd \in Fds /\ ~m_datas'[last'[g].fd].there
                   /\ kernel'[last'[g].fd].nonblock
      BY DEF NonblockInv
    <2> QED  BY <2>1, <2>2, <2>3 DEF NonblockInv
  <1> QED  BY <1>2, <1>3, <1>4

\* A client that has been accepted begins to wait for a fiber.
LEMMA DescAccepted ==
  ASSUME TypeOK, HookInv, SocketInv, SoleInv, NonblockInv, UNCHANGED use, NEW f \in Fibers,
         Coming(f), pc[f] = "created", Return(f, "n"), ContextsKept,
         UNCHANGED <<kernel, role, client>>,
         task'.clients = task.clients \cup {call[f].fd}
  PROVE  SocketInv' /\ SoleInv' /\ NonblockInv'
  <1>0. /\ use.server /\ use' = use /\ call[f].fd \in Fds
    <2>1. call[f].op = "accept" /\ role[f] = "startAccept" /\ call[f].fd \in Fds
      BY DEF Coming, HookInv, CallInv, Legal
    <2> QED  BY <2>1, ServerTask
  <1>1. PICK fd \in Fds : fd = call[f].fd  BY <1>0
  <1>2. /\ GoesOn /\ NobodyBlocks /\ \A g \in Fibers \ {f} : last'[g] = last[g]
        /\ last'[f].res = "n"
    BY ReturnGoesOn DEF Results
  <1>3. /\ pc'[f] = "run" /\ call'[f] = NoCall
        /\ \A g \in Fibers \ {f} : pc'[g] = pc[g] /\ call'[g] = call[g]
        /\ NoCall.op = "none" /\ NoCall.fd = -1
    <2>1. pc' = [pc EXCEPT ![f] = "run"] /\ call' = [call EXCEPT ![f] = NoCall]
      BY DEF Return, Goto
    <2> QED  BY <2>1 DEF TypeOK, HookTypeOK, NoCall
  <1>4. /\ ~Coming(f)' /\ \A g \in Fibers \ {f} : Coming(g)' <=> Coming(g)
        /\ \A g \in Fibers : Serving(g)' <=> Serving(g)
    BY <1>3 DEF Coming, Serving
  <1>5. /\ fd # Listener /\ kernel[fd].open
        /\ \A g \in Fibers \ {f} : Coming(g) => call[g].fd # fd
        /\ \A g \in Fibers : Serving(g) => client[g] # fd
    BY <1>0, <1>1, RecordTypes DEF SocketInv
  <1>6. SoleInv'
    <2> SUFFICES ASSUME ~use.restart, NEW g \in Fibers, NEW h \in Fibers, g # h,
                        call'[g].fd = call'[h].fd, call'[g].fd # -1
                 PROVE  call'[g].e # call'[h].e
      BY DEF SoleInv
    <2>1. g # f /\ h # f  BY <1>3
    <2> QED  BY <1>3, <2>1 DEF SoleInv
  <1>7. SocketInv'
    <2>1. /\ \A g \in Fibers : call'[g].fd # -1 => kernel'[call'[g].fd].open
          /\ kernel'[Listener].open /\ Listener \notin task'.clients
          /\ \A x \in task'.clients : kernel'[x].open
      BY <1>0, <1>1, <1>3, <1>5 DEF SocketInv
    <2>2. ASSUME NEW g \in Fibers, call'[g].op # "none"
          PROVE  /\ call'[g].e = "READ"
                 /\ \/ call'[g].op = "io" /\ Serving(g)' /\ call'[g].fd = client'[g]
                    \/ call'[g].op = "accept" /\ (call'[g].fd \in {Listener, -1} \/ Coming(g)')
      BY <1>0, <1>3, <1>4, <2>2 DEF SocketInv
    <2>3. ASSUME NEW g \in Fibers, Coming(g)'
          PROVE  /\ call'[g].fd # Listener /\ call'[g].fd \notin task'.clients
                 /\ \A h \in Fibers \ {g} : Coming(h)' => call'[h].fd # call'[g].fd
                 /\ \A h \in Fibers : Serving(h)' => client'[h] # call'[g].fd
      BY <1>0, <1>1, <1>3, <1>4, <1>5, <2>3 DEF SocketInv
    <2>4. ASSUME NEW g \in Fibers, Serving(g)'
          PROVE  /\ kernel'[client'[g]].open
                 /\ client'[g] # Listener /\ client'[g] \notin task'.clients
                 /\ \A h \in Fibers \ {g} : Serving(h)' => client'[h] # client'[g]
      BY <1>0, <1>1, <1>4, <1>5, <2>4 DEF SocketInv
    <2> QED  BY <1>0, <2>1, <2>2, <2>3, <2>4 DEF SocketInv
  <1>8. NonblockInv'
    <2> SUFFICES ASSUME Untouched  PROVE NonblockInv'
      BY DEF NonblockInv, Untouched
    <2> USE DEF Get, ContextsKept
    <2>0. \A g \in Fibers : /\ call[g].fd \in Fds \/ call[g].fd = -1
                            /\ pc[g] = "create" => call[g].fd \in Fds
      <3>1. \A g \in Fibers : pc[g] = "create" => call[g].fd \in Fds
        BY DEF HookInv, CallInv, Legal, TypeOK, HookTypeOK, Call, CallOps
      <3> QED  BY <3>1, RunIsNoCall
    <2>1. /\ \A x \in Fds : m_datas'[x].there =>
                /\ kernel'[x].open /\ kernel'[x].nonblock
                /\ m_datas'[x].m_isSocket /\ ~m_datas'[x].m_userNonblock
      BY DEF NonblockInv
    <2>2. \A x \in Fds : kernel'[x].open /\ ~kernel'[x].nonblock =>
                \E g \in Fibers : pc'[g] = "create" /\ call'[g].fd = x
      <3> SUFFICES ASSUME NEW x \in Fds, kernel[x].open, ~kernel[x].nonblock
                   PROVE  \E g \in Fibers : pc'[g] = "create" /\ call'[g].fd = x
        OBVIOUS
      <3>1. PICK g \in Fibers : pc[g] = "create" /\ call[g].fd = x  BY DEF NonblockInv
      <3> QED  BY <1>3, <3>1
    <2>3. ASSUME NEW g \in Fibers, pc'[g] = "create"
          PROVE  /\ ~kernel'[call'[g].fd].nonblock /\ ~m_datas'[call'[g].fd].there
                 /\ call'[g].op = "socket" => kernel'[call'[g].fd].state = "new"
                 /\ \A h \in Fibers \ {g} : pc'[h] \in {"create", "created"} => call'[h].fd # call'[g].fd
                 /\ \A h \in Fibers : Serving(h)' => client'[h] # call'[g].fd
                 /\ call'[g].fd \notin task'.clients
      <3>1. g # f /\ pc[g] = "create" /\ call'[g] = call[g] /\ call[g].fd \in Fds
        BY <1>3, <2>0, <2>3
      <3>2. /\ ~kernel[call[g].fd].nonblock /\ ~m_datas[call[g].fd].there
            /\ call[g].op = "socket" => kernel[call[g].fd].state = "new"
            /\ \A h \in Fibers \ {g} : pc[h] \in {"create", "created"} => call[h].fd # call[g].fd
            /\ \A h \in Fibers : Serving(h) => client[h] # call[g].fd
            /\ call[g].fd \notin task.clients
        BY <3>1 DEF NonblockInv
      <3> QED  BY <1>3, <1>4, <3>1, <3>2
    <2>4. ASSUME NEW g \in Fibers
          PROVE  /\ pc'[g] = "direct" /\ call'[g].fd # -1 => ~m_datas'[call'[g].fd].there
                 /\ pc'[g] \in {"direct", "fun", "add", "hold", "woken"} /\ call'[g].fd # -1 =>
                       kernel'[call'[g].fd].nonblock
                 /\ pc'[g] # "blocked"
                 /\ last'[g].res = "EAGAIN" =>
                       /\ last'[g].fd \in Fds /\ ~m_datas'[last'[g].fd].there
                       /\ kernel'[last'[g].fd].nonblock
      <3>1. CASE g = f  BY <1>2, <1>3, <3>1
      <3>2. CASE g # f  BY <1>2, <1>3, <2>0, <3>2 DEF NonblockInv
      <3> QED  BY <3>1, <3>2
    <2> QED  BY <2>1, <2>2, <2>3, <2>4 DEF NonblockInv
  <1> QED  BY <1>6, <1>7, <1>8

\* What the server's own fibers do.
LEMMA DescServer ==
  ASSUME TypeOK, TypeOK', HookInv, AcceptInv, SocketInv, SoleInv, NonblockInv, UNCHANGED use,
         NEW f \in Fibers,
         \/ TakeTask(f) \/ startAccept(f) \/ Accepted(f) \/ StopTask(f) \/ StopCloses(f)
         \/ StopClosed(f) \/ ClientCloses(f) \/ ClientOver(f) \/ ClientReads(f)
  PROVE  SocketInv' /\ SoleInv' /\ NonblockInv'
  <1> USE DEF fibers, history
  <1>0. /\ role \in [Fibers -> Roles]
        /\ client \in [Fibers -> Numbers] /\ Listener \in Fds /\ -1 \notin Fds
        /\ Fds \subseteq Numbers /\ "READ" \in Events /\ {"io", "accept"} \subseteq CallOps
        /\ task \in [accept : Nat, stop : Nat, clients : SUBSET Fds]
        /\ call' \in [Fibers -> Call]
    BY ServerAssumption, RecordTypes DEF TypeOK, HookTypeOK, ServerTypeOK, Events, CallOps, Roles
  <1>C. \A g \in Fibers : /\ call[g].fd \in Fds \/ call[g].fd = -1
                          /\ call[g].op = "none" => call[g].fd = -1
                          /\ call[g].op = "accept" => role[g] = "startAccept"
                          /\ pc[g] = "create" => call[g].op \in {"socket", "accept"}
    <2>1. \A g \in Fibers : /\ call[g].op = "accept" => role[g] = "startAccept"
                            /\ pc[g] = "create" => call[g].op \in {"socket", "accept"}
      BY DEF HookInv, CallInv, Legal, TypeOK, HookTypeOK, Call, CallOps
    <2> QED  BY <2>1, RunIsNoCall
  <1>P. UNCHANGED <<pc, call>> => GoesOn /\ NobodyBlocks
    BY DEF GoesOn, NobodyBlocks
  <1>D. ASSUME Done(f), pc[f] = "run", use.server, UNCHANGED <<task, starts>>  PROVE RolesEnd
    BY <1>0, <1>D DEF Done, RolesEnd
  <1>1. CASE TakeTask(f)
    <2>1. UNCHANGED <<m_datas, kernel, pc, call, last, starts>> /\ role[f] = "none" /\ pc[f] = "run"
      BY <1>1 DEF TakeTask, hookVars, Free
    <2>2. CASE \E r \in {"startAccept", "stop"} :
                 /\ use.server /\ role' = [role EXCEPT ![f] = r]
                 /\ UNCHANGED client /\ task'.clients = task.clients
      <3>1. RolesEnd  BY <1>0, <2>1, <2>2 DEF RolesEnd
      <3> QED  BY <1>P, <2>1, <3>1, Kept, ServerQuiet
    <2>3. CASE \E fd \in task.clients :
                 /\ task' = [task EXCEPT !.clients = @ \ {fd}]
                 /\ role' = [role EXCEPT ![f] = "handleClient"]
                 /\ client' = [client EXCEPT ![f] = fd]
      <3>1. PICK fd \in task.clients :
                 /\ task' = [task EXCEPT !.clients = @ \ {fd}]
                 /\ role' = [role EXCEPT ![f] = "handleClient"]
                 /\ client' = [client EXCEPT ![f] = fd]
        BY <2>3
      <3>2. task'.clients = task.clients \ {fd}  BY <1>0, <3>1
      <3> QED  BY <2>1, <3>1, <3>2, DescTake
    <2>4. ASSUME task.accept > 0 \/ task.stop > 0  PROVE use.server
      BY <2>4 DEF SocketInv
    <2>5. CASE task.accept > 0 /\ task' = [task EXCEPT !.accept = @ - 1]
                 /\ role' = [role EXCEPT ![f] = "startAccept"] /\ UNCHANGED client
      <3>1. task'.clients = task.clients  BY <1>0, <2>5
      <3> QED  BY <2>2, <2>4, <2>5, <3>1
    <2>6. CASE task.stop > 0 /\ task' = [task EXCEPT !.stop = @ - 1]
                 /\ role' = [role EXCEPT ![f] = "stop"] /\ UNCHANGED client
      <3>1. task'.clients = task.clients  BY <1>0, <2>6
      <3> QED  BY <2>2, <2>4, <2>6, <3>1
    <2> QED  BY <1>1, <2>3, <2>5, <2>6 DEF TakeTask
  <1>2. CASE startAccept(f)
    <2>0. /\ role[f] = "startAccept" /\ pc[f] = "run" /\ use.server /\ UNCHANGED <<task, starts>>
      BY <1>2, ServerTask DEF startAccept
    <2>1. CASE m_isStop
      <3>1. Done(f) /\ UNCHANGED hookVars  BY <1>2, <2>1 DEF startAccept
      <3>2. UNCHANGED <<m_datas, kernel, pc, call, last>>  BY <3>1 DEF hookVars
      <3> QED  BY <1>D, <1>P, <2>0, <3>1, <3>2, Kept, ServerQuiet
    <2>2. CASE ~m_isStop
      <3>1. /\ call' = [call EXCEPT ![f] = AcceptCall]
            /\ pc' = [pc EXCEPT ![f] = IF m_sock = -1 \/ Direct(m_sock) THEN "direct" ELSE "fun"]
            /\ UNCHANGED <<m_datas, kernel, last, role, client>>
        BY <1>2, <2>2 DEF startAccept, Goto
      <3>2. PICK l \in {"direct", "fun", "add", "hold"} :
              /\ pc' = [pc EXCEPT ![f] = l]
              /\ l \notin {"create", "created"}
              /\ l = "direct" /\ m_sock # -1 => Direct(m_sock)
        BY <3>1
      <3>3. PICK c : c = AcceptCall  OBVIOUS
      <3>4. /\ c.op = "accept" /\ c.fd = m_sock /\ c.e = "READ" /\ c \in Call
            /\ call' = [call EXCEPT ![f] = c] /\ c.fd \in {Listener, -1}
        <4>1. c.op = "accept" /\ c.fd = m_sock /\ c.e = "READ"  BY <3>3 DEF AcceptCall
        <4>2. call'[f] = c  BY <3>1, <3>3 DEF TypeOK, HookTypeOK
        <4>3. c \in Call  BY <1>0, <4>2
        <4> QED  BY <3>1, <3>3, <4>1, <4>3 DEF TypeOK, ServerTypeOK
      <3>5. kernel[Listener].open  BY <2>0 DEF SocketInv
      <3>6. ASSUME c.fd \in Fds, ~use.restart, NEW g \in Fibers \ {f}, call[g].fd = c.fd
            PROVE  call[g].e # c.e
        <4>1. call[g].fd = Listener /\ call[g].op # "none"  BY <1>0, <1>C, <3>4, <3>6
        <4>2. call[g].op # "accept"
          BY <1>C, <2>0, <3>6 DEF AcceptInv
        <4>3. Serving(g) /\ call[g].fd = client[g]  BY <2>0, <4>1, <4>2 DEF SocketInv
        <4> QED  BY <2>0, <4>1, <4>3 DEF SocketInv
      <3>7. SocketInv' /\ SoleInv'
        <4>1. c.fd \in Fds => kernel'[c.fd].open  BY <1>0, <3>1, <3>4, <3>5
        <4>2. c.fd \in Fds /\ ~use.restart =>
                 \A g \in Fibers \ {f} : call[g].fd = c.fd => call[g].e # c.e
          BY <3>6
        <4>3. UNCHANGED <<use, role, client, task, starts, kernel>>  BY <2>0, <3>1
        <4> QED  BY <2>0, <3>2, <3>4, <4>1, <4>2, <4>3, SocketBegin
      <3>8. ASSUME Untouched, c.fd # -1
            PROVE  kernel[c.fd].nonblock /\ (l = "direct" => ~Get(c.fd).there)
        <4>1. c.fd = Listener  BY <3>4, <3>8
        <4>2. ASSUME ~kernel[Listener].nonblock  PROVE FALSE
          <5>1. PICK g \in Fibers : pc[g] = "create" /\ call[g].fd = Listener
            BY <1>0, <3>5, <3>8, <4>2 DEF NonblockInv
          <5>2. call[g].op \in {"socket", "accept"}  BY <1>C, <5>1
          <5>3. call[g].op = "accept"  BY <2>0, <5>2 DEF SocketInv
          <5>4. Coming(g)  BY <5>1, <5>3 DEF Coming
          <5> QED  BY <2>0, <5>1, <5>4 DEF SocketInv
        <4>3. kernel[Listener].nonblock \in BOOLEAN  BY <1>0, KernelType DEF Descriptor
        <4>4. l = "direct" => ~Get(Listener).there
          BY <1>0, <3>2, <3>4, <3>8, <4>1, DirectIsGone
        <4> QED  BY <4>1, <4>2, <4>3, <4>4
      <3>9. NonblockInv'
        BY <2>0, <3>1, <3>2, <3>4, <3>8, NonblockBegin
      <3> QED  BY <3>7, <3>9
    <2> QED  BY <2>1, <2>2
  <1>3. CASE Accepted(f)
    <2>1. /\ Return(f, "n") /\ pc[f] = "created" /\ call[f].op = "accept"
          /\ UNCHANGED <<kernel, role, client, starts>>
      BY <1>3 DEF Accepted
    <2>2. PICK fd \in Fds : fd = call[f].fd
      BY <2>1 DEF HookInv, CallInv, Legal
    <2>3. Coming(f)  BY <2>1 DEF Coming
    <2>4. CASE Get(fd).there /\ Get(fd).m_isSocket
      <3>1. /\ m_datas' = [m_datas EXCEPT ![fd].m_timeout["READ"] = "some"]
            /\ task' = [task EXCEPT !.clients = @ \cup {fd}]
        BY <1>3, <2>2, <2>4 DEF Accepted
      <3>2. task'.clients = task.clients \cup {call[f].fd}  BY <1>0, <2>2, <3>1
      <3>3. m_datas[fd] \in Context  BY <2>4, CtxType DEF Get
      <3>4. /\ m_datas'[fd].m_isSocket = m_datas[fd].m_isSocket
            /\ m_datas'[fd].m_userNonblock = m_datas[fd].m_userNonblock
            /\ \A x \in Fds \ {fd} : m_datas'[x] = m_datas[x]
        BY <1>0, <3>1, <3>3 DEF TypeOK, HookTypeOK, Context
      <3>5. ContextsKept  BY <2>4, <3>4 DEF ContextsKept, Get
      <3> QED  BY <2>1, <2>3, <3>2, <3>5, DescAccepted
    <2>5. CASE ~(Get(fd).there /\ Get(fd).m_isSocket)
      <3>1. UNCHANGED <<m_datas, task>>  BY <1>3, <2>2, <2>5 DEF Accepted
      <3>2. "n" \in Results  BY DEF Results
      <3>3. /\ GoesOn /\ NobodyBlocks /\ last'[f].res = "n"
            /\ \A g \in Fibers \ {f} : last'[g] = last[g]
        BY <2>1, <3>2, ReturnGoesOn
      <3>4. NoNewAgain  BY <3>3 DEF NoNewAgain
      <3>5. RolesEnd  BY <2>1, <3>1 DEF RolesEnd
      <3> QED  BY <2>1, <3>1, <3>3, <3>4, <3>5, Kept, ServerQuiet
    <2> QED  BY <2>4, <2>5
  <1>4. CASE StopTask(f)
    <2>1. /\ role[f] = "stop" /\ CancelAll(Listener) /\ role' = [role EXCEPT ![f] = "close"]
          /\ UNCHANGED <<m_datas, kernel, call, last, client, task, starts>>
      BY <1>4 DEF StopTask
    <2>2. pc[f] = "run" /\ use.server  BY <2>1, ServerTask DEF HookInv, CallInv, Closers
    <2>3. RolesEnd  BY <1>0, <2>1, <2>2 DEF RolesEnd
    <2>4. GoesOn /\ NobodyBlocks  BY <1>0, <2>1, CancelGoesOn
    <2> QED  BY <2>1, <2>3, <2>4, Kept, ServerQuiet
  <1>5. CASE StopCloses(f)
    <2>1. /\ role[f] = "close" /\ CancelAll(Listener) /\ role' = [role EXCEPT ![f] = "closed"]
          /\ UNCHANGED <<m_datas, kernel, call, last, client, task, starts>>
      BY <1>5 DEF StopCloses
    <2>2. pc[f] = "run" /\ use.server  BY <2>1, ServerTask DEF HookInv, CallInv, Closers
    <2>3. RolesEnd  BY <1>0, <2>1, <2>2 DEF RolesEnd
    <2>4. GoesOn /\ NobodyBlocks  BY <1>0, <2>1, CancelGoesOn
    <2> QED  BY <2>1, <2>3, <2>4, Kept, ServerQuiet
  <1>6. CASE StopClosed(f)
    <2>1. /\ role[f] \in {"stop", "close", "closed"} /\ Done(f)
          /\ Del(Listener) \/ UNCHANGED m_datas
          /\ UNCHANGED <<kernel, pc, call, last, task, starts>>
      BY <1>6 DEF StopClosed
    <2>2. pc[f] = "run" /\ use.server  BY <2>1, ServerTask DEF HookInv, CallInv, Closers
    <2>3. GoesOn /\ NobodyBlocks /\ ContextsKept
      BY <1>0, <1>P, <2>1, DelKeeps, Kept
    <2> QED  BY <1>D, <2>1, <2>2, <2>3, Kept, ServerQuiet
  <1>8. CASE ClientCloses(f)
    <2>1. /\ role[f] = "handleClient" /\ pc[f] = "run"
          /\ CancelAll(client[f]) /\ role' = [role EXCEPT ![f] = "over"]
          /\ UNCHANGED <<m_datas, kernel, call, last, client, task, starts>>
      BY <1>8 DEF ClientCloses
    <2>2. client[f] \in Fds  BY <2>1 DEF HookInv, CallInv
    <2>3. use.server  BY <2>1, ServerTask
    <2>4. RolesEnd  BY <1>0, <2>1, <2>3 DEF RolesEnd
    <2>5. GoesOn /\ NobodyBlocks  BY <2>1, <2>2, CancelGoesOn
    <2> QED  BY <2>1, <2>4, <2>5, Kept, ServerQuiet
  <1>9. CASE ClientOver(f)
    <2>1. /\ (role[f] = "over" /\ Del(client[f])) \/ (role[f] = "handleClient" /\ pc[f] = "run" /\ UNCHANGED m_datas)
          /\ Done(f) /\ last' = [last EXCEPT ![f] = NoneYet]
          /\ UNCHANGED <<kernel, pc, call, task, starts>>
      BY <1>9 DEF ClientOver
    <2>2. pc[f] = "run" /\ use.server  BY <2>1, ServerTask DEF HookInv, CallInv, Closers
    <2>3. \A g \in Fibers : last'[g] = last[g] \/ last'[g].res = "none"
      BY <2>1 DEF TypeOK, HookTypeOK, NoneYet
    <2>4. NoNewAgain  BY <2>3 DEF NoNewAgain
    <2>5. client[f] \in Numbers  BY <1>0
    <2>6. GoesOn /\ NobodyBlocks /\ ContextsKept
      BY <1>P, <2>1, <2>5, DelKeeps, Kept
    <2> QED  BY <1>D, <2>1, <2>2, <2>4, <2>6, ServerQuiet
  <1>7. CASE ClientReads(f)
    <2>1. /\ role[f] = "handleClient" /\ pc[f] = "run"
          /\ Begin(f, "io", client[f], "READ",
                   IF Direct(client[f]) THEN "forever" ELSE Get(client[f]).m_timeout["READ"])
          /\ Goto(f, IF Direct(client[f]) THEN "direct" ELSE "fun")
          /\ UNCHANGED <<m_datas, kernel, last, role, client, task, starts>>
      BY <1>7 DEF ClientReads, server
    <2>2. PICK fd \in Fds : fd = client[f]  BY <2>1 DEF HookInv, CallInv
    <2>3. PICK to : Begin(f, "io", fd, "READ", to)  BY <2>1, <2>2
    <2>4. fd \in Numbers /\ use.server /\ Serving(f)  BY <1>0, <2>1, ServerTask DEF Serving
    <2>5. PICK c \in Call : call' = [call EXCEPT ![f] = c] /\ c.op = "io" /\ c.fd = fd /\ c.e = "READ"
      BY <1>0, <2>3, <2>4, BeginCall
    <2>6. PICK l \in {"direct", "fun", "add", "hold"} :
            pc' = [pc EXCEPT ![f] = l] /\ (l = "direct" => Direct(fd))
      BY <2>1, <2>2 DEF Goto
    <2>7. kernel[fd].open /\ fd # Listener  BY <2>2, <2>4 DEF SocketInv
    <2>8. ASSUME NEW g \in Fibers \ {f}, call[g].fd = c.fd  PROVE FALSE
      <3>1. call[g].op # "none" /\ call[g].fd = fd /\ fd # -1  BY <1>0, <1>C, <2>5, <2>8
      <3>2. ~(Serving(g) /\ call[g].fd = client[g])
        BY <2>2, <2>4, <2>8, <3>1 DEF SocketInv
      <3>3. ~Coming(g)  BY <2>2, <2>4, <3>1 DEF SocketInv
      <3> QED  BY <2>4, <2>7, <3>1, <3>2, <3>3 DEF SocketInv
    <2>9. SocketInv' /\ SoleInv'
      BY <2>1, <2>2, <2>4, <2>5, <2>6, <2>7, <2>8, SocketBegin
    <2>10. ASSUME Untouched
           PROVE  kernel[c.fd].nonblock /\ (l = "direct" => ~Get(c.fd).there)
      <3>1. ASSUME ~kernel[fd].nonblock  PROVE FALSE
        <4>1. PICK g \in Fibers : pc[g] = "create" /\ call[g].fd = fd
          BY <2>7, <2>10, <3>1 DEF NonblockInv
        <4> QED  BY <2>2, <2>4, <2>10, <4>1 DEF NonblockInv
      <3>2. kernel[fd].nonblock \in BOOLEAN  BY KernelType DEF Descriptor
      <3> QED  BY <2>5, <2>6, <2>10, <3>1, <3>2, DirectIsGone
    <2>11. NonblockInv'
      BY <2>1, <2>5, <2>6, <2>10, NonblockBegin
    <2> QED  BY <2>9, <2>11
  <1> QED  BY <1>1, <1>2, <1>3, <1>4, <1>5, <1>6, <1>7, <1>8, <1>9

\* addEvent finds somebody who waits only if two calls are about one event.
LEMMA WaiterStep ==
  ASSUME TypeOK, HookInv, SoleInv, OneWaiter, [Next]_vars
  PROVE  OneWaiter'
  <1>0. UNCHANGED use  BY UseKept
  <1>1. ASSUME NEW f \in Fibers, AddEvent(f)  PROVE OneWaiter'
    <2>1. CASE UNCHANGED failed  BY <1>0, <2>1 DEF OneWaiter
    <2>2. CASE ~UNCHANGED failed
      <3>1. call[f].fd \in Fds /\ call[f].e \in Events /\ pc[f] = "add"
        BY <1>1 DEF AddEvent, HookInv, CallInv, Legal, TypeOK, HookTypeOK, Call, CallOps
      <3>2. PICK fd \in Fds, e \in Events : fd = call[f].fd /\ e = call[f].e  BY <3>1
      <3>3. m_events[fd][e] # NoFiber  BY <1>1, <2>2, <3>2 DEF AddEvent
      <3>4. PICK g \in Fibers : g = m_events[fd][e]  BY <3>3 DEF TypeOK, HookTypeOK
      <3>5. pc[g] = "hold" /\ call[g].fd = fd /\ call[g].e = e
        BY <3>3, <3>4 DEF HookInv, EventInv
      <3>6. use.restart  BY <3>1, <3>2, <3>5, RecordTypes, UseTypes DEF SoleInv
      <3> QED  BY <1>0, <3>6 DEF OneWaiter
    <2> QED  BY <2>1, <2>2
  <1>2. ASSUME UNCHANGED failed  PROVE OneWaiter'
    BY <1>0, <1>2 DEF OneWaiter
  <1>3. CASE UNCHANGED vars \/ start \/ stop  BY <1>2, <1>3 DEF vars, start, stop, hookVars
  <1>4. CASE Kernel \/ Epoll \/ \E f \in Fibers : Timer(f) \/ Callbacks(f)
    BY <1>2, <1>4 DEF Kernel, ConnectEnds, Arrive, Epoll, TriggerEvent, Timer, Expire, Callbacks,
                OnTimer, CancelEvent, SleepOver, Timed
  <1>5. ASSUME NEW f \in Fibers, Inside(f) \/ Client(f)  PROVE OneWaiter'
    BY <1>1, <1>2, <1>5
       DEF Inside, Blocks, FunReturns, DirectAgain, FunAgain, Woken,
           AcceptReturns, CreateCtx, SocketReturns, Getsockopt, SleepReturns, CloseEnds,
           Client, do_io, socket, connect, close, close_f, setsockopt, fcntl, ioctl,
           sleep, Quick
  <1>6. ASSUME NEW f \in Fibers,
               \/ TakeTask(f) \/ startAccept(f) \/ Accepted(f) \/ StopTask(f) \/ StopCloses(f)
               \/ StopClosed(f) \/ ClientCloses(f) \/ ClientOver(f) \/ ClientReads(f)
        PROVE  OneWaiter'
    BY <1>2, <1>6 DEF TakeTask, startAccept, Accepted, StopTask, StopCloses,
                StopClosed, ClientCloses, ClientOver,
                ClientReads, hookVars
  <1> QED  BY <1>3, <1>4, <1>5, <1>6 DEF Next, Fiber

LEMMA DescStart ==
  ASSUME Init
  PROVE  DescriptorInv
  <1> USE DEF Init, HookInit, ServerInit
  <1>0. TypeOK /\ Listener \in Fds /\ -1 \notin Fds
    BY HookStart, ServerAssumption, RecordTypes
  <1>1. \A g \in Fibers : /\ call[g] = NoCall /\ pc[g] = "run" /\ last[g] = NoneYet
                          /\ role[g] = "none"
    OBVIOUS
  <1>2. NoCall.op = "none" /\ NoCall.fd = -1 /\ NoneYet.res = "none"  BY DEF NoCall, NoneYet
  <1>3. ASSUME NEW fd \in Fds, use.init[fd] # "none"
        PROVE  kernel[fd].open /\ kernel[fd].nonblock
    <2>1. kernel[fd] = [Opened(use.init[fd]) EXCEPT !.nonblock = TRUE]  BY <1>3
    <2>2. PICK k : k = Opened(use.init[fd])  OBVIOUS
    <2>3. k.open /\ k = [open |-> TRUE, nonblock |-> FALSE, state |-> use.init[fd], ready |-> {}]
      BY <2>2 DEF Opened
    <2>4. kernel[fd] = [k EXCEPT !.nonblock = TRUE]  BY <2>1, <2>2
    <2> QED  BY <2>3, <2>4
  <1>4. ASSUME NEW fd \in Fds, use.init[fd] = "none"
        PROVE  ~kernel[fd].open /\ ~m_datas[fd].there
    <2>1. kernel[fd] = Closed /\ m_datas[fd] = NoCtx  BY <1>4
    <2> QED  BY <2>1, RecordTypes DEF Closed
  <1>5. ASSUME NEW fd \in Fds, use.init[fd] # "none"
        PROVE  m_datas[fd].there /\ m_datas[fd].m_isSocket /\ ~m_datas[fd].m_userNonblock
    <2>1. m_datas[fd] = FdCtx(fd) /\ kernel[fd].open  BY <1>3, <1>5
    <2> QED  BY <2>1 DEF FdCtx
  <1>6. SocketInv
    <2>1. use.server => kernel[Listener].open
      BY <1>0, <1>3, ServerAssumption
    <2>2. task.accept = 0 /\ task.stop = 0 /\ task.clients = {} /\ starts = 0  OBVIOUS
    <2>3. \A g \in Fibers : ~Serving(g) /\ ~Coming(g)
      BY <1>1, <1>2 DEF Serving, Coming
    <2> QED  BY <1>1, <1>2, <2>1, <2>2, <2>3 DEF SocketInv
  <1>7. SoleInv  BY <1>1, <1>2 DEF SoleInv
  <1>8. NonblockInv
    BY <1>1, <1>2, <1>3, <1>4, <1>5 DEF NonblockInv, Get
  <1>9. OneWaiter  BY DEF OneWaiter
  <1> QED  BY <1>6, <1>7, <1>8, <1>9 DEF DescriptorInv

LEMMA DescStep ==
  ASSUME ServerAlone, TypeOK, HookInv, AcceptInv, DescriptorInv, [Next]_vars
  PROVE  DescriptorInv'
  <1>0. /\ UNCHANGED use /\ TypeOK' /\ OneWaiter'
        /\ SocketInv /\ SoleInv /\ NonblockInv
    BY UseKept, TypeStep, WaiterStep DEF DescriptorInv
  <1>1. CASE UNCHANGED vars \/ start \/ stop
    <2>1. UNCHANGED <<m_datas, kernel, pc, call, last, role, client>>
      BY <1>1 DEF vars, hookVars, fibers, history, server, start, stop
    <2>2. task'.clients = task.clients
      BY <1>1 DEF vars, server, start, stop, TypeOK, ServerTypeOK
    <2>3. use.server \/ UNCHANGED <<task, starts>>
      BY <1>0, <1>1 DEF vars, server, start, stop, SocketInv
    <2>4. RolesEnd  BY <2>1, <2>2, <2>3 DEF RolesEnd
    <2>5. GoesOn /\ NobodyBlocks  BY <2>1 DEF GoesOn, NobodyBlocks
    <2> QED  BY <1>0, <2>1, <2>4, <2>5, Kept, ServerQuiet DEF DescriptorInv
  <1>2. CASE (Kernel \/ Epoll \/ \E f \in Fibers : Timer(f) \/ Callbacks(f)) /\ UNCHANGED server
    BY <1>0, <1>2, DescOutside DEF DescriptorInv
  <1>3. ASSUME NEW f \in Fibers, Fiber(f) \/ ClientReads(f) \/ (Client(f) /\ UNCHANGED server)
        PROVE  DescriptorInv'
    BY <1>0, <1>3, DescInside, DescClient, DescServer DEF Fiber, DescriptorInv
  <1> QED  BY <1>1, <1>2, <1>3 DEF Next

\* The calls, the descriptors and O_NONBLOCK keep to one another when the
\* fibers of a server make no calls of their own.
THEOREM DescriptorInvariant ==
  ASSUME ServerAlone
  PROVE  Spec => []DescriptorInv
  <1>1. Init => DescriptorInv  BY DescStart
  <1>2. TypeOK /\ HookInv /\ AcceptInv /\ DescriptorInv /\ [Next]_vars => DescriptorInv'
    BY DescStep
  <1>3. Init => AcceptInv  BY AcceptStart
  <1>4. TypeOK /\ HookInv /\ AcceptInv /\ [Next]_vars => AcceptInv'  BY AcceptStep
  <1> QED  BY <1>1, <1>2, <1>3, <1>4, HookInvariant, PTL DEF Spec

\* addEvent's assertion that nobody waits for the event yet (iomanager.cc)
\* can fail only in a server that is started again after stop().
THEOREM OneWaiterPerEvent ==
  ASSUME ServerAlone
  PROVE  Spec => []OneWaiter
  <1>1. DescriptorInv => OneWaiter  BY DEF DescriptorInv
  <1> QED  BY <1>1, DescriptorInvariant, PTL

\* If the program leaves O_NONBLOCK to FdCtx::init, and only hooked threads
\* close descriptors, no call of a fiber blocks its thread, and EAGAIN reaches
\* the program only for a descriptor that has been closed (hook.cc: do_io).
THEOREM CallsDoNotBlock ==
  ASSUME ServerAlone
  PROVE  Spec => []BlockingKept
  <1>1. DescriptorInv => BlockingKept
    BY DEF DescriptorInv, NonblockInv, Untouched, BlockingKept
  <1> QED  BY <1>1, DescriptorInvariant, PTL

=============================================================================
