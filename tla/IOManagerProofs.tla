--------------------------- MODULE IOManagerProofs ---------------------------
(***************************************************************************)
(* Proofs about IOManager, for any number of threads and descriptors.      *)
(***************************************************************************)
EXTENDS IOManager, FiniteSetTheorems, TLAPS

-----------------------------------------------------------------------------
(* Contexts, calls and the epoll table.                                    *)

\* A context belongs to a descriptor, and a slot holds a context of it.
LEMMA ContextFacts ==
  /\ \A c \in Contexts : c.fd \in Fds
  /\ \A fd \in Fds, g \in 0..MaxGen :
        [fd |-> fd, gen |-> g] \in Contexts /\ [fd |-> fd, gen |-> g].fd = fd
  BY DEF Contexts

\* There are finitely many events to wait for.
LEMMA PendingFinite ==
  ASSUME NEW S \in SUBSET (Contexts \X Events)
  PROVE  IsFiniteSet(S)
  <1>1. IsFiniteSet(0..MaxGen)  BY IOAssumption, FS_Interval
  <1>2. IsFiniteSet(Fds \X (0..MaxGen))  BY <1>1, IOAssumption, FS_Product
  <1>3. IsFiniteSet(Contexts)
    <2> DEFINE f == [p \in Fds \X (0..MaxGen) |-> [fd |-> p[1], gen |-> p[2]]]
    <2>1. f \in [Fds \X (0..MaxGen) -> Contexts]  BY DEF Contexts
    <2>2. \A c \in Contexts : \E p \in Fds \X (0..MaxGen) : f[p] = c
      <3> TAKE c \in Contexts
      <3>1. <<c.fd, c.gen>> \in Fds \X (0..MaxGen)
            /\ [fd |-> c.fd, gen |-> c.gen] = c
        BY DEF Contexts
      <3>2. f[<<c.fd, c.gen>>] = c  BY <3>1
      <3> QED  BY <3>1, <3>2
    <2>3. f \in Surjection(Fds \X (0..MaxGen), Contexts)
      BY <2>1, <2>2 DEF Surjection
    <2> QED  BY <2>3, <1>2, FS_Surjection
  <1>4. IsFiniteSet(Events)
    <2>1. Events = {"READ"} \cup {"WRITE"}  BY DEF Events
    <2> QED  BY <2>1, FS_Singleton, FS_AddElement
  <1>5. IsFiniteSet(Contexts \X Events)  BY <1>3, <1>4, FS_Product
  <1> QED  BY <1>5, FS_Subset

\* The events of a context change together with epoll's entry: whatever the
\* new set is, the two agree.
LEMMA KernelSet ==
  ASSUME TypeOK, CallInv, KernelAgrees,
         NEW c \in Contexts, NEW evs \in SUBSET Events,
         m_events' = [m_events EXCEPT ![c] = evs],
         EpollSet(c.fd, c, evs),
         m_events[c] = {} => ~epoll[c.fd].reg
  PROVE  KernelAgrees'
  <1> USE DEF TypeOK, CallInv
  <1>1. c.fd \in Fds  BY ContextFacts
  <1> SUFFICES ASSUME NEW d \in Contexts
               PROVE  m_events'[d] = IF epoll'[d.fd].reg /\ epoll'[d.fd].ptr = d
                                     THEN epoll'[d.fd].mask ELSE {}
    BY DEF KernelAgrees
  <1>2. d.fd \in Fds  BY ContextFacts
  <1>3. m_events[d] = IF epoll[d.fd].reg /\ epoll[d.fd].ptr = d
                      THEN epoll[d.fd].mask ELSE {}
    BY DEF KernelAgrees
  <1>4. m_events[c] = IF epoll[c.fd].reg /\ epoll[c.fd].ptr = c
                      THEN epoll[c.fd].mask ELSE {}
    BY DEF KernelAgrees
  <1>5. CASE d = c
    <2>1. m_events'[d] = evs  BY <1>5
    <2>2. epoll'[d.fd] = IF evs = {} THEN Unregistered ELSE Registered(c, evs)
      BY <1>1, <1>5 DEF EpollSet
    <2> QED  BY <2>1, <2>2, <1>5 DEF Unregistered, Registered
  <1>6. CASE d # c /\ d.fd # c.fd
    BY <1>2, <1>3, <1>6 DEF EpollSet
  <1>7. CASE d # c /\ d.fd = c.fd
    <2>1. m_events'[d] = m_events[d]  BY <1>7
    <2>2. m_events[d] = {}
      <3>1. CASE m_events[c] = {}  BY <3>1, <1>3, <1>7
      <3>2. CASE m_events[c] # {}  BY <3>2, <1>3, <1>4, <1>7
      <3> QED  BY <3>1, <3>2
    <2>3. epoll'[d.fd] = IF evs = {} THEN Unregistered ELSE Registered(c, evs)
      BY <1>1, <1>7 DEF EpollSet
    <2> QED  BY <2>1, <2>2, <2>3, <1>7 DEF Unregistered, Registered
  <1> QED  BY <1>5, <1>6, <1>7

\* The events somebody waits for; PendingIsExact counts them.
Pending == {p \in Contexts \X Events : p[2] \in m_events[p[1]]}

\* One more event is waited for, and counted.
LEMMA PendingAdd ==
  ASSUME TypeOK, PendingIsExact,
         NEW c \in Contexts, NEW e \in Events, e \notin m_events[c],
         m_events' = [m_events EXCEPT ![c] = @ \cup {e}],
         m_pendingEventCount' = m_pendingEventCount + 1
  PROVE  PendingIsExact'
  <1>1. Pending' = Pending \cup {<<c, e>>}  BY DEF Pending, TypeOK
  <1>2. <<c, e>> \notin Pending  BY DEF Pending
  <1>3. IsFiniteSet(Pending)
    <2>1. Pending \in SUBSET (Contexts \X Events)  BY DEF Pending
    <2> QED  BY <2>1, PendingFinite
  <1>4. Cardinality(Pending') = Cardinality(Pending) + 1
    BY <1>1, <1>2, <1>3, FS_AddElement
  <1> QED  BY <1>4 DEF PendingIsExact, Pending

\* Events that were waited for are no longer, and are counted off.
LEMMA PendingRemove ==
  ASSUME TypeOK, PendingIsExact,
         NEW c \in Contexts, NEW evs \in SUBSET m_events[c],
         m_events' = [m_events EXCEPT ![c] = @ \ evs],
         m_pendingEventCount' = m_pendingEventCount - Cardinality(evs)
  PROVE  PendingIsExact'
  <1> DEFINE gone == {c} \X evs
  <1>0. m_events[c] \subseteq Events  BY DEF TypeOK
  <1>1. Pending' = Pending \ gone  BY DEF Pending, TypeOK
  <1>2. gone \subseteq Pending  BY <1>0 DEF Pending
  <1>3. IsFiniteSet(Pending)
    <2>1. Pending \in SUBSET (Contexts \X Events)  BY DEF Pending
    <2> QED  BY <2>1, PendingFinite
  <1>4. IsFiniteSet(evs)
    <2>1. IsFiniteSet(Events)
      <3>1. Events = {"READ"} \cup {"WRITE"}  BY DEF Events
      <3> QED  BY <3>1, FS_Singleton, FS_AddElement
    <2>2. evs \in SUBSET Events  BY <1>0
    <2> QED  BY <2>1, <2>2, FS_Subset
  <1>5. Cardinality(gone) = Cardinality(evs)
    <2>1. IsFiniteSet({c}) /\ Cardinality({c}) = 1  BY FS_Singleton
    <2>2. Cardinality(gone) = Cardinality({c}) * Cardinality(evs)
      BY <2>1, <1>4, FS_Product
    <2>3. Cardinality(evs) \in Nat  BY <1>4, FS_CardinalityType
    <2> QED  BY <2>1, <2>2, <2>3
  <1>6. Cardinality(Pending') = Cardinality(Pending) - Cardinality(gone)
    <2>1. Pending \cap gone = gone  BY <1>2
    <2> HIDE DEF gone
    <2>2. Cardinality(Pending \ gone)
            = Cardinality(Pending) - Cardinality(Pending \cap gone)
      BY <1>3, FS_Difference
    <2> QED  BY <1>1, <2>1, <2>2
  <1> QED  BY <1>5, <1>6 DEF PendingIsExact, Pending

-----------------------------------------------------------------------------
(* Where the waiters are.                                                  *)

\* triggerEvent moves the waiters of some events to the run queue.
LEMMA WaitersResumed ==
  ASSUME TypeOK, WaitInv,
         NEW c \in Contexts, NEW evs \in SUBSET m_events[c],
         Trigger(c, evs), adds' = adds, dropped' = dropped,
         \A w \in Waiters : Adding(w)' <=> Adding(w)
  PROVE  WaitInv'
  <1>0. \A d \in Contexts, e \in Events : waiter[d][e] \in 0..MaxAdds
    BY DEF TypeOK
  <1>1. \A d \in Contexts, e \in Events :
          waiter'[d][e] = IF d = c /\ e \in evs THEN 0 ELSE waiter[d][e]
    BY DEF TypeOK, Trigger
  <1>2. \A d \in Contexts, e \in Events :
          e \in m_events'[d] <=> e \in m_events[d] /\ ~(d = c /\ e \in evs)
    BY DEF TypeOK, Trigger
  <1>3. \A w \in Waiters : resumed'[w] = IF \E e \in evs : waiter[c][e] = w
                                         THEN resumed[w] + 1 ELSE resumed[w]
    BY DEF Trigger
  <1>4. evs \subseteq Events  BY DEF TypeOK
  <1>5. \A d \in Contexts, e \in Events : waiter[d][e] # 0 => waiter[d][e] \in Waiters
    BY <1>0, IOAssumption DEF Waiters
  <1>6. \A d \in Contexts, e \in Events :
          waiter'[d][e] # 0 => resumed'[waiter'[d][e]] = 0
    <2> SUFFICES ASSUME NEW d \in Contexts, NEW e \in Events, waiter'[d][e] # 0
                 PROVE  resumed'[waiter'[d][e]] = 0
      OBVIOUS
    <2>1. waiter'[d][e] = waiter[d][e] /\ ~(d = c /\ e \in evs)  BY <1>1
    <2>2. ~ \E f \in evs : waiter[c][f] = waiter[d][e]
      BY <2>1, <1>4 DEF WaitInv
    <2> QED  BY <2>1, <2>2, <1>3, <1>5 DEF WaitInv
  <1>7. \A w \in Waiters :
          /\ resumed'[w] \in {0, 1}
          /\ resumed'[w] = 1 => w <= adds' /\ w \notin dropped' /\ ~Adding(w)'
    <2> SUFFICES ASSUME NEW w \in Waiters
                 PROVE  /\ resumed'[w] \in {0, 1}
                        /\ resumed'[w] = 1 => w <= adds' /\ w \notin dropped' /\ ~Adding(w)'
      OBVIOUS
    <2>1. CASE \E e \in evs : waiter[c][e] = w
      <3>1. PICK e \in evs : waiter[c][e] = w  BY <2>1
      <3>2. w # 0  BY DEF Waiters
      <3>3. resumed[w] = 0 /\ w <= adds /\ w \notin dropped /\ ~Adding(w)
        BY <3>1, <3>2, <1>4 DEF WaitInv
      <3> QED  BY <3>3, <2>1, <1>3
    <2>2. CASE ~ \E e \in evs : waiter[c][e] = w
      BY <2>2, <1>3 DEF WaitInv
    <2> QED  BY <2>1, <2>2
  <1>8. ASSUME NEW w \in Waiters,
               w <= adds', resumed'[w] = 0, w \notin dropped', ~Adding(w)'
        PROVE  \E d \in Contexts, e \in Events : waiter'[d][e] = w
    <2>1. ~ \E e \in evs : waiter[c][e] = w
      <3>1. resumed[w] \in {0, 1}  BY DEF WaitInv
      <3> QED  BY <3>1, <1>8, <1>3
    <2>2. resumed[w] = 0  BY <2>1, <1>8, <1>3
    <2>3. PICK d \in Contexts, e \in Events : waiter[d][e] = w
      BY <2>2, <1>8 DEF WaitInv
    <2>4. waiter'[d][e] = w  BY <2>1, <2>3, <1>1
    <2> QED  BY <2>4
  <1>9. \A d1, d2 \in Contexts, e, f \in Events :
          waiter'[d1][e] = waiter'[d2][f] /\ waiter'[d1][e] # 0 => d1 = d2 /\ e = f
    BY <1>1 DEF WaitInv
  <1>10. \A d \in Contexts, e \in Events :
          /\ waiter'[d][e] # 0 <=> e \in m_events'[d]
          /\ waiter'[d][e] # 0 => waiter'[d][e] <= adds' /\ waiter'[d][e] \notin dropped'
    BY <1>1, <1>2 DEF WaitInv
  <1>12. \A d \in Contexts, e \in Events :
          (waiter[d][e] # 0 => ~Adding(waiter[d][e]))'
    <2> SUFFICES ASSUME NEW d \in Contexts, NEW e \in Events, waiter'[d][e] # 0
                 PROVE  ~Adding(waiter[d][e])'
      OBVIOUS
    <2> DEFINE w == waiter[d][e]
    <2>1. waiter'[d][e] = w /\ w \in Waiters  BY <1>1, <1>5
    <2>2. ~Adding(w)  BY <2>1 DEF WaitInv
    <2>3. \A v \in Waiters : ~Adding(v) => ~Adding(v)'  OBVIOUS
    <2> QED  BY <2>1, <2>2, <2>3 DEF Adding
  <1>11. \A w \in Waiters : w \in dropped' => w <= adds' /\ ~Adding(w)'
    BY DEF WaitInv
  <1> QED  BY <1>6, <1>7, <1>8, <1>9, <1>10, <1>11, <1>12 DEF WaitInv

\* delEvent drops the waiter of an event.
LEMMA WaiterDropped ==
  ASSUME TypeOK, WaitInv,
         NEW c \in Contexts, NEW e \in m_events[c],
         m_events' = [m_events EXCEPT ![c] = @ \ {e}],
         waiter' = [waiter EXCEPT ![c][e] = 0],
         dropped' = dropped \cup {waiter[c][e]},
         adds' = adds, resumed' = resumed,
         \A w \in Waiters : Adding(w)' <=> Adding(w)
  PROVE  WaitInv'
  <1>0. e \in Events  BY DEF TypeOK
  <1>1. \A d \in Contexts, f \in Events :
          waiter'[d][f] = IF d = c /\ f = e THEN 0 ELSE waiter[d][f]
    BY <1>0 DEF TypeOK
  <1>2. \A d \in Contexts, f \in Events :
          f \in m_events'[d] <=> f \in m_events[d] /\ ~(d = c /\ f = e)
    BY DEF TypeOK
  <1>3. \A d \in Contexts, f \in Events : waiter[d][f] # 0 => waiter[d][f] \in Waiters
    BY IOAssumption DEF TypeOK, Waiters
  <1>4. waiter[c][e] # 0  BY <1>0 DEF WaitInv
  <1>5. \A d1, d2 \in Contexts, f, g \in Events :
          waiter'[d1][f] = waiter'[d2][g] /\ waiter'[d1][f] # 0 => d1 = d2 /\ f = g
    BY <1>1 DEF WaitInv
  <1>6. \A d \in Contexts, f \in Events :
          /\ waiter'[d][f] # 0 <=> f \in m_events'[d]
          /\ waiter'[d][f] # 0 => waiter'[d][f] <= adds' /\ waiter'[d][f] \notin dropped'
                                  /\ resumed'[waiter'[d][f]] = 0
    BY <1>0, <1>1, <1>2 DEF WaitInv
  <1>7. \A d \in Contexts, f \in Events :
          (waiter[d][f] # 0 => ~Adding(waiter[d][f]))'
    <2> SUFFICES ASSUME NEW d \in Contexts, NEW f \in Events, waiter'[d][f] # 0
                 PROVE  ~Adding(waiter[d][f])'
      OBVIOUS
    <2> DEFINE w == waiter[d][f]
    <2>1. waiter'[d][f] = w /\ w \in Waiters  BY <1>1, <1>3
    <2>2. ~Adding(w)  BY <2>1 DEF WaitInv
    <2>3. \A v \in Waiters : ~Adding(v) => ~Adding(v)'  OBVIOUS
    <2> QED  BY <2>1, <2>2, <2>3 DEF Adding
  <1>8. \A w \in Waiters :
          /\ resumed'[w] \in {0, 1}
          /\ resumed'[w] = 1 => w <= adds' /\ w \notin dropped' /\ ~Adding(w)'
          /\ w \in dropped' => w <= adds' /\ ~Adding(w)'
    BY <1>0, <1>4 DEF WaitInv
  <1>9. ASSUME NEW w \in Waiters,
               w <= adds', resumed'[w] = 0, w \notin dropped', ~Adding(w)'
        PROVE  \E d \in Contexts, f \in Events : waiter'[d][f] = w
    <2>1. PICK d \in Contexts, f \in Events : waiter[d][f] = w  BY <1>9 DEF WaitInv
    <2>2. waiter'[d][f] = w  BY <2>1, <1>1, <1>9
    <2> QED  BY <2>2
  <1> QED  BY <1>5, <1>6, <1>7, <1>8, <1>9 DEF WaitInv

\* addEvent puts the waiter of the call into its context.
LEMMA WaiterAdded ==
  ASSUME TypeOK, WaitInv,
         NEW c \in Contexts, NEW e \in Events, e \notin m_events[c],
         NEW v \in Waiters, v <= adds, Adding(v),
         m_events' = [m_events EXCEPT ![c] = @ \cup {e}],
         waiter' = [waiter EXCEPT ![c][e] = v],
         adds' = adds, resumed' = resumed, dropped' = dropped,
         \A w \in Waiters : Adding(w)' <=> Adding(w) /\ w # v
  PROVE  WaitInv'
  <1>1. \A d \in Contexts, f \in Events :
          waiter'[d][f] = IF d = c /\ f = e THEN v ELSE waiter[d][f]
    BY DEF TypeOK
  <1>2. \A d \in Contexts, f \in Events :
          f \in m_events'[d] <=> f \in m_events[d] \/ (d = c /\ f = e)
    BY DEF TypeOK
  <1>3. \A d \in Contexts, f \in Events : waiter[d][f] # 0 => waiter[d][f] \in Waiters
    BY IOAssumption DEF TypeOK, Waiters
  <1>4. v # 0 /\ v \notin dropped /\ resumed[v] = 0  BY DEF WaitInv, Waiters
  <1>5. \A d \in Contexts, f \in Events : waiter[d][f] # v  BY <1>4 DEF WaitInv
  <1>6. \A d1, d2 \in Contexts, f, g \in Events :
          waiter'[d1][f] = waiter'[d2][g] /\ waiter'[d1][f] # 0 => d1 = d2 /\ f = g
    BY <1>1, <1>5 DEF WaitInv
  <1>7. \A d \in Contexts, f \in Events :
          /\ waiter'[d][f] # 0 <=> f \in m_events'[d]
          /\ waiter'[d][f] # 0 => waiter'[d][f] <= adds' /\ waiter'[d][f] \notin dropped'
                                  /\ resumed'[waiter'[d][f]] = 0
    BY <1>1, <1>2, <1>4 DEF WaitInv
  <1>8. \A d \in Contexts, f \in Events :
          (waiter[d][f] # 0 => ~Adding(waiter[d][f]))'
    <2> SUFFICES ASSUME NEW d \in Contexts, NEW f \in Events, waiter'[d][f] # 0
                 PROVE  ~Adding(waiter[d][f])'
      OBVIOUS
    <2> DEFINE w == IF d = c /\ f = e THEN v ELSE waiter[d][f]
    <2>1. waiter'[d][f] = w /\ w \in Waiters  BY <1>1, <1>3
    <2>2. w = v \/ ~Adding(w)  BY <2>1 DEF WaitInv
    <2>3. \A x \in Waiters : x = v \/ ~Adding(x) => ~Adding(x)'  OBVIOUS
    <2> QED  BY <2>1, <2>2, <2>3 DEF Adding
  <1>9. \A w \in Waiters :
          /\ resumed'[w] \in {0, 1}
          /\ resumed'[w] = 1 => w <= adds' /\ w \notin dropped' /\ ~Adding(w)'
          /\ w \in dropped' => w <= adds' /\ ~Adding(w)'
    BY DEF WaitInv
  <1>10. ASSUME NEW w \in Waiters,
               w <= adds', resumed'[w] = 0, w \notin dropped', ~Adding(w)'
        PROVE  \E d \in Contexts, f \in Events : waiter'[d][f] = w
    <2>1. CASE w = v  BY <2>1, <1>1
    <2>2. CASE w # v
      <3>1. PICK d \in Contexts, f \in Events : waiter[d][f] = w
        BY <1>10, <2>2 DEF WaitInv
      <3>2. f \in m_events[d]  BY <3>1 DEF WaitInv, Waiters
      <3>3. waiter'[d][f] = w  BY <3>1, <3>2, <1>1
      <3> QED  BY <3>3
    <2> QED  BY <2>1, <2>2
  <1> QED  BY <1>6, <1>7, <1>8, <1>9, <1>10 DEF WaitInv

\* The waiters in the contexts stay; a call may begin, end without success, or
\* neither.
LEMMA WaitersStay ==
  ASSUME TypeOK, WaitInv, UNCHANGED <<m_events, waiter, resumed>>,
         \/ /\ adds' = adds /\ dropped' = dropped
            /\ \A w \in Waiters : Adding(w)' <=> Adding(w)
         \/ \E v \in Waiters :                                 \* -1 returned
              /\ adds' = adds /\ dropped' = dropped \cup {v} /\ v <= adds /\ Adding(v)
              /\ \A w \in Waiters : Adding(w)' <=> Adding(w) /\ w # v
         \/ /\ adds' = adds + 1 /\ adds' \in Waiters /\ dropped' = dropped
            /\ \A w \in Waiters : Adding(w)' <=> Adding(w) \/ w = adds'
  PROVE  WaitInv'
  <1>1. \A d \in Contexts, f \in Events : waiter[d][f] # 0 => waiter[d][f] \in Waiters
    BY IOAssumption DEF TypeOK, Waiters
  <1>2. adds \in Nat  BY DEF TypeOK
  <1>3. \A w \in Waiters : w \in Nat  BY DEF Waiters
  <1>4. \A d1, d2 \in Contexts, f, g \in Events :
          waiter'[d1][f] = waiter'[d2][g] /\ waiter'[d1][f] # 0 => d1 = d2 /\ f = g
    BY DEF WaitInv
  <1>5. \A d \in Contexts, f \in Events :
          /\ waiter'[d][f] # 0 <=> f \in m_events'[d]
          /\ waiter'[d][f] # 0 => waiter'[d][f] <= adds' /\ waiter'[d][f] \notin dropped'
                                  /\ resumed'[waiter'[d][f]] = 0
    BY <1>1, <1>2, <1>3 DEF WaitInv
  <1>6. \A d \in Contexts, f \in Events :
          (waiter[d][f] # 0 => ~Adding(waiter[d][f]))'
    <2> SUFFICES ASSUME NEW d \in Contexts, NEW f \in Events, waiter'[d][f] # 0
                 PROVE  ~Adding(waiter[d][f])'
      OBVIOUS
    <2> DEFINE w == waiter[d][f]
    <2>1. waiter'[d][f] = w /\ w \in Waiters  BY <1>1
    <2>2. ~Adding(w) /\ w <= adds  BY <2>1 DEF WaitInv
    <2>3. \A x \in Waiters : ~Adding(x) /\ x <= adds => ~Adding(x)'  BY <1>2, <1>3
    <2> QED  BY <2>1, <2>2, <2>3 DEF Adding
  <1>7. \A w \in Waiters :
          /\ resumed'[w] \in {0, 1}
          /\ resumed'[w] = 1 => w <= adds' /\ w \notin dropped' /\ ~Adding(w)'
          /\ w \in dropped' => w <= adds' /\ ~Adding(w)'
    BY <1>2, <1>3 DEF WaitInv
  <1>8. ASSUME NEW w \in Waiters,
               w <= adds', resumed'[w] = 0, w \notin dropped', ~Adding(w)'
        PROVE  \E d \in Contexts, f \in Events : waiter'[d][f] = w
    <2>1. w <= adds /\ ~Adding(w) /\ w \notin dropped  BY <1>2, <1>3, <1>8
    <2> QED  BY <2>1, <1>8 DEF WaitInv
  <1> QED  BY <1>4, <1>5, <1>6, <1>7, <1>8 DEF WaitInv

-----------------------------------------------------------------------------
(* The calls in progress.                                                  *)

\* The kinds of calls are told apart by their names.
LEMMA OpKinds ==
  ASSUME CallInv, NEW t \in Threads
  PROVE  /\ op[t].kind = "add" <=> op[t] \in AddOp
         /\ op[t] # NoOp /\ op[t].kind # "add" => op[t] \in OtherOp
         /\ op[t] # NoOp => op[t].fd \in Fds /\ op[t].e \in Events
         /\ op[t] \in AddOp => op[t].w \in Waiters /\ op[t] # NoOp
         /\ op[t].kind \in {"del", "cancel", "cancelAll"} => op[t] \in OtherOp /\ op[t] \notin AddOp
  BY DEF CallInv, AddOp, OtherOp, NoOp

\* The call of a thread that adds nothing ends, or the thread is in no call:
\* the waiters being added stay the same.
LEMMA AddingSame ==
  ASSUME CallInv, NEW t \in Threads, op[t].kind # "add",
         NEW o, o.kind # "add", op' = [op EXCEPT ![t] = o]
  PROVE  \A w \in Waiters : Adding(w)' <=> Adding(w)
  <1>1. \A u \in Threads : op'[u] = IF u = t THEN o ELSE op[u]  BY DEF CallInv
  <1> QED  BY <1>1 DEF Adding

\* A call of addEvent ends.
LEMMA AddingEnds ==
  ASSUME CallInv, AddInv, NEW t \in Threads, op[t] \in AddOp,
         op' = [op EXCEPT ![t] = NoOp]
  PROVE  /\ Adding(op[t].w)
         /\ \A w \in Waiters : Adding(w)' <=> Adding(w) /\ w # op[t].w
  <1>1. \A u \in Threads : op'[u] = IF u = t THEN NoOp ELSE op[u]  BY DEF CallInv
  <1>2. \A u \in Threads : op[u].kind = "add" <=> op[u] \in AddOp  BY OpKinds
  <1>3. \A u \in Threads : op[u] \in AddOp /\ u # t => op[u].w # op[t].w
    BY DEF AddInv
  <1> QED  BY <1>1, <1>2, <1>3 DEF Adding, NoOp

\* The counter has the type of a counter when it is exact.
LEMMA CountType ==
  PendingIsExact => m_pendingEventCount \in Nat
  <1>1. Pending \in SUBSET (Contexts \X Events)  BY DEF Pending
  <1>2. Cardinality(Pending) \in Nat  BY <1>1, PendingFinite, FS_CardinalityType
  <1> QED  BY <1>2 DEF PendingIsExact, Pending

\* Everything about a step that takes events away from a context, but for
\* where the waiters go.
LEMMA Removal ==
  ASSUME IOInv, NEW c \in Contexts, NEW evs \in SUBSET m_events[c],
         m_events[c] # {},
         EpollSet(c.fd, c, m_events[c] \ evs),
         m_events' = [m_events EXCEPT ![c] = @ \ evs],
         m_pendingEventCount' = m_pendingEventCount - Cardinality(evs)
  PROVE  /\ KernelAgrees' /\ PendingIsExact'
         /\ m_pendingEventCount' \in Nat
         /\ m_events' \in [Contexts -> SUBSET Events]
         /\ epoll' \in [Fds -> {Unregistered} \cup
                          [reg : {TRUE}, ptr : Contexts, mask : SUBSET Events]]
  <1> USE DEF IOInv
  <1>1. m_events[c] \ evs \in SUBSET Events /\ c.fd \in Fds
    BY ContextFacts DEF TypeOK
  <1>2. PendingIsExact'  BY PendingRemove
  <1>3. m_pendingEventCount' \in Nat
    <2>1. Pending' \in SUBSET (Contexts \X Events)  BY DEF Pending
    <2>2. Cardinality(Pending') \in Nat  BY <2>1, PendingFinite, FS_CardinalityType
    <2> QED  BY <1>2, <2>2 DEF PendingIsExact, Pending
  <1>4. m_events' = [m_events EXCEPT ![c] = m_events[c] \ evs]  OBVIOUS
  <1>5. KernelAgrees'
    <2> DEFINE new == m_events[c] \ evs
    <2>1. new \in SUBSET Events /\ m_events' = [m_events EXCEPT ![c] = new]
          /\ EpollSet(c.fd, c, new)
      BY <1>1, <1>4
    <2> HIDE DEF new
    <2> QED  BY <2>1, KernelSet
  <1>6. m_events' \in [Contexts -> SUBSET Events]  BY <1>1, <1>4 DEF TypeOK
  <1>7. epoll' \in [Fds -> {Unregistered} \cup
                     [reg : {TRUE}, ptr : Contexts, mask : SUBSET Events]]
    BY <1>1 DEF CallInv, EpollSet, Registered
  <1> QED  BY <1>2, <1>3, <1>5, <1>6, <1>7

\* A call returns, having added at most the event it was to add.
LEMMA CallEnds ==
  ASSUME IOInv, NEW t \in Threads, pc[t] = "locked", Return(t),
         epoll' \in [Fds -> {Unregistered} \cup
                       [reg : {TRUE}, ptr : Contexts, mask : SUBSET Events]],
         events' = events, adds' = adds,
         \A c \in Contexts : \A e \in m_events'[c] :
            e \in m_events[c] \/ (op[t] \in AddOp /\ c.fd = op[t].fd /\ e = op[t].e)
  PROVE  /\ CallInv' /\ AddInv'
         /\ pc' \in [Threads -> {"client", "resize", "locked", "events"}]
  <1> USE DEF IOInv
  <1>1. \A u \in Threads : /\ pc'[u] = IF u = t THEN "client" ELSE pc[u]
                           /\ op'[u] = IF u = t THEN NoOp ELSE op[u]
                           /\ ctx'[u] = IF u = t THEN NoOp ELSE ctx[u]
    BY DEF TypeOK, CallInv, Return, Goto
  <1>2. pc' \in [Threads -> {"client", "resize", "locked", "events"}]
    BY DEF TypeOK, Return, Goto
  <1>3. CallInv'
    <2>1. /\ op' \in [Threads -> {NoOp} \cup AddOp \cup OtherOp]
          /\ ctx' \in [Threads -> {NoOp} \cup Contexts]
      BY DEF CallInv, Return
    <2>2. events' \in [Threads -> SUBSET Report]  BY DEF CallInv
    <2>3. \A u \in Threads :
          /\ pc'[u] \in {"client", "events"} => op'[u] = NoOp
          /\ pc'[u] = "resize" => op'[u] \in AddOp
          /\ pc'[u] = "locked" => op'[u] # NoOp /\ ctx'[u] \in Contexts
                                 /\ ctx'[u].fd = op'[u].fd
      BY <1>1 DEF CallInv
    <2> QED  BY <2>1, <2>2, <2>3 DEF CallInv
  <1>4. AddInv'
    <2>0. NoOp \notin AddOp  BY DEF NoOp, AddOp
    <2> SUFFICES ASSUME NEW u \in Threads, op'[u] \in AddOp
                 PROVE  /\ op'[u].w <= adds'
                        /\ \A c \in Contexts : c.fd = op'[u].fd => op'[u].e \notin m_events'[c]
                        /\ \A v \in Threads : op'[v] \in AddOp /\ v # u =>
                              op'[v].w # op'[u].w
                              /\ (op'[v].fd # op'[u].fd \/ op'[v].e # op'[u].e)
      BY DEF AddInv
    <2>1. u # t /\ op'[u] = op[u]  BY <1>1, <2>0
    <2>2. op[t] \in AddOp => op[t].fd # op[u].fd \/ op[t].e # op[u].e
      BY <2>1 DEF AddInv
    <2>3. \A c \in Contexts : c.fd = op[u].fd => op[u].e \notin m_events[c]
      BY <2>1 DEF AddInv
    <2>4. \A c \in Contexts : c.fd = op'[u].fd => op'[u].e \notin m_events'[c]
      BY <2>1, <2>2, <2>3
    <2>5. op'[u].w <= adds'  BY <2>1 DEF AddInv
    <2>6. \A v \in Threads : op'[v] \in AddOp /\ v # u => op[v] \in AddOp /\ op'[v] = op[v]
      BY <1>1, <2>0
    <2> QED  BY <2>1, <2>4, <2>5, <2>6 DEF AddInv
  <1> QED  BY <1>2, <1>3, <1>4

-----------------------------------------------------------------------------
(* The steps that only begin a call or move on in it.                      *)

\* TypeOK repeats what CallInv says of epoll and of the contexts looked up.
LEMMA TypeParts ==
  ASSUME CallInv
  PROVE  /\ \A fd \in Fds : epoll[fd] = Unregistered \/
               epoll[fd] \in [reg : {TRUE}, ptr : Contexts, mask : SUBSET Events]
         /\ \A t \in Threads : pc[t] = "locked" => ctx[t] \in Contexts
  BY DEF CallInv

\* A program's calls name its own descriptors and events.
LEMMA UseFacts ==
  ASSUME TypeOK
  PROVE  /\ use.fds \subseteq Fds /\ use.events \subseteq Events
         /\ use.threads \subseteq Threads
         /\ use.ops \subseteq {"del", "cancel", "cancelAll"}
         /\ use.err \in BOOLEAN
  <1>1. use \in Use  BY IOAssumption DEF TypeOK
  <1> QED  BY <1>1 DEF Use

\* A slot of the table is a context of its descriptor.
LEMMA SlotFacts ==
  ASSUME TypeOK, NEW fd \in Fds
  PROVE  Slot(fd) \in Contexts /\ Slot(fd).fd = fd
  BY DEF TypeOK, Slot, Contexts

LEMMA AddLookupStep ==
  ASSUME IOInv, NEW t \in Threads, AddLookup(t)
  PROVE  IOInv'
  <1> USE DEF IOInv
  <1>1. PICK fd \in use.fds, e \in use.events :
          /\ MayAdd(fd, e)
          /\ op' = [op EXCEPT ![t] = [kind |-> "add", fd |-> fd, e |-> e,
                                      w |-> adds + 1]]
          /\ IF size > fd
             THEN ctx' = [ctx EXCEPT ![t] = Slot(fd)] /\ Goto(t, "locked")
             ELSE ctx' = ctx /\ Goto(t, "resize")
    BY DEF AddLookup
  <1>2. fd \in Fds /\ e \in Events  BY UseFacts
  <1>3. /\ pc[t] = "client" /\ adds < MaxAdds /\ adds' = adds + 1
        /\ UNCHANGED <<use, size, gen, m_events, waiter, epoll, m_pendingEventCount,
                       events, resumed, dropped, failed>>
    BY DEF AddLookup, table, state
  <1>4. adds \in Nat /\ adds + 1 \in Waiters /\ adds' \in 0..MaxAdds
    BY <1>3, IOAssumption DEF TypeOK, Waiters
  <1> DEFINE o == [kind |-> "add", fd |-> fd, e |-> e, w |-> adds + 1]
  <1>5. o \in AddOp /\ o # NoOp /\ o.kind = "add" /\ o.fd = fd /\ o.e = e /\ o.w = adds + 1
    BY <1>2, <1>4 DEF AddOp, NoOp
  <1>6. \A u \in Threads : op'[u] = IF u = t THEN o ELSE op[u]
    BY <1>1 DEF CallInv
  <1>7. Slot(fd) \in Contexts /\ Slot(fd).fd = fd  BY <1>2, SlotFacts
  <1>8. op[t] = NoOp  BY <1>3 DEF CallInv
  <1>9. CallInv'
    <2>1. op' \in [Threads -> {NoOp} \cup AddOp \cup OtherOp]
      BY <1>1, <1>5 DEF CallInv
    <2>2. ctx' \in [Threads -> {NoOp} \cup Contexts]  BY <1>1, <1>7 DEF CallInv
    <2>3. \A u \in Threads :
          /\ pc'[u] \in {"client", "events"} => op'[u] = NoOp
          /\ pc'[u] = "resize" => op'[u] \in AddOp
          /\ pc'[u] = "locked" => op'[u] # NoOp /\ ctx'[u] \in Contexts
                                 /\ ctx'[u].fd = op'[u].fd
      <3> TAKE u \in Threads
      <3>1. CASE u # t
        <4>1. pc'[u] = pc[u] /\ op'[u] = op[u] /\ ctx'[u] = ctx[u]
          BY <1>1, <1>6, <3>1 DEF CallInv, TypeOK, Goto
        <4> QED  BY <4>1 DEF CallInv
      <3>2. CASE u = t
        <4>1. \/ pc'[u] = "locked" /\ ctx'[u] = Slot(fd)
              \/ pc'[u] = "resize"
          BY <1>1, <3>2 DEF CallInv, TypeOK, Goto
        <4> QED  BY <4>1, <1>5, <1>6, <1>7, <3>2
      <3> QED  BY <3>1, <3>2
    <2> QED  BY <2>1, <2>2, <2>3, <1>3 DEF CallInv
  <1>10. TypeOK'
    <2>1. pc' \in [Threads -> {"client", "resize", "locked", "events"}]
      BY <1>1 DEF TypeOK, Goto
    <2> QED  BY <2>1, <1>3, <1>4, <1>9 DEF TypeOK, CallInv
  <1>11. AddInv'
    <2>1. \A u \in Threads : op[u] \in AddOp =>
            op[u].w \in Nat /\ op[u].w <= adds /\ (op[u].fd # fd \/ op[u].e # e)
      BY <1>1, OpKinds DEF AddInv, MayAdd, AddOp, Waiters
    <2>2. \A c \in Contexts : c.fd = fd => e \notin m_events[c]  BY <1>1 DEF MayAdd
    <2> SUFFICES ASSUME NEW u \in Threads, op'[u] \in AddOp
                 PROVE  /\ op'[u].w <= adds'
                        /\ \A c \in Contexts : c.fd = op'[u].fd => op'[u].e \notin m_events'[c]
                        /\ \A v \in Threads : op'[v] \in AddOp /\ v # u =>
                              op'[v].w # op'[u].w
                              /\ (op'[v].fd # op'[u].fd \/ op'[v].e # op'[u].e)
      BY DEF AddInv
    <2>3. CASE u = t
      <3>1. \A v \in Threads : v # u => op'[v] = op[v]  BY <1>6, <2>3
      <3>2. op'[u] = o  BY <1>6, <2>3
      <3> QED  BY <1>3, <1>4, <1>5, <2>1, <2>2, <3>1, <3>2
    <2>4. CASE u # t
      <3>1. op'[u] = op[u] /\ op[u] \in AddOp  BY <1>6, <2>4
      <3>2. \A v \in Threads : v # t => op'[v] = op[v]  BY <1>6
      <3>3. op'[t] = o  BY <1>6
      <3>4. \A c \in Contexts : c.fd = op'[u].fd => op'[u].e \notin m_events'[c]
        BY <3>1, <1>3 DEF AddInv
      <3>5. op'[u].w <= adds'  BY <3>1, <2>1, <1>3, <1>4
      <3>6. \A v \in Threads : op'[v] \in AddOp /\ v # u =>
                              op'[v].w # op'[u].w
                              /\ (op'[v].fd # op'[u].fd \/ op'[v].e # op'[u].e)
        <4> TAKE v \in Threads
        <4>1. CASE v = t  BY <4>1, <3>1, <3>3, <2>1, <1>4, <1>5
        <4>2. CASE v # t  BY <4>2, <3>1, <3>2 DEF AddInv
        <4> QED  BY <4>1, <4>2
      <3> QED  BY <3>4, <3>5, <3>6
    <2> QED  BY <2>3, <2>4
  <1>12. KernelAgrees' /\ PendingIsExact'
    BY <1>3 DEF KernelAgrees, PendingIsExact
  <1>13. WaitInv'
    <2>1. \A w \in Waiters : Adding(w)' <=> Adding(w) \/ w = adds'
      <3>1. \A u \in Threads : u # t => op'[u] = op[u]  BY <1>6
      <3>2. op'[t].kind = "add" /\ op'[t].w = adds'  BY <1>3, <1>5, <1>6
      <3>3. op[t].kind # "add"  BY <1>8 DEF NoOp
      <3> QED  BY <3>1, <3>2, <3>3 DEF Adding
    <2> QED  BY <2>1, <1>3, <1>4, WaitersStay
  <1> QED  BY <1>9, <1>10, <1>11, <1>12, <1>13

LEMMA OtherLookupStep ==
  ASSUME IOInv, NEW t \in Threads, OtherLookup(t)
  PROVE  IOInv'
  <1> USE DEF IOInv
  <1>1. PICK k \in use.ops, fd \in use.fds, e \in use.events :
          /\ op' = [op EXCEPT ![t] = [kind |-> k, fd |-> fd, e |-> e]]
          /\ ctx' = [ctx EXCEPT ![t] = Slot(fd)]
    BY DEF OtherLookup
  <1>2. fd \in Fds /\ e \in Events /\ k \in {"del", "cancel", "cancelAll"}
    BY UseFacts
  <1>3. /\ pc[t] = "client" /\ Goto(t, "locked")
        /\ UNCHANGED <<use, size, gen, m_events, waiter, epoll, m_pendingEventCount,
                       events, adds, resumed, dropped, failed>>
    BY DEF OtherLookup, table, state, hist
  <1> DEFINE o == [kind |-> k, fd |-> fd, e |-> e]
  <1>4. o \in OtherOp /\ o # NoOp /\ o \notin AddOp /\ o.kind # "add" /\ o.fd = fd
    BY <1>2 DEF OtherOp, AddOp, NoOp
  <1>5. \A u \in Threads : op'[u] = IF u = t THEN o ELSE op[u]
    BY <1>1 DEF CallInv
  <1>6. Slot(fd) \in Contexts /\ Slot(fd).fd = fd  BY <1>2, SlotFacts
  <1>7. op[t] = NoOp  BY <1>3 DEF CallInv
  <1>8. CallInv'
    <2>1. op' \in [Threads -> {NoOp} \cup AddOp \cup OtherOp]
      BY <1>1, <1>4 DEF CallInv
    <2>2. ctx' \in [Threads -> {NoOp} \cup Contexts]  BY <1>1, <1>6 DEF CallInv
    <2>3. \A u \in Threads :
          /\ pc'[u] \in {"client", "events"} => op'[u] = NoOp
          /\ pc'[u] = "resize" => op'[u] \in AddOp
          /\ pc'[u] = "locked" => op'[u] # NoOp /\ ctx'[u] \in Contexts
                                 /\ ctx'[u].fd = op'[u].fd
      <3> TAKE u \in Threads
      <3>1. CASE u # t
        <4>1. pc'[u] = pc[u] /\ op'[u] = op[u] /\ ctx'[u] = ctx[u]
          BY <1>1, <1>3, <1>5, <3>1 DEF CallInv, TypeOK, Goto
        <4> QED  BY <4>1 DEF CallInv
      <3>2. CASE u = t
        <4>1. pc'[u] = "locked" /\ ctx'[u] = Slot(fd)
          BY <1>1, <1>3, <3>2 DEF CallInv, TypeOK, Goto
        <4> QED  BY <4>1, <1>4, <1>5, <1>6, <3>2
      <3> QED  BY <3>1, <3>2
    <2> QED  BY <2>1, <2>2, <2>3, <1>3 DEF CallInv
  <1>9. TypeOK'
    <2>1. pc' \in [Threads -> {"client", "resize", "locked", "events"}]
      BY <1>3 DEF TypeOK, Goto
    <2> QED  BY <2>1, <1>3, <1>8 DEF TypeOK, CallInv
  <1>10. AddInv'
    <2>1. \A u \in Threads : op'[u] \in AddOp => op'[u] = op[u]  BY <1>4, <1>5
    <2> QED  BY <2>1, <1>3 DEF AddInv
  <1>11. KernelAgrees' /\ PendingIsExact'
    BY <1>3 DEF KernelAgrees, PendingIsExact
  <1>12. WaitInv'
    <2>1. op[t].kind # "add"  BY <1>7 DEF NoOp
    <2>2. \A w \in Waiters : Adding(w)' <=> Adding(w)
      BY <2>1, <1>4, <1>1, AddingSame
    <2> QED  BY <2>2, <1>3, WaitersStay
  <1> QED  BY <1>8, <1>9, <1>10, <1>11, <1>12

\* m_fdContexts is resized; the calls under way and the contexts stay.
LEMMA contextResizeStep ==
  ASSUME IOInv, NEW t \in Threads, contextResize(t)
  PROVE  IOInv'
  <1> USE DEF IOInv
  <1> DEFINE fd == op[t].fd
             new == (fd * 3) \div 2
             fresh == {f \in Fds : f >= size /\ f < new}
  <1>1. /\ pc[t] = "resize" /\ Goto(t, "locked")
        /\ \A f \in fresh : gen[f] < MaxGen
        /\ size' = new
        /\ gen' = [f \in Fds |-> IF f \in fresh THEN gen[f] + 1 ELSE gen[f]]
        /\ ctx' = [ctx EXCEPT ![t] = [fd |-> fd, gen |-> gen'[fd]]]
        /\ UNCHANGED <<use, m_events, waiter, epoll, m_pendingEventCount, op,
                       events, adds, resumed, dropped, failed>>
    BY DEF contextResize, state, hist
  <1>2. op[t] \in AddOp /\ fd \in Fds  BY <1>1 DEF CallInv, AddOp
  <1>3. size' \in Nat
    <2>1. fd \in Nat  BY <1>2, IOAssumption
    <2>2. \A n \in Nat : (n * 3) \div 2 \in Nat  OBVIOUS
    <2> QED  BY <1>1, <2>1, <2>2
  <1>4. gen' \in [Fds -> 0..MaxGen]
    <2>1. \A f \in Fds : (IF f \in fresh THEN gen[f] + 1 ELSE gen[f]) \in 0..MaxGen
      BY <1>1, IOAssumption DEF TypeOK
    <2> QED  BY <2>1, <1>1
  <1>5. [fd |-> fd, gen |-> gen'[fd]] \in Contexts
    BY <1>2, <1>4 DEF Contexts
  <1>6. CallInv'
    <2>1. ctx' \in [Threads -> {NoOp} \cup Contexts]  BY <1>1, <1>5 DEF CallInv
    <2>2. \A u \in Threads :
          /\ pc'[u] \in {"client", "events"} => op'[u] = NoOp
          /\ pc'[u] = "resize" => op'[u] \in AddOp
          /\ pc'[u] = "locked" => op'[u] # NoOp /\ ctx'[u] \in Contexts
                                 /\ ctx'[u].fd = op'[u].fd
      <3> TAKE u \in Threads
      <3>1. CASE u # t
        <4>1. pc'[u] = pc[u] /\ op'[u] = op[u] /\ ctx'[u] = ctx[u]
          BY <1>1, <3>1 DEF CallInv, TypeOK, Goto
        <4> QED  BY <4>1 DEF CallInv
      <3>2. CASE u = t
        <4>1. pc'[t] = "locked" /\ ctx'[t] = [fd |-> fd, gen |-> gen'[fd]]
              /\ op'[t] = op[t]
          BY <1>1 DEF CallInv, TypeOK, Goto
        <4>2. op[t] # NoOp  BY <1>2 DEF AddOp, NoOp
        <4> QED  BY <4>1, <4>2, <1>5, <3>2
      <3> QED  BY <3>1, <3>2
    <2> QED  BY <2>1, <2>2, <1>1 DEF CallInv
  <1>7. TypeOK'
    <2>1. pc' \in [Threads -> {"client", "resize", "locked", "events"}]
      BY <1>1 DEF TypeOK, Goto
    <2> HIDE DEF new, fresh
    <2> QED  BY <2>1, <1>1, <1>3, <1>4, <1>6 DEF TypeOK, CallInv
  <1>8. AddInv' /\ KernelAgrees' /\ PendingIsExact'
    BY <1>1 DEF AddInv, KernelAgrees, PendingIsExact
  <1>9. WaitInv'
    <2>1. \A w \in Waiters : Adding(w)' <=> Adding(w)  BY <1>1 DEF Adding
    <2> QED  BY <2>1, <1>1, WaitersStay
  <1> QED  BY <1>6, <1>7, <1>8, <1>9

\* epoll_wait returns: the thread has events to handle.
LEMMA EpollWaitStep ==
  ASSUME IOInv, NEW t \in Threads, EpollWait(t)
  PROVE  IOInv'
  <1> USE DEF IOInv
  <1>1. /\ pc[t] = "client" /\ Goto(t, "events")
        /\ UNCHANGED <<use, size, gen, m_events, waiter, epoll, m_pendingEventCount,
                       op, ctx, adds, resumed, dropped, failed>>
    BY DEF EpollWait, table, state, hist
  <1>2. PICK F \in SUBSET {fd \in Fds : epoll[fd].reg} :
          \E m \in [F -> SUBSET (Events \cup {"ERR"})] :
             events' = [events EXCEPT ![t] =
                      {[ptr |-> epoll[fd].ptr, mask |-> m[fd]] : fd \in F}]
    BY DEF EpollWait
  <1>3. PICK m \in [F -> SUBSET (Events \cup {"ERR"})] :
             events' = [events EXCEPT ![t] =
                      {[ptr |-> epoll[fd].ptr, mask |-> m[fd]] : fd \in F}]
    BY <1>2
  <1>4. {[ptr |-> epoll[fd].ptr, mask |-> m[fd]] : fd \in F} \in SUBSET Report
    <2>1. \A fd \in F : epoll[fd].ptr \in Contexts
      <3> TAKE fd \in F
      <3>1. fd \in Fds /\ epoll[fd].reg = TRUE
        <4>1. fd \in Fds /\ epoll[fd].reg  OBVIOUS
        <4>2. epoll[fd].reg \in BOOLEAN  BY <4>1 DEF CallInv, Unregistered
        <4> QED  BY <4>1, <4>2
      <3>2. epoll[fd] # Unregistered  BY <3>1 DEF Unregistered
      <3> QED  BY <3>1, <3>2 DEF CallInv
    <2> QED  BY <2>1, <1>3 DEF Report
  <1>5. events' \in [Threads -> SUBSET Report]  BY <1>3, <1>4 DEF CallInv
  <1>6. CallInv'
    <2>1. \A u \in Threads :
          /\ pc'[u] \in {"client", "events"} => op'[u] = NoOp
          /\ pc'[u] = "resize" => op'[u] \in AddOp
          /\ pc'[u] = "locked" => op'[u] # NoOp /\ ctx'[u] \in Contexts
                                 /\ ctx'[u].fd = op'[u].fd
      BY <1>1 DEF CallInv, TypeOK, Goto
    <2> QED  BY <2>1, <1>1, <1>5 DEF CallInv
  <1>7. TypeOK'
    <2>1. pc' \in [Threads -> {"client", "resize", "locked", "events"}]
      BY <1>1 DEF TypeOK, Goto
    <2> QED  BY <2>1, <1>1, <1>6 DEF TypeOK, CallInv
  <1>8. AddInv' /\ KernelAgrees' /\ PendingIsExact'
    BY <1>1 DEF AddInv, KernelAgrees, PendingIsExact
  <1>9. WaitInv'
    <2>1. \A w \in Waiters : Adding(w)' <=> Adding(w)  BY <1>1 DEF Adding
    <2> QED  BY <2>1, <1>1, WaitersStay
  <1> QED  BY <1>6, <1>7, <1>8, <1>9

-----------------------------------------------------------------------------
(* The steps that add, remove and trigger events.                          *)

\* A call that finds nothing to do returns.
LEMMA NothingDone ==
  ASSUME IOInv, NEW t \in Threads, pc[t] = "locked", op[t] \notin AddOp, Return(t),
         UNCHANGED <<use, size, gen, m_events, waiter, epoll, m_pendingEventCount,
                     events, adds, resumed, dropped, failed>>
  PROVE  IOInv'
  <1> USE DEF IOInv
  <1>1. CallInv' /\ AddInv' /\ pc' \in [Threads -> {"client", "resize", "locked", "events"}]
    <2>1. epoll' \in [Fds -> {Unregistered} \cup
                        [reg : {TRUE}, ptr : Contexts, mask : SUBSET Events]]
      BY DEF CallInv
    <2> QED  BY <2>1, CallEnds
  <1>2. KernelAgrees' /\ PendingIsExact'  BY DEF KernelAgrees, PendingIsExact
  <1>3. TypeOK'  BY <1>1 DEF TypeOK, CallInv
  <1>4. WaitInv'
    <2>1. op[t].kind # "add" /\ NoOp.kind # "add"  BY OpKinds DEF NoOp
    <2>2. op' = [op EXCEPT ![t] = NoOp]  BY DEF Return
    <2>3. \A w \in Waiters : Adding(w)' <=> Adding(w)  BY <2>1, <2>2, AddingSame
    <2> QED  BY <2>3, WaitersStay
  <1> QED  BY <1>1, <1>2, <1>3, <1>4

LEMMA addEventStep ==
  ASSUME IOInv, NEW t \in Threads, addEvent(t)
  PROVE  IOInv'
  <1> USE DEF IOInv
  <1> DEFINE c == ctx[t]
             e == op[t].e
             v == op[t].w
  <1>1. /\ pc[t] = "locked" /\ op[t].kind = "add" /\ Return(t)
        /\ UNCHANGED <<use, size, gen, events, adds, resumed, failed>>
    BY DEF addEvent, table
  <1>2. /\ op[t] \in AddOp /\ c \in Contexts /\ c.fd = op[t].fd
        /\ e \in Events /\ v \in Waiters /\ c.fd \in Fds
    BY <1>1, OpKinds, ContextFacts DEF CallInv
  <1>3. v <= adds /\ e \notin m_events[c]  BY <1>2 DEF AddInv
  <1>4. /\ Adding(v)
        /\ \A w \in Waiters : Adding(w)' <=> Adding(w) /\ w # v
    <2>1. op' = [op EXCEPT ![t] = NoOp]  BY <1>1 DEF Return
    <2> QED  BY <2>1, <1>2, AddingEnds
  <1>5. CASE /\ ~EpollAccepts(c.fd, m_events[c] = {})
             /\ dropped' = dropped \cup {op[t].w}
             /\ UNCHANGED state
    <2>0. UNCHANGED <<m_events, waiter, epoll, m_pendingEventCount>>  BY <1>5 DEF state
    <2>1. CallInv' /\ AddInv' /\ pc' \in [Threads -> {"client", "resize", "locked", "events"}]
      <3>1. epoll' \in [Fds -> {Unregistered} \cup
                          [reg : {TRUE}, ptr : Contexts, mask : SUBSET Events]]
        BY <2>0 DEF CallInv
      <3> QED  BY <3>1, <2>0, <1>1, CallEnds
    <2>2. KernelAgrees' /\ PendingIsExact'  BY <2>0 DEF KernelAgrees, PendingIsExact
    <2>3. TypeOK'  BY <2>0, <2>1, <1>1, <1>2, <1>5 DEF TypeOK, CallInv
    <2>4. WaitInv'  BY <2>0, <1>1, <1>2, <1>3, <1>4, <1>5, WaitersStay
    <2> QED  BY <2>1, <2>2, <2>3, <2>4
  <1>6. CASE /\ EpollAccepts(c.fd, m_events[c] = {})
             /\ EpollSet(c.fd, c, m_events[c] \cup {e})
             /\ m_pendingEventCount' = m_pendingEventCount + 1
             /\ m_events' = [m_events EXCEPT ![c] = @ \cup {e}]
             /\ waiter' = [waiter EXCEPT ![c][e] = op[t].w]
             /\ UNCHANGED dropped
    <2>1. m_events[c] \cup {e} \in SUBSET Events  BY <1>2 DEF TypeOK
    <2>2. epoll' \in [Fds -> {Unregistered} \cup
                        [reg : {TRUE}, ptr : Contexts, mask : SUBSET Events]]
      BY <1>2, <1>6, <2>1 DEF CallInv, EpollSet, Registered
    <2>3. \A d \in Contexts : \A f \in m_events'[d] :
            f \in m_events[d] \/ (op[t] \in AddOp /\ d.fd = op[t].fd /\ f = op[t].e)
      BY <1>2, <1>6 DEF TypeOK
    <2>4. CallInv' /\ AddInv' /\ pc' \in [Threads -> {"client", "resize", "locked", "events"}]
      BY <2>2, <2>3, <1>1, CallEnds
    <2>5. KernelAgrees'
      <3> DEFINE new == m_events[c] \cup {e}
      <3>1. /\ new \in SUBSET Events /\ m_events' = [m_events EXCEPT ![c] = new]
            /\ EpollSet(c.fd, c, new)
        BY <1>6, <2>1
      <3>2. m_events[c] = {} => ~epoll[c.fd].reg  BY <1>6 DEF EpollAccepts
      <3> HIDE DEF new, c
      <3> QED  BY <3>1, <3>2, <1>2, KernelSet
    <2>6. PendingIsExact'  BY <1>2, <1>3, <1>6, PendingAdd
    <2>7. TypeOK'
      <3>1. m_events' \in [Contexts -> SUBSET Events]  BY <1>2, <1>6, <2>1 DEF TypeOK
      <3>2. waiter' \in [Contexts -> [Events -> 0..MaxAdds]]
        <4>1. v \in 0..MaxAdds  BY <1>2 DEF Waiters
        <4> QED  BY <4>1, <1>2, <1>6 DEF TypeOK
      <3>3. m_pendingEventCount' \in Nat  BY <1>6 DEF TypeOK
      <3>4. dropped' = dropped  BY <1>6
      <3> QED  BY <3>1, <3>2, <3>3, <3>4, <2>4, <1>1 DEF TypeOK, CallInv
    <2>8. WaitInv'  BY <1>1, <1>2, <1>3, <1>4, <1>6, WaiterAdded
    <2> QED  BY <2>4, <2>5, <2>6, <2>7, <2>8
  <1> QED  BY <1>5, <1>6 DEF addEvent

LEMMA delEventStep ==
  ASSUME IOInv, NEW t \in Threads, delEvent(t)
  PROVE  IOInv'
  <1> USE DEF IOInv
  <1> DEFINE c == ctx[t]
             e == op[t].e
  <1>1. /\ pc[t] = "locked" /\ op[t].kind = "del" /\ Return(t)
        /\ UNCHANGED <<use, size, gen, events, adds, resumed, failed>>
    BY DEF delEvent, table
  <1>2. /\ op[t] \notin AddOp /\ op[t].kind # "add" /\ c \in Contexts
    BY <1>1, OpKinds DEF CallInv
  <1>3. CASE Refuses(c, e)
    <2>1. UNCHANGED <<m_events, waiter, epoll, m_pendingEventCount, dropped>>
      BY <1>3 DEF delEvent, state
    <2> QED  BY <2>1, <1>1, <1>2, NothingDone
  <1>4. CASE ~Refuses(c, e)
    <2>1. /\ EpollSet(c.fd, c, m_events[c] \ {e})
          /\ m_pendingEventCount' = m_pendingEventCount - 1
          /\ m_events' = [m_events EXCEPT ![c] = @ \ {e}]
          /\ dropped' = dropped \cup {waiter[c][e]}
          /\ waiter' = [waiter EXCEPT ![c][e] = 0]
      BY <1>4 DEF delEvent
    <2>2. e \in m_events[c] /\ e \in Events  BY <1>2, <1>4 DEF Refuses, TypeOK
    <2>3. Cardinality({e}) = 1  BY FS_Singleton
    <2>4. /\ KernelAgrees' /\ PendingIsExact'
          /\ m_pendingEventCount' \in Nat
          /\ m_events' \in [Contexts -> SUBSET Events]
          /\ epoll' \in [Fds -> {Unregistered} \cup
                          [reg : {TRUE}, ptr : Contexts, mask : SUBSET Events]]
      <3> DEFINE evs == {e}
      <3>1. /\ evs \in SUBSET m_events[c] /\ m_events[c] # {}
            /\ EpollSet(c.fd, c, m_events[c] \ evs)
            /\ m_events' = [m_events EXCEPT ![c] = @ \ evs]
            /\ m_pendingEventCount' = m_pendingEventCount - Cardinality(evs)
        BY <2>1, <2>2, <2>3
      <3> HIDE DEF evs, c
      <3> QED  BY <3>1, <1>2, Removal
    <2>5. \A d \in Contexts : m_events'[d] \subseteq m_events[d]
      BY <2>1 DEF TypeOK
    <2>6. CallInv' /\ AddInv' /\ pc' \in [Threads -> {"client", "resize", "locked", "events"}]
      BY <2>4, <2>5, <1>1, CallEnds
    <2>7. TypeOK'
      <3>1. waiter' \in [Contexts -> [Events -> 0..MaxAdds]]
        BY <1>2, <2>1, <2>2, IOAssumption DEF TypeOK
      <3>2. dropped' \subseteq Waiters
        <4>1. waiter[c][e] \in Waiters
          BY <1>2, <2>2, IOAssumption DEF TypeOK, WaitInv, Waiters
        <4> QED  BY <4>1, <2>1 DEF TypeOK
      <3> QED  BY <3>1, <3>2, <2>4, <2>6, <1>1 DEF TypeOK, CallInv
    <2>8. WaitInv'
      <3>1. \A w \in Waiters : Adding(w)' <=> Adding(w)
        <4>1. op' = [op EXCEPT ![t] = NoOp] /\ NoOp.kind # "add"
          BY <1>1 DEF Return, NoOp
        <4> QED  BY <4>1, <1>2, AddingSame
      <3> QED  BY <3>1, <2>1, <2>2, <1>1, <1>2, WaiterDropped
    <2> QED  BY <2>4, <2>6, <2>7, <2>8
  <1> QED  BY <1>3, <1>4

\* Everything about a step that triggers events of a context, but for the
\* thread that takes it.
LEMMA Triggered ==
  ASSUME IOInv, NEW c \in Contexts, NEW evs \in SUBSET m_events[c],
         m_events[c] # {},
         EpollSet(c.fd, c, m_events[c] \ evs), Trigger(c, evs),
         adds' = adds, dropped' = dropped,
         \A w \in Waiters : Adding(w)' <=> Adding(w)
  PROVE  /\ KernelAgrees' /\ PendingIsExact' /\ WaitInv'
         /\ m_pendingEventCount' \in Nat
         /\ m_events' \in [Contexts -> SUBSET Events]
         /\ waiter' \in [Contexts -> [Events -> 0..MaxAdds]]
         /\ resumed' \in [Waiters -> Nat]
         /\ epoll' \in [Fds -> {Unregistered} \cup
                          [reg : {TRUE}, ptr : Contexts, mask : SUBSET Events]]
         /\ \A d \in Contexts : m_events'[d] \subseteq m_events[d]
  <1> USE DEF IOInv
  <1>1. /\ m_events' = [m_events EXCEPT ![c] = @ \ evs]
        /\ m_pendingEventCount' = m_pendingEventCount - Cardinality(evs)
    BY DEF Trigger
  <1>2. /\ KernelAgrees' /\ PendingIsExact'
        /\ m_pendingEventCount' \in Nat
        /\ m_events' \in [Contexts -> SUBSET Events]
        /\ epoll' \in [Fds -> {Unregistered} \cup
                        [reg : {TRUE}, ptr : Contexts, mask : SUBSET Events]]
    BY <1>1, Removal
  <1>3. waiter' \in [Contexts -> [Events -> 0..MaxAdds]]
    BY IOAssumption DEF TypeOK, Trigger
  <1>4. resumed' \in [Waiters -> Nat]  BY DEF TypeOK, Trigger
  <1>5. \A d \in Contexts : m_events'[d] \subseteq m_events[d]  BY <1>1 DEF TypeOK
  <1>6. WaitInv'  BY WaitersResumed
  <1> QED  BY <1>2, <1>3, <1>4, <1>5, <1>6

\* A call that triggers events and returns.
LEMMA CallTriggers ==
  ASSUME IOInv, NEW t \in Threads, pc[t] = "locked", op[t] \notin AddOp, Return(t),
         NEW c \in Contexts, NEW evs \in SUBSET m_events[c], m_events[c] # {},
         EpollSet(c.fd, c, m_events[c] \ evs), Trigger(c, evs),
         UNCHANGED <<use, size, gen, events, adds, dropped, failed>>
  PROVE  IOInv'
  <1> USE DEF IOInv
  <1>1. \A w \in Waiters : Adding(w)' <=> Adding(w)
    <2>1. op[t].kind # "add"  BY OpKinds
    <2>2. op' = [op EXCEPT ![t] = NoOp] /\ NoOp.kind # "add"  BY DEF Return, NoOp
    <2> QED  BY <2>1, <2>2, AddingSame
  <1>2. /\ KernelAgrees' /\ PendingIsExact' /\ WaitInv'
        /\ m_pendingEventCount' \in Nat
        /\ m_events' \in [Contexts -> SUBSET Events]
        /\ waiter' \in [Contexts -> [Events -> 0..MaxAdds]]
        /\ resumed' \in [Waiters -> Nat]
        /\ epoll' \in [Fds -> {Unregistered} \cup
                        [reg : {TRUE}, ptr : Contexts, mask : SUBSET Events]]
        /\ \A d \in Contexts : m_events'[d] \subseteq m_events[d]
    BY <1>1, Triggered
  <1>3. CallInv' /\ AddInv' /\ pc' \in [Threads -> {"client", "resize", "locked", "events"}]
    BY <1>2, CallEnds
  <1>4. TypeOK'  BY <1>2, <1>3 DEF TypeOK, CallInv
  <1> QED  BY <1>2, <1>3, <1>4

LEMMA cancelEventStep ==
  ASSUME IOInv, NEW t \in Threads, cancelEvent(t)
  PROVE  IOInv'
  <1> USE DEF IOInv
  <1> DEFINE c == ctx[t]
             e == op[t].e
             evs == {e}
  <1>1. /\ pc[t] = "locked" /\ op[t].kind = "cancel" /\ Return(t)
        /\ UNCHANGED <<use, size, gen, events, adds, dropped, failed>>
    BY DEF cancelEvent, table
  <1>2. op[t] \notin AddOp /\ c \in Contexts
    BY <1>1, OpKinds DEF CallInv
  <1>3. CASE Refuses(c, e)
    <2>1. UNCHANGED <<m_events, waiter, epoll, m_pendingEventCount, resumed>>
      BY <1>3 DEF cancelEvent, state
    <2> QED  BY <2>1, <1>1, <1>2, NothingDone
  <1>4. CASE ~Refuses(c, e)
    <2>1. EpollSet(c.fd, c, m_events[c] \ evs) /\ Trigger(c, evs)
      BY <1>4 DEF cancelEvent
    <2>2. evs \in SUBSET m_events[c] /\ m_events[c] # {}  BY <1>4 DEF Refuses
    <2> HIDE DEF c, evs
    <2> QED  BY <2>1, <2>2, <1>1, <1>2, CallTriggers
  <1> QED  BY <1>3, <1>4

\* The process ends in an assert: nothing changes but that.
LEMMA FailStep ==
  ASSUME IOInv, NEW a \in {"triggerEvent", "cancelAll"}, Fail(a)
  PROVE  IOInv'
  <1> USE DEF IOInv
  <1>1. /\ failed' = a
        /\ UNCHANGED <<use, size, gen, m_events, waiter, epoll, m_pendingEventCount,
                       pc, op, ctx, events, adds, resumed, dropped>>
    BY DEF Fail, table, state, calls, hist
  <1>2. TypeOK' /\ CallInv'  BY <1>1 DEF TypeOK, CallInv
  <1>3. AddInv' /\ KernelAgrees' /\ PendingIsExact'
    BY <1>1 DEF AddInv, KernelAgrees, PendingIsExact
  <1>4. WaitInv'
    <2>1. \A w \in Waiters : Adding(w)' <=> Adding(w)  BY <1>1 DEF Adding
    <2> QED  BY <2>1, <1>1, WaitersStay
  <1> QED  BY <1>2, <1>3, <1>4

LEMMA cancelAllStep ==
  ASSUME IOInv, NEW t \in Threads, cancelAll(t)
  PROVE  IOInv'
  <1> USE DEF IOInv
  <1> DEFINE c == ctx[t]
             evs == CancelAllTriggers(c)
  <1>1. pc[t] = "locked" /\ op[t].kind = "cancelAll"  BY DEF cancelAll
  <1>2. op[t] \notin AddOp /\ c \in Contexts
    BY <1>1, OpKinds DEF CallInv
  <1>3. CASE m_events[c] = {} \/ ~EpollAccepts(c.fd, FALSE)
    <2>1. /\ Return(t)
          /\ UNCHANGED <<use, size, gen, m_events, waiter, epoll, m_pendingEventCount,
                         events, adds, resumed, dropped, failed>>
      BY <1>3 DEF cancelAll, table, state, hist
    <2> QED  BY <2>1, <1>1, <1>2, NothingDone
  <1>4. CASE /\ ~(m_events[c] = {} \/ ~EpollAccepts(c.fd, FALSE))
             /\ evs # m_events[c]
    <2>1. Fail("cancelAll")  BY <1>4 DEF cancelAll
    <2> QED  BY <2>1, FailStep
  <1>5. CASE /\ ~(m_events[c] = {} \/ ~EpollAccepts(c.fd, FALSE))
             /\ evs = m_events[c]
    <2>1. /\ EpollSet(c.fd, c, {}) /\ Trigger(c, evs) /\ Return(t)
          /\ UNCHANGED <<use, size, gen, events, adds, dropped, failed>>
      BY <1>5 DEF cancelAll, table
    <2>2. /\ evs \in SUBSET m_events[c] /\ m_events[c] # {}
          /\ EpollSet(c.fd, c, m_events[c] \ evs)
      <3>1. m_events[c] \ evs = {}  BY <1>5
      <3>2. evs \in SUBSET m_events[c] /\ m_events[c] # {}  BY <1>5
      <3> QED  BY <2>1, <3>1, <3>2
    <2> HIDE DEF c, evs
    <2> QED  BY <2>1, <2>2, <1>1, <1>2, CallTriggers
  <1> QED  BY <1>3, <1>4, <1>5

\* An event epoll_wait returned has been handled: the thread's position.
LEMMA HandledFacts ==
  ASSUME IOInv, NEW t \in Threads, NEW ev \in events[t], pc[t] = "events",
         Handled(t, ev), UNCHANGED <<op, ctx, adds>>,
         epoll' \in [Fds -> {Unregistered} \cup
                       [reg : {TRUE}, ptr : Contexts, mask : SUBSET Events]],
         \A d \in Contexts : m_events'[d] \subseteq m_events[d]
  PROVE  /\ CallInv' /\ AddInv'
         /\ pc' \in [Threads -> {"client", "resize", "locked", "events"}]
  <1> USE DEF IOInv
  <1>1. \A u \in Threads : /\ u # t => pc'[u] = pc[u]
                           /\ u = t => pc'[u] \in {"client", "events"}
    BY DEF TypeOK, Handled, Goto
  <1>2. pc' \in [Threads -> {"client", "resize", "locked", "events"}]
    BY DEF TypeOK, Handled, Goto
  <1>3. events' \in [Threads -> SUBSET Report]  BY DEF CallInv, Handled
  <1>4. CallInv'
    <2>1. \A u \in Threads :
          /\ pc'[u] \in {"client", "events"} => op'[u] = NoOp
          /\ pc'[u] = "resize" => op'[u] \in AddOp
          /\ pc'[u] = "locked" => op'[u] # NoOp /\ ctx'[u] \in Contexts
                                 /\ ctx'[u].fd = op'[u].fd
      BY <1>1 DEF CallInv
    <2> QED  BY <2>1, <1>3 DEF CallInv
  <1>5. AddInv'  BY DEF AddInv
  <1> QED  BY <1>2, <1>4, <1>5

LEMMA HandleEventStep ==
  ASSUME IOInv, NEW t \in Threads, HandleEvent(t)
  PROVE  IOInv'
  <1> USE DEF IOInv
  <1>1. pc[t] = "events"  BY DEF HandleEvent
  <1>2. PICK ev \in events[t] :
          LET c == ev.ptr  real == RealEvents(c, ev.mask)
          IN  \/ /\ m_events[c] \cap real = {} \/ ~EpollAccepts(c.fd, FALSE)
                 /\ Handled(t, ev)
                 /\ UNCHANGED <<table, state, op, ctx, hist, failed>>
              \/ /\ m_events[c] \cap real # {} /\ EpollAccepts(c.fd, FALSE)
                 /\ ~(real \subseteq m_events[c])
                 /\ Fail("triggerEvent")
              \/ /\ m_events[c] \cap real # {} /\ EpollAccepts(c.fd, FALSE)
                 /\ real \subseteq m_events[c]
                 /\ EpollSet(c.fd, c, m_events[c] \ real)
                 /\ Trigger(c, real)
                 /\ Handled(t, ev)
                 /\ UNCHANGED <<table, op, ctx, adds, dropped, failed>>
    BY DEF HandleEvent
  <1> DEFINE c == ev.ptr
             real == RealEvents(c, ev.mask)
  <1>3. c \in Contexts  BY DEF CallInv, Report
  <1>4. CASE Handled(t, ev) /\ UNCHANGED <<table, state, op, ctx, hist, failed>>
    <2>1. UNCHANGED <<use, size, gen, m_events, waiter, epoll, m_pendingEventCount,
                      op, ctx, adds, resumed, dropped, failed>>
      BY <1>4 DEF table, state, hist
    <2>2. CallInv' /\ AddInv' /\ pc' \in [Threads -> {"client", "resize", "locked", "events"}]
      <3>1. epoll' \in [Fds -> {Unregistered} \cup
                          [reg : {TRUE}, ptr : Contexts, mask : SUBSET Events]]
        BY <2>1 DEF CallInv
      <3> QED  BY <3>1, <2>1, <1>1, <1>4, HandledFacts
    <2>3. KernelAgrees' /\ PendingIsExact'  BY <2>1 DEF KernelAgrees, PendingIsExact
    <2>4. TypeOK'  BY <2>1, <2>2 DEF TypeOK, CallInv
    <2>5. WaitInv'
      <3>1. \A w \in Waiters : Adding(w)' <=> Adding(w)  BY <2>1 DEF Adding
      <3> QED  BY <3>1, <2>1, WaitersStay
    <2> QED  BY <2>2, <2>3, <2>4, <2>5
  <1>5. CASE Fail("triggerEvent")  BY <1>5, FailStep
  <1>6. CASE /\ m_events[c] \cap real # {} /\ real \subseteq m_events[c]
             /\ EpollSet(c.fd, c, m_events[c] \ real)
             /\ Trigger(c, real)
             /\ Handled(t, ev)
             /\ UNCHANGED <<table, op, ctx, adds, dropped, failed>>
    <2>1. UNCHANGED <<use, size, gen, op, ctx, adds, dropped, failed>>
      BY <1>6 DEF table
    <2>2. \A w \in Waiters : Adding(w)' <=> Adding(w)  BY <2>1 DEF Adding
    <2>3. /\ KernelAgrees' /\ PendingIsExact' /\ WaitInv'
          /\ m_pendingEventCount' \in Nat
          /\ m_events' \in [Contexts -> SUBSET Events]
          /\ waiter' \in [Contexts -> [Events -> 0..MaxAdds]]
          /\ resumed' \in [Waiters -> Nat]
          /\ epoll' \in [Fds -> {Unregistered} \cup
                          [reg : {TRUE}, ptr : Contexts, mask : SUBSET Events]]
          /\ \A d \in Contexts : m_events'[d] \subseteq m_events[d]
      <3>1. m_events[c] # {} /\ real \in SUBSET m_events[c]  BY <1>6
      <3> HIDE DEF c, real
      <3> QED  BY <3>1, <2>1, <2>2, <1>3, <1>6, Triggered
    <2>4. CallInv' /\ AddInv' /\ pc' \in [Threads -> {"client", "resize", "locked", "events"}]
      BY <2>1, <2>3, <1>1, <1>6, HandledFacts
    <2>5. TypeOK'  BY <2>1, <2>3, <2>4 DEF TypeOK, CallInv
    <2> QED  BY <2>3, <2>4, <2>5
  <1> QED  BY <1>2, <1>4, <1>5, <1>6

-----------------------------------------------------------------------------
(* The inductive invariant, and what follows from it.                      *)

LEMMA IOInit == Init => IOInv
  <1> SUFFICES ASSUME Init PROVE IOInv  OBVIOUS
  <1> USE DEF Init
  <1>1. CallInv  BY DEF CallInv, NoOp
  <1>2. TypeOK
    <2>1. 0 \in 0..MaxGen /\ 0 \in 0..MaxAdds  BY IOAssumption
    <2>2. waiter \in [Contexts -> [Events -> 0..MaxAdds]]  BY <2>1
    <2>3. gen \in [Fds -> 0..MaxGen] /\ m_events \in [Contexts -> SUBSET Events]  BY <2>1
    <2>4. size \in Nat  BY IOAssumption
    <2>5. /\ pc \in [Threads -> {"client", "resize", "locked", "events"}]
          /\ resumed \in [Waiters -> Nat]
      OBVIOUS
    <2> QED  BY <2>1, <2>2, <2>3, <2>4, <2>5 DEF TypeOK
  <1>3. NoOp \notin AddOp /\ NoOp.kind # "add"  BY DEF AddOp, NoOp
  <1>4. AddInv  BY <1>3 DEF AddInv
  <1>5. KernelAgrees  BY ContextFacts DEF KernelAgrees, Unregistered
  <1>6. PendingIsExact
    <2>1. Pending = {}  BY DEF Pending
    <2> QED  BY <2>1, FS_EmptySet DEF PendingIsExact, Pending
  <1>7. WaitInv
    <2>1. \A w \in Waiters : ~(w <= adds)  BY DEF Waiters
    <2> QED  BY <2>1 DEF WaitInv
  <1> QED  BY <1>1, <1>2, <1>4, <1>5, <1>6, <1>7 DEF IOInv

LEMMA IOStutter ==
  ASSUME IOInv, UNCHANGED vars
  PROVE  IOInv'
  <1> USE DEF vars, table, state, calls, hist
  <1>1. TypeOK' /\ CallInv' /\ AddInv'
    BY DEF IOInv, TypeOK, CallInv, AddInv
  <1>2. KernelAgrees' /\ PendingIsExact'  BY DEF IOInv, KernelAgrees, PendingIsExact
  <1>3. WaitInv'
    <2>1. \A w \in Waiters : Adding(w)' <=> Adding(w)  BY DEF Adding
    <2> QED  BY <2>1, WaitersStay DEF IOInv
  <1> QED  BY <1>1, <1>2, <1>3 DEF IOInv

LEMMA IONext == IOInv /\ [Next]_vars => IOInv'
  <1> SUFFICES ASSUME IOInv, [Next]_vars PROVE IOInv'  OBVIOUS
  <1>1. CASE UNCHANGED vars  BY <1>1, IOStutter
  <1>2. ASSUME NEW t \in use.threads, Step(t) PROVE IOInv'
    <2>1. t \in Threads  BY UseFacts DEF IOInv
    <2> QED
      BY <1>2, <2>1, AddLookupStep, contextResizeStep, OtherLookupStep, addEventStep,
         delEventStep, cancelEventStep, cancelAllStep, EpollWaitStep, HandleEventStep
         DEF Step
  <1> QED  BY <1>1, <1>2 DEF Next, Quiet

LEMMA IOInductive == Spec => []IOInv
  BY IOInit, IONext, PTL DEF Spec

\* The variables have their types.
THEOREM IOTypeOK == Spec => []TypeOK
  <1>1. IOInv => TypeOK  BY DEF IOInv
  <1> QED  BY <1>1, IOInductive, PTL

\* What epoll watches and what the contexts say is waited for are the same,
\* whatever calls and events interleave.
THEOREM IOKernelAgrees == Spec => []KernelAgrees
  <1>1. IOInv => KernelAgrees  BY DEF IOInv
  <1> QED  BY <1>1, IOInductive, PTL

\* m_pendingEventCount is exact, so stopping() may rely on it.
THEOREM IOPendingIsExact == Spec => []PendingIsExact
  <1>1. IOInv => PendingIsExact  BY DEF IOInv
  <1> QED  BY <1>1, IOInductive, PTL

\* Every waiter is resumed or dropped at most once and is never forgotten.
THEOREM IOWaiterOnce == Spec => []WaiterOnce
  <1>1. IOInv => WaiterOnce
    <2> SUFFICES ASSUME IOInv PROVE WaiterOnce  OBVIOUS
    <2> USE DEF IOInv
    <2>1. \A c \in Contexts, e \in Events : waiter[c][e] # 0 <=> e \in m_events[c]
      BY DEF WaitInv
    <2>2. ASSUME NEW w \in 1..adds
          PROVE  Cardinality(Waiting(w)) + resumed[w]
                   + (IF w \in dropped THEN 1 ELSE 0) + (IF Adding(w) THEN 1 ELSE 0) = 1
      <3>1. w \in Waiters /\ w # 0 /\ w <= adds
        BY IOAssumption DEF TypeOK, Waiters
      <3>2. CASE \E c \in Contexts, e \in Events : waiter[c][e] = w
        <4>1. PICK c \in Contexts, e \in Events : waiter[c][e] = w  BY <3>2
        <4>2. Waiting(w) = {<<c, e>>}
          <5>1. \A p \in Contexts \X Events : waiter[p[1]][p[2]] = w => p = <<c, e>>
            BY <4>1, <3>1 DEF WaitInv
          <5> QED  BY <5>1, <4>1 DEF Waiting
        <4>3. Cardinality(Waiting(w)) = 1  BY <4>2, FS_Singleton
        <4>4. w \notin dropped /\ resumed[w] = 0 /\ ~Adding(w)
          BY <4>1, <3>1 DEF WaitInv
        <4> QED  BY <4>3, <4>4
      <3>3. CASE ~ \E c \in Contexts, e \in Events : waiter[c][e] = w
        <4>1. Waiting(w) = {}  BY <3>3 DEF Waiting
        <4>2. Cardinality(Waiting(w)) = 0  BY <4>1, FS_EmptySet
        <4>3. /\ resumed[w] \in {0, 1}
              /\ resumed[w] = 1 => w \notin dropped /\ ~Adding(w)
              /\ w \in dropped => ~Adding(w)
              /\ resumed[w] = 0 /\ w \notin dropped => Adding(w)
          BY <3>1, <3>3 DEF WaitInv
        <4> QED  BY <4>2, <4>3
      <3> QED  BY <3>2, <3>3
    <2> QED  BY <2>1, <2>2 DEF WaiterOnce
  <1> QED  BY <1>1, IOInductive, PTL

-----------------------------------------------------------------------------
(* The asserts, and the contexts cancelEvent looks up.                     *)

\* epoll's entries change through EpollSet only, which names the descriptor
\* of the context it is given.
LEMMA EpollOwnNext ==
  ASSUME IOInv, EpollOwn, [Next]_vars
  PROVE  EpollOwn'
  <1> USE DEF IOInv
  <1>1. ASSUME NEW c \in Contexts, NEW evs, EpollSet(c.fd, c, evs) PROVE EpollOwn'
    <2>1. c.fd \in Fds  BY ContextFacts
    <2>2. \A fd \in Fds : epoll'[fd] = IF fd = c.fd
              THEN IF evs = {} THEN Unregistered ELSE Registered(c, evs)
              ELSE epoll[fd]
      BY <1>1, <2>1 DEF EpollSet, CallInv
    <2> QED  BY <2>2 DEF EpollOwn, Unregistered, Registered
  <1>2. CASE epoll' = epoll  BY <1>2 DEF EpollOwn
  <1>3. ASSUME NEW t \in use.threads, Step(t) PROVE EpollOwn'
    <2>1. t \in Threads  BY UseFacts
    <2>2. pc[t] = "locked" => ctx[t] \in Contexts  BY <2>1 DEF CallInv
    <2>3. \A ev \in events[t] : ev.ptr \in Contexts  BY <2>1 DEF CallInv, Report
    <2>4. \/ epoll' = epoll
          \/ \E c \in Contexts : \E evs \in SUBSET Events : EpollSet(c.fd, c, evs)
      <3> USE DEF state, hist, table
      <3>0. \A c \in Contexts : m_events[c] \in SUBSET Events  BY DEF TypeOK
      <3>1. CASE AddLookup(t) \/ contextResize(t) \/ OtherLookup(t) \/ EpollWait(t)
        BY <3>1 DEF AddLookup, contextResize, OtherLookup, EpollWait
      <3>2. CASE addEvent(t)
        <4>1. op[t].e \in Events  BY <3>2, <2>1, OpKinds DEF addEvent, CallInv
        <4>2. m_events[ctx[t]] \cup {op[t].e} \in SUBSET Events
          BY <4>1, <3>0, <3>2, <2>2 DEF addEvent
        <4> QED  BY <3>2, <2>2, <4>2 DEF addEvent
      <3>3. CASE delEvent(t)
        <4>1. \A e : m_events[ctx[t]] \ {e} \in SUBSET Events
          BY <3>0, <3>3, <2>2 DEF delEvent
        <4> QED  BY <3>3, <2>2, <4>1 DEF delEvent
      <3>4. CASE cancelEvent(t)
        <4>1. \A e : m_events[ctx[t]] \ {e} \in SUBSET Events
          BY <3>0, <3>4, <2>2 DEF cancelEvent
        <4> QED  BY <3>4, <2>2, <4>1 DEF cancelEvent
      <3>5. CASE cancelAll(t)
        BY <3>5, <2>2 DEF cancelAll, Fail
      <3>6. CASE HandleEvent(t)
        <4>1. \A c \in Contexts : \A r : m_events[c] \ r \in SUBSET Events
          BY <3>0
        <4> QED  BY <3>6, <2>3, <4>1 DEF HandleEvent, Fail
      <3> QED  BY <1>3, <3>1, <3>2, <3>3, <3>4, <3>5, <3>6 DEF Step
    <2> QED  BY <2>4, <1>1, <1>2
  <1>4. CASE UNCHANGED vars  BY <1>4, <1>2 DEF vars, state
  <1> QED  BY <1>3, <1>4 DEF Next, Quiet

\* What epoll has registered for a descriptor is waited for in the context it
\* hands back.
LEMMA RegisteredIsWaited ==
  ASSUME IOInv, EpollOwn, NEW fd \in Fds, epoll[fd].reg
  PROVE  /\ epoll[fd].ptr \in Contexts /\ epoll[fd].ptr.fd = fd
         /\ epoll[fd].mask = m_events[epoll[fd].ptr]
  <1> USE DEF IOInv
  <1>1. epoll[fd].ptr \in Contexts
    <2>1. epoll[fd].reg \in BOOLEAN  BY DEF CallInv, Unregistered
    <2>2. epoll[fd] # Unregistered  BY <2>1 DEF Unregistered
    <2> QED  BY <2>2 DEF CallInv
  <1>2. epoll[fd].ptr.fd = fd  BY DEF EpollOwn
  <1> QED  BY <1>1, <1>2 DEF KernelAgrees

\* Where the events of a step come from.
LEMMA EventSources ==
  ASSUME IOInv, EpollOwn, NEW t \in Threads, Step(t)
  PROVE  /\ use' = use
         /\ \A c \in Contexts : \A e \in m_events'[c] :
              \/ e \in m_events[c]
              \/ /\ pc[t] = "locked" /\ op[t] # NoOp /\ c = ctx[t] /\ e = op[t].e
         /\ \A u \in Threads : u # t => events'[u] = events[u]
         /\ \A ev \in events'[t] :
              \/ ev \in events[t]
              \/ /\ pc[t] = "client" /\ UNCHANGED m_events
                 /\ \E fd \in Fds : /\ epoll[fd].reg /\ ev.ptr = epoll[fd].ptr
                                    /\ ev.mask \in Reports(fd)
         /\ \A u \in Threads : u # t => op'[u] = op[u] /\ pc'[u] = pc[u] /\ ctx'[u] = ctx[u]
         /\ \/ op'[t] \in {NoOp, op[t]}
            \/ /\ op'[t].e \in use.events /\ op'[t].kind \in {"add"} \cup use.ops
  <1> USE DEF IOInv
  <1>1. use' = use  BY DEF Step, AddLookup, contextResize, OtherLookup, addEvent,
          delEvent, cancelEvent, cancelAll, EpollWait, HandleEvent, Fail, table
  <1>2. \A u \in Threads : u # t => op'[u] = op[u] /\ pc'[u] = pc[u] /\ ctx'[u] = ctx[u]
    <2> USE DEF Goto, Return, Handled, Fail, calls, TypeOK, CallInv
    <2>1. CASE AddLookup(t)  BY <2>1 DEF AddLookup
    <2>2. CASE contextResize(t)  BY <2>2 DEF contextResize
    <2>3. CASE OtherLookup(t)  BY <2>3 DEF OtherLookup
    <2>4. CASE addEvent(t)  BY <2>4 DEF addEvent
    <2>5. CASE delEvent(t)  BY <2>5 DEF delEvent
    <2>6. CASE cancelEvent(t)  BY <2>6 DEF cancelEvent
    <2>7. CASE cancelAll(t)  BY <2>7 DEF cancelAll
    <2>8. CASE EpollWait(t)  BY <2>8 DEF EpollWait
    <2>9. CASE HandleEvent(t)  BY <2>9 DEF HandleEvent
    <2> QED  BY <2>1, <2>2, <2>3, <2>4, <2>5, <2>6, <2>7, <2>8, <2>9 DEF Step
  <1>3. /\ \A u \in Threads : u # t => events'[u] = events[u]
        /\ \A ev \in events'[t] :
              \/ ev \in events[t]
              \/ /\ pc[t] = "client" /\ UNCHANGED m_events
                 /\ \E fd \in Fds : /\ epoll[fd].reg /\ ev.ptr = epoll[fd].ptr
                                    /\ ev.mask \in Reports(fd)
    <2>1. CASE EpollWait(t)
      <3>1. PICK F \in SUBSET {fd \in Fds : epoll[fd].reg} :
              \E m \in [F -> SUBSET (Events \cup {"ERR"})] :
                /\ \A fd \in F : m[fd] \in Reports(fd)
                /\ events' = [events EXCEPT ![t] =
                      {[ptr |-> epoll[fd].ptr, mask |-> m[fd]] : fd \in F}]
        BY <2>1 DEF EpollWait
      <3>2. PICK m \in [F -> SUBSET (Events \cup {"ERR"})] :
                /\ \A fd \in F : m[fd] \in Reports(fd)
                /\ events' = [events EXCEPT ![t] =
                      {[ptr |-> epoll[fd].ptr, mask |-> m[fd]] : fd \in F}]
        BY <3>1
      <3>3. pc[t] = "client" /\ UNCHANGED m_events  BY <2>1 DEF EpollWait, state
      <3>4. \A u \in Threads : u # t => events'[u] = events[u]  BY <3>2 DEF CallInv
      <3>5. ASSUME NEW ev \in events'[t]
            PROVE  \E fd \in Fds : /\ epoll[fd].reg /\ ev.ptr = epoll[fd].ptr
                                   /\ ev.mask \in Reports(fd)
        <4>1. events'[t] = {[ptr |-> epoll[fd].ptr, mask |-> m[fd]] : fd \in F}
          BY <3>2 DEF CallInv
        <4>2. PICK fd \in F : ev = [ptr |-> epoll[fd].ptr, mask |-> m[fd]]
          BY <4>1, <3>5
        <4>3. fd \in Fds /\ epoll[fd].reg  BY <4>2
        <4>4. ev.ptr = epoll[fd].ptr /\ ev.mask \in Reports(fd)  BY <4>2, <3>2
        <4> QED  BY <4>3, <4>4
      <3> QED  BY <3>3, <3>4, <3>5
    <2>2. CASE HandleEvent(t)
      <3>1. \/ events' = events
            \/ \E ev : events' = [events EXCEPT ![t] = @ \ {ev}]
        BY <2>2 DEF HandleEvent, Handled, Fail
      <3> QED  BY <3>1 DEF CallInv
    <2>3. CASE ~EpollWait(t) /\ ~HandleEvent(t)
      <3>1. events' = events
        BY <2>3 DEF Step, AddLookup, contextResize, OtherLookup, addEvent, delEvent,
             cancelEvent, cancelAll, Fail
      <3> QED  BY <3>1
    <2> QED  BY <2>1, <2>2, <2>3
  <1>4. \A c \in Contexts : \A e \in m_events'[c] :
              \/ e \in m_events[c]
              \/ /\ pc[t] = "locked" /\ op[t] # NoOp /\ c = ctx[t] /\ e = op[t].e
    <2>1. CASE addEvent(t)
      <3>1. \/ m_events' = m_events
            \/ m_events' = [m_events EXCEPT ![ctx[t]] = @ \cup {op[t].e}]
        BY <2>1 DEF addEvent, state
      <3>2. pc[t] = "locked" /\ op[t] # NoOp  BY <2>1 DEF addEvent, CallInv
      <3> QED  BY <3>1, <3>2 DEF TypeOK
    <2>2. CASE ~addEvent(t)
      <3>1. \/ m_events' = m_events
            \/ \E c, evs : m_events' = [m_events EXCEPT ![c] = @ \ evs]
        <4> USE DEF state
        <4>1. CASE AddLookup(t) \/ contextResize(t) \/ OtherLookup(t) \/ EpollWait(t)
          BY <4>1 DEF AddLookup, contextResize, OtherLookup, EpollWait
        <4>2. CASE delEvent(t)  BY <4>2 DEF delEvent
        <4>3. CASE cancelEvent(t)  BY <4>3 DEF cancelEvent, Trigger
        <4>4. CASE cancelAll(t)  BY <4>4 DEF cancelAll, Trigger, Fail
        <4>5. CASE HandleEvent(t)  BY <4>5 DEF HandleEvent, Trigger, Fail
        <4> QED  BY <2>2, <4>1, <4>2, <4>3, <4>4, <4>5 DEF Step
      <3> QED  BY <3>1 DEF TypeOK
    <2> QED  BY <2>1, <2>2
  <1>5. \/ op'[t] \in {NoOp, op[t]}
        \/ /\ op'[t].e \in use.events /\ op'[t].kind \in {"add"} \cup use.ops
    <2> USE DEF CallInv
    <2>1. CASE AddLookup(t)  BY <2>1 DEF AddLookup
    <2>2. CASE OtherLookup(t)  BY <2>2 DEF OtherLookup
    <2>3. CASE contextResize(t) \/ EpollWait(t) \/ HandleEvent(t)
      BY <2>3 DEF contextResize, EpollWait, HandleEvent, Fail, calls
    <2>4. CASE addEvent(t) \/ delEvent(t) \/ cancelEvent(t) \/ cancelAll(t)
      BY <2>4 DEF addEvent, delEvent, cancelEvent, cancelAll, Return, Fail, calls
    <2> QED  BY <2>1, <2>2, <2>3, <2>4 DEF Step
  <1> QED  BY <1>1, <1>2, <1>3, <1>4, <1>5

\* When the asserts fail.
LEMMA FailSources ==
  ASSUME IOInv, NEW t \in Threads, Step(t), failed = "none", failed' # "none"
  PROVE  \/ /\ pc[t] = "locked" /\ op[t].kind = "cancelAll"
            /\ CancelAllTriggers(ctx[t]) # m_events[ctx[t]]
         \/ \E ev \in events[t] : /\ m_events[ev.ptr] \cap RealEvents(ev.ptr, ev.mask) # {}
                                  /\ ~(RealEvents(ev.ptr, ev.mask) \subseteq m_events[ev.ptr])
  <1>1. cancelAll(t) \/ HandleEvent(t)
    BY DEF Step, AddLookup, contextResize, OtherLookup, addEvent, delEvent,
           cancelEvent, EpollWait
  <1>2. CASE cancelAll(t)  BY <1>2 DEF cancelAll
  <1>3. CASE HandleEvent(t)  BY <1>3 DEF HandleEvent
  <1> QED  BY <1>1, <1>2, <1>3

LEMMA ReadOnlyNext ==
  ASSUME IOInv, EpollOwn, ReadOnlyInv, [Next]_vars
  PROVE  ReadOnlyInv'
  <1> USE DEF IOInv
  <1>1. CASE UNCHANGED vars
    BY <1>1 DEF vars, table, state, calls, hist, ReadOnlyInv
  <1>2. ASSUME NEW t \in use.threads, Step(t), failed = "none" PROVE ReadOnlyInv'
    <2>0. t \in Threads  BY UseFacts
    <2>1. use' = use  BY <2>0, <1>2, EventSources
    <2> SUFFICES ASSUME "WRITE" \notin use.events
                 PROVE  /\ failed' = "none"
                        /\ \A u \in Threads : op'[u] # NoOp => op'[u].e = "READ"
                        /\ \A c \in Contexts : m_events'[c] \subseteq {"READ"}
                        /\ \A u \in Threads : \A ev \in events'[u] : "WRITE" \notin ev.mask
      BY <2>1 DEF ReadOnlyInv
    <2>2. /\ \A u \in Threads : op[u] # NoOp => op[u].e = "READ"
          /\ \A c \in Contexts : m_events[c] \subseteq {"READ"}
          /\ \A u \in Threads : \A ev \in events[u] : "WRITE" \notin ev.mask
      BY DEF ReadOnlyInv
    <2>3. failed' = "none"
      <3>1. pc[t] = "locked" => CancelAllTriggers(ctx[t]) = m_events[ctx[t]]
        <4> SUFFICES ASSUME pc[t] = "locked"
                     PROVE  CancelAllTriggers(ctx[t]) = m_events[ctx[t]]
          OBVIOUS
        <4>1. m_events[ctx[t]] \subseteq {"READ"}  BY <2>0, <2>2 DEF CallInv
        <4>2. "READ" \in m_events[ctx[t]] => m_events[ctx[t]] = {"READ"}  BY <4>1
        <4> QED  BY <4>2 DEF CancelAllTriggers
      <3>2. \A ev \in events[t] :
              m_events[ev.ptr] \cap RealEvents(ev.ptr, ev.mask) # {} =>
                RealEvents(ev.ptr, ev.mask) \subseteq m_events[ev.ptr]
        <4> TAKE ev \in events[t]
        <4>1. ev.ptr \in Contexts  BY <2>0 DEF CallInv, Report
        <4>2. RealEvents(ev.ptr, ev.mask) \subseteq {"READ"}
          BY <4>1, <2>0, <2>2 DEF RealEvents
        <4> QED  BY <4>2
      <3> QED  BY <3>1, <3>2, <2>0, <1>2, FailSources
    <2>4. \A u \in Threads : op'[u] # NoOp => op'[u].e = "READ"
      <3>1. use.events \subseteq {"READ"}  BY UseFacts DEF Events
      <3> QED  BY <3>1, <2>0, <2>2, <1>2, EventSources
    <2>5. \A c \in Contexts : m_events'[c] \subseteq {"READ"}
      BY <2>0, <2>2, <1>2, EventSources
    <2>6. \A u \in Threads : \A ev \in events'[u] : "WRITE" \notin ev.mask
      <3>1. \A fd \in Fds : epoll[fd].reg => \A m \in Reports(fd) : "WRITE" \notin m
        <4> SUFFICES ASSUME NEW fd \in Fds, epoll[fd].reg, NEW m \in Reports(fd)
                     PROVE  "WRITE" \notin m
          OBVIOUS
        <4>1. "WRITE" \notin epoll[fd].mask  BY <2>2, RegisteredIsWaited
        <4> QED  BY <4>1 DEF Reports
      <3> QED  BY <3>1, <2>0, <2>2, <1>2, EventSources
    <2> QED  BY <2>3, <2>4, <2>5, <2>6
  <1> QED  BY <1>1, <1>2 DEF Next, Quiet

\* The table of the only thread grows when that thread makes it grow.
LEMMA GrowsPast ==
  ASSUME NEW fd \in Nat, fd > 1
  PROVE  (fd * 3) \div 2 > fd
  OBVIOUS

LEMMA AloneNext ==
  ASSUME IOInv, EpollOwn, AloneInv, Cardinality(use.threads) <= 1,
         NEW t \in use.threads, Step(t), failed = "none"
  PROVE  AloneInv'
  <1> USE DEF IOInv
  <1>0. t \in Threads  BY UseFacts
  <1>1. \A u \in use.threads : u = t
    <2>1. use.threads \in SUBSET Threads  BY UseFacts
    <2>2. IsFiniteSet(use.threads)  BY <2>1, IOAssumption, FS_Subset
    <2>3. Cardinality(use.threads) \in Nat  BY <2>2, FS_CardinalityType
    <2>4. Cardinality(use.threads) # 0  BY <2>2, FS_EmptySet
    <2>5. Cardinality(use.threads) = 1  BY <2>3, <2>4
    <2> QED  BY <2>2, <2>5, FS_Singleton
  <1>2. /\ use' = use
        /\ \A u \in Threads : u # t => events'[u] = events[u]
        /\ \A u \in Threads : u # t => op'[u] = op[u] /\ pc'[u] = pc[u] /\ ctx'[u] = ctx[u]
    BY <1>0, EventSources
  <1>3. \A u \in Threads : u # t => pc[u] = "client" /\ events[u] = {} /\ op[u] = NoOp
    BY <1>1 DEF AloneInv, CallInv
  <1>4. /\ size' > 1
        /\ \A c \in Contexts : size > c.fd => size' > c.fd /\ gen'[c.fd] = gen[c.fd]
        /\ pc'[t] = "resize" => size' <= op'[t].fd
        /\ pc'[t] = "locked" => size' > ctx'[t].fd /\ ctx'[t] = [fd |-> ctx'[t].fd, gen |-> gen'[ctx'[t].fd]]
    <2> USE <1>0
    <2>0. size \in Nat /\ size > 1 /\ \A fd \in Fds : fd \in Nat
      BY IOAssumption DEF AloneInv, TypeOK
    <2>1. CASE contextResize(t)
      <3> DEFINE fd == op[t].fd
                 new == (fd * 3) \div 2
                 fresh == {f \in Fds : f >= size /\ f < new}
      <3>1. /\ pc[t] = "resize" /\ Goto(t, "locked") /\ size' = new
            /\ gen' = [f \in Fds |-> IF f \in fresh THEN gen[f] + 1 ELSE gen[f]]
            /\ ctx' = [ctx EXCEPT ![t] = [fd |-> fd, gen |-> gen'[fd]]]
        BY <2>1 DEF contextResize
      <3>2. fd \in Fds /\ size <= fd  BY <3>1 DEF AloneInv, CallInv, AddOp
      <3>3. fd \in Nat /\ fd > 1  BY <2>0, <3>2
      <3>4. new > fd  BY <3>3, GrowsPast
      <3>5. new \in Int  BY <3>3
      <3>6. pc'[t] = "locked" /\ ctx'[t] = [fd |-> fd, gen |-> gen'[fd]]
        BY <3>1 DEF Goto, TypeOK, CallInv
      <3>7. \A c \in Contexts : size > c.fd => size' > c.fd /\ gen'[c.fd] = gen[c.fd]
        <4> TAKE c \in Contexts
        <4>1. c.fd \in Fds /\ c.fd \in Nat  BY ContextFacts, <2>0
        <4>2. size > c.fd => c.fd \notin fresh /\ new > c.fd
          BY <4>1, <2>0, <3>2, <3>3, <3>4, <3>5
        <4> HIDE DEF fresh, new
        <4> QED  BY <4>1, <4>2, <3>1
      <3>8. size' > 1  BY <3>1, <3>3, <3>4, <3>5
      <3> HIDE DEF fresh, new
      <3> QED  BY <3>1, <3>4, <3>6, <3>7, <3>8
    <2>2. CASE ~contextResize(t)
      <3>1. UNCHANGED <<size, gen>>
        BY <2>2 DEF Step, AddLookup, OtherLookup, addEvent, delEvent, cancelEvent,
             cancelAll, EpollWait, HandleEvent, Fail, table
      <3>2. CASE AddLookup(t) \/ OtherLookup(t)
        <4>1. PICK fd \in use.fds :
                \/ /\ size > fd /\ pc'[t] = "locked" /\ ctx'[t] = Slot(fd)
                \/ /\ ~(size > fd) /\ pc'[t] = "resize" /\ op'[t].fd = fd
          BY <3>2 DEF AddLookup, OtherLookup, Goto, TypeOK, CallInv
        <4>2. fd \in Nat  BY <2>0, UseFacts
        <4> QED  BY <4>1, <4>2, <3>1, <2>0 DEF Slot
      <3>3. CASE addEvent(t) \/ delEvent(t) \/ cancelEvent(t) \/ cancelAll(t)
        <4>1. \/ pc'[t] = "client"
              \/ pc' = pc /\ ctx' = ctx /\ op' = op
          BY <3>3 DEF addEvent, delEvent, cancelEvent, cancelAll, Return, Fail, calls,
               Goto, TypeOK
        <4> QED  BY <4>1, <3>1, <2>0 DEF AloneInv, Slot
      <3>4. CASE EpollWait(t) \/ HandleEvent(t)
        <4>1. pc'[t] \in {"client", "events"}
          BY <3>4 DEF EpollWait, HandleEvent, Handled, Fail, calls, Goto, TypeOK
        <4> QED  BY <4>1, <3>1, <2>0
      <3> QED  BY <2>2, <3>2, <3>3, <3>4 DEF Step
    <2> QED  BY <2>1, <2>2
  <1>5. \A c \in Contexts : m_events'[c] # {} =>
          size' > c.fd /\ [fd |-> c.fd, gen |-> gen'[c.fd]] = c
    <2> SUFFICES ASSUME NEW c \in Contexts, m_events'[c] # {}
                 PROVE  size' > c.fd /\ [fd |-> c.fd, gen |-> gen'[c.fd]] = c
      OBVIOUS
    <2>1. m_events[c] # {} \/ (pc[t] = "locked" /\ c = ctx[t])
      BY <1>0, EventSources
    <2>2. size > c.fd /\ Slot(c.fd) = c  BY <2>1, <1>0 DEF AloneInv
    <2> QED  BY <2>2, <1>4 DEF Slot
  <1>6. "cancelAll" \notin use.ops =>
          \A u \in Threads : op'[u] # NoOp => op'[u].kind # "cancelAll"
    BY <1>0, EventSources DEF AloneInv
  <1>7. /\ pc'[t] # "events" => events'[t] = {}
        /\ \A a, b \in events'[t] : a.ptr = b.ptr => a = b
        /\ ~use.err => \A ev \in events'[t] : ev.mask \subseteq m_events'[ev.ptr]
    <2> USE <1>0
    <2>1. CASE EpollWait(t)
      <3>1. PICK F \in SUBSET {fd \in Fds : epoll[fd].reg} :
              \E m \in [F -> SUBSET (Events \cup {"ERR"})] :
                /\ \A fd \in F : m[fd] \in Reports(fd)
                /\ events' = [events EXCEPT ![t] =
                      {[ptr |-> epoll[fd].ptr, mask |-> m[fd]] : fd \in F}]
        BY <2>1 DEF EpollWait
      <3>2. PICK m \in [F -> SUBSET (Events \cup {"ERR"})] :
                /\ \A fd \in F : m[fd] \in Reports(fd)
                /\ events' = [events EXCEPT ![t] =
                      {[ptr |-> epoll[fd].ptr, mask |-> m[fd]] : fd \in F}]
        BY <3>1
      <3>3. events'[t] = {[ptr |-> epoll[fd].ptr, mask |-> m[fd]] : fd \in F}
        BY <3>2 DEF CallInv
      <3>4. \A fd \in F : /\ epoll[fd].ptr.fd = fd
                          /\ epoll[fd].mask = m_events[epoll[fd].ptr]
        <4> TAKE fd \in F
        <4>1. fd \in Fds /\ epoll[fd].reg  OBVIOUS
        <4> QED  BY <4>1, RegisteredIsWaited
      <3>5. pc'[t] = "events" /\ m_events' = m_events
        BY <2>1 DEF EpollWait, Goto, TypeOK, state
      <3>6. \A a, b \in events'[t] : a.ptr = b.ptr => a = b
        <4> SUFFICES ASSUME NEW f \in F, NEW g \in F, epoll[f].ptr = epoll[g].ptr
                     PROVE  f = g
          BY <3>3
        <4> QED  BY <3>4
      <3>7. ~use.err => \A ev \in events'[t] : ev.mask \subseteq m_events'[ev.ptr]
        <4> SUFFICES ASSUME ~use.err, NEW f \in F
                     PROVE  m[f] \subseteq m_events[epoll[f].ptr]
          BY <3>3, <3>5
        <4>1. m[f] \in Reports(f)  BY <3>2
        <4>2. m[f] \subseteq epoll[f].mask  BY <4>1 DEF Reports
        <4> QED  BY <4>2, <3>4
      <3> QED  BY <3>5, <3>6, <3>7
    <2>2. CASE HandleEvent(t)
      <3>1. PICK ev \in events[t] :
          \/ Handled(t, ev) /\ m_events' = m_events
          \/ Fail("triggerEvent")
          \/ /\ m_events' = [m_events EXCEPT ![ev.ptr] = @ \ RealEvents(ev.ptr, ev.mask)]
             /\ Handled(t, ev)
        BY <2>2 DEF HandleEvent, state, Trigger
      <3>2. CASE Fail("triggerEvent")
        BY <3>2 DEF Fail, calls, state, AloneInv
      <3>3. CASE ~Fail("triggerEvent")
        <4>1. events'[t] = events[t] \ {ev}  BY <3>1, <3>3 DEF Handled, CallInv
        <4>2. pc'[t] # "events" => events'[t] = {}
          BY <3>1, <3>3, <4>1 DEF Handled, Goto, TypeOK
        <4>3. \A a \in events'[t] : a \in events[t] /\ a.ptr # ev.ptr /\ a.ptr \in Contexts
          BY <4>1 DEF AloneInv, CallInv, Report
        <4>4. \A a \in events'[t] : m_events'[a.ptr] = m_events[a.ptr]
          BY <4>3, <3>1, <3>3 DEF TypeOK
        <4> QED  BY <4>1, <4>2, <4>3, <4>4 DEF AloneInv
      <3> QED  BY <3>2, <3>3
    <2>3. CASE ~EpollWait(t) /\ ~HandleEvent(t)
      <3>1. events' = events /\ pc[t] # "events" /\ pc[t] \in {"client", "resize", "locked"}
        BY <2>3 DEF Step, AddLookup, contextResize, OtherLookup, addEvent, delEvent,
             cancelEvent, cancelAll, Fail
      <3>2. events'[t] = {}  BY <3>1 DEF AloneInv
      <3> QED  BY <3>2
    <2> QED  BY <2>1, <2>2, <2>3
  <1>8. ~use.err /\ "cancelAll" \notin use.ops => failed' = "none"
    <2> SUFFICES ASSUME ~use.err, "cancelAll" \notin use.ops, failed' # "none"
                 PROVE  FALSE
      OBVIOUS
    <2>1. ~(pc[t] = "locked" /\ op[t].kind = "cancelAll")
      BY <1>0 DEF AloneInv, CallInv
    <2>2. \A ev \in events[t] : RealEvents(ev.ptr, ev.mask) \subseteq m_events[ev.ptr]
      <3> TAKE ev \in events[t]
      <3>1. ev.mask \subseteq m_events[ev.ptr]  BY <1>0 DEF AloneInv
      <3>2. m_events[ev.ptr] \subseteq Events  BY <1>0 DEF CallInv, Report, TypeOK
      <3> QED  BY <3>1, <3>2 DEF RealEvents, Events
    <2> QED  BY <2>1, <2>2, <1>0, FailSources
  <1>9. \A u \in Threads :
          /\ pc'[u] # "events" => events'[u] = {}
          /\ pc'[u] = "resize" => size' <= op'[u].fd
          /\ pc'[u] = "locked" => size' > ctx'[u].fd
                                  /\ [fd |-> ctx'[u].fd, gen |-> gen'[ctx'[u].fd]] = ctx'[u]
          /\ \A a, b \in events'[u] : a.ptr = b.ptr => a = b
          /\ ~use.err => \A ev \in events'[u] : ev.mask \subseteq m_events'[ev.ptr]
    <2> TAKE u \in Threads
    <2>1. CASE u = t  BY <2>1, <1>4, <1>7
    <2>2. CASE u # t  BY <2>2, <1>2, <1>3
    <2> QED  BY <2>1, <2>2
  <1>10. \A u \in Threads \ use'.threads : pc'[u] = "client" /\ events'[u] = {}
    BY <1>2, <1>3
  <1> QED  BY <1>2, <1>4, <1>5, <1>6, <1>8, <1>9, <1>10 DEF AloneInv, Slot

LEMMA AssertInvs ==
  Spec => [](IOInv /\ EpollOwn /\ ReadOnlyInv /\ OneThreadInv)
  <1> DEFINE Inv == IOInv /\ EpollOwn /\ ReadOnlyInv /\ OneThreadInv
  <1>1. Init => Inv
    <2> SUFFICES ASSUME Init PROVE Inv  OBVIOUS
    <2>1. IOInv  BY IOInit
    <2>2. EpollOwn  BY DEF Init, EpollOwn, Unregistered
    <2>3. ReadOnlyInv  BY DEF Init, ReadOnlyInv
    <2>4. AloneInv  BY IOAssumption DEF Init, AloneInv
    <2> QED  BY <2>1, <2>2, <2>3, <2>4 DEF OneThreadInv
  <1>2. Inv /\ [Next]_vars => Inv'
    <2> SUFFICES ASSUME Inv, [Next]_vars PROVE Inv'  OBVIOUS
    <2>1. IOInv' /\ EpollOwn' /\ ReadOnlyInv'
      BY IONext, EpollOwnNext, ReadOnlyNext
    <2>2. OneThreadInv'
      <3>1. CASE UNCHANGED vars
        BY <3>1 DEF vars, table, state, calls, hist, OneThreadInv, AloneInv, Slot
      <3>2. ASSUME NEW t \in use.threads, Step(t), failed = "none" PROVE OneThreadInv'
        <4>1. t \in Threads  BY UseFacts DEF IOInv
        <4>2. use' = use  BY <4>1, <3>2, EventSources
        <4> QED  BY <4>2, <3>2, AloneNext DEF OneThreadInv
      <3> QED  BY <3>1, <3>2 DEF Next, Quiet
    <2> QED  BY <2>1, <2>2
  <1> QED  BY <1>1, <1>2, PTL DEF Spec

\* No program of READ waiters alone, and no single thread that meets no error
\* and does not call cancelAll, runs into an assert.
THEOREM IONoAssertFails == Spec => []NoAssertFails
  <1>1. IOInv /\ ReadOnlyInv /\ OneThreadInv => NoAssertFails
    <2> SUFFICES ASSUME IOInv, ReadOnlyInv, OneThreadInv, failed # "none"
                 PROVE  /\ "WRITE" \in use.events
                        /\ Cardinality(use.threads) > 1 \/ use.err \/ "cancelAll" \in use.ops
      BY DEF NoAssertFails
    <2>1. "WRITE" \in use.events  BY DEF ReadOnlyInv
    <2>2. use.threads \in SUBSET Threads  BY UseFacts DEF IOInv
    <2>3. IsFiniteSet(use.threads)  BY <2>2, IOAssumption, FS_Subset
    <2>4. Cardinality(use.threads) \in Nat  BY <2>3, FS_CardinalityType
    <2> QED  BY <2>1, <2>4 DEF OneThreadInv, AloneInv
  <1> QED  BY <1>1, AssertInvs, PTL

\* While one thread runs the manager, cancelEvent finds the context of every
\* waiter.
THEOREM IOCancelReaches == Spec => []CancelReaches
  <1>1. OneThreadInv => CancelReaches  BY DEF OneThreadInv, AloneInv, CancelReaches
  <1> QED  BY <1>1, AssertInvs, PTL

=============================================================================
