--------------------------- MODULE SchedulerProofs ---------------------------
(***************************************************************************)
(* Proofs about Scheduler, for any number of workers and tasks.            *)
(***************************************************************************)
EXTENDS Scheduler, FiniteSetTheorems, SequenceTheorems, TLAPS

\* The threads are finitely many.
LEMMA ThreadsFinite == IsFiniteSet(AllThreads)
  BY ThreadAssumption, FS_AddElement DEF AllThreads

\* Erasing an entry of a list leaves a list of the same kind.
LEMMA RemoveAtType ==
  ASSUME NEW S, NEW s \in Seq(S), NEW i \in 1..Len(s)
  PROVE  RemoveAt(s, i) \in Seq(S)
  <1>1. SubSeq(s, 1, i - 1) \in Seq(S)
    <2>1. \A k \in 1..(i - 1) : s[k] \in S  BY ElementOfSeq
    <2> QED  BY <2>1, SubSeqProperties
  <1>2. SubSeq(s, i + 1, Len(s)) \in Seq(S)
    <2>1. \A k \in (i + 1)..Len(s) : s[k] \in S  BY ElementOfSeq
    <2> QED  BY <2>1, SubSeqProperties
  <1> QED  BY <1>1, <1>2, ConcatProperties DEF RemoveAt

\* What the client and run() hand to schedule() is a proper entry.
LEMMA EntryOfType ==
  ASSUME NEW c \in Tasks, NEW thr \in AllThreads \cup {NoThread}
  PROVE  /\ EntryOf(c, thr) \in FiberAndThread
         /\ [kind |-> "fiber", task |-> c, thr |-> thr] \in FiberAndThread
  BY DEF EntryOf, FiberAndThread

\* schedule() of a proper entry appends it to the list.
LEMMA ScheduleType ==
  ASSUME NEW q \in Seq(FiberAndThread), NEW e \in FiberAndThread
  PROVE  /\ scheduleNoLock(q, e) \in Seq(FiberAndThread)
         /\ scheduleNoLock(q, e) = Append(q, e)
  <1>1. e.kind # "none"  BY DEF FiberAndThread
  <1> QED  BY <1>1, AppendProperties DEF scheduleNoLock

\* An entry that a thread took from the list names a task.
LEMMA EntryInHand ==
  ASSUME TypeOK, NEW t \in AllThreads, ft[t].kind # "none"
  PROVE  ft[t] \in FiberAndThread /\ ft[t].task \in Tasks
  BY DEF TypeOK, FiberAndThread, NoEntry

-----------------------------------------------------------------------------
(* Facts about the counters that follow from the invariant.                *)

\* A thread that is due a decrement finds its counter above zero.
LEMMA CountersPositive ==
  ASSUME IndInv, NEW t \in AllThreads
  PROVE  /\ is_active[t] => m_activethreadcount > 0
         /\ pc[t] = "idleback" => m_idlethreadcount > 0
  <1>1. ASSUME is_active[t]  PROVE m_activethreadcount > 0
    <2>1. ActiveSet # {} /\ ActiveSet \subseteq AllThreads
      BY <1>1 DEF ActiveSet
    <2>2. IsFiniteSet(ActiveSet) /\ Cardinality(ActiveSet) \in Nat
      BY <2>1, ThreadsFinite, FS_Subset, FS_CardinalityType
    <2>3. Cardinality(ActiveSet) # 0  BY <2>1, <2>2, FS_EmptySet
    <2> QED  BY <2>2, <2>3 DEF IndInv, CountInv
  <1>2. ASSUME pc[t] = "idleback"  PROVE m_idlethreadcount > 0
    <2>1. IdleSet # {} /\ IdleSet \subseteq AllThreads  BY <1>2 DEF IdleSet
    <2>2. IsFiniteSet(IdleSet) /\ Cardinality(IdleSet) \in Nat
      BY <2>1, ThreadsFinite, FS_Subset, FS_CardinalityType
    <2>3. Cardinality(IdleSet) # 0  BY <2>1, <2>2, FS_EmptySet
    <2> QED  BY <2>2, <2>3 DEF IndInv, TypeOK, CountInv
  <1> QED  BY <1>1, <1>2

\* Every step keeps the types.
LEMMA TypeStep ==
  ASSUME IndInv, [Next]_vars
  PROVE  TypeOK'
  <1> USE DEF IndInv, TypeOK, State, Labels, Goto, sched, fibers, locals, client
  <1> USE ThreadAssumption, TaskAssumption
  <1>0. Root \in AllThreads  BY DEF AllThreads
  <1>S. /\ setup.threads \subseteq Workers /\ setup.yields \in 0..MaxYields
        /\ setup.tasks \subseteq Tasks
    BY SetupAssumption DEF Setup
  <1>1. CASE start  BY <1>1, <1>0 DEF start
  <1>2. CASE StopBegin  BY <1>2, <1>0 DEF StopBegin
  <1>3. CASE StopRootOnly  BY <1>3, <1>0 DEF StopRootOnly
  <1>4. CASE StopAll  BY <1>4, <1>0 DEF StopAll
  <1>5. CASE StopCall  BY <1>5, <1>0 DEF StopCall
  <1>6. CASE Join  BY <1>6, <1>0 DEF Join
  <1>7. CASE Returned  BY <1>7, <1>0 DEF Returned, vars
  <1>8. ASSUME NEW t \in AllThreads, run(t) \/ body(t)
        PROVE  TypeOK'
    <2>1. CASE Submit(t)
      <3>1. PICK c \in Tasks, thr \in AllThreads \cup {NoThread} :
              /\ m_fibers' = scheduleNoLock(m_fibers, EntryOf(c, thr))
              /\ submitted' = submitted \cup {c}
              /\ pin' = [pin EXCEPT ![c] = thr]
        BY <2>1, <1>S DEF Submit, schedule, Runners, AllThreads
      <3>2. m_fibers' \in Seq(FiberAndThread)
        BY <3>1, EntryOfType, ScheduleType
      <3> QED  BY <2>1, <3>1, <3>2 DEF Submit
    <2>2. CASE SubmitBatch(t)
      <3>1. PICK c \in Tasks, d \in Tasks :
              /\ m_fibers' = scheduleNoLock(scheduleNoLock(m_fibers,
                                EntryOf(c, NoThread)), EntryOf(d, NoThread))
              /\ submitted' = submitted \cup {c, d}
        BY <2>2, <1>S DEF SubmitBatch
      <3>2. m_fibers' \in Seq(FiberAndThread)
        BY <3>1, EntryOfType, ScheduleType
      <3> QED  BY <2>2, <3>1, <3>2 DEF SubmitBatch
    <2>3. CASE SubmitDead(t)
      <3>1. m_fibers' \in Seq(FiberAndThread)
        <4>1. PICK f \in UserFibers :
                m_fibers' = scheduleNoLock(m_fibers, EntryOf(f, NoThread))
          BY <2>3 DEF SubmitDead, schedule
        <4>2. f \in Tasks  BY DEF Tasks
        <4> QED  BY <4>1, <4>2, EntryOfType, ScheduleType
      <3> QED  BY <2>3, <3>1 DEF SubmitDead
    <2>4. CASE Wake(t)
      <3>1. PICK f \in Tasks, thr \in AllThreads \cup {NoThread} :
              /\ m_fibers' = scheduleNoLock(m_fibers,
                    [kind |-> "fiber", task |-> f, thr |-> thr])
              /\ parkedOn' = [parkedOn EXCEPT ![f] = NoThread]
        <4>1. PICK f \in Tasks :
                /\ m_fibers' = scheduleNoLock(m_fibers,
                      [kind |-> "fiber", task |-> f,
                       thr |-> IF setup.wake = "own" THEN parkedOn[f] ELSE NoThread])
                /\ parkedOn' = [parkedOn EXCEPT ![f] = NoThread]
          BY <2>4 DEF Wake, schedule
        <4>2. (IF setup.wake = "own" THEN parkedOn[f] ELSE NoThread)
                \in AllThreads \cup {NoThread}
          OBVIOUS
        <4> QED  BY <4>1, <4>2
      <3>2. m_fibers' \in Seq(FiberAndThread)
        BY <3>1, EntryOfType, ScheduleType
      <3> QED  BY <2>4, <3>1, <3>2 DEF Wake
    <2>5. CASE ScanTakes(t)
      <3>1. PICK i \in 1..Len(m_fibers) :
              /\ ft' = [ft EXCEPT ![t] = m_fibers[i]]
              /\ m_fibers' = RemoveAt(m_fibers, i)
        BY <2>5 DEF ScanTakes
      <3>2. m_fibers' \in Seq(FiberAndThread) /\ m_fibers[i] \in FiberAndThread
        BY <3>1, RemoveAtType, ElementOfSeq
      <3> QED  BY <2>5, <3>1, <3>2 DEF ScanTakes
    <2>6. CASE ScanFindsNone(t)  BY <2>6 DEF ScanFindsNone, LocalInv, Holding, OnStack
    <2>7. CASE RunFiber(t)
      <3>1. ft[t].task \in Tasks  BY <2>7, EntryInHand DEF RunFiber
      <3> QED  BY <2>7, <3>1 DEF RunFiber
    <2>8. CASE RunCb(t)
      <3>1. ft[t].task \in Tasks  BY <2>8, EntryInHand DEF RunCb
      <3>2. PICK f \in Tasks :
              /\ m_state' = [m_state EXCEPT ![f] = "INIT"]
              /\ m_cb' = [m_cb EXCEPT ![f] = ft[t].task]
              /\ cb_fiber' = [cb_fiber EXCEPT ![t] = f]
              /\ cur' = [cur EXCEPT ![t] = f]
        BY <2>8, <3>1 DEF RunCb
      <3> QED  BY <2>8, <3>1, <3>2 DEF RunCb
    <2>9. CASE SkipDead(t)  BY <2>9, CountersPositive DEF SkipDead, LocalInv, Holding, OnStack
    <2>10. CASE GoIdle(t)
      <3>1. pc' \in [AllThreads -> Labels]
        <4>1. PICK l \in {"join", "exit", "idle"} : pc' = [pc EXCEPT ![t] = l]
          BY <2>10 DEF GoIdle
        <4> QED  BY <4>1
      <3>2. /\ m_idlethreadcount' \in Nat
            /\ idle_fiber' \in [AllThreads -> State]
        <4>1. CASE idle_fiber[t] = "TERM"  BY <2>10, <4>1 DEF GoIdle
        <4>2. CASE idle_fiber[t] # "TERM"
          <5>1. m_idlethreadcount' = m_idlethreadcount + 1
            BY <2>10, <4>2 DEF GoIdle
          <5>2. idle_fiber' = [idle_fiber EXCEPT ![t] = "EXEC"]
            BY <2>10, <4>2 DEF GoIdle
          <5> QED  BY <5>1, <5>2
        <4> QED  BY <4>1, <4>2
      <3> QED  BY <2>10, <3>1, <3>2 DEF GoIdle
    <2>11. CASE idle(t)
      <3>1. pc' \in [AllThreads -> Labels]
        <4>1. PICK l \in {"join", "idleback"} : pc' = [pc EXCEPT ![t] = l]
          BY <2>11 DEF idle, BackTo
        <4> QED  BY <4>1
      <3>2. idle_fiber' \in [AllThreads -> State]  BY <2>11 DEF idle
      <3> QED  BY <2>11, <3>1, <3>2 DEF idle
    <2>12. CASE IdleBack(t)  BY <2>12, CountersPositive DEF IdleBack, LocalInv, Holding, OnStack
    <2>13. CASE swapIn(t)  BY <2>13 DEF swapIn, LocalInv, Holding, OnStack
    <2>14. CASE YieldToReady(t)  BY <2>14, <1>S DEF YieldToReady, MayYield, LocalInv, Holding, OnStack
    <2>15. CASE Park(t)  BY <2>15, <1>S DEF Park, MayYield, LocalInv, Holding, OnStack
    <2>16. CASE YieldToHold(t)  BY <2>16 DEF YieldToHold, LocalInv, Holding, OnStack
    <2>17. CASE back(t)  BY <2>17 DEF back, BackTo, LocalInv, Holding, OnStack
    <2>18. CASE MainFunc(t)
      <3>1. cur[t] \in Tasks  BY <2>18 DEF MainFunc, LocalInv, Holding
      <3>2. m_state' \in [Tasks -> State] /\ m_cb' \in [Tasks -> Tasks \cup {NoTask}]
        <4>1. PICK s \in Dead : m_state' = [m_state EXCEPT ![cur[t]] = s]
          BY <2>18 DEF MainFunc, Dead
        <4>2. \/ m_cb' = [m_cb EXCEPT ![cur[t]] = NoTask]
              \/ m_cb' = m_cb
          BY <2>18 DEF MainFunc
        <4>3. m_state' \in [Tasks -> State]  BY <4>1 DEF Dead
        <4>4. m_cb' \in [Tasks -> Tasks \cup {NoTask}]  BY <4>2
        <4> QED  BY <4>3, <4>4
      <3>3. ended' \subseteq Tasks \cup {NoTask}
        BY <2>18, <3>1 DEF MainFunc
      <3> QED  BY <2>18, <3>2, <3>3 DEF MainFunc
    <2>19. CASE swapOut(t)  BY <2>19 DEF swapOut, LocalInv, Holding, OnStack
    <2>20. CASE AfterSwap(t)  BY <2>20, CountersPositive DEF AfterSwap, LocalInv, Holding, OnStack
    <2>21. CASE PostReady(t)
      <3>1. cur[t] \in Tasks  BY <2>21 DEF PostReady, LocalInv, Holding
      <3>2. m_fibers' \in Seq(FiberAndThread)
        BY <2>21, <3>1, EntryOfType, ScheduleType DEF PostReady, schedule
      <3> QED  BY <2>21, <3>2 DEF PostReady, Release
    <2>22. CASE PostDead(t)  BY <2>22 DEF PostDead, LocalInv, Holding, OnStack
    <2>23. CASE PostOther(t)  BY <2>23 DEF PostOther, LocalInv, Holding, OnStack
    <2>24. CASE SetHold(t)  BY <2>24 DEF SetHold, Release, LocalInv, Holding, OnStack
    <2> QED  BY <1>8, <2>1, <2>2, <2>3, <2>4, <2>5, <2>6, <2>7, <2>8, <2>9, <2>10, <2>11, <2>12, <2>13, <2>14, <2>15, <2>16, <2>17, <2>18, <2>19, <2>20, <2>21, <2>22, <2>23, <2>24 DEF run, body
  <1>9. CASE UNCHANGED vars  BY <1>9 DEF vars
  <1> QED  BY <1>1, <1>2, <1>3, <1>4, <1>5, <1>6, <1>7, <1>8, <1>9 DEF Next, stop

\* Every step keeps what a thread's position says of its locals.
LEMMA LocalStep ==
  ASSUME IndInv, [Next]_vars
  PROVE  LocalInv'
  <1> USE DEF IndInv, LocalInv, TypeOK, Holding, OnStack, Goto,
              sched, fibers, locals, client
  <1>0. Root \in AllThreads  BY DEF AllThreads
  <1>1. CASE start  BY <1>1, <1>0 DEF start
  <1>2. CASE StopBegin  BY <1>2, <1>0 DEF StopBegin
  <1>3. CASE StopRootOnly  BY <1>3, <1>0 DEF StopRootOnly
  <1>4. CASE StopAll  BY <1>4, <1>0 DEF StopAll
  <1>5. CASE StopCall  BY <1>5, <1>0 DEF StopCall
  <1>6. CASE Join  BY <1>6, <1>0 DEF Join
  <1>7. CASE Returned  BY <1>7, <1>0 DEF Returned, vars
  <1>8. ASSUME NEW t \in AllThreads, run(t) \/ body(t)
        PROVE  LocalInv'
    <2>1. CASE Submit(t)  BY <2>1 DEF Submit
    <2>2. CASE SubmitBatch(t)  BY <2>2 DEF SubmitBatch
    <2>3. CASE SubmitDead(t)  BY <2>3 DEF SubmitDead
    <2>4. CASE Wake(t)  BY <2>4 DEF Wake
    <2>5. CASE ScanTakes(t)
      <3>1. PICK i \in 1..Len(m_fibers) : ft' = [ft EXCEPT ![t] = m_fibers[i]]
        BY <2>5 DEF ScanTakes
      <3>2. m_fibers[i] \in FiberAndThread  BY <3>1, ElementOfSeq
      <3>3. ft'[t].kind # "none"  BY <3>1, <3>2 DEF FiberAndThread
      <3> QED  BY <2>5, <3>1, <3>3 DEF ScanTakes
    <2>6. CASE ScanFindsNone(t)  BY <2>6 DEF ScanFindsNone, NoEntry
    <2>7. CASE RunFiber(t)
      <3>1. ft[t].task \in Tasks  BY <2>7, EntryInHand DEF RunFiber
      <3> QED  BY <2>7, <3>1 DEF RunFiber
    <2>8. CASE RunCb(t)
      <3>1. ft[t].task \in Tasks  BY <2>8, EntryInHand DEF RunCb
      <3>2. PICK f \in Tasks : cur' = [cur EXCEPT ![t] = f]
        BY <2>8, <3>1 DEF RunCb
      <3> QED  BY <2>8, <3>2 DEF RunCb
    <2>9. CASE SkipDead(t)  BY <2>9 DEF SkipDead
    <2>10. CASE GoIdle(t)
      <3>1. PICK l \in {"join", "exit", "idle"} : pc' = [pc EXCEPT ![t] = l]
        BY <2>10 DEF GoIdle
      <3>2. ~is_active[t] /\ UNCHANGED <<is_active, cur, ft>>  BY <2>10 DEF GoIdle
      <3> QED  BY <2>10, <3>1, <3>2 DEF GoIdle
    <2>11. CASE idle(t)
      <3>1. PICK l \in {"join", "idleback"} : pc' = [pc EXCEPT ![t] = l]
        BY <2>11 DEF idle, BackTo
      <3>2. ~is_active[t] /\ UNCHANGED <<is_active, cur, ft>>  BY <2>11 DEF idle
      <3> QED  BY <2>11, <3>1, <3>2 DEF idle
    <2>12. CASE IdleBack(t)  BY <2>12 DEF IdleBack
    <2>13. CASE swapIn(t)  BY <2>13 DEF swapIn
    <2>14. CASE YieldToReady(t)  BY <2>14 DEF YieldToReady, MayYield
    <2>15. CASE Park(t)  BY <2>15 DEF Park, MayYield
    <2>16. CASE YieldToHold(t)  BY <2>16 DEF YieldToHold
    <2>17. CASE back(t)  BY <2>17 DEF back, BackTo
    <2>18. CASE MainFunc(t)  BY <2>18 DEF MainFunc
    <2>19. CASE swapOut(t)  BY <2>19 DEF swapOut
    <2>20. CASE AfterSwap(t)  BY <2>20 DEF AfterSwap
    <2>21. CASE PostReady(t)  BY <2>21 DEF PostReady, Release
    <2>22. CASE PostDead(t)  BY <2>22 DEF PostDead
    <2>23. CASE PostOther(t)  BY <2>23 DEF PostOther
    <2>24. CASE SetHold(t)  BY <2>24 DEF SetHold, Release
    <2> QED  BY <1>8, <2>1, <2>2, <2>3, <2>4, <2>5, <2>6, <2>7, <2>8, <2>9, <2>10, <2>11, <2>12, <2>13, <2>14, <2>15, <2>16, <2>17, <2>18, <2>19, <2>20, <2>21, <2>22, <2>23, <2>24 DEF run, body
  <1>9. CASE UNCHANGED vars  BY <1>9 DEF vars
  <1> QED  BY <1>1, <1>2, <1>3, <1>4, <1>5, <1>6, <1>7, <1>8, <1>9 DEF Next, stop

\* Every step keeps the counters equal to what they count.
LEMMA CountStep ==
  ASSUME IndInv, [Next]_vars
  PROVE  CountInv'
  <1> USE DEF IndInv, TypeOK, CountInv, ActiveSet, IdleSet, Goto,
              sched, fibers, locals, client
  <1>0. Root \in AllThreads  BY DEF AllThreads
  <1>A. /\ Cardinality(IdleSet) \in Nat /\ IsFiniteSet(IdleSet)
        /\ Cardinality(ActiveSet) \in Nat /\ IsFiniteSet(ActiveSet)
        /\ m_activethreadcount \in Nat /\ m_idlethreadcount \in Nat
    BY ThreadsFinite, FS_Subset, FS_CardinalityType
  <1>1. CASE start  BY <1>1, <1>0 DEF start, LocalInv
  <1>2. CASE StopBegin  BY <1>2, <1>0 DEF StopBegin
  <1>3. CASE StopRootOnly  BY <1>3, <1>0 DEF StopRootOnly
  <1>4. CASE StopAll  BY <1>4, <1>0 DEF StopAll
  <1>5. CASE StopCall  BY <1>5, <1>0 DEF StopCall
  <1>6. CASE Join  BY <1>6, <1>0 DEF Join
  <1>7. CASE Returned  BY <1>7, <1>0 DEF Returned, vars
  <1>8. ASSUME NEW t \in AllThreads, run(t) \/ body(t)
        PROVE  CountInv'
    <2>1. CASE Submit(t)  BY <2>1 DEF Submit
    <2>2. CASE SubmitBatch(t)  BY <2>2 DEF SubmitBatch
    <2>3. CASE SubmitDead(t)  BY <2>3 DEF SubmitDead
    <2>4. CASE Wake(t)  BY <2>4 DEF Wake
    <2>5. CASE ScanTakes(t)
      <3>1. ~is_active[t]  BY <2>5 DEF ScanTakes, LocalInv
      <3>2. ActiveSet' = ActiveSet \cup {t} /\ t \notin ActiveSet
        BY <2>5, <3>1 DEF ScanTakes
      <3>3. m_activethreadcount' = m_activethreadcount + 1
            /\ UNCHANGED m_idlethreadcount
        BY <2>5 DEF ScanTakes
      <3>4. IdleSet' = IdleSet  BY <2>5 DEF ScanTakes
      <3> HIDE DEF IdleSet, ActiveSet
      <3>5. Cardinality(ActiveSet') = Cardinality(ActiveSet) + 1
        BY <3>2, <1>A, FS_AddElement
      <3> QED  BY <1>A, <3>3, <3>4, <3>5
    <2>6. CASE ScanFindsNone(t)  BY <2>6 DEF ScanFindsNone
    <2>7. CASE RunFiber(t)  BY <2>7 DEF RunFiber
    <2>8. CASE RunCb(t)  BY <2>8 DEF RunCb
    <2>9. CASE SkipDead(t)
      <3>1. is_active[t]  BY <2>9 DEF SkipDead, LocalInv
      <3>2. ActiveSet' = ActiveSet \ {t} /\ t \in ActiveSet
        BY <2>9, <3>1 DEF SkipDead
      <3>3. m_activethreadcount' = m_activethreadcount - 1
            /\ UNCHANGED m_idlethreadcount
        BY <2>9 DEF SkipDead
      <3>4. IdleSet' = IdleSet  BY <2>9 DEF SkipDead
      <3> HIDE DEF IdleSet, ActiveSet
      <3>5. Cardinality(ActiveSet') = Cardinality(ActiveSet) - 1
        BY <3>2, <1>A, FS_RemoveElement
      <3> QED  BY <1>A, <3>3, <3>4, <3>5
    <2>10. CASE GoIdle(t)
      <3>1. m_activethreadcount' = Cardinality(ActiveSet')  BY <2>10 DEF GoIdle
      <3>2. CASE idle_fiber[t] = "TERM"
        <4>1. PICK l \in {"join", "exit"} : pc' = [pc EXCEPT ![t] = l]
          BY <2>10, <3>2 DEF GoIdle
        <4>2. IdleSet' = IdleSet  BY <2>10, <4>1 DEF GoIdle
        <4> QED  BY <2>10, <3>1, <3>2, <4>2 DEF GoIdle
      <3>3. CASE idle_fiber[t] # "TERM"
        <4>1. IdleSet' = IdleSet \cup {t}  BY <2>10, <3>3 DEF GoIdle
        <4>2. m_idlethreadcount' = m_idlethreadcount + 1
          BY <2>10, <3>3 DEF GoIdle
        <4> HIDE DEF IdleSet, ActiveSet
        <4>3. Cardinality(IdleSet') \in {Cardinality(IdleSet), Cardinality(IdleSet) + 1}
          BY <4>1, <1>A, FS_AddElement
        <4> QED  BY <1>A, <3>1, <4>2, <4>3
      <3> QED  BY <3>2, <3>3
    <2>11. CASE idle(t)
      <3>1. PICK l \in {"join", "idleback"} : pc' = [pc EXCEPT ![t] = l]
        BY <2>11 DEF idle, BackTo
      <3>2. IdleSet' \in SUBSET IdleSet  BY <2>11, <3>1 DEF idle
      <3>3. Cardinality(IdleSet') <= Cardinality(IdleSet)
            /\ Cardinality(IdleSet') \in Nat
        BY <3>2, <1>A, FS_Subset, FS_CardinalityType
      <3>4. UNCHANGED <<m_activethreadcount, m_idlethreadcount, is_active>>
        BY <2>11 DEF idle
      <3>5. ActiveSet' = ActiveSet  BY <3>4
      <3> HIDE DEF IdleSet, ActiveSet
      <3> QED  BY <1>A, <3>3, <3>4, <3>5
    <2>12. CASE IdleBack(t)
      <3>1. IdleSet' = IdleSet \ {t} /\ t \in IdleSet  BY <2>12 DEF IdleBack
      <3>2. m_idlethreadcount' = m_idlethreadcount - 1
            /\ UNCHANGED <<m_activethreadcount, is_active>>
        BY <2>12 DEF IdleBack
      <3>3. ActiveSet' = ActiveSet  BY <3>2
      <3> HIDE DEF IdleSet, ActiveSet
      <3>4. Cardinality(IdleSet') = Cardinality(IdleSet) - 1
        BY <3>1, <1>A, FS_RemoveElement
      <3> QED  BY <1>A, <3>2, <3>3, <3>4
    <2>13. CASE swapIn(t)  BY <2>13 DEF swapIn
    <2>14. CASE YieldToReady(t)  BY <2>14 DEF YieldToReady, MayYield
    <2>15. CASE Park(t)  BY <2>15 DEF Park, MayYield
    <2>16. CASE YieldToHold(t)  BY <2>16 DEF YieldToHold
    <2>17. CASE back(t)  BY <2>17 DEF back, BackTo
    <2>18. CASE MainFunc(t)  BY <2>18 DEF MainFunc
    <2>19. CASE swapOut(t)  BY <2>19 DEF swapOut
    <2>20. CASE AfterSwap(t)
      <3>1. is_active[t]  BY <2>20 DEF AfterSwap, LocalInv
      <3>2. ActiveSet' = ActiveSet \ {t} /\ t \in ActiveSet
        BY <2>20, <3>1 DEF AfterSwap
      <3>3. m_activethreadcount' = m_activethreadcount - 1
            /\ UNCHANGED m_idlethreadcount
        BY <2>20 DEF AfterSwap
      <3>4. IdleSet' = IdleSet  BY <2>20 DEF AfterSwap
      <3> HIDE DEF IdleSet, ActiveSet
      <3>5. Cardinality(ActiveSet') = Cardinality(ActiveSet) - 1
        BY <3>2, <1>A, FS_RemoveElement
      <3> QED  BY <1>A, <3>3, <3>4, <3>5
    <2>21. CASE PostReady(t)  BY <2>21 DEF PostReady, Release
    <2>22. CASE PostDead(t)  BY <2>22 DEF PostDead
    <2>23. CASE PostOther(t)  BY <2>23 DEF PostOther
    <2>24. CASE SetHold(t)  BY <2>24 DEF SetHold, Release
    <2> QED  BY <1>8, <2>1, <2>2, <2>3, <2>4, <2>5, <2>6, <2>7, <2>8, <2>9, <2>10, <2>11, <2>12, <2>13, <2>14, <2>15, <2>16, <2>17, <2>18, <2>19, <2>20, <2>21, <2>22, <2>23, <2>24 DEF run, body
  <1>9. CASE UNCHANGED vars  BY <1>9 DEF vars
  <1> QED  BY <1>1, <1>2, <1>3, <1>4, <1>5, <1>6, <1>7, <1>8, <1>9 DEF Next, stop

-----------------------------------------------------------------------------
(* The theorems.                                                           *)

\* The invariant holds initially: the counters are 0 and no thread runs.
LEMMA InitIndInv == Init => IndInv
  <1> SUFFICES ASSUME Init PROVE IndInv  OBVIOUS
  <1> USE ThreadAssumption, TaskAssumption
  <1>1. TypeOK
    <2>1. m_fibers \in Seq(FiberAndThread)  BY DEF Init
    <2>2. /\ m_state \in [Tasks -> State] /\ idle_fiber \in [AllThreads -> State]
          /\ m_cb \in [Tasks -> Tasks \cup {NoTask}]
      BY DEF Init, State
    <2>3. pc \in [AllThreads -> Labels]  BY DEF Init, Labels
    <2>4. ft \in [AllThreads -> FiberAndThread \cup {NoEntry}]  BY DEF Init
    <2>5. yields \in [Tasks -> 0..MaxYields]  BY DEF Init
    <2> QED  BY <2>1, <2>2, <2>3, <2>4, <2>5 DEF Init, TypeOK
  <1>2. LocalInv  BY DEF Init, LocalInv, Holding, OnStack, AllThreads
  <1>3. ActiveSet = {} /\ IdleSet = {}  BY DEF Init, ActiveSet, IdleSet
  <1>4. CountInv  BY <1>3, FS_EmptySet DEF Init, CountInv
  <1> QED  BY <1>1, <1>2, <1>4 DEF IndInv

\* The inductive invariant holds throughout, for every pool, client and
\* use of the caller thread.
THEOREM InductiveInvariant == Spec => []IndInv
  <1>1. IndInv /\ [Next]_vars => IndInv'
    BY TypeStep, LocalStep, CountStep DEF IndInv
  <1> QED  BY InitIndInv, <1>1, PTL DEF Spec

\* The scheduler's state keeps its types; in particular the unsigned
\* counters m_activethreadcount and m_idlethreadcount never pass below 0.
THEOREM TypeCorrect == Spec => []TypeOK
  <1>1. IndInv => TypeOK  BY DEF IndInv
  <1> QED  BY InductiveInvariant, <1>1, PTL

\* When Scheduler::stopping() is true no thread is inside a task or has one
\* in hand, for any number of threads and tasks.
THEOREM StoppingQuiet == Spec => []StoppingIsQuiet
  <1>1. IndInv => StoppingIsQuiet
    <2> SUFFICES ASSUME IndInv, stopping, NEW t \in AllThreads
                 PROVE  /\ pc[t] \notin {"swapin"} \cup OnStack
                        /\ pc[t] = "dispatch" => ft[t].kind = "none"
      BY DEF StoppingIsQuiet
    <2>1. ~is_active[t]
      BY CountersPositive DEF stopping
    <2> QED  BY <2>1 DEF IndInv, LocalInv, OnStack
  <1> QED  BY InductiveInvariant, <1>1, PTL

=============================================================================
