------------------------------ MODULE FiberProofs ------------------------------
(***************************************************************************)
(* Proofs about Scheduler, for any number of workers and tasks: who        *)
(* answers for a fiber, the pins of tasks, and what stop() leaves behind.  *)
(***************************************************************************)
EXTENDS SchedulerProofs

\* What an entry's task and a thread's fiber are.
LEMMA OwnTypes ==
  ASSUME IndInv
  PROVE  /\ pc \in [AllThreads -> Labels] /\ m_state \in [Tasks -> State]
         /\ m_cb \in [Tasks -> Tasks \cup {NoTask}]
         /\ cb_fiber \in [AllThreads -> Tasks \cup {NoTask}]
         /\ ft \in [AllThreads -> FiberAndThread \cup {NoEntry}]
         /\ cur \in [AllThreads -> Tasks \cup {NoTask}]
         /\ parkedOn \in [Tasks -> AllThreads \cup {NoThread}]
         /\ submitted \subseteq Tasks /\ NoTask \notin Tasks
         /\ Entries \subseteq FiberAndThread
         /\ Cbs \subseteq Tasks /\ UserFibers \subseteq Tasks
         /\ \A t \in AllThreads : pc[t] \in Holding => cur[t] \in Tasks
         /\ \A t \in AllThreads : ft[t].kind = "none" => ft[t] = NoEntry
         /\ \A t \in AllThreads : ft[t].kind # "none" =>
               ft[t] \in FiberAndThread /\ ft[t].task \in Tasks
         /\ NoEntry.kind = "none" /\ NoEntry.task = NoTask
         /\ \A e \in FiberAndThread : e.kind # "none" /\ e.task \in Tasks
  <1>1. Entries \subseteq FiberAndThread
    BY ElementOfSeq DEF IndInv, TypeOK, Entries
  <1>2. \A e \in FiberAndThread : e.kind # "none" /\ e.task \in Tasks
    BY DEF FiberAndThread
  <1>3. NoEntry.kind = "none" /\ NoEntry.task = NoTask  BY DEF NoEntry
  <1>4. ft \in [AllThreads -> FiberAndThread \cup {NoEntry}]
    BY DEF IndInv, TypeOK
  <1>5. \A t \in AllThreads :
           /\ ft[t].kind = "none" => ft[t] = NoEntry
           /\ ft[t].kind # "none" => ft[t] \in FiberAndThread
    BY <1>2, <1>3, <1>4
  <1> QED
    BY <1>1, <1>2, <1>3, <1>5, TaskAssumption
       DEF IndInv, TypeOK, LocalInv, Tasks

\* A thread that is on a fiber goes on to label l.
LEMMA OwnAdvance ==
  ASSUME IndInv, OwnInv, NEW t \in AllThreads, NEW l \in Holding,
         pc[t] \in Holding, pc' = [pc EXCEPT ![t] = l], StageInv(l, t, cur[t]),
         UNCHANGED <<m_fibers, fibers, ft, cb_fiber, cur, setup, submitted,
                     ended, parkedOn>>
  PROVE  OwnInv'
  <1>1. Entries' = Entries /\ ListDistinct'
    BY DEF Entries, ListDistinct, OwnInv
  <1> USE OwnTypes DEF Proper, Resumes, Rests, Live, Fresh, DeadUser, Listed,
                       Took, On, Holding, fibers
  <1>2. ListInv'  BY <1>1 DEF OwnInv, ListInv
  <1>3. HandInv'  BY <1>1 DEF OwnInv, HandInv
  <1>4. StackInv'
    BY <1>1 DEF OwnInv, StackInv, StageInv, Handed, Yielded, Ended
  <1>5. KeptInv'  BY <1>1 DEF OwnInv, KeptInv
  <1>6. ParkInv'  BY <1>1 DEF OwnInv, ParkInv
  <1>7. BookInv'  BY <1>1 DEF OwnInv, BookInv
  <1>8. NoTaskLost'  BY <1>1 DEF OwnInv, NoTaskLost, Queued, InHand, Parked
  <1> QED
    BY <1>1, <1>2, <1>3, <1>4, <1>5, <1>6, <1>7, <1>8 DEF OwnInv

\* Steps that touch no fiber and no entry, but that a thread may put down an
\* entry of a fiber that has ended.
LEMMA OwnFrame ==
  ASSUME IndInv, OwnInv, pc' \in [AllThreads -> Labels],
         \A u \in AllThreads :
            /\ pc[u] \in Holding \/ pc'[u] \in Holding => pc'[u] = pc[u]
            /\ pc[u] \in Holding => ft'[u] = ft[u]
            /\ pc'[u] = "dispatch" => \/ ft'[u] = NoEntry
                                      \/ pc[u] = "dispatch" /\ ft'[u] = ft[u]
            /\ pc[u] = "dispatch" => \/ pc'[u] = "dispatch" /\ ft'[u] = ft[u]
                                     \/ ft[u].kind = "none"
                                     \/ /\ ft[u].kind = "fiber"
                                        /\ m_state[ft[u].task] \in Dead,
         UNCHANGED <<m_fibers, fibers, cb_fiber, cur, setup, submitted, ended,
                     parkedOn>>
  PROVE  OwnInv'
  <1>1. Entries' = Entries /\ ListDistinct'
    BY DEF Entries, ListDistinct, OwnInv
  <1>2. NoEntry.kind = "none" /\ NoEntry.task = NoTask /\ NoTask \notin Tasks
    BY TaskAssumption DEF NoEntry
  <1>3. \A u \in AllThreads, f \in Tasks :
           /\ On(u, f)' <=> On(u, f)
           /\ Took(u, f)' => Took(u, f)
    BY <1>2 DEF On, Took
  <1> USE OwnTypes
      DEF Proper, Resumes, Rests, Live, Fresh, DeadUser, Listed, fibers
  <1>4. ListInv'  BY <1>1, <1>3 DEF OwnInv, ListInv
  <1>5. HandInv'  BY <1>1, <1>2, <1>3 DEF OwnInv, HandInv
  <1>6. StackInv'
    BY <1>1, <1>3 DEF OwnInv, StackInv, StageInv, Handed, Yielded, Ended
  <1>7. KeptInv'  BY <1>1, <1>3 DEF OwnInv, KeptInv
  <1>8. ParkInv'
    <2>1. \A f \in Tasks : parkedOn[f] # NoThread => parkedOn[f] \in AllThreads
      OBVIOUS
    <2> QED  BY <1>1, <1>3, <2>1 DEF OwnInv, ParkInv
  <1>9. BookInv'  BY <1>1, <1>3 DEF OwnInv, BookInv
  <1>10. NoTaskLost'
    <2>1. \A c \in Tasks \ ended : InHand(c) => InHand(c)'
      BY <1>2 DEF InHand, OwnInv, BookInv
    <2> QED  BY <1>1, <2>1 DEF OwnInv, NoTaskLost, Queued, Parked, IndInv, TypeOK
  <1> QED
    BY <1>1, <1>4, <1>5, <1>6, <1>7, <1>8, <1>9, <1>10 DEF OwnInv

\* A thread enters its fiber.
LEMMA OwnSwapIn ==
  ASSUME IndInv, OwnInv, NEW t \in AllThreads, swapIn(t)
  PROVE  OwnInv'
  <1> DEFINE f == cur[t]
  <1>1. /\ pc[t] = "swapin" /\ pc' = [pc EXCEPT ![t] = "exec"]
        /\ m_state' = [m_state EXCEPT ![f] = "EXEC"]
        /\ UNCHANGED <<m_fibers, m_cb, ft, cb_fiber, cur, setup, submitted,
                       ended, parkedOn>>
    BY DEF swapIn, Goto, locals, client
  <1>2. f \in Tasks  BY <1>1 DEF IndInv, LocalInv, Holding
  <1>3. Entries' = Entries /\ ListDistinct'
    BY <1>1 DEF Entries, ListDistinct, OwnInv
  <1> USE OwnTypes DEF Proper, Resumes, Rests, Live, Fresh, DeadUser, Listed,
                       Took, On, Holding, Dead
  <1>4. ListInv'  BY <1>1, <1>2, <1>3 DEF OwnInv, ListInv, StackInv, StageInv
  <1>5. HandInv'  BY <1>1, <1>2, <1>3 DEF OwnInv, HandInv, StackInv, StageInv
  <1>6. StackInv'
    BY <1>1, <1>2, <1>3
       DEF OwnInv, StackInv, StageInv, Handed, Yielded, Ended
  <1>7. KeptInv'  BY <1>1, <1>2, <1>3 DEF OwnInv, KeptInv, StackInv, StageInv
  <1>8. ParkInv'  BY <1>1, <1>2, <1>3 DEF OwnInv, ParkInv, StackInv, StageInv
  <1>9. BookInv'  BY <1>1, <1>2, <1>3 DEF OwnInv, BookInv, StackInv, StageInv
  <1>10. NoTaskLost'
    BY <1>1, <1>2, <1>3 DEF OwnInv, NoTaskLost, Queued, InHand, Parked
  <1> QED
    BY <1>3, <1>4, <1>5, <1>6, <1>7, <1>8, <1>9, <1>10 DEF OwnInv

\* What the other threads know of the fiber that a thread executes: nothing.
LEMMA OwnExec ==
  ASSUME IndInv, OwnInv, NEW t \in AllThreads, pc[t] \in {"swapin", "exec"}
  PROVE  \E f \in Tasks :
           /\ f = cur[t] /\ Live(f) /\ m_state[f] \notin Dead
           /\ parkedOn[f] = NoThread /\ ~Listed(f) /\ ~Fresh(f)
           /\ \A u \in AllThreads : ~Took(u, f)
           /\ \A u \in AllThreads \ {t} : ~On(u, f) /\ cb_fiber[u] # f
  <1>1. cur[t] \in Tasks  BY DEF IndInv, LocalInv, Holding
  <1>2. /\ Live(cur[t]) /\ m_state[cur[t]] \notin Dead
        /\ parkedOn[cur[t]] = NoThread /\ ~Listed(cur[t])
    BY DEF OwnInv, StackInv, StageInv, Holding, Rests, Dead
  <1>3. /\ \A u \in AllThreads : ~Took(u, cur[t])
        /\ \A u \in AllThreads \ {t} : ~On(u, cur[t]) /\ cb_fiber[u] # cur[t]
    BY <1>2 DEF OwnInv, StackInv, Holding, DeadUser
  <1>4. ~Fresh(cur[t])  BY DEF Fresh, On, Holding
  <1> QED  BY <1>1, <1>2, <1>3, <1>4

\* A fiber that executes yields to READY or gives itself away.
LEMMA OwnYield ==
  ASSUME IndInv, OwnInv, CalmSetups, NEW t \in AllThreads,
         YieldToReady(t) \/ Park(t)
  PROVE  OwnInv'
  <1>0. setup.wake # "any" /\ ~setup.rootYields
        /\ setup.wake \in {"none", "own", "any"}
    BY SetupAssumption DEF CalmSetups, IndInv, TypeOK, Setup
  <1>1. /\ pc[t] = "exec" /\ t # Root
        /\ UNCHANGED <<m_fibers, m_cb, ft, cb_fiber, cur, setup, submitted,
                       ended>>
    BY <1>0 DEF YieldToReady, Park, MayYield, locals, fibers
  <1>2. PICK f \in Tasks :
           /\ f = cur[t] /\ Live(f) /\ m_state[f] \notin Dead
           /\ parkedOn[f] = NoThread /\ ~Listed(f) /\ ~Fresh(f)
           /\ \A u \in AllThreads : ~Took(u, f)
           /\ \A u \in AllThreads \ {t} : ~On(u, f) /\ cb_fiber[u] # f
    BY <1>1, OwnExec
  <1>3. \/ /\ pc' = [pc EXCEPT ![t] = "back"]
           /\ m_state' = [m_state EXCEPT ![f] = "READY"]
           /\ UNCHANGED parkedOn
        \/ /\ pc' = [pc EXCEPT ![t] = "park"]
           /\ parkedOn' = [parkedOn EXCEPT ![f] = t]
           /\ setup.wake = "own"
           /\ UNCHANGED m_state
    BY <1>0, <1>2 DEF YieldToReady, Park, MayYield, Goto, fibers
  <1>4. Entries' = Entries /\ ListDistinct' /\ t # NoThread
    BY <1>1, ThreadAssumption DEF Entries, ListDistinct, OwnInv
  <1> USE OwnTypes
  <1>5. \A g \in Tasks \ {f} :
           m_state'[g] = m_state[g] /\ parkedOn'[g] = parkedOn[g]
    BY <1>2, <1>3
  <1>6. \A u \in AllThreads, g \in Tasks :
           (On(u, g)' <=> On(u, g)) /\ (Took(u, g)' <=> Took(u, g))
    BY <1>1, <1>2, <1>3 DEF On, Took, Holding
  <1>7. \A g \in Tasks : /\ Listed(g)' <=> Listed(g)
                         /\ Live(g)' <=> Live(g)
                         /\ Fresh(g)' => Fresh(g)
                         /\ Fresh(g) => Fresh(g)'
    BY <1>1, <1>2, <1>3, <1>4, <1>5, <1>6 DEF Listed, Live, Fresh
  <1> USE DEF Proper, Resumes, Rests, DeadUser
  <1>8. ListInv'
    BY <1>1, <1>2, <1>4, <1>5, <1>6, <1>7 DEF OwnInv, ListInv, Listed
  <1>9. HandInv'
    <2>1. ASSUME NEW u \in AllThreads, pc'[u] = "dispatch", ft'[u].kind # "none"
          PROVE  /\ pc[u] = "dispatch" /\ ft'[u] = ft[u]
                 /\ ft[u].task \in Tasks \ {f}
      BY <1>1, <1>2, <1>3, <2>1 DEF Took
    <2> QED
      BY <1>1, <1>5, <1>6, <1>7, <2>1 DEF OwnInv, HandInv
  <1>10. StackInv'
    <2>1. StageInv(pc[t], t, cur[t])'
      <3>1. pc'[t] = "back" => m_state'[f] = "READY" /\ parkedOn'[f] = NoThread
        BY <1>2, <1>3
      <3>2. pc'[t] = "park" => m_state'[f] = "EXEC" /\ parkedOn'[f] = t
        BY <1>1, <1>2, <1>3 DEF OwnInv, StackInv, StageInv, Holding
      <3>3. pc'[t] \in {"back", "park"}  BY <1>3
      <3> QED
        BY <1>1, <1>2, <1>7, <3>1, <3>2, <3>3 DEF StageInv, Yielded, Handed
    <2>2. ASSUME NEW u \in AllThreads \ {t}, pc[u] \in Holding
          PROVE  StageInv(pc[u], u, cur[u])'
      <3>1. cur[u] \in Tasks \ {f} /\ pc'[u] = pc[u]
        BY <1>2, <1>3, <2>2 DEF On
      <3>2. StageInv(pc[u], u, cur[u])  BY <2>2 DEF OwnInv, StackInv
      <3> QED
        BY <1>1, <1>4, <1>5, <1>7, <3>1, <3>2
           DEF StageInv, Handed, Yielded, Ended
    <2> QED
      BY <1>1, <1>2, <1>3, <1>5, <1>6, <2>1, <2>2
         DEF OwnInv, StackInv, On, Holding
  <1>11. KeptInv'
    BY <1>1, <1>2, <1>5, <1>6, <1>7 DEF OwnInv, KeptInv, On, Holding
  <1>12. ParkInv'
    BY <1>1, <1>2, <1>3, <1>5, <1>6, <1>7 DEF OwnInv, ParkInv, On, Holding
  <1>13. BookInv'
    BY <1>1, <1>2, <1>3, <1>5, <1>6, <1>7 DEF OwnInv, BookInv, Live, Dead
  <1>14. NoTaskLost'
    BY <1>1, <1>2, <1>3, <1>4, <1>5
       DEF OwnInv, NoTaskLost, Queued, InHand, Parked, Holding
  <1> QED
    BY <1>4, <1>8, <1>9, <1>10, <1>11, <1>12, <1>13, <1>14 DEF OwnInv

\* A fiber that gave itself away yields to HOLD.
LEMMA OwnHold ==
  ASSUME IndInv, OwnInv, NEW t \in AllThreads, YieldToHold(t)
  PROVE  OwnInv'
  <1>1. /\ pc[t] = "park" /\ pc' = [pc EXCEPT ![t] = "back"]
        /\ m_state' = [m_state EXCEPT ![cur[t]] = "HOLD"]
        /\ UNCHANGED <<m_fibers, m_cb, ft, cb_fiber, cur, setup, submitted,
                       ended, parkedOn>>
    BY DEF YieldToHold, Goto, locals, client
  <1>2. PICK f \in Tasks : f = cur[t]  BY <1>1 DEF IndInv, LocalInv, Holding
  <1>3. Entries' = Entries /\ ListDistinct'
    BY <1>1 DEF Entries, ListDistinct, OwnInv
  <1>4. /\ Live(f) /\ m_state[f] = "EXEC" /\ t # Root
        /\ \A u \in AllThreads : ~Took(u, f)
        /\ \A u \in AllThreads \ {t} : ~On(u, f)
    BY <1>1, <1>2 DEF OwnInv, StackInv, StageInv, Holding, DeadUser, Dead
  <1> USE OwnTypes DEF Proper, Resumes, Rests, Live, Fresh, DeadUser, Listed,
                       Took, On, Holding, Dead
  <1>5. ListInv'  BY <1>1, <1>2, <1>3, <1>4 DEF OwnInv, ListInv
  <1>6. HandInv'  BY <1>1, <1>2, <1>3, <1>4 DEF OwnInv, HandInv
  <1>7. StackInv'
    BY <1>1, <1>2, <1>3, <1>4
       DEF OwnInv, StackInv, StageInv, Handed, Yielded, Ended
  <1>8. KeptInv'  BY <1>1, <1>2, <1>3, <1>4 DEF OwnInv, KeptInv
  <1>9. ParkInv'  BY <1>1, <1>2, <1>3, <1>4 DEF OwnInv, ParkInv
  <1>10. BookInv'  BY <1>1, <1>2, <1>3, <1>4 DEF OwnInv, BookInv
  <1>11. NoTaskLost'
    BY <1>1, <1>2, <1>3 DEF OwnInv, NoTaskLost, Queued, InHand, Parked
  <1> QED
    BY <1>3, <1>5, <1>6, <1>7, <1>8, <1>9, <1>10, <1>11 DEF OwnInv

\* A fiber's callback returns or throws.
LEMMA OwnMainFunc ==
  ASSUME IndInv, OwnInv, NEW t \in AllThreads, MainFunc(t)
  PROVE  OwnInv'
  <1>1. /\ pc[t] = "exec" /\ pc' = [pc EXCEPT ![t] = "out"]
        /\ UNCHANGED <<m_fibers, ft, cb_fiber, cur, setup, submitted, parkedOn>>
    BY DEF MainFunc, Goto, locals
  <1>2. PICK f \in Tasks :
           /\ f = cur[t] /\ Live(f) /\ m_state[f] \notin Dead
           /\ parkedOn[f] = NoThread /\ ~Listed(f) /\ ~Fresh(f)
           /\ \A u \in AllThreads : ~Took(u, f)
           /\ \A u \in AllThreads \ {t} : ~On(u, f) /\ cb_fiber[u] # f
    BY <1>1, OwnExec
  <1>3. /\ \E s \in Dead : m_state' = [m_state EXCEPT ![f] = s]
        /\ m_cb' = [m_cb EXCEPT ![f] = NoTask] \/ m_cb' = m_cb
        /\ ended' = ended \cup {m_cb[f]}
    BY <1>2 DEF MainFunc, Dead
  <1>4. Entries' = Entries /\ ListDistinct'
    BY <1>1 DEF Entries, ListDistinct, OwnInv
  <1> USE OwnTypes
  <1>5. m_cb[f] \in Tasks /\ \A g \in Tasks \ {f} : m_cb[g] # m_cb[f]
    BY <1>2 DEF OwnInv, BookInv, Live
  <1>6. \A g \in Tasks \ {f} : /\ Live(g)' <=> Live(g)
                               /\ m_cb'[g] = m_cb[g] /\ m_state'[g] = m_state[g]
    BY <1>1, <1>2, <1>3, <1>5 DEF Live
  <1>7. \A u \in AllThreads, g \in Tasks :
           (On(u, g)' <=> On(u, g)) /\ (Took(u, g)' <=> Took(u, g))
    BY <1>1 DEF On, Took, Holding
  <1>8. \A c \in Tasks : Fresh(c) => c # f /\ Fresh(c)'
    <2> SUFFICES ASSUME NEW c \in Tasks, Fresh(c)
                 PROVE  c # f /\ Fresh(c)'
      OBVIOUS
    <2>1. c # f  BY <1>2
    <2>2. c # m_cb[f]
      BY <1>2, <1>5, <2>1 DEF Fresh, OwnInv, BookInv, Tasks
    <2>3. \A g \in Cbs : m_cb'[g] # c  BY <1>3 DEF Fresh
    <2> QED  BY <1>1, <1>3, <1>6, <1>7, <2>1, <2>2, <2>3 DEF Fresh
  <1>9. \A c \in Tasks : Listed(c)' <=> Listed(c)  BY <1>4 DEF Listed
  <1>10. m_state'[f] \in Dead /\ m_cb'[f] \in {m_cb[f], NoTask}
    BY <1>2, <1>3
  <1> USE DEF Proper, Resumes, Rests, DeadUser
  <1>11. ListInv'
    BY <1>1, <1>2, <1>4, <1>6, <1>7, <1>8 DEF OwnInv, ListInv, Listed
  <1>12. HandInv'
    <2>1. ASSUME NEW u \in AllThreads, pc'[u] = "dispatch", ft'[u].kind # "none"
          PROVE  /\ pc[u] = "dispatch" /\ ft'[u] = ft[u]
                 /\ ft[u].task \in Tasks \ {f}
      BY <1>1, <1>2, <2>1 DEF Took
    <2> QED
      BY <1>1, <1>6, <1>7, <1>8, <1>9, <2>1 DEF OwnInv, HandInv
  <1>13. StackInv'
    <2>1. StageInv(pc[t], t, cur[t])'
      BY <1>1, <1>2, <1>9, <1>10 DEF Ended, StageInv
    <2>2. ASSUME NEW u \in AllThreads \ {t}, pc[u] \in Holding
          PROVE  StageInv(pc[u], u, cur[u])'
      <3>1. cur[u] \in Tasks \ {f} /\ pc'[u] = pc[u]
        BY <1>1, <1>2, <2>2 DEF On
      <3>2. StageInv(pc[u], u, cur[u])  BY <2>2 DEF OwnInv, StackInv
      <3> QED
        BY <1>1, <1>4, <1>6, <1>9, <3>1, <3>2
           DEF StageInv, Handed, Yielded, Ended
    <2> QED
      BY <1>1, <1>2, <1>6, <1>7, <2>1, <2>2
         DEF OwnInv, StackInv, On, Holding
  <1>14. KeptInv'
    BY <1>1, <1>2, <1>6, <1>7, <1>9 DEF OwnInv, KeptInv, On, Holding
  <1>15. ParkInv'
    BY <1>1, <1>2, <1>6, <1>7, <1>9 DEF OwnInv, ParkInv
  <1>16. BookInv'
    <2>1. \A c \in Tasks \ submitted :
             Fresh(c)' /\ ~Listed(c)' /\ \A u \in AllThreads : ~Took(u, c)'
      BY <1>7, <1>8, <1>9 DEF OwnInv, BookInv
    <2>2. /\ \A g \in UserFibers : m_cb'[g] \in {g, NoTask}
          /\ \A g \in Cbs : m_cb'[g] \in (Cbs \cap submitted) \cup {NoTask}
          /\ \A g, h \in Tasks : m_cb'[g] = m_cb'[h] /\ m_cb'[g] # NoTask => g = h
      BY <1>3 DEF OwnInv, BookInv
    <2>3. /\ \A g \in Tasks : m_cb'[g] \in ended' => m_state'[g] \in Dead
          /\ \A g \in Tasks : m_state'[g] \in Dead => m_cb'[g] \in ended' \cup {NoTask}
          /\ NoTask \notin ended'
      BY <1>3, <1>5, <1>6, <1>10 DEF OwnInv, BookInv
    <2> QED  BY <1>1, <2>1, <2>2, <2>3 DEF BookInv
  <1>17. NoTaskLost'
    <2> SUFFICES ASSUME NEW c \in submitted \ ended, c # m_cb[f]
                 PROVE  (Queued(c) \/ InHand(c) \/ Parked(c))'
      BY <1>1, <1>3 DEF NoTaskLost
    <2>1. \A g \in Tasks : m_cb[g] = c => m_cb'[g] = c  BY <1>6
    <2>2. Queued(c) \/ InHand(c) \/ Parked(c)  BY DEF OwnInv, NoTaskLost
    <2>3. Parked(c) => Parked(c)'  BY <1>1, <2>1 DEF Parked
    <2>4. InHand(c) => InHand(c)'
      <3>1. \A u \in AllThreads : ft[u].kind = "fiber" => ft[u].task \in Tasks
        OBVIOUS
      <3> QED  BY <1>1, <2>1, <3>1 DEF InHand, Holding
    <2>5. Queued(c) => Queued(c)'
      <3>1. \A i \in 1..Len(m_fibers) : m_fibers[i].task \in Tasks
        BY DEF Entries
      <3> QED  BY <1>1, <2>1, <3>1 DEF Queued
    <2> QED  BY <2>2, <2>3, <2>4, <2>5
  <1> QED
    BY <1>4, <1>11, <1>12, <1>13, <1>14, <1>15, <1>16, <1>17 DEF OwnInv

\* A thread gets on the fiber of the entry in its hands.
LEMMA OwnRunFiber ==
  ASSUME IndInv, OwnInv, NEW t \in AllThreads, RunFiber(t)
  PROVE  OwnInv'
  <1>1. /\ pc[t] = "dispatch" /\ ft[t].kind = "fiber"
        /\ m_state[ft[t].task] \notin Dead
        /\ cur' = [cur EXCEPT ![t] = ft[t].task]
        /\ pc' = [pc EXCEPT ![t] = "swapin"]
        /\ UNCHANGED <<m_fibers, m_state, m_cb, ft, cb_fiber, setup, submitted,
                       ended, parkedOn>>
    BY DEF RunFiber, Goto, fibers, client
  <1> USE OwnTypes
  <1>2. PICK f \in Tasks : f = ft[t].task  BY <1>1
  <1>3. /\ Rests(f) /\ parkedOn[f] = NoThread /\ ~Listed(f) /\ ~DeadUser(f)
        /\ \A u \in AllThreads : ~On(u, f) /\ cb_fiber[u] # f
        /\ \A u \in AllThreads \ {t} : ~Took(u, f)
    BY <1>1, <1>2 DEF OwnInv, HandInv, Proper, Resumes, DeadUser
  <1>4. Entries' = Entries /\ ListDistinct'
    BY <1>1 DEF Entries, ListDistinct, OwnInv
  <1>5. /\ \A u \in AllThreads, g \in Tasks \ {f} :
              (On(u, g)' <=> On(u, g)) /\ (Took(u, g)' <=> Took(u, g))
        /\ \A u \in AllThreads : ~Took(u, f)'
        /\ \A u \in AllThreads \ {t} : ~On(u, f)'
        /\ On(t, f)'
    BY <1>1, <1>2, <1>3 DEF On, Took, Holding
  <1>6. \A g \in Tasks : /\ Listed(g)' <=> Listed(g)
                         /\ Live(g)' <=> Live(g)
                         /\ Fresh(g) /\ g # f => Fresh(g)'
                         /\ g \in submitted \ ended => g # NoTask
    BY <1>1, <1>2, <1>4, <1>5 DEF Listed, Live, Fresh
  <1> USE DEF Proper, Resumes, Rests, DeadUser
  <1>7. ListInv'
    BY <1>1, <1>3, <1>4, <1>5, <1>6 DEF OwnInv, ListInv, Listed
  <1>8. HandInv'
    <2>1. ASSUME NEW u \in AllThreads, pc'[u] = "dispatch", ft'[u].kind # "none"
          PROVE  /\ pc[u] = "dispatch" /\ ft'[u] = ft[u]
                 /\ ft[u].task \in Tasks \ {f}
      BY <1>1, <1>3, <2>1 DEF Took
    <2> QED
      BY <1>1, <1>5, <1>6, <2>1 DEF OwnInv, HandInv
  <1>9. StackInv'
    <2>1. StageInv(pc[t], t, cur[t])' /\ cur'[t] = f
      BY <1>1, <1>2, <1>3, <1>6 DEF StageInv
    <2>2. ASSUME NEW u \in AllThreads \ {t}, pc[u] \in Holding
          PROVE  StageInv(pc[u], u, cur[u])' /\ cur'[u] = cur[u] /\ cur[u] # f
      <3>1. cur[u] \in Tasks \ {f} /\ pc'[u] = pc[u] /\ cur'[u] = cur[u]
        BY <1>1, <1>3, <2>2 DEF On
      <3>2. StageInv(pc[u], u, cur[u])  BY <2>2 DEF OwnInv, StackInv
      <3> QED
        BY <1>1, <1>4, <1>6, <3>1, <3>2
           DEF StageInv, Handed, Yielded, Ended
    <2> QED
      BY <1>1, <1>2, <1>3, <1>5, <2>1, <2>2 DEF OwnInv, StackInv, Holding
  <1>10. KeptInv'
    BY <1>1, <1>3, <1>5, <1>6 DEF OwnInv, KeptInv
  <1>11. ParkInv'
    BY <1>1, <1>3, <1>5, <1>6 DEF OwnInv, ParkInv
  <1>12. BookInv'
    <2>1. f \in submitted  BY <1>1, <1>2 DEF OwnInv, BookInv, Took
    <2> QED  BY <1>1, <1>3, <1>5, <1>6, <2>1 DEF OwnInv, BookInv
  <1>13. NoTaskLost'
    <2>1. \A c \in Tasks : InHand(c) => InHand(c)'
      BY <1>1, <1>2 DEF InHand, Holding
    <2> QED  BY <1>1, <1>4, <2>1 DEF OwnInv, NoTaskLost, Queued, Parked
  <1> QED
    BY <1>4, <1>7, <1>8, <1>9, <1>10, <1>11, <1>12, <1>13 DEF OwnInv

\* A thread makes, or recycles, a fiber for the callback in its hands.
LEMMA OwnRunCb ==
  ASSUME IndInv, OwnInv, NEW t \in AllThreads, RunCb(t)
  PROVE  OwnInv'
  <1> USE OwnTypes
  <1>1. /\ pc[t] = "dispatch" /\ ft[t].kind = "cb"
        /\ pc' = [pc EXCEPT ![t] = "swapin"]
        /\ UNCHANGED <<m_fibers, ft, setup, submitted, ended, parkedOn>>
    BY DEF RunCb, Goto, client
  <1>2. PICK c \in Tasks : c = ft[t].task  BY <1>1
  <1>3. /\ c \in Cbs \cap submitted /\ Fresh(c) /\ ~Listed(c)
        /\ \A u \in AllThreads \ {t} : ~Took(u, c)
        /\ ~DeadUser(c) /\ c \notin ended /\ c \notin UserFibers
    BY <1>1, <1>2, TaskAssumption
       DEF OwnInv, HandInv, Proper, Resumes, DeadUser, Fresh
  <1>4. PICK f \in Tasks : f = IF cb_fiber[t] # NoTask THEN cb_fiber[t] ELSE c
    BY <1>2
  <1>5. /\ m_state' = [m_state EXCEPT ![f] = "INIT"]
        /\ m_cb' = [m_cb EXCEPT ![f] = c]
        /\ cb_fiber' = [cb_fiber EXCEPT ![t] = f]
        /\ cur' = [cur EXCEPT ![t] = f]
    BY <1>2, <1>4 DEF RunCb
  <1>6. /\ f \in Cbs /\ m_state[f] = "INIT" /\ m_cb[f] = NoTask
        /\ parkedOn[f] = NoThread /\ ~Listed(f) /\ f \notin UserFibers
        /\ \A u \in AllThreads : ~On(u, f) /\ (f # c => ~Took(u, f))
        /\ \A u \in AllThreads \ {t} : cb_fiber[u] # f /\ ~Took(u, f)
    <2>1. CASE cb_fiber[t] = NoTask
      BY <1>3, <1>4, <2>1 DEF Fresh
    <2>2. CASE cb_fiber[t] # NoTask
      BY <1>1, <1>4, <2>2, TaskAssumption
         DEF OwnInv, KeptInv, On, Holding
    <2> QED  BY <2>1, <2>2
  <1>7. Entries' = Entries /\ ListDistinct'
    BY <1>1 DEF Entries, ListDistinct, OwnInv
  <1>8. /\ \A u \in AllThreads, g \in Tasks \ {f} : On(u, g)' <=> On(u, g)
        /\ \A u \in AllThreads, g \in Tasks : Took(u, g)' => Took(u, g)
        /\ \A u \in AllThreads : ~Took(u, f)'
        /\ \A u \in AllThreads \ {t} : ~On(u, f)'
        /\ On(t, f)'
    BY <1>1, <1>2, <1>5, <1>6 DEF On, Took, Holding
  <1>9. /\ \A g \in Tasks \ {f} : /\ m_state'[g] = m_state[g]
                                  /\ m_cb'[g] = m_cb[g]
                                  /\ Live(g)' <=> Live(g)
        /\ m_state'[f] = "INIT" /\ m_cb'[f] = c /\ Live(f)'
        /\ \A g \in Tasks : Listed(g)' <=> Listed(g)
    BY <1>1, <1>3, <1>5, <1>7 DEF Listed, Live
  <1>10. \A g \in Tasks : Fresh(g) /\ g # f /\ g # c => Fresh(g)'
    BY <1>1, <1>5, <1>6, <1>8, <1>9 DEF Fresh
  <1> USE DEF Proper, Resumes, Rests, DeadUser
  <1>11. ListInv'
    <2>1. \A e \in Entries : e.task \in Tasks \ {f, c}
      BY <1>3, <1>6 DEF Listed
    <2>2. \A u \in AllThreads, g \in Tasks \ {f} :
             cb_fiber[u] # g => cb_fiber'[u] # g
      BY <1>5
    <2> QED
      BY <1>1, <1>7, <1>8, <1>9, <1>10, <2>1, <2>2 DEF OwnInv, ListInv
  <1>12. HandInv'
    <2>1. ASSUME NEW u \in AllThreads, pc'[u] = "dispatch", ft'[u].kind # "none"
          PROVE  /\ pc[u] = "dispatch" /\ ft'[u] = ft[u] /\ u # t
                 /\ ft[u].task \in Tasks \ {f, c}
      BY <1>1, <1>3, <1>6, <2>1 DEF Took
    <2>2. \A u \in AllThreads, g \in Tasks \ {f} :
             cb_fiber[u] # g => cb_fiber'[u] # g
      BY <1>5
    <2> QED
      BY <1>1, <1>8, <1>9, <1>10, <2>1, <2>2 DEF OwnInv, HandInv
  <1>13. StackInv'
    <2>1. StageInv(pc[t], t, cur[t])' /\ cur'[t] = f /\ cb_fiber'[t] = f
      BY <1>1, <1>5, <1>6, <1>9 DEF StageInv
    <2>2. ASSUME NEW u \in AllThreads \ {t}, pc[u] \in Holding
          PROVE  /\ StageInv(pc[u], u, cur[u])'
                 /\ cur'[u] = cur[u] /\ cur[u] \in Tasks \ {f}
                 /\ cb_fiber'[u] = cb_fiber[u]
      <3>1. /\ cur[u] \in Tasks \ {f} /\ pc'[u] = pc[u] /\ cur'[u] = cur[u]
            /\ cb_fiber'[u] = cb_fiber[u]
        BY <1>1, <1>5, <1>6, <2>2 DEF On
      <3>2. StageInv(pc[u], u, cur[u])  BY <2>2 DEF OwnInv, StackInv
      <3> QED
        BY <1>1, <1>7, <1>9, <3>1, <3>2
           DEF StageInv, Handed, Yielded, Ended
    <2>3. ASSUME NEW u \in AllThreads \ {t}, pc[u] \in Holding
          PROVE  /\ \A v \in AllThreads \ {u} :
                       ~On(v, cur[u])' /\ cb_fiber'[v] # cur'[u]
                 /\ ~DeadUser(cur[u])' => \A v \in AllThreads : ~Took(v, cur[u])'
                 /\ \/ ft'[u].kind = "cb" /\ cb_fiber'[u] = cur'[u]
                    \/ /\ ft'[u].kind = "fiber" /\ ft'[u].task = cur'[u]
                       /\ cb_fiber'[u] # cur'[u]
      <3>1. \A v \in AllThreads \ {u} : ~On(v, cur[u]) /\ cb_fiber[v] # cur[u]
        BY <2>3 DEF OwnInv, StackInv
      <3>2. ~DeadUser(cur[u]) => \A v \in AllThreads : ~Took(v, cur[u])
        BY <2>3 DEF OwnInv, StackInv
      <3>3. \/ ft[u].kind = "cb" /\ cb_fiber[u] = cur[u]
            \/ /\ ft[u].kind = "fiber" /\ ft[u].task = cur[u]
               /\ cb_fiber[u] # cur[u]
        BY <2>3 DEF OwnInv, StackInv
      <3> QED
        BY <1>1, <1>5, <1>8, <1>9, <2>2, <2>3, <3>1, <3>2, <3>3
    <2>4. \A v \in AllThreads \ {t} : ~On(v, f)' /\ cb_fiber'[v] # f
      BY <1>5, <1>6, <1>8
    <2> QED
      BY <1>1, <1>8, <2>1, <2>2, <2>3, <2>4 DEF StackInv, Holding
  <1>14. KeptInv'
    <2> SUFFICES ASSUME NEW u \in AllThreads, cb_fiber'[u] # NoTask
                 PROVE  /\ cb_fiber'[u] \in Cbs
                        /\ \A v \in AllThreads \ {u} : cb_fiber'[v] # cb_fiber'[u]
                        /\ ~On(u, cb_fiber[u])' =>
                              /\ m_state'[cb_fiber'[u]] = "INIT"
                              /\ m_cb'[cb_fiber'[u]] = NoTask
                              /\ parkedOn'[cb_fiber'[u]] = NoThread
                              /\ ~Listed(cb_fiber[u])'
                              /\ \A v \in AllThreads :
                                   ~Took(v, cb_fiber[u])' /\ ~On(v, cb_fiber[u])'
      BY DEF KeptInv
    <2>1. CASE u = t  BY <1>5, <1>6, <1>8, <2>1
    <2>2. CASE u # t
      <3>1. cb_fiber'[u] = cb_fiber[u] /\ cb_fiber[u] \in Tasks \ {f}
        BY <1>5, <1>6, <2>2
      <3> QED
        BY <1>1, <1>5, <1>8, <1>9, <2>2, <3>1 DEF OwnInv, KeptInv
    <2> QED  BY <2>1, <2>2
  <1>15. ParkInv'
    BY <1>1, <1>5, <1>6, <1>8, <1>9 DEF OwnInv, ParkInv
  <1>16. BookInv'
    <2>1. \A g \in Tasks \ submitted :
             Fresh(g)' /\ ~Listed(g)' /\ \A u \in AllThreads : ~Took(u, g)'
      <3>1. f \in submitted \/ f = c
        BY <1>4 DEF OwnInv, BookInv, Fresh
      <3> QED  BY <1>3, <1>8, <1>9, <1>10, <3>1 DEF OwnInv, BookInv
    <2>2. /\ \A g \in UserFibers : m_cb'[g] \in {g, NoTask}
          /\ \A g \in Cbs : m_cb'[g] \in (Cbs \cap submitted) \cup {NoTask}
      BY <1>3, <1>5, <1>6 DEF OwnInv, BookInv
    <2>3. \A g, h \in Tasks : m_cb'[g] = m_cb'[h] /\ m_cb'[g] # NoTask => g = h
      <3>1. \A g \in Tasks : m_cb[g] # c
        BY <1>3, TaskAssumption DEF OwnInv, BookInv, Fresh, Tasks
      <3> QED  BY <1>9, <3>1 DEF OwnInv, BookInv
    <2>4. /\ \A g \in Tasks : m_cb'[g] \in ended' => m_state'[g] \in Dead
          /\ \A g \in Tasks : m_state'[g] \in Dead => m_cb'[g] \in ended' \cup {NoTask}
          /\ NoTask \notin ended'
      BY <1>1, <1>3, <1>9 DEF OwnInv, BookInv, Dead
    <2> QED  BY <1>1, <2>1, <2>2, <2>3, <2>4 DEF BookInv
  <1>17. NoTaskLost'
    <2> SUFFICES ASSUME NEW d \in submitted \ ended
                 PROVE  (Queued(d) \/ InHand(d) \/ Parked(d))'
      BY <1>1 DEF NoTaskLost
    <2>1. CASE d = c  BY <1>1, <1>5, <1>9, <2>1 DEF InHand, Holding
    <2>2. CASE d # c
      <3>1. \A g \in Tasks : m_cb[g] = d => m_cb'[g] = d /\ g # f
        BY <1>6, <1>9
      <3>2. Queued(d) \/ InHand(d) \/ Parked(d)  BY DEF OwnInv, NoTaskLost
      <3>3. Parked(d) => Parked(d)'  BY <1>1, <3>1 DEF Parked
      <3>4. InHand(d) => InHand(d)'
        BY <1>1, <1>2, <1>5, <2>2, <3>1 DEF InHand, Holding
      <3>5. Queued(d) => Queued(d)'
        <4>1. \A i \in 1..Len(m_fibers) : m_fibers[i].task \in Tasks
          BY DEF Entries
        <4> QED  BY <1>1, <3>1, <4>1 DEF Queued
      <3> QED  BY <3>2, <3>3, <3>4, <3>5
    <2> QED  BY <2>1, <2>2
  <1> QED
    BY <1>7, <1>11, <1>12, <1>13, <1>14, <1>15, <1>16, <1>17 DEF OwnInv

\* A fiber that ended is let go: a callback's fiber is kept, blank, for the
\* thread's next callback.
LEMMA OwnPostDead ==
  ASSUME IndInv, OwnInv, NEW t \in AllThreads, PostDead(t)
  PROVE  OwnInv'
  <1> USE OwnTypes
  <1>1. /\ pc[t] = "post" /\ m_state[cur[t]] \in Dead
        /\ cur' = [cur EXCEPT ![t] = NoTask] /\ ft' = [ft EXCEPT ![t] = NoEntry]
        /\ pc' = [pc EXCEPT ![t] = "scan"]
        /\ UNCHANGED <<m_fibers, cb_fiber, setup, submitted, ended, parkedOn>>
    BY DEF PostDead, Goto, client
  <1>2. PICK f \in Tasks : f = cur[t]  BY <1>1 DEF Holding
  <1>3. /\ m_state[f] \in Dead /\ parkedOn[f] = NoThread
        /\ f \in Cbs => ~Listed(f)
        /\ \A u \in AllThreads \ {t} : ~On(u, f) /\ cb_fiber[u] # f
        /\ ~DeadUser(f) => \A u \in AllThreads : ~Took(u, f)
        /\ \/ ft[t].kind = "cb" /\ cb_fiber[t] = f
           \/ ft[t].kind = "fiber" /\ cb_fiber[t] # f
    BY <1>1, <1>2 DEF OwnInv, StackInv, StageInv, Holding, Yielded, Ended, Dead
  <1>4. m_cb[f] \in ended \cup {NoTask} /\ f \in submitted
    BY <1>1, <1>2, <1>3 DEF OwnInv, BookInv, Fresh, On, Holding
  <1>5. \/ /\ ft[t].kind = "cb" /\ f \in Cbs /\ f \notin UserFibers
           /\ m_state' = [m_state EXCEPT ![f] = "INIT"]
           /\ m_cb' = [m_cb EXCEPT ![f] = NoTask]
        \/ ft[t].kind = "fiber" /\ UNCHANGED <<m_state, m_cb>>
    <2>1. ft[t].kind = "cb" => f \in Cbs /\ f \notin UserFibers
      BY <1>3, TaskAssumption DEF OwnInv, KeptInv
    <2> QED  BY <1>2, <1>3, <2>1 DEF PostDead, fibers
  <1>6. Entries' = Entries /\ ListDistinct'
    BY <1>1 DEF Entries, ListDistinct, OwnInv
  <1>7. /\ \A u \in AllThreads, g \in Tasks :
              /\ On(u, g)' => On(u, g)
              /\ Took(u, g)' <=> Took(u, g)
              /\ g # f => (On(u, g)' <=> On(u, g))
        /\ \A u \in AllThreads : ~On(u, f)'
    BY <1>1, <1>2, <1>3 DEF On, Took, Holding
  <1>8. /\ \A g \in Tasks \ {f} : m_state'[g] = m_state[g] /\ m_cb'[g] = m_cb[g]
        /\ \A g \in Tasks : /\ Live(g)' <=> Live(g)
                            /\ Listed(g)' <=> Listed(g)
        /\ ~Live(f) /\ m_state'[f] \in Dead \cup {"INIT"}
        /\ m_cb'[f] \in ended \cup {NoTask}
        /\ f \in UserFibers => m_state'[f] = m_state[f]
    BY <1>1, <1>3, <1>4, <1>5, <1>6 DEF Listed, Live
  <1>9. ~Fresh(f) /\ \A g \in Tasks : Fresh(g) => Fresh(g)'
    BY <1>1, <1>2, <1>3, <1>5, <1>7, <1>8 DEF Fresh, On, Holding, Dead
  <1> USE DEF Proper, Resumes, Rests, DeadUser
  <1>10. ListInv'
    <2>1. \A e \in Entries : e.task = f => f \in UserFibers /\ e.kind = "fiber"
      BY <1>3, <1>8, <1>9 DEF OwnInv, ListInv, Listed, Tasks
    <2> QED
      BY <1>1, <1>3, <1>6, <1>7, <1>8, <1>9, <2>1 DEF OwnInv, ListInv
  <1>11. HandInv'
    <2>1. ASSUME NEW u \in AllThreads, pc'[u] = "dispatch", ft'[u].kind # "none"
          PROVE  /\ pc[u] = "dispatch" /\ ft'[u] = ft[u] /\ u # t
                 /\ ft[u].task \in Tasks
                 /\ ft[u].task = f => f \in UserFibers /\ ft[u].kind = "fiber"
      <3>1. /\ pc[u] = "dispatch" /\ ft'[u] = ft[u] /\ u # t
            /\ ft[u].task \in Tasks /\ ft[u].kind # "none"
        BY <1>1, <2>1
      <3>2. Proper(ft[u])  BY <3>1 DEF OwnInv, HandInv
      <3> QED  BY <1>3, <1>9, <3>1, <3>2 DEF Took
    <2> QED
      BY <1>1, <1>3, <1>7, <1>8, <1>9, <2>1 DEF OwnInv, HandInv
  <1>12. StackInv'
    <2>1. ASSUME NEW u \in AllThreads, pc'[u] \in Holding
          PROVE  /\ StageInv(pc[u], u, cur[u])' /\ u # t /\ pc[u] \in Holding
                 /\ cur'[u] = cur[u] /\ cur[u] \in Tasks \ {f} /\ ft'[u] = ft[u]
      <3>1. /\ cur[u] \in Tasks \ {f} /\ pc'[u] = pc[u] /\ cur'[u] = cur[u]
            /\ u # t /\ ft'[u] = ft[u]
        BY <1>1, <1>3, <2>1 DEF On, Holding
      <3>2. StageInv(pc[u], u, cur[u])  BY <2>1, <3>1 DEF OwnInv, StackInv
      <3> QED
        BY <1>1, <1>6, <1>8, <2>1, <3>1, <3>2
           DEF StageInv, Handed, Yielded, Ended
    <2> QED
      BY <1>1, <1>7, <1>8, <2>1 DEF OwnInv, StackInv
  <1>13. KeptInv'
    <2> SUFFICES ASSUME NEW u \in AllThreads, cb_fiber[u] # NoTask
                 PROVE  /\ cb_fiber[u] \in Cbs
                        /\ \A v \in AllThreads \ {u} : cb_fiber[v] # cb_fiber[u]
                        /\ ~On(u, cb_fiber[u])' =>
                              /\ m_state'[cb_fiber[u]] = "INIT"
                              /\ m_cb'[cb_fiber[u]] = NoTask
                              /\ parkedOn[cb_fiber[u]] = NoThread
                              /\ ~Listed(cb_fiber[u])'
                              /\ \A v \in AllThreads :
                                   ~Took(v, cb_fiber[u])' /\ ~On(v, cb_fiber[u])'
      BY <1>1 DEF KeptInv
    <2>1. /\ cb_fiber[u] \in Cbs
          /\ \A v \in AllThreads \ {u} : cb_fiber[v] # cb_fiber[u]
      BY DEF OwnInv, KeptInv
    <2>2. CASE cb_fiber[u] = f
      <3>1. u = t /\ ft[t].kind = "cb"  BY <1>3, <2>2
      <3>2. \A v \in AllThreads : ~Took(v, f)
        BY <1>3, <1>5, <3>1
      <3> QED  BY <1>1, <1>3, <1>5, <1>7, <1>8, <2>1, <2>2, <3>1, <3>2
    <2>3. CASE cb_fiber[u] # f
      BY <1>1, <1>7, <1>8, <2>1, <2>3 DEF OwnInv, KeptInv
    <2> QED  BY <2>2, <2>3
  <1>14. ParkInv'
    BY <1>1, <1>3, <1>7, <1>8 DEF OwnInv, ParkInv
  <1>15. BookInv'
    <2>1. \A c \in Tasks \ submitted :
             Fresh(c)' /\ ~Listed(c)' /\ \A u \in AllThreads : ~Took(u, c)'
      BY <1>7, <1>8, <1>9 DEF OwnInv, BookInv
    <2>2. /\ \A g \in UserFibers : m_cb'[g] \in {g, NoTask}
          /\ \A g \in Cbs : m_cb'[g] \in (Cbs \cap submitted) \cup {NoTask}
          /\ \A g, h \in Tasks : m_cb'[g] = m_cb'[h] /\ m_cb'[g] # NoTask => g = h
      BY <1>5 DEF OwnInv, BookInv
    <2>3. /\ \A g \in Tasks : m_cb'[g] \in ended' => m_state'[g] \in Dead
          /\ \A g \in Tasks : m_state'[g] \in Dead => m_cb'[g] \in ended' \cup {NoTask}
          /\ NoTask \notin ended'
      BY <1>1, <1>5 DEF OwnInv, BookInv, Dead
    <2> QED  BY <1>1, <2>1, <2>2, <2>3 DEF BookInv
  <1>16. NoTaskLost'
    <2> SUFFICES ASSUME NEW c \in submitted \ ended
                 PROVE  (Queued(c) \/ InHand(c) \/ Parked(c))'
      BY <1>1 DEF NoTaskLost
    <2>1. \A g \in Tasks : m_cb[g] = c => m_cb'[g] = c /\ g # f
      BY <1>4, <1>8
    <2>2. Queued(c) \/ InHand(c) \/ Parked(c)  BY DEF OwnInv, NoTaskLost
    <2>3. Parked(c) => Parked(c)'  BY <1>1, <2>1 DEF Parked
    <2>4. InHand(c) => InHand(c)'
      BY <1>1, <1>2, <2>1 DEF InHand, Holding
    <2>5. Queued(c) => Queued(c)'
      <3>1. \A i \in 1..Len(m_fibers) : m_fibers[i].task \in Tasks
        BY DEF Entries
      <3> QED  BY <1>1, <2>1, <3>1 DEF Queued
    <2> QED  BY <2>2, <2>3, <2>4, <2>5
  <1> QED
    BY <1>6, <1>10, <1>11, <1>12, <1>13, <1>14, <1>15, <1>16 DEF OwnInv

-----------------------------------------------------------------------------
(* The list, as the set of its entries.                                    *)

\* Being queued is a matter of the set of entries.
LEMMA QueuedEntries ==
  ASSUME NEW c
  PROVE  Queued(c) <=>
           \E e \in Entries : \/ e.kind = "cb" /\ e.task = c
                              \/ e.kind = "fiber" /\ m_cb[e.task] = c
  BY DEF Queued, Entries

ElementsOf(q)    == {q[i] : i \in 1..Len(q)}
DistinctTasks(q) == \A i, j \in 1..Len(q) : q[i].task = q[j].task => i = j

\* schedule() puts its entry on a list.
LEMMA AppendEntry ==
  ASSUME NEW q \in Seq(FiberAndThread), NEW e \in FiberAndThread,
         DistinctTasks(q), \A d \in ElementsOf(q) : d.task # e.task
  PROVE  /\ scheduleNoLock(q, e) \in Seq(FiberAndThread)
         /\ ElementsOf(scheduleNoLock(q, e)) = ElementsOf(q) \cup {e}
         /\ DistinctTasks(scheduleNoLock(q, e))
  <1> DEFINE r == Append(q, e)
  <1>1. /\ Len(q) \in Nat /\ Len(r) = Len(q) + 1
        /\ \A i \in 1..Len(q) : r[i] = q[i]
        /\ r[Len(q) + 1] = e
    BY AppendProperties, LenProperties
  <1>2. scheduleNoLock(q, e) = r /\ r \in Seq(FiberAndThread)
    BY ScheduleType
  <1> HIDE DEF r
  <1>3. ElementsOf(r) = ElementsOf(q) \cup {e}  BY <1>1 DEF ElementsOf
  <1>4. \A i \in 1..Len(q) : q[i].task # e.task  BY DEF ElementsOf
  <1>5. DistinctTasks(r)  BY <1>1, <1>4 DEF DistinctTasks
  <1> QED  BY <1>2, <1>3, <1>5

\* schedule() puts its entry on the list.
LEMMA ListAppend ==
  ASSUME IndInv, OwnInv, NEW e \in FiberAndThread,
         m_fibers' = scheduleNoLock(m_fibers, e), ~Listed(e.task)
  PROVE  Entries' = Entries \cup {e} /\ ListDistinct'
  <1>1. m_fibers \in Seq(FiberAndThread)  BY DEF IndInv, TypeOK
  <1>2. Entries = ElementsOf(m_fibers) /\ DistinctTasks(m_fibers)
    BY DEF Entries, ElementsOf, OwnInv, ListDistinct, DistinctTasks
  <1>3. /\ ElementsOf(m_fibers') = Entries \cup {e}
        /\ DistinctTasks(m_fibers')
    BY <1>1, <1>2, AppendEntry DEF Listed
  <1> QED
    BY <1>3 DEF Entries, ElementsOf, ListDistinct, DistinctTasks

\* Erasing the i-th entry.
LEMMA RemoveAtElements ==
  ASSUME NEW S, NEW s \in Seq(S), NEW i \in 1..Len(s)
  PROVE  /\ Len(RemoveAt(s, i)) = Len(s) - 1
         /\ \A k \in 1..(Len(s) - 1) :
               RemoveAt(s, i)[k] = IF k < i THEN s[k] ELSE s[k + 1]
  <1> DEFINE a == SubSeq(s, 1, i - 1)
             b == SubSeq(s, i + 1, Len(s))
  <1>0. Len(s) \in Nat /\ i \in Nat /\ i >= 1 /\ i <= Len(s)
    BY LenProperties
  <1>1. a \in Seq(S) /\ Len(a) = i - 1 /\ \A k \in 1..(i - 1) : a[k] = s[k]
    <2>1. \A k \in 1..(i - 1) : s[k] \in S  BY <1>0, ElementOfSeq
    <2> QED  BY <1>0, <2>1, SubSeqProperties
  <1>2. /\ b \in Seq(S) /\ Len(b) = Len(s) - i
        /\ \A k \in 1..(Len(s) - i) : b[k] = s[i + k]
    <2>1. \A k \in (i + 1)..Len(s) : s[k] \in S  BY <1>0, ElementOfSeq
    <2>2. /\ b \in Seq(S)
          /\ Len(b) = IF i + 1 <= Len(s) THEN Len(s) - (i + 1) + 1 ELSE 0
          /\ \A k \in 1..(Len(s) - (i + 1) + 1) : b[k] = s[(i + 1) + k - 1]
      BY <1>0, <2>1, SubSeqProperties
    <2> QED  BY <1>0, <2>2
  <1> HIDE DEF a, b
  <1>3. RemoveAt(s, i) = a \o b  BY DEF RemoveAt, a, b
  <1>4. /\ Len(a \o b) = Len(a) + Len(b)
        /\ \A k \in 1..(Len(a) + Len(b)) :
              (a \o b)[k] = IF k <= Len(a) THEN a[k] ELSE b[k - Len(a)]
    BY <1>1, <1>2, ConcatProperties
  <1>5. Len(a) + Len(b) = Len(s) - 1  BY <1>0, <1>1, <1>2
  <1>6. ASSUME NEW k \in 1..(Len(s) - 1)
        PROVE  (a \o b)[k] = IF k < i THEN s[k] ELSE s[k + 1]
    <2>1. (a \o b)[k] = IF k <= Len(a) THEN a[k] ELSE b[k - Len(a)]
      BY <1>4, <1>5
    <2>2. CASE k < i
      BY <1>0, <1>1, <2>1, <2>2
    <2>3. CASE ~(k < i)
      <3>1. (a \o b)[k] = b[k - (i - 1)]  BY <1>0, <1>1, <2>1, <2>3
      <3>2. k - (i - 1) \in 1..(Len(s) - i) /\ i + (k - (i - 1)) = k + 1
        BY <1>0, <2>3
      <3> QED  BY <1>2, <2>3, <3>1, <3>2
    <2> QED  BY <2>2, <2>3
  <1> QED  BY <1>3, <1>4, <1>5, <1>6

\* run() takes an entry off the list, and with it all that the list has for
\* its task.
LEMMA ListRemove ==
  ASSUME IndInv, OwnInv, NEW i \in 1..Len(m_fibers),
         m_fibers' = RemoveAt(m_fibers, i)
  PROVE  /\ Entries' = Entries \ {m_fibers[i]} /\ ListDistinct'
         /\ \A e \in Entries' : e.task # m_fibers[i].task
  <1> DEFINE n == Len(m_fibers)
  <1>0. m_fibers \in Seq(FiberAndThread) /\ n \in Nat
    BY LenProperties DEF IndInv, TypeOK
  <1>1. /\ Len(m_fibers') = n - 1
        /\ \A k \in 1..(n - 1) :
              m_fibers'[k] = IF k < i THEN m_fibers[k] ELSE m_fibers[k + 1]
    BY <1>0, RemoveAtElements
  <1>2. \A k \in 1..(n - 1) : \E j \in 1..n \ {i} : m_fibers'[k] = m_fibers[j]
    BY <1>0, <1>1
  <1>3. \A j \in 1..n \ {i} : \E k \in 1..(n - 1) : m_fibers'[k] = m_fibers[j]
    <2> SUFFICES ASSUME NEW j \in 1..n \ {i}
                 PROVE  \E k \in 1..(n - 1) : m_fibers'[k] = m_fibers[j]
      OBVIOUS
    <2>1. CASE j < i
      <3>1. j \in 1..(n - 1) /\ m_fibers'[j] = m_fibers[j]  BY <1>0, <1>1, <2>1
      <3> QED  BY <3>1
    <2>2. CASE j > i
      <3>1. j - 1 \in 1..(n - 1) /\ m_fibers'[j - 1] = m_fibers[j]
        BY <1>0, <1>1, <2>2
      <3> QED  BY <3>1
    <2> QED  BY <1>0, <2>1, <2>2
  <1>4. \A j \in 1..n \ {i} : m_fibers[j].task # m_fibers[i].task
    BY DEF OwnInv, ListDistinct
  <1>5. Entries' = {m_fibers[j] : j \in 1..n \ {i}}
    <2>1. Entries' = {m_fibers'[k] : k \in 1..(n - 1)}  BY <1>1 DEF Entries
    <2>2. ASSUME NEW e \in Entries'
          PROVE  e \in {m_fibers[j] : j \in 1..n \ {i}}
      <3>1. PICK k \in 1..(n - 1) : e = m_fibers'[k]  BY <2>1
      <3>2. PICK j \in 1..n \ {i} : m_fibers'[k] = m_fibers[j]  BY <1>2
      <3> QED  BY <3>1, <3>2
    <2>3. ASSUME NEW j \in 1..n \ {i}  PROVE m_fibers[j] \in Entries'
      <3>1. PICK k \in 1..(n - 1) : m_fibers'[k] = m_fibers[j]  BY <1>3
      <3> QED  BY <2>1, <3>1
    <2> QED  BY <2>2, <2>3
  <1>6. Entries' = Entries \ {m_fibers[i]}
    BY <1>4, <1>5 DEF Entries
  <1>7. \A e \in Entries' : e.task # m_fibers[i].task  BY <1>4, <1>5
  <1>8. ListDistinct'
    <2> SUFFICES ASSUME NEW j \in 1..(n - 1), NEW k \in 1..(n - 1),
                        m_fibers'[j].task = m_fibers'[k].task
                 PROVE  j = k
      BY <1>1 DEF ListDistinct
    <2> DEFINE J == IF j < i THEN j ELSE j + 1
               K == IF k < i THEN k ELSE k + 1
    <2>1. /\ J \in 1..n /\ K \in 1..n
          /\ m_fibers'[j] = m_fibers[J] /\ m_fibers'[k] = m_fibers[K]
      BY <1>0, <1>1
    <2>2. J = K
      <3> HIDE DEF J, K
      <3> QED  BY <2>1 DEF OwnInv, ListDistinct
    <2> QED  BY <1>0, <2>2
  <1> QED  BY <1>6, <1>7, <1>8

-----------------------------------------------------------------------------
(* Steps that change the list, or let go of a fiber that lives on.         *)

\* A thread lets go of a fiber that is parked or woken, or that it puts back
\* on the list.
LEMMA OwnRelease ==
  ASSUME IndInv, OwnInv, NEW t \in AllThreads, PostReady(t) \/ SetHold(t)
  PROVE  OwnInv'
  <1> USE OwnTypes
  <1>1. /\ pc[t] \in {"post", "sethold"} /\ pc' = [pc EXCEPT ![t] = "scan"]
        /\ cur' = [cur EXCEPT ![t] = NoTask] /\ ft' = [ft EXCEPT ![t] = NoEntry]
        /\ cb_fiber' = IF ft[t].kind = "cb" THEN [cb_fiber EXCEPT ![t] = NoTask]
                                            ELSE cb_fiber
        /\ UNCHANGED <<m_cb, setup, submitted, ended, parkedOn>>
    BY DEF PostReady, SetHold, Release, Goto, client, fibers
  <1>2. PICK f \in Tasks : f = cur[t]  BY <1>1 DEF Holding
  <1>3. /\ \A u \in AllThreads \ {t} : ~On(u, f) /\ cb_fiber[u] # f
        /\ ~DeadUser(f) => \A u \in AllThreads : ~Took(u, f)
        /\ \/ ft[t].kind = "cb" /\ cb_fiber[t] = f
           \/ ft[t].kind = "fiber" /\ cb_fiber[t] # f
        /\ StageInv(pc[t], t, f)
    BY <1>1, <1>2 DEF OwnInv, StackInv, Holding
  <1> DEFINE e == [kind |-> "fiber", task |-> f, thr |-> NoThread]
  <1>4. e \in FiberAndThread /\ e.kind = "fiber" /\ e.task = f /\ e.thr = NoThread
    BY DEF FiberAndThread
  <1> HIDE DEF e
  <1>5. /\ Live(f) /\ m_state[f] \in {"READY", "HOLD"} /\ UNCHANGED m_state
        /\ \/ PostReady(t) /\ parkedOn[f] = NoThread /\ ~Listed(f)
           \/ SetHold(t) /\ Handed(t, f)
    <2>1. CASE PostReady(t)
      BY <1>2, <1>3, <2>1 DEF PostReady, StageInv, Yielded, Ended, Dead, fibers
    <2>2. CASE SetHold(t)
      <3>1. Live(f) /\ m_state[f] = "HOLD" /\ Handed(t, f)
        BY <1>3, <2>2 DEF SetHold, StageInv
      <3>2. m_state' = [m_state EXCEPT ![f] = "HOLD"]
        BY <1>2, <2>2 DEF SetHold
      <3>3. m_state' = m_state  BY <3>1, <3>2
      <3> QED  BY <2>2, <3>1, <3>3
    <2> QED  BY <2>1, <2>2
  <1>6. /\ ListDistinct'
        /\ \/ Entries' = Entries \cup {e} /\ parkedOn[f] = NoThread /\ ~Listed(f)
           \/ Entries' = Entries /\ Handed(t, f)
    <2>1. CASE PostReady(t) /\ parkedOn[f] = NoThread /\ ~Listed(f)
      <3>1. m_fibers' = scheduleNoLock(m_fibers, e)
        BY <1>2, <2>1 DEF PostReady, schedule, e
      <3> QED  BY <1>4, <2>1, <3>1, ListAppend
    <2>2. CASE SetHold(t) /\ Handed(t, f)
      <3>1. UNCHANGED m_fibers  BY <2>2 DEF SetHold
      <3> QED  BY <2>2, <3>1 DEF Entries, ListDistinct, OwnInv
    <2> QED  BY <1>5, <2>1, <2>2
  <1>7. /\ \A u \in AllThreads, g \in Tasks :
              /\ g # f => (On(u, g)' <=> On(u, g))
              /\ Took(u, g)' <=> Took(u, g)
        /\ \A u \in AllThreads : ~On(u, f)' /\ ~Took(u, f)'
    BY <1>1, <1>2, <1>3, <1>5 DEF On, Took, Holding, DeadUser, Dead
  <1>8. /\ \A g \in Tasks : Live(g)' <=> Live(g)
        /\ \A g \in Tasks \ {f} : Listed(g)' <=> Listed(g)
        /\ \A u \in AllThreads, g \in Tasks \ {f} :
              cb_fiber'[u] = g <=> cb_fiber[u] = g
        /\ \A u \in AllThreads : cb_fiber'[u] # f
    BY <1>1, <1>3, <1>4, <1>6 DEF Listed, Live
  <1>9. ~Fresh(f) /\ \A g \in Tasks : Fresh(g) => Fresh(g)'
    BY <1>1, <1>2, <1>5, <1>7, <1>8 DEF Fresh, On, Holding
  <1>10. Rests(f) /\ Rests(f)'  BY <1>5, <1>8 DEF Rests
  <1>11. f \in submitted
    BY <1>9 DEF OwnInv, BookInv
  <1>12. ListInv'
    <2>1. ASSUME NEW d \in Entries, d.task # f
          PROVE  /\ Proper(d)'
                 /\ Resumes(d)' =>
                       \/ /\ Rests(d.task)'
                          /\ \A u \in AllThreads :
                                ~On(u, d.task)' /\ cb_fiber'[u] # d.task
                       \/ \E u \in AllThreads : On(u, d.task)' /\ d.thr = u
      <3>1. d.task \in Tasks \ {f}  BY <2>1
      <3> QED
        BY <1>1, <1>5, <1>7, <1>8, <1>9, <2>1, <3>1
           DEF OwnInv, ListInv, Proper, Resumes, Rests, DeadUser
    <2>2. ASSUME NEW d \in Entries', d.task = f
          PROVE  /\ Proper(d)'
                 /\ Rests(d.task)'
                 /\ \A u \in AllThreads :
                       ~On(u, d.task)' /\ cb_fiber'[u] # d.task
      <3>1. d.kind = "fiber" /\ parkedOn[f] = NoThread
        <4>1. CASE d = e  BY <1>4, <1>6, <4>1 DEF Listed, Handed
        <4>2. CASE d # e
          <5>1. d \in Entries /\ Listed(f)  BY <1>6, <2>2, <4>2 DEF Listed
          <5>2. Proper(d)  BY <5>1 DEF OwnInv, ListInv
          <5> QED  BY <1>6, <1>9, <2>2, <5>1, <5>2 DEF Handed, Proper, Resumes
        <4> QED  BY <4>1, <4>2
      <3> QED
        BY <1>1, <1>5, <1>7, <1>8, <1>10, <2>2, <3>1 DEF Proper, Resumes
    <2> QED  BY <1>4, <1>6, <2>1, <2>2 DEF ListInv
  <1>13. HandInv'
    <2>1. ASSUME NEW u \in AllThreads, pc'[u] = "dispatch", ft'[u].kind # "none"
          PROVE  /\ pc[u] = "dispatch" /\ ft'[u] = ft[u]
                 /\ ft[u].task \in Tasks \ {f}
      BY <1>1, <1>7, <2>1 DEF Took
    <2> QED
      BY <1>1, <1>5, <1>7, <1>8, <1>9, <2>1
         DEF OwnInv, HandInv, Proper, Resumes, Rests, DeadUser
  <1>14. StackInv'
    <2>1. ASSUME NEW u \in AllThreads, pc'[u] \in Holding
          PROVE  /\ StageInv(pc[u], u, cur[u])' /\ u # t /\ pc[u] \in Holding
                 /\ cur'[u] = cur[u] /\ cur[u] \in Tasks \ {f} /\ ft'[u] = ft[u]
      <3>1. /\ cur[u] \in Tasks \ {f} /\ pc'[u] = pc[u] /\ cur'[u] = cur[u]
            /\ u # t /\ ft'[u] = ft[u]
        BY <1>1, <1>3, <2>1 DEF On, Holding
      <3>2. StageInv(pc[u], u, cur[u])  BY <2>1, <3>1 DEF OwnInv, StackInv
      <3>3. Handed(u, cur[u]) => Handed(u, cur[u])'
        BY <1>1, <1>6, <1>8, <3>1 DEF Handed
      <3> QED
        BY <1>1, <1>5, <1>8, <2>1, <3>1, <3>2, <3>3
           DEF StageInv, Yielded, Ended, Rests
    <2> QED
      BY <1>1, <1>5, <1>7, <1>8, <2>1 DEF OwnInv, StackInv, DeadUser
  <1>15. KeptInv'
    <2>1. \A u \in AllThreads : cb_fiber'[u] # NoTask =>
             cb_fiber'[u] = cb_fiber[u] /\ cb_fiber[u] \in Tasks \ {f}
      BY <1>1, <1>8
    <2> QED  BY <1>1, <1>5, <1>7, <1>8, <2>1 DEF OwnInv, KeptInv
  <1>16. ParkInv'
    <2>1. parkedOn[f] # NoThread => ~Listed(f)' /\ m_state[f] = "HOLD"
      <3>1. parkedOn[f] # NoThread => Entries' = Entries /\ ~Listed(f)
        BY <1>6 DEF Handed
      <3>2. parkedOn[f] # NoThread => m_state[f] # "READY"
        BY <1>3, <1>5 DEF SetHold, StageInv
      <3> QED  BY <1>5, <3>1, <3>2 DEF Listed
    <2> QED
      BY <1>1, <1>5, <1>7, <1>8, <2>1 DEF OwnInv, ParkInv
  <1>17. BookInv'
    BY <1>1, <1>5, <1>7, <1>8, <1>9, <1>11 DEF OwnInv, BookInv
  <1>18. NoTaskLost'
    <2> SUFFICES ASSUME NEW c \in submitted \ ended
                 PROVE  (Queued(c) \/ InHand(c) \/ Parked(c))'
      BY <1>1 DEF NoTaskLost
    <2>1. CASE m_cb[f] = c
      <3>1. parkedOn[f] # NoThread => Parked(c)'  BY <1>1, <2>1 DEF Parked
      <3>2. parkedOn[f] = NoThread =>
               \E d \in Entries' : d.kind = "fiber" /\ d.task = f
        <4>1. Handed(t, f) /\ parkedOn[f] = NoThread =>
                 \E d \in Entries : d.kind = "fiber" /\ d.task = f
          BY ThreadAssumption DEF Handed
        <4> QED  BY <1>4, <1>6, <4>1
      <3>3. parkedOn[f] = NoThread => Queued(c)'
        <4>1. parkedOn[f] = NoThread => \E i \in 1..Len(m_fibers') :
                 m_fibers'[i].kind = "fiber" /\ m_fibers'[i].task = f
          BY <3>2 DEF Entries
        <4> QED  BY <1>1, <2>1, <4>1 DEF Queued
      <3> QED  BY <3>1, <3>3
    <2>2. CASE m_cb[f] # c
      <3>1. Queued(c) \/ InHand(c) \/ Parked(c)  BY DEF OwnInv, NoTaskLost
      <3>2. Parked(c) => Parked(c)'  BY <1>1 DEF Parked
      <3>3. InHand(c) => InHand(c)'
        BY <1>1, <1>2, <2>2 DEF InHand, Holding
      <3>4. Queued(c) => Queued(c)'
        <4>1. ASSUME Queued(c)
              PROVE  \E d \in Entries' : \/ d.kind = "cb" /\ d.task = c
                                         \/ d.kind = "fiber" /\ m_cb[d.task] = c
          BY <1>6, <4>1, QueuedEntries
        <4> QED  BY <1>1, <4>1 DEF Queued, Entries
      <3> QED  BY <3>1, <3>2, <3>3, <3>4
    <2> QED  BY <2>1, <2>2
  <1> QED
    BY <1>6, <1>12, <1>13, <1>14, <1>15, <1>16, <1>17, <1>18 DEF OwnInv

\* run() takes the first entry that is eligible.
LEMMA OwnScanTakes ==
  ASSUME IndInv, OwnInv, NEW t \in AllThreads, ScanTakes(t)
  PROVE  OwnInv'
  <1> USE OwnTypes
  <1>1. PICK i \in 1..Len(m_fibers) :
          /\ Eligible(m_fibers[i], t)
          /\ ft' = [ft EXCEPT ![t] = m_fibers[i]]
          /\ m_fibers' = RemoveAt(m_fibers, i)
    BY DEF ScanTakes, FirstEligible
  <1>2. /\ pc[t] = "scan" /\ pc' = [pc EXCEPT ![t] = "dispatch"]
        /\ UNCHANGED <<m_state, m_cb, cb_fiber, cur, setup, submitted, ended,
                       parkedOn>>
    BY DEF ScanTakes, Goto, client, fibers
  <1>3. PICK e \in Entries : e = m_fibers[i]  BY DEF Entries
  <1>4. PICK f \in Tasks : f = e.task  OBVIOUS
  <1>5. /\ Entries' = Entries \ {e} /\ ListDistinct'
        /\ \A d \in Entries' : d.task # f
    BY <1>1, <1>3, <1>4, ListRemove
  <1>6. /\ Proper(e)
        /\ Resumes(e) =>
              Rests(f) /\ \A u \in AllThreads : ~On(u, f) /\ cb_fiber[u] # f
        /\ ~DeadUser(f) => \A u \in AllThreads : ~Took(u, f)
        /\ f \in submitted /\ e.kind # "none" /\ parkedOn[f] = NoThread
    <2>1. Listed(f)  BY <1>4 DEF Listed
    <2>2. /\ Proper(e)
          /\ Resumes(e) =>
              \/ /\ Rests(f)
                 /\ \A u \in AllThreads : ~On(u, f) /\ cb_fiber[u] # f
              \/ \E u \in AllThreads : On(u, f) /\ e.thr = u
      BY <1>4 DEF OwnInv, ListInv
    <2>3. \A u \in AllThreads : On(u, f) => e.thr # u
      BY <1>1, <1>2, <1>3, ThreadAssumption DEF Eligible, On, Holding
    <2>4. ~DeadUser(f) => \A u \in AllThreads : ~Took(u, f)
      BY <2>1 DEF OwnInv, HandInv, Took
    <2>5. f \in submitted  BY <2>1 DEF OwnInv, BookInv
    <2>6. parkedOn[f] = NoThread  BY <2>1 DEF OwnInv, ParkInv
    <2> QED  BY <2>2, <2>3, <2>4, <2>5, <2>6
  <1>7. /\ \A u \in AllThreads, g \in Tasks :
              /\ On(u, g)' <=> On(u, g)
              /\ g # f => (Took(u, g)' <=> Took(u, g))
        /\ \A u \in AllThreads \ {t} : Took(u, f)' <=> Took(u, f)
        /\ Took(t, f)' /\ ft'[t] = e
        /\ \A g \in Tasks : /\ Live(g)' <=> Live(g)
                            /\ Fresh(g)' <=> Fresh(g)
                            /\ DeadUser(g)' <=> DeadUser(g)
                            /\ Rests(g)' <=> Rests(g)
        /\ ~Listed(f)' /\ \A g \in Tasks \ {f} : Listed(g)' <=> Listed(g)
    <2>1. /\ \A u \in AllThreads, g \in Tasks :
              /\ On(u, g)' <=> On(u, g)
              /\ g # f => (Took(u, g)' <=> Took(u, g))
          /\ \A u \in AllThreads \ {t} : Took(u, f)' <=> Took(u, f)
          /\ Took(t, f)' /\ ft'[t] = e
      BY <1>1, <1>2, <1>3, <1>4 DEF On, Took, Holding
    <2>2. ~Listed(f)' /\ \A g \in Tasks \ {f} : Listed(g)' <=> Listed(g)
      BY <1>4, <1>5 DEF Listed
    <2> QED  BY <1>2, <2>1, <2>2 DEF Live, Fresh, DeadUser, Rests
  <1>8. \A d \in FiberAndThread : /\ Proper(d)' <=> Proper(d)
                                  /\ Resumes(d)' <=> Resumes(d)
    BY <1>2, <1>7 DEF Proper, Resumes
  <1>9. ListInv'
    BY <1>2, <1>5, <1>7, <1>8 DEF OwnInv, ListInv
  <1>10. HandInv'
    <2>1. ASSUME NEW u \in AllThreads \ {t}, pc'[u] = "dispatch",
                 ft'[u].kind # "none"
          PROVE  /\ pc[u] = "dispatch" /\ ft'[u] = ft[u]
                 /\ ft[u].task \in Tasks /\ ft[u].kind # "none"
                 /\ ft[u].task = f => DeadUser(f)
      BY <1>1, <1>2, <1>6, <2>1 DEF Took
    <2>2. ASSUME NEW u \in AllThreads \ {t}, pc'[u] = "dispatch",
                 ft'[u].kind # "none"
          PROVE  /\ Proper(ft[u])'
                 /\ Resumes(ft[u])' =>
                       /\ Rests(ft[u].task)'
                       /\ \A v \in AllThreads :
                            ~On(v, ft[u].task)' /\ cb_fiber'[v] # ft'[u].task
                 /\ ~DeadUser(ft[u].task)' =>
                       /\ ~Listed(ft[u].task)'
                       /\ \A v \in AllThreads \ {u} : ~Took(v, ft[u].task)'
      BY <1>2, <1>7, <1>8, <2>1, <2>2 DEF OwnInv, HandInv
    <2>3. /\ Proper(ft[t])'
          /\ Resumes(ft[t])' =>
                /\ Rests(ft[t].task)'
                /\ \A v \in AllThreads :
                     ~On(v, ft[t].task)' /\ cb_fiber'[v] # ft'[t].task
          /\ ~DeadUser(ft[t].task)' =>
                /\ ~Listed(ft[t].task)'
                /\ \A v \in AllThreads \ {t} : ~Took(v, ft[t].task)'
      BY <1>2, <1>4, <1>6, <1>7, <1>8
    <2> QED  BY <2>2, <2>3 DEF HandInv
  <1>11. StackInv'
    <2>1. ASSUME NEW u \in AllThreads, pc'[u] \in Holding
          PROVE  /\ u # t /\ pc[u] \in Holding /\ pc'[u] = pc[u]
                 /\ ft'[u] = ft[u] /\ cur[u] \in Tasks
                 /\ cur[u] = f => DeadUser(f)
                 /\ StageInv(pc[u], u, cur[u])'
      <3>1. /\ u # t /\ pc[u] \in Holding /\ pc'[u] = pc[u]
            /\ ft'[u] = ft[u] /\ cur[u] \in Tasks
        BY <1>1, <1>2, <2>1 DEF Holding
      <3>2. StageInv(pc[u], u, cur[u])  BY <3>1 DEF OwnInv, StackInv
      <3>3. cur[u] = f => DeadUser(f)
        BY <1>4, <1>6, <3>1 DEF On, Proper, Resumes, Fresh
      <3>4. CASE cur[u] = f
        <4>1. m_state[f] \in Dead /\ f \notin Cbs
          BY <3>3, <3>4, TaskAssumption DEF DeadUser
        <4>2. pc[u] \in {"out", "after", "post"}
          BY <3>1, <3>2, <3>4, <4>1
             DEF StageInv, Rests, Yielded, Holding, Dead
        <4>3. u = Root => pc[u] \notin {"park", "back"}  BY <4>2
        <4> QED
          BY <1>2, <1>6, <3>1, <3>3, <3>4, <4>1, <4>2 DEF StageInv, Ended
      <3>5. CASE cur[u] # f
        <4>1. Handed(u, cur[u]) => Handed(u, cur[u])'
          BY <1>2, <1>4, <1>5, <1>7, <3>1, <3>5 DEF Handed
        <4> QED
          BY <1>2, <1>7, <3>1, <3>2, <3>5, <4>1
             DEF StageInv, Yielded, Ended
      <3> QED  BY <3>1, <3>3, <3>4, <3>5
    <2> QED
      BY <1>2, <1>7, <2>1 DEF OwnInv, StackInv
  <1>12. KeptInv'
    <2>1. ASSUME NEW u \in AllThreads, cb_fiber[u] = f
          PROVE  On(u, f)
      <3>1. ~On(u, f) => ~Listed(f)  BY <2>1 DEF OwnInv, KeptInv
      <3> QED  BY <1>4, <3>1 DEF Listed
    <2> QED
      BY <1>2, <1>7, <2>1 DEF OwnInv, KeptInv
  <1>13. ParkInv'
    BY <1>2, <1>6, <1>7 DEF OwnInv, ParkInv
  <1>14. BookInv'
    BY <1>2, <1>6, <1>7 DEF OwnInv, BookInv
  <1>15. NoTaskLost'
    <2> SUFFICES ASSUME NEW c \in submitted \ ended
                 PROVE  (Queued(c) \/ InHand(c) \/ Parked(c))'
      BY <1>2 DEF NoTaskLost
    <2>1. Queued(c) \/ InHand(c) \/ Parked(c)  BY DEF OwnInv, NoTaskLost
    <2>2. Parked(c) => Parked(c)'  BY <1>2 DEF Parked
    <2>3. InHand(c) => InHand(c)'
      BY <1>1, <1>2 DEF InHand, Holding
    <2>4. Queued(c) => Queued(c)' \/ InHand(c)'
      <3>1. ASSUME Queued(c)
            PROVE  \E d \in Entries : \/ d.kind = "cb" /\ d.task = c
                                      \/ d.kind = "fiber" /\ m_cb[d.task] = c
        BY <3>1, QueuedEntries
      <3>2. ASSUME NEW d \in Entries', \/ d.kind = "cb" /\ d.task = c
                                       \/ d.kind = "fiber" /\ m_cb[d.task] = c
            PROVE  Queued(c)'
        BY <1>2, <3>2 DEF Queued, Entries
      <3>3. (e.kind = "cb" /\ e.task = c) \/ (e.kind = "fiber" /\ m_cb[e.task] = c)
               => InHand(c)'
        BY <1>2, <1>7 DEF InHand
      <3> QED  BY <1>5, <3>1, <3>2, <3>3
    <2> QED  BY <2>1, <2>2, <2>3, <2>4
  <1> QED
    BY <1>5, <1>9, <1>10, <1>11, <1>12, <1>13, <1>14, <1>15 DEF OwnInv

\* The client hands the tasks of C to schedule().
LEMMA OwnSubmitted ==
  ASSUME IndInv, OwnInv, NEW C \in SUBSET (Tasks \ submitted),
         submitted' = submitted \cup C, ListDistinct',
         Entries \subseteq Entries',
         \A e \in Entries' : e \in Entries \/ e.task \in C,
         \A e \in Entries' : e.task \in C =>
             e \in FiberAndThread /\ e.kind = IF e.task \in Cbs THEN "cb"
                                              ELSE "fiber",
         \A c \in C : \E e \in Entries' : e.task = c,
         UNCHANGED <<fibers, pc, ft, cb_fiber, cur, setup, ended, parkedOn>>
  PROVE  OwnInv'
  <1> USE OwnTypes DEF fibers
  <1>1. \A c \in C : /\ Fresh(c) /\ ~Listed(c)
                     /\ \A u \in AllThreads : ~Took(u, c) /\ ~On(u, c)
                     /\ parkedOn[c] = NoThread
    BY DEF OwnInv, BookInv, Fresh
  <1>2. \A u \in AllThreads, g \in Tasks :
           (On(u, g)' <=> On(u, g)) /\ (Took(u, g)' <=> Took(u, g))
    BY DEF On, Took
  <1>3. \A g \in Tasks : /\ Fresh(g)' <=> Fresh(g)
                         /\ DeadUser(g)' <=> DeadUser(g)
    BY <1>2 DEF Fresh, DeadUser
  <1>4. \A g \in Tasks \ C : /\ Live(g)' <=> Live(g)
                             /\ Listed(g)' <=> Listed(g)
                             /\ Rests(g)' <=> Rests(g)
    <2>1. \A g \in Tasks \ C : m_cb[g] \notin C
      <3> SUFFICES ASSUME NEW g \in Tasks \ C, m_cb[g] \in C  PROVE FALSE
        OBVIOUS
      <3>1. g \in Cbs => FALSE  BY <1>1 DEF Fresh
      <3>2. g \in UserFibers => FALSE  BY DEF OwnInv, BookInv
      <3> QED  BY <3>1, <3>2 DEF Tasks
    <2>2. \A g \in Tasks \ C : Listed(g)' <=> Listed(g)  BY DEF Listed
    <2> QED  BY <2>1, <2>2 DEF Live, Rests
  <1>5. \A g \in Tasks : Live(g) => Live(g)'  BY DEF Live
  <1>6. ListInv'
    <2>1. ASSUME NEW e \in Entries', e.task \in C
          PROVE  /\ Proper(e)'
                 /\ Resumes(e)' =>
                       /\ Rests(e.task)'
                       /\ \A u \in AllThreads :
                             ~On(u, e.task)' /\ cb_fiber'[u] # e.task
      <3>1. CASE e.task \in Cbs
        <4>1. e.kind = "cb"  BY <2>1, <3>1
        <4>2. Fresh(e.task)'  BY <1>1, <1>3, <2>1
        <4> QED  BY <2>1, <3>1, <4>1, <4>2 DEF Proper, Resumes
      <3>2. CASE e.task \in UserFibers /\ e.task \notin Cbs
        <4>1. e.kind = "fiber"  BY <2>1, <3>2
        <4>2. Fresh(e.task) /\ e.task \in Tasks  BY <1>1, <2>1
        <4>3. Live(e.task)' /\ m_state'[e.task] = "INIT"
          BY <2>1, <3>2, <4>2 DEF Fresh, Live
        <4>4. Fresh(e.task)'  BY <1>3, <4>2
        <4> QED
          BY <4>1, <4>3, <4>4 DEF Proper, Resumes, Rests, Fresh
      <3> QED  BY <2>1, <3>1, <3>2 DEF Tasks
    <2>2. ASSUME NEW e \in Entries, e.task \notin C
          PROVE  /\ Proper(e)'
                 /\ Resumes(e)' =>
                       \/ /\ Rests(e.task)'
                          /\ \A u \in AllThreads :
                                ~On(u, e.task)' /\ cb_fiber'[u] # e.task
                       \/ \E u \in AllThreads : On(u, e.task)' /\ e.thr = u
      <3>1. e.task \in Tasks \ C  BY <2>2
      <3> QED
        BY <1>2, <1>3, <1>4, <3>1 DEF OwnInv, ListInv, Proper, Resumes
    <2> QED  BY <2>1, <2>2 DEF ListInv
  <1>7. HandInv'
    <2>1. ASSUME NEW u \in AllThreads, pc[u] = "dispatch", ft[u].kind # "none"
          PROVE  ft[u].task \in Tasks \ C
      BY <1>1, <2>1 DEF Took
    <2> QED
      BY <1>2, <1>3, <1>4, <2>1 DEF OwnInv, HandInv, Proper, Resumes
  <1>8. StackInv'
    <2>1. ASSUME NEW u \in AllThreads, pc[u] \in Holding
          PROVE  cur[u] \in Tasks \ C /\ StageInv(pc[u], u, cur[u])'
      <3>1. cur[u] \in Tasks \ C  BY <1>1, <2>1 DEF On
      <3>2. StageInv(pc[u], u, cur[u])  BY <2>1 DEF OwnInv, StackInv
      <3>3. Handed(u, cur[u]) => Handed(u, cur[u])'
        BY <1>4, <3>1 DEF Handed
      <3> QED
        BY <1>4, <3>1, <3>2, <3>3 DEF StageInv, Yielded, Ended
    <2> QED
      BY <1>2, <1>3, <2>1 DEF OwnInv, StackInv
  <1>9. KeptInv'
    <2>1. \A u \in AllThreads : cb_fiber[u] \notin C  BY <1>1 DEF Fresh
    <2> QED  BY <1>2, <1>4, <2>1 DEF OwnInv, KeptInv
  <1>10. ParkInv'
    BY <1>1, <1>2, <1>4, <1>5 DEF OwnInv, ParkInv
  <1>11. BookInv'
    BY <1>1, <1>2, <1>3, <1>4 DEF OwnInv, BookInv
  <1>12. NoTaskLost'
    <2> SUFFICES ASSUME NEW c \in submitted \cup C, c \notin ended
                 PROVE  (Queued(c) \/ InHand(c) \/ Parked(c))'
      BY DEF NoTaskLost
    <2>0. ASSUME NEW d \in Entries', \/ d.kind = "cb" /\ d.task = c
                                     \/ d.kind = "fiber" /\ m_cb[d.task] = c
          PROVE  Queued(c)'
      BY <2>0 DEF Queued, Entries
    <2>1. CASE c \in C
      <3>1. PICK e \in Entries' : e.task = c  BY <2>1
      <3>2. c \notin Cbs => m_cb[c] = c  BY <1>1, <2>1 DEF Fresh, Tasks
      <3> QED  BY <2>0, <2>1, <3>1, <3>2
    <2>2. CASE c \in submitted
      <3>1. Queued(c) \/ InHand(c) \/ Parked(c)
        BY <2>2 DEF OwnInv, NoTaskLost
      <3>2. Parked(c) => Parked(c)'  BY DEF Parked
      <3>3. InHand(c) => InHand(c)'  BY DEF InHand
      <3>4. Queued(c) => Queued(c)'  BY <2>0, QueuedEntries
      <3> QED  BY <3>1, <3>2, <3>3, <3>4
    <2> QED  BY <2>1, <2>2
  <1> QED
    BY <1>6, <1>7, <1>8, <1>9, <1>10, <1>11, <1>12 DEF OwnInv

\* The client's schedule(), of one task and of several.
LEMMA OwnSubmit ==
  ASSUME IndInv, OwnInv, NEW t \in AllThreads, Submit(t) \/ SubmitBatch(t)
  PROVE  OwnInv'
  <1> USE OwnTypes
  <1>S. /\ setup.threads \subseteq Workers /\ setup.tasks \subseteq Tasks
    BY SetupAssumption DEF IndInv, TypeOK, Setup
  <1>0. /\ UNCHANGED <<fibers, pc, ft, cb_fiber, cur, setup, ended, parkedOn>>
        /\ m_fibers \in Seq(FiberAndThread)
        /\ Entries = ElementsOf(m_fibers) /\ DistinctTasks(m_fibers)
    BY DEF Submit, SubmitBatch, locals, IndInv, TypeOK, Entries, ElementsOf,
           OwnInv, ListDistinct, DistinctTasks
  <1>A. \A c \in Tasks \ submitted : \A d \in Entries : d.task # c
    BY DEF OwnInv, BookInv, Listed
  <1>B. \A c \in Tasks, thr \in AllThreads \cup {NoThread} :
           /\ EntryOf(c, thr) \in FiberAndThread
           /\ EntryOf(c, thr).task = c
           /\ EntryOf(c, thr).kind = IF c \in Cbs THEN "cb" ELSE "fiber"
    BY EntryOfType DEF EntryOf
  <1>1. CASE Submit(t)
    <2>1. PICK c \in Tasks \ submitted, thr \in AllThreads \cup {NoThread} :
            /\ m_fibers' = scheduleNoLock(m_fibers, EntryOf(c, thr))
            /\ submitted' = submitted \cup {c}
      BY <1>1, <1>S DEF Submit, schedule, Runners, AllThreads
    <2>2. Entries' = Entries \cup {EntryOf(c, thr)} /\ ListDistinct'
      <3>1. ~Listed(EntryOf(c, thr).task)  BY <1>A, <1>B DEF Listed
      <3> QED  BY <1>B, <2>1, <3>1, ListAppend
    <2>3. \A e \in Entries' : e.task \in {c} => e = EntryOf(c, thr)
      BY <1>A, <2>2
    <2> DEFINE C == {c}
    <2>C. /\ C \in SUBSET (Tasks \ submitted) /\ submitted' = submitted \cup C
          /\ Entries \subseteq Entries'
          /\ \A e \in Entries' : e \in Entries \/ e.task \in C
          /\ \A e \in Entries' : e.task \in C =>
                e \in FiberAndThread /\ e.kind = IF e.task \in Cbs THEN "cb"
                                                 ELSE "fiber"
          /\ \A x \in C : \E e \in Entries' : e.task = x
      BY <1>B, <2>1, <2>2, <2>3
    <2> HIDE DEF C
    <2> QED  BY <1>0, <2>2, <2>C, OwnSubmitted
  <1>2. CASE SubmitBatch(t)
    <2>1. PICK c \in Tasks \ submitted, d \in Tasks \ submitted :
            /\ c # d
            /\ m_fibers' = scheduleNoLock(scheduleNoLock(m_fibers,
                              EntryOf(c, NoThread)), EntryOf(d, NoThread))
            /\ submitted' = submitted \cup {c, d}
      BY <1>2, <1>S DEF SubmitBatch
    <2> DEFINE a == EntryOf(c, NoThread)  b == EntryOf(d, NoThread)
               q == scheduleNoLock(m_fibers, a)
    <2>2. /\ a \in FiberAndThread /\ a.task = c
          /\ a.kind = IF c \in Cbs THEN "cb" ELSE "fiber"
          /\ b \in FiberAndThread /\ b.task = d
          /\ b.kind = IF d \in Cbs THEN "cb" ELSE "fiber"
      BY <1>B
    <2> HIDE DEF a, b
    <2>3. /\ q \in Seq(FiberAndThread) /\ DistinctTasks(q)
          /\ ElementsOf(q) = Entries \cup {a}
      <3>1. \A e \in ElementsOf(m_fibers) : e.task # a.task
        BY <1>0, <1>A, <2>2
      <3> QED  BY <1>0, <2>2, <3>1, AppendEntry
    <2>4. m_fibers' = scheduleNoLock(q, b)  BY <2>1 DEF a, b
    <2> HIDE DEF q
    <2>5. /\ DistinctTasks(m_fibers')
          /\ ElementsOf(m_fibers') = Entries \cup {a, b}
      <3>1. \A e \in ElementsOf(q) : e.task # b.task
        BY <1>A, <2>1, <2>2, <2>3
      <3>2. /\ ElementsOf(m_fibers') = ElementsOf(q) \cup {b}
            /\ DistinctTasks(m_fibers')
        BY <2>2, <2>3, <2>4, <3>1, AppendEntry
      <3> QED  BY <2>3, <3>2
    <2>6. Entries' = Entries \cup {a, b} /\ ListDistinct'
      BY <2>5 DEF Entries, ElementsOf, ListDistinct, DistinctTasks
    <2>7. \A e \in Entries' : e.task \in {c, d} => e \in {a, b}
      BY <1>A, <2>6
    <2> DEFINE C == {c, d}
    <2>C. /\ C \in SUBSET (Tasks \ submitted) /\ submitted' = submitted \cup C
          /\ Entries \subseteq Entries'
          /\ \A e \in Entries' : e \in Entries \/ e.task \in C
          /\ \A e \in Entries' : e.task \in C =>
                e \in FiberAndThread /\ e.kind = IF e.task \in Cbs THEN "cb"
                                                 ELSE "fiber"
          /\ \A x \in C : \E e \in Entries' : e.task = x
      BY <2>1, <2>2, <2>6, <2>7
    <2> HIDE DEF C
    <2> QED  BY <1>0, <2>6, <2>C, OwnSubmitted
  <1> QED  BY <1>1, <1>2

\* The client schedules a fiber that has ended, or wakes one that parked.
LEMMA OwnWake ==
  ASSUME IndInv, OwnInv, NEW t \in AllThreads, SubmitDead(t) \/ Wake(t)
  PROVE  OwnInv'
  <1> USE OwnTypes
  <1>1. UNCHANGED <<m_state, m_cb, pc, ft, cb_fiber, cur, setup, submitted,
                    ended>>
    BY DEF SubmitDead, Wake, fibers, locals, client
  <1>2. PICK f \in Tasks, e \in FiberAndThread :
          /\ e.kind = "fiber" /\ e.task = f
          /\ m_fibers' = scheduleNoLock(m_fibers, e) /\ ~Listed(f)
          /\ \/ DeadUser(f) /\ UNCHANGED parkedOn
             \/ /\ parkedOn[f] # NoThread
                /\ e = [kind |-> "fiber", task |-> f, thr |-> parkedOn[f]]
                /\ parkedOn' = [parkedOn EXCEPT ![f] = NoThread]
    <2>1. CASE SubmitDead(t)
      <3>1. PICK f \in UserFibers :
              /\ m_state[f] \in Dead
              /\ \A i \in 1..Len(m_fibers) : m_fibers[i].task # f
              /\ m_fibers' = scheduleNoLock(m_fibers, EntryOf(f, NoThread))
        BY <2>1 DEF SubmitDead, schedule
      <3>2. f \in Tasks /\ f \notin Cbs  BY TaskAssumption DEF Tasks
      <3>3. /\ EntryOf(f, NoThread) \in FiberAndThread
            /\ EntryOf(f, NoThread).kind = "fiber"
            /\ EntryOf(f, NoThread).task = f
        BY <3>2, EntryOfType DEF EntryOf
      <3>4. ~Listed(f) /\ DeadUser(f) /\ UNCHANGED parkedOn
        BY <2>1, <3>1 DEF Listed, Entries, DeadUser, SubmitDead, client
      <3> QED  BY <3>1, <3>2, <3>3, <3>4
    <2>2. CASE Wake(t)
      <3>1. PICK f \in Tasks :
              /\ parkedOn[f] # NoThread
              /\ m_fibers' = scheduleNoLock(m_fibers,
                   [kind |-> "fiber", task |-> f,
                    thr |-> IF setup.wake = "own" THEN parkedOn[f] ELSE NoThread])
              /\ parkedOn' = [parkedOn EXCEPT ![f] = NoThread]
        BY <2>2 DEF Wake, schedule
      <3>2. setup.wake = "own" /\ ~Listed(f)  BY <3>1 DEF OwnInv, ParkInv
      <3>3. [kind |-> "fiber", task |-> f, thr |-> parkedOn[f]] \in FiberAndThread
        BY EntryOfType
      <3> QED  BY <3>1, <3>2, <3>3
    <2> QED  BY <2>1, <2>2
  <1>3. Entries' = Entries \cup {e} /\ ListDistinct'
    BY <1>2, ListAppend
  <1>4. \A u \in AllThreads, g \in Tasks :
           (On(u, g)' <=> On(u, g)) /\ (Took(u, g)' <=> Took(u, g))
    BY <1>1 DEF On, Took
  <1>5. /\ \A g \in Tasks : /\ Live(g)' <=> Live(g)
                            /\ Rests(g)' <=> Rests(g)
                            /\ DeadUser(g)' <=> DeadUser(g)
        /\ \A g \in Tasks \ {f} : /\ parkedOn'[g] = parkedOn[g]
                                  /\ Listed(g)' <=> Listed(g)
        /\ parkedOn'[f] = NoThread \/ UNCHANGED parkedOn
    BY <1>1, <1>2, <1>3 DEF Live, Rests, DeadUser, Listed
  <1>6. ~Fresh(f) /\ \A g \in Tasks : Fresh(g) => Fresh(g)'
    BY <1>1, <1>2, <1>4, <1>5 DEF Fresh, DeadUser, Dead
  <1>7. f \in submitted
    BY <1>6 DEF OwnInv, BookInv
  <1>8. parkedOn[f] # NoThread =>
           /\ Live(f) /\ ~DeadUser(f) /\ parkedOn'[f] = NoThread
           /\ e.thr = parkedOn[f] /\ parkedOn[f] \in AllThreads
           /\ \A u \in AllThreads : ~Took(u, f)
           /\ \/ On(parkedOn[f], f)
              \/ /\ Rests(f)
                 /\ \A u \in AllThreads : ~On(u, f) /\ cb_fiber[u] # f
    <2> SUFFICES ASSUME parkedOn[f] # NoThread
                 PROVE  /\ Live(f) /\ ~DeadUser(f) /\ parkedOn'[f] = NoThread
                        /\ e.thr = parkedOn[f] /\ parkedOn[f] \in AllThreads
                        /\ \A u \in AllThreads : ~Took(u, f)
                        /\ \/ On(parkedOn[f], f)
                           \/ /\ Rests(f)
                              /\ \A u \in AllThreads :
                                    ~On(u, f) /\ cb_fiber[u] # f
      OBVIOUS
    <2>1. /\ Live(f) /\ \A u \in AllThreads : ~Took(u, f)
          /\ \/ On(parkedOn[f], f)
             \/ /\ m_state[f] = "HOLD"
                /\ \A u \in AllThreads : ~On(u, f) /\ cb_fiber[u] # f
      BY DEF OwnInv, ParkInv
    <2>2. ~DeadUser(f)
      BY <2>1 DEF OwnInv, BookInv, Live, DeadUser
    <2>3. e.thr = parkedOn[f] /\ parkedOn'[f] = NoThread  BY <1>2, <2>2
    <2> QED  BY <2>1, <2>2, <2>3 DEF Rests
  <1>9. parkedOn[f] = NoThread => DeadUser(f) /\ UNCHANGED parkedOn
    BY <1>2
  <1>10. ListInv'
    <2>1. ASSUME NEW d \in Entries
          PROVE  /\ Proper(d)'
                 /\ Resumes(d)' =>
                       \/ /\ Rests(d.task)'
                          /\ \A u \in AllThreads :
                                ~On(u, d.task)' /\ cb_fiber'[u] # d.task
                       \/ \E u \in AllThreads : On(u, d.task)' /\ d.thr = u
      <3>1. d.task \in Tasks \ {f}  BY <1>2 DEF Listed
      <3> QED
        BY <1>1, <1>4, <1>5, <1>6, <3>1 DEF OwnInv, ListInv, Proper, Resumes
    <2>2. /\ Proper(e)'
          /\ Resumes(e)' =>
                \/ /\ Rests(f)'
                   /\ \A u \in AllThreads : ~On(u, f)' /\ cb_fiber'[u] # f
                \/ \E u \in AllThreads : On(u, f)' /\ e.thr = u
      <3>1. CASE parkedOn[f] # NoThread
        BY <1>1, <1>2, <1>4, <1>5, <1>8, <3>1 DEF Proper, Resumes
      <3>2. CASE parkedOn[f] = NoThread
        <4>1. DeadUser(f) /\ ~Live(f)
          BY <1>9, <3>2 DEF OwnInv, BookInv, DeadUser, Live
        <4> QED  BY <1>2, <1>5, <4>1 DEF Proper, Resumes
      <3> QED  BY <3>1, <3>2
    <2> QED  BY <1>2, <1>3, <2>1, <2>2 DEF ListInv
  <1>11. HandInv'
    <2>1. ASSUME NEW u \in AllThreads, pc[u] = "dispatch", ft[u].kind # "none"
          PROVE  /\ ft[u].task \in Tasks
                 /\ ft[u].task = f => DeadUser(f) /\ UNCHANGED parkedOn
      BY <1>8, <1>9, <2>1 DEF Took
    <2> QED
      BY <1>1, <1>4, <1>5, <1>6, <2>1 DEF OwnInv, HandInv, Proper, Resumes
  <1>12. StackInv'
    <2>1. ASSUME NEW u \in AllThreads, pc[u] \in Holding
          PROVE  StageInv(pc[u], u, cur[u])'
      <3>1. cur[u] \in Tasks /\ StageInv(pc[u], u, cur[u])
        BY <2>1 DEF OwnInv, StackInv
      <3>2. CASE cur[u] # f
        <4>1. Handed(u, cur[u]) => Handed(u, cur[u])'
          BY <1>1, <1>3, <1>5, <3>1, <3>2 DEF Handed
        <4> QED
          BY <1>1, <1>5, <3>1, <3>2, <4>1 DEF StageInv, Yielded, Ended
      <3>3. CASE cur[u] = f /\ parkedOn[f] # NoThread
        <4>1. On(u, f)  BY <2>1, <3>3 DEF On
        <4>2. On(parkedOn[f], f) /\ parkedOn[f] \in AllThreads
          BY <1>8, <3>3, <4>1
        <4>3. u = parkedOn[f]
          BY <2>1, <3>3, <4>2 DEF OwnInv, StackInv
        <4>4. Handed(u, f)'
          BY <1>2, <1>3, <1>8, <3>3, <4>3 DEF Handed
        <4>5. m_state[f] \notin Dead
          BY <1>8, <3>3 DEF OwnInv, BookInv, Live
        <4> QED
          BY <1>1, <1>5, <1>8, <3>1, <3>3, <4>4, <4>5
             DEF StageInv, Yielded, Ended
      <3>4. CASE cur[u] = f /\ parkedOn[f] = NoThread
        <4>1. DeadUser(f) /\ ~Live(f) /\ f \notin Cbs
          BY <1>9, <3>4, TaskAssumption
             DEF OwnInv, BookInv, DeadUser, Live
        <4> QED
          BY <1>1, <1>5, <3>1, <3>4, <4>1
             DEF StageInv, Yielded, Ended, Rests
      <3> QED  BY <3>2, <3>3, <3>4
    <2> QED
      BY <1>1, <1>4, <1>5, <2>1 DEF OwnInv, StackInv
  <1>13. KeptInv'
    <2>1. ASSUME NEW u \in AllThreads, cb_fiber[u] = f  PROVE On(u, f)
      BY <1>2, <1>8, <2>1, TaskAssumption
         DEF OwnInv, KeptInv, DeadUser, Dead
    <2> QED  BY <1>1, <1>4, <1>5, <2>1 DEF OwnInv, KeptInv
  <1>14. ParkInv'
    BY <1>1, <1>4, <1>5, <1>9, <1>8 DEF OwnInv, ParkInv
  <1>15. BookInv'
    BY <1>1, <1>4, <1>5, <1>6, <1>7 DEF OwnInv, BookInv
  <1>16. NoTaskLost'
    <2> SUFFICES ASSUME NEW c \in submitted \ ended
                 PROVE  (Queued(c) \/ InHand(c) \/ Parked(c))'
      BY <1>1 DEF NoTaskLost
    <2>0. ASSUME NEW d \in Entries', \/ d.kind = "cb" /\ d.task = c
                                     \/ d.kind = "fiber" /\ m_cb[d.task] = c
          PROVE  Queued(c)'
      BY <1>1, <2>0 DEF Queued, Entries
    <2>1. Queued(c) \/ InHand(c) \/ Parked(c)  BY DEF OwnInv, NoTaskLost
    <2>2. InHand(c) => InHand(c)'  BY <1>1 DEF InHand
    <2>3. Queued(c) => Queued(c)'  BY <1>3, <2>0, QueuedEntries
    <2>4. Parked(c) => Parked(c)' \/ Queued(c)'
      <3>1. m_cb[f] = c => Queued(c)'  BY <1>2, <1>3, <2>0
      <3> QED  BY <1>1, <1>5, <3>1 DEF Parked
    <2> QED  BY <2>1, <2>2, <2>3, <2>4
  <1> QED
    BY <1>3, <1>10, <1>11, <1>12, <1>13, <1>14, <1>15, <1>16 DEF OwnInv

-----------------------------------------------------------------------------
(* The invariant holds throughout.                                         *)

\* Initially the list is empty, no thread has a fiber and no task is touched.
LEMMA OwnInit == Init => OwnInv
  <1> SUFFICES ASSUME Init PROVE OwnInv  OBVIOUS
  <1>1. Entries = {} /\ ListDistinct /\ ListInv
    BY DEF Init, Entries, ListDistinct, ListInv
  <1>2. /\ \A t \in AllThreads : pc[t] \notin Holding /\ pc[t] # "dispatch"
        /\ \A t \in AllThreads : cb_fiber[t] = NoTask
        /\ \A f \in Tasks : parkedOn[f] = NoThread
    BY DEF Init, Holding
  <1>3. HandInv /\ StackInv /\ KeptInv /\ ParkInv
    BY <1>2 DEF HandInv, StackInv, KeptInv, ParkInv
  <1>4. BookInv
    <2>1. ASSUME NEW c \in Tasks  PROVE Fresh(c)
      BY <1>2, TaskAssumption DEF Init, Fresh, On, Tasks
    <2> QED
      BY <1>1, <1>2, <2>1, TaskAssumption
         DEF Init, BookInv, Listed, Took, Tasks, Dead
  <1>5. NoTaskLost  BY DEF Init, NoTaskLost
  <1> QED  BY <1>1, <1>3, <1>4, <1>5 DEF OwnInv

\* Every step of the threads, of start() and of stop() keeps the invariant.
LEMMA OwnStep ==
  ASSUME IndInv, IndInv', OwnInv, CalmSetups, [Next]_vars
  PROVE  OwnInv'
  <1>T. pc' \in [AllThreads -> Labels] /\ pc \in [AllThreads -> Labels]
        /\ ft \in [AllThreads -> FiberAndThread \cup {NoEntry}]
        /\ Root \in AllThreads
    BY DEF IndInv, TypeOK, AllThreads
  <1>1. CASE UNCHANGED vars
    BY <1>1, <1>T, OwnFrame
       DEF vars, locals, client, fibers
  <1>2. CASE start
    <2>1. \A u \in AllThreads : pc[u] \in {"init", "off"}
      BY <1>2 DEF start, IndInv, LocalInv
    <2>2. \A u \in AllThreads : pc'[u] \in {"main", "scan", "off"}
      BY <1>2 DEF start
    <2> QED
      BY <1>2, <1>T, <2>1, <2>2, OwnFrame
         DEF start, locals, client, fibers, Holding
  <1>3. CASE stop
    <2>1. /\ pc[Root] \notin Holding \cup {"dispatch"}
          /\ \E l : pc' = [pc EXCEPT ![Root] = l] /\ l \notin Holding \cup {"dispatch"}
      BY <1>3 DEF stop, StopBegin, StopRootOnly, StopAll, StopCall, Join, Goto,
                  Holding
    <2>2. UNCHANGED <<m_fibers, fibers, ft, cb_fiber, cur, setup, submitted,
                      ended, parkedOn>>
      BY <1>3 DEF stop, StopBegin, StopRootOnly, StopAll, StopCall, Join,
                  locals, client
    <2> QED  BY <1>T, <2>1, <2>2, OwnFrame
  <1>4. CASE Returned
    BY <1>4, <1>T, OwnFrame DEF Returned, vars, locals, client, fibers
  <1>5. ASSUME NEW t \in AllThreads, run(t)  PROVE OwnInv'
    <2>1. CASE ScanFindsNone(t)
      BY <2>1, <1>T, OwnFrame
         DEF ScanFindsNone, Goto, locals, client, fibers, Holding
    <2>2. CASE SkipDead(t)
      BY <2>2, <1>T, OwnFrame
         DEF SkipDead, Goto, locals, client, fibers, Holding
    <2>3. CASE GoIdle(t) \/ idle(t) \/ IdleBack(t)
      <3>1. /\ pc[t] \notin Holding
            /\ pc[t] = "dispatch" => ft[t].kind = "none"
            /\ \E l : pc' = [pc EXCEPT ![t] = l] /\ l \notin Holding \cup {"dispatch"}
        BY <2>3 DEF GoIdle, idle, IdleBack, Goto, BackTo, Holding
      <3>2. UNCHANGED <<m_fibers, fibers, ft, cb_fiber, cur, setup, submitted,
                        ended, parkedOn>>
        BY <2>3 DEF GoIdle, idle, IdleBack, locals, client
      <3> QED  BY <1>T, <3>1, <3>2, OwnFrame
    <2>4. CASE back(t) \/ swapOut(t) \/ AfterSwap(t) \/ PostOther(t)
      <3>0. pc[t] \in {"back", "out", "after", "post"} /\ pc[t] \in Holding
        BY <2>4 DEF back, swapOut, AfterSwap, PostOther, Holding
      <3>1. StageInv(pc[t], t, cur[t])
        BY <3>0 DEF OwnInv, StackInv
      <3>2. UNCHANGED <<m_fibers, fibers, ft, cb_fiber, cur, setup, submitted,
                        ended, parkedOn>>
        BY <2>4 DEF back, swapOut, AfterSwap, PostOther, locals, client
      <3>3. CASE back(t) \/ swapOut(t)
        <4>1. pc' = [pc EXCEPT ![t] = "after"]
          BY <3>1, <3>3 DEF back, swapOut, Goto, BackTo, StageInv
        <4>2. StageInv("after", t, cur[t])
          BY <3>1, <3>3 DEF back, swapOut, StageInv
        <4>3. "after" \in Holding  BY DEF Holding
        <4> QED  BY <3>0, <3>2, <4>1, <4>2, <4>3, OwnAdvance
      <3>4. CASE AfterSwap(t)
        <4>1. pc' = [pc EXCEPT ![t] = "post"]  BY <3>4 DEF AfterSwap, Goto
        <4>2. StageInv("post", t, cur[t])
          BY <3>1, <3>4 DEF AfterSwap, StageInv
        <4>3. "post" \in Holding  BY DEF Holding
        <4> QED  BY <3>0, <3>2, <4>1, <4>2, <4>3, OwnAdvance
      <3>5. CASE PostOther(t)
        <4>1. pc' = [pc EXCEPT ![t] = "sethold"]  BY <3>5 DEF PostOther, Goto
        <4>2. StageInv("sethold", t, cur[t])
          BY <3>1, <3>5 DEF PostOther, StageInv, Yielded, Ended
        <4>3. "sethold" \in Holding  BY DEF Holding
        <4> QED  BY <3>0, <3>2, <4>1, <4>2, <4>3, OwnAdvance
      <3> QED  BY <2>4, <3>3, <3>4, <3>5
    <2> QED
      BY <1>5, <2>1, <2>2, <2>3, <2>4, OwnScanTakes, OwnRunFiber, OwnRunCb,
         OwnSwapIn, OwnRelease, OwnPostDead DEF run
  <1>6. ASSUME NEW t \in AllThreads, body(t)  PROVE OwnInv'
    BY <1>6, OwnSubmit, OwnWake, OwnYield, OwnHold, OwnMainFunc DEF body
  <1> QED  BY <1>1, <1>2, <1>3, <1>4, <1>5, <1>6 DEF Next

\* The ownership invariant holds throughout, for every pool, every set of
\* tasks and every client whose fibers neither yield on the caller's thread
\* nor let another thread resume them after they parked.
THEOREM OwnershipInvariant ==
  ASSUME CalmSetups
  PROVE  Spec => []OwnInv
  <1>1. IndInv /\ IndInv' /\ OwnInv /\ [Next]_vars => OwnInv'  BY OwnStep
  <1> QED  BY OwnInit, InductiveInvariant, <1>1, PTL DEF Spec

\* No two threads are ever on the stack of one fiber: Fiber::m_state, which
\* the scan goes by, may run ahead of the stack, the entries never do.
THEOREM OneStackOneThread ==
  ASSUME CalmSetups
  PROVE  Spec => []OneThreadPerFiber
  <1>1. OwnInv => OneThreadPerFiber
    BY DEF OwnInv, StackInv, On, OneThreadPerFiber, OnStack, Holding
  <1> QED  BY OwnershipInvariant, <1>1, PTL

\* The asserts in Fiber::swapIn and Fiber::reset never fail in run().
THEOREM FiberAssertsHold ==
  ASSUME CalmSetups
  PROVE  Spec => []FiberAsserts
  <1>1. OwnInv => FiberAsserts
    <2> SUFFICES ASSUME OwnInv, NEW t \in AllThreads
                 PROVE  /\ pc[t] = "swapin" => m_state[cur[t]] # "EXEC"
                        /\ (pc[t] = "dispatch" /\ ft[t].kind = "cb"
                              /\ cb_fiber[t] # NoTask)
                           => m_state[cb_fiber[t]] \in {"INIT"} \cup Dead
      BY DEF FiberAsserts
    <2>1. pc[t] = "swapin" => m_state[cur[t]] # "EXEC"
      BY DEF OwnInv, StackInv, StageInv, Rests, Holding
    <2>2. pc[t] = "dispatch" /\ cb_fiber[t] # NoTask
             => m_state[cb_fiber[t]] = "INIT"
      BY DEF OwnInv, KeptInv, On, Holding
    <2> QED  BY <2>1, <2>2
  <1> QED  BY OwnershipInvariant, <1>1, PTL

\* schedule() never loses a task, whatever the threads do meanwhile.
THEOREM NoTaskIsLost ==
  ASSUME CalmSetups
  PROVE  Spec => []NoTaskLost
  <1>1. OwnInv => NoTaskLost  BY DEF OwnInv
  <1> QED  BY OwnershipInvariant, <1>1, PTL

\* A callback is run once and by one fiber, recycled fibers included.
THEOREM CallbacksRunOnce ==
  ASSUME CalmSetups
  PROVE  Spec => []RunsOnce
  <1>1. OwnInv => RunsOnce
    BY DEF OwnInv, StackInv, StageInv, BookInv, Live, RunsOnce, Holding
  <1> QED  BY OwnershipInvariant, <1>1, PTL

-----------------------------------------------------------------------------
(* What stop() leaves behind.                                              *)

\* schedule() puts no more than its entry on a list.
LEMMA AppendElements ==
  ASSUME NEW q \in Seq(FiberAndThread), NEW e \in FiberAndThread
  PROVE  /\ scheduleNoLock(q, e) \in Seq(FiberAndThread)
         /\ ElementsOf(scheduleNoLock(q, e)) \subseteq ElementsOf(q) \cup {e}
  <1> DEFINE r == Append(q, e)
  <1>1. /\ Len(q) \in Nat /\ Len(r) = Len(q) + 1
        /\ \A i \in 1..Len(q) : r[i] = q[i]
        /\ r[Len(q) + 1] = e
    BY AppendProperties, LenProperties
  <1>2. scheduleNoLock(q, e) = r /\ r \in Seq(FiberAndThread)  BY ScheduleType
  <1> HIDE DEF r
  <1>3. ElementsOf(r) \subseteq ElementsOf(q) \cup {e}  BY <1>1 DEF ElementsOf
  <1> QED  BY <1>2, <1>3

\* A step of one thread leaves the others where they are, on the fibers they
\* are on.
LEMMA OthersStay ==
  ASSUME IndInv, OwnInv, NEW t \in AllThreads, run(t) \/ body(t),
         NEW u \in AllThreads, u # t
  PROVE  /\ pc'[u] = pc[u] /\ ft'[u] = ft[u] /\ cur'[u] = cur[u]
         /\ idle_fiber'[u] = idle_fiber[u]
         /\ pc[u] \in {"swapin", "exec"} => m_cb'[cur[u]] = m_cb[cur[u]]
  <1> USE OwnTypes
  <1>0. idle_fiber \in [AllThreads -> State]  BY DEF IndInv, TypeOK
  <1>1. pc'[u] = pc[u] /\ ft'[u] = ft[u] /\ cur'[u] = cur[u] /\ idle_fiber'[u] = idle_fiber[u]
    <2>1. CASE run(t)
      BY <1>0, <2>1
         DEF run, ScanTakes, ScanFindsNone, RunFiber, RunCb, SkipDead, GoIdle, idle, IdleBack,
             swapIn, swapOut, back, AfterSwap, PostReady, PostDead, PostOther, SetHold, Release,
             Goto, locals
    <2>2. CASE body(t)
      BY <1>0, <2>2
         DEF body, Submit, SubmitBatch, SubmitDead, Wake, YieldToReady, Park, YieldToHold,
             MainFunc, Goto, locals
    <2> QED  BY <2>1, <2>2
  <1>2. ASSUME pc[u] \in {"swapin", "exec"}  PROVE m_cb'[cur[u]] = m_cb[cur[u]]
    <2>0. cur[u] \in Tasks /\ On(u, cur[u])  BY <1>2 DEF On, Holding
    <2>1. CASE RunCb(t)
      <3>1. PICK g \in Tasks : /\ m_cb' = [m_cb EXCEPT ![g] = ft[t].task] /\ ~On(u, g)
        <4>1. CASE cb_fiber[t] # NoTask
          <5>1. cb_fiber[t] \in Tasks /\ pc[t] = "dispatch"  BY <2>1, <4>1 DEF RunCb
          <5>2. ~On(t, cb_fiber[t])  BY <5>1 DEF On, Holding
          <5>3. ~On(u, cb_fiber[t])  BY <4>1, <5>2 DEF OwnInv, KeptInv
          <5> QED  BY <2>1, <4>1, <5>1, <5>3 DEF RunCb
        <4>2. CASE cb_fiber[t] = NoTask
          BY <2>1, <4>2 DEF RunCb, OwnInv, HandInv, Proper, Resumes, DeadUser, Fresh
        <4> QED  BY <4>1, <4>2
      <3> QED  BY <2>0, <3>1
    <2>2. CASE MainFunc(t) \/ PostDead(t)
      <3>1. pc[t] \in Holding  BY <2>2 DEF MainFunc, PostDead, Holding
      <3>2. cur[u] # cur[t]  BY <2>0, <3>1 DEF OwnInv, StackInv
      <3>3. \A x \in Tasks \ {cur[t]} : m_cb'[x] = m_cb[x]
        <4>1. CASE MainFunc(t)  BY <3>1, <4>1 DEF MainFunc
        <4>2. CASE PostDead(t)  BY <3>1, <4>2 DEF PostDead, fibers
        <4> QED  BY <2>2, <4>1, <4>2
      <3> QED  BY <2>0, <3>2, <3>3
    <2>3. CASE ~RunCb(t) /\ ~MainFunc(t) /\ ~PostDead(t)
      <3>1. m_cb' = m_cb
        <4>1. CASE run(t)
          BY <2>3, <4>1
             DEF run, ScanTakes, ScanFindsNone, RunFiber, SkipDead, GoIdle, idle, IdleBack,
                 swapIn, swapOut, back, AfterSwap, PostReady, PostOther, SetHold, fibers
        <4>2. CASE body(t)
          BY <2>3, <4>2
             DEF body, Submit, SubmitBatch, SubmitDead, Wake, YieldToReady, Park, YieldToHold,
                 fibers
        <4> QED  BY <4>1, <4>2
      <3> QED  BY <3>1
    <2> QED  BY <2>1, <2>2, <2>3
  <1> QED  BY <1>1, <1>2

\* Where a step leaves the setup, the pins and the tasks handed in.
LEMMA ClientKept ==
  ASSUME [Next]_vars
  PROVE  /\ setup' = setup
         /\ \/ UNCHANGED <<pin, submitted>>
            \/ \E t \in AllThreads : Submit(t) \/ SubmitBatch(t)
  <1>1. CASE UNCHANGED vars \/ start \/ stop \/ Returned
    BY <1>1 DEF vars, client, start, stop, StopBegin, StopRootOnly, StopAll, StopCall, Join,
                Returned
  <1>2. ASSUME NEW t \in AllThreads, run(t)  PROVE UNCHANGED <<setup, pin, submitted>>
    BY <1>2 DEF run, ScanTakes, ScanFindsNone, RunFiber, RunCb, SkipDead, GoIdle, idle, IdleBack,
                swapIn, swapOut, back, AfterSwap, PostReady, PostDead, PostOther, SetHold, client
  <1>3. ASSUME NEW t \in AllThreads, body(t)
        PROVE  setup' = setup /\ (Submit(t) \/ SubmitBatch(t) \/ UNCHANGED <<pin, submitted>>)
    BY <1>3 DEF body, Submit, SubmitBatch, SubmitDead, Wake, YieldToReady, Park, YieldToHold,
                MainFunc, client
  <1> QED  BY <1>1, <1>2, <1>3 DEF Next

\* If the setup lets no fiber yield, none is where a yield would bring it.
LEMMA YieldsStep ==
  ASSUME IndInv, IndInv', NobodyYields, setup.yields = 0, [Next]_vars
  PROVE  NobodyYields'
  <1> USE OwnTypes DEF Goto
  <1>0. yields \in [Tasks -> 0..MaxYields] /\ MaxYields \in Nat
    BY TaskAssumption DEF IndInv, TypeOK
  <1>1. ASSUME NEW t \in AllThreads  PROVE ~MayYield(t)
    BY <1>0 DEF MayYield, Holding
  <1>2. CASE UNCHANGED vars \/ start \/ stop \/ Returned
    BY <1>2 DEF NobodyYields, vars, fibers, client, start, stop, StopBegin, StopRootOnly, StopAll,
                StopCall, Join, Returned
  <1>3. ASSUME NEW t \in AllThreads, run(t)  PROVE NobodyYields'
    <2>1. \A f \in Tasks : m_state'[f] # "READY"
      BY <1>3 DEF NobodyYields, run, ScanTakes, ScanFindsNone, RunFiber, RunCb, SkipDead, GoIdle,
                  idle, IdleBack, swapIn, swapOut, back, AfterSwap, PostReady, PostDead, PostOther,
                  SetHold, fibers, Holding
    <2>2. /\ parkedOn' = parkedOn
          /\ \A u \in AllThreads : pc'[u] \notin {"park", "back"}
      BY <1>3 DEF NobodyYields, run, ScanTakes, ScanFindsNone, RunFiber, RunCb, SkipDead, GoIdle,
                  idle, IdleBack, swapIn, swapOut, back, AfterSwap, PostReady, PostDead, PostOther,
                  SetHold, BackTo, client
    <2> QED  BY <2>1, <2>2 DEF NobodyYields
  <1>4. ASSUME NEW t \in AllThreads, body(t)  PROVE NobodyYields'
    BY <1>1, <1>4 DEF NobodyYields, body, Submit, SubmitBatch, SubmitDead, Wake, YieldToReady, Park,
                      YieldToHold, MainFunc, fibers, client, Holding
  <1> QED  BY <1>2, <1>3, <1>4 DEF Next

\* What a step may add to the list.
LEMMA NewEntries ==
  ASSUME IndInv, IndInv', [Next]_vars, NEW e \in Entries', e \notin Entries
  PROVE  \E t \in AllThreads :
           \/ /\ Submit(t)
              /\ \E c \in setup.tasks \ submitted, thr \in Runners \cup {NoThread} :
                    /\ setup.pinned \/ thr = NoThread
                    /\ pin' = [pin EXCEPT ![c] = thr] /\ e = EntryOf(c, thr)
           \/ SubmitBatch(t) /\ \E c \in setup.tasks \ submitted : e = EntryOf(c, NoThread)
           \/ SubmitDead(t) /\ \E f \in UserFibers : m_state[f] \in Dead /\ e = EntryOf(f, NoThread)
           \/ /\ Wake(t)
              /\ \E f \in Tasks : parkedOn[f] # NoThread
           \/ /\ PostReady(t)
              /\ e = [kind |-> "fiber", task |-> cur[t], thr |-> NoThread]
  <1> USE OwnTypes
  <1>0. /\ m_fibers \in Seq(FiberAndThread) /\ Entries = ElementsOf(m_fibers)
        /\ Entries' = ElementsOf(m_fibers')
        /\ setup.tasks \subseteq Tasks /\ Runners \subseteq AllThreads
    BY SetupAssumption DEF IndInv, TypeOK, Entries, ElementsOf, Setup, Runners, AllThreads
  <1>1. ASSUME NEW d \in FiberAndThread, schedule(d)  PROVE e = d
    BY <1>0, <1>1, AppendElements DEF schedule
  <1>2. m_fibers' # m_fibers  BY <1>0
  <1>3. PICK t \in AllThreads : run(t) \/ body(t)
    BY <1>2 DEF Next, vars, start, stop, StopBegin, StopRootOnly, StopAll, StopCall, Join, Returned
  <1>4. CASE run(t)
    <2>1. ScanTakes(t) \/ PostReady(t)
      BY <1>2, <1>4 DEF run, ScanTakes, ScanFindsNone, RunFiber, RunCb, SkipDead, GoIdle, idle,
             IdleBack, swapIn, swapOut, back, AfterSwap, PostReady, PostDead, PostOther, SetHold
    <2>2. CASE ScanTakes(t)
      <3>1. PICK i \in 1..Len(m_fibers) : m_fibers' = RemoveAt(m_fibers, i)
        BY <2>2 DEF ScanTakes
      <3>2. PICK n \in Nat : n = Len(m_fibers)  BY <1>0, LenProperties
      <3>3. /\ Len(m_fibers') = n - 1
            /\ \A k \in 1..(n - 1) :
                  m_fibers'[k] = IF k < i THEN m_fibers[k] ELSE m_fibers[k + 1]
        BY <1>0, <3>1, <3>2, RemoveAtElements
      <3>4. PICK k \in 1..(n - 1) : e = m_fibers'[k]  BY <1>0, <3>3 DEF ElementsOf
      <3>5. \E j \in 1..n : e = m_fibers[j]
        <4>1. CASE k < i  BY <3>3, <3>4, <4>1
        <4>2. CASE ~(k < i)
          <5>1. k + 1 \in 1..n /\ e = m_fibers[k + 1]  BY <3>3, <3>4, <4>2
          <5> QED  BY <5>1
        <4> QED  BY <4>1, <4>2
      <3>6. e \in Entries  BY <1>0, <3>2, <3>5 DEF ElementsOf
      <3> QED  BY <3>6
    <2>3. CASE PostReady(t)
      <3>1. cur[t] \in Tasks  BY <2>3 DEF PostReady, Holding
      <3>2. [kind |-> "fiber", task |-> cur[t], thr |-> NoThread] \in FiberAndThread
        BY <3>1 DEF FiberAndThread
      <3> QED  BY <1>1, <2>3, <3>2 DEF PostReady
    <2> QED  BY <2>1, <2>2, <2>3
  <1>5. CASE body(t)
    <2>1. Submit(t) \/ SubmitBatch(t) \/ SubmitDead(t) \/ Wake(t)
      BY <1>2, <1>5 DEF body, YieldToReady, Park, YieldToHold, MainFunc
    <2>2. CASE Submit(t)
      <3>1. PICK c \in setup.tasks \ submitted, thr \in Runners \cup {NoThread} :
              /\ setup.pinned \/ thr = NoThread
              /\ schedule(EntryOf(c, thr)) /\ pin' = [pin EXCEPT ![c] = thr]
        BY <2>2 DEF Submit
      <3>2. EntryOf(c, thr) \in FiberAndThread  BY <1>0, EntryOfType
      <3> QED  BY <1>1, <2>2, <3>1, <3>2
    <2>3. CASE SubmitBatch(t)
      <3>1. PICK c \in setup.tasks \ submitted, d \in setup.tasks \ submitted :
              m_fibers' = scheduleNoLock(scheduleNoLock(m_fibers, EntryOf(c, NoThread)),
                                         EntryOf(d, NoThread))
        BY <2>3 DEF SubmitBatch
      <3>2. EntryOf(c, NoThread) \in FiberAndThread /\ EntryOf(d, NoThread) \in FiberAndThread
        BY <1>0, EntryOfType
      <3>3. PICK q \in Seq(FiberAndThread) : /\ q = scheduleNoLock(m_fibers, EntryOf(c, NoThread))
                                            /\ ElementsOf(q) \subseteq Entries \cup {EntryOf(c, NoThread)}
        BY <1>0, <3>2, AppendElements
      <3>4. ElementsOf(m_fibers') \subseteq ElementsOf(q) \cup {EntryOf(d, NoThread)}
        BY <3>1, <3>2, <3>3, AppendElements
      <3> QED  BY <1>0, <2>3, <3>3, <3>4
    <2>4. CASE SubmitDead(t)
      <3>1. PICK f \in UserFibers : m_state[f] \in Dead /\ schedule(EntryOf(f, NoThread))
        BY <2>4 DEF SubmitDead
      <3>2. EntryOf(f, NoThread) \in FiberAndThread  BY EntryOfType
      <3> QED  BY <1>1, <2>4, <3>1, <3>2
    <2>5. CASE Wake(t)  BY <2>5 DEF Wake
    <2> QED  BY <2>1, <2>2, <2>3, <2>4, <2>5
  <1> QED  BY <1>3, <1>4, <1>5

\* Where the threads are in the life of the scheduler.
LEMMA PhaseStep ==
  ASSUME IndInv, IndInv', PhaseInv, [Next]_vars
  PROVE  PhaseInv'
  <1> USE OwnTypes DEF OnRoot, Goto
  <1>0. /\ Root \in AllThreads /\ Workers \subseteq AllThreads /\ Root \notin Workers
        /\ idle_fiber \in [AllThreads -> State] /\ setup' = setup
        /\ setup.threads \subseteq Workers
    BY ThreadAssumption, ClientKept, SetupAssumption DEF IndInv, TypeOK, AllThreads, Setup
  <1>1. CASE UNCHANGED vars \/ Returned
    BY <1>1 DEF PhaseInv, vars, sched, locals, client, Returned
  <1>2. CASE start
    <2>1. /\ \A w \in Workers : pc[w] = "off" /\ pc'[w] = IF w \in setup.threads THEN "scan" ELSE "off"
          /\ pc[Root] = "init" /\ pc'[Root] = "main" /\ UNCHANGED <<m_autostop, idle_fiber>>
      BY <1>0, <1>2 DEF start, IndInv, LocalInv, locals
    <2> QED  BY <1>0, <2>1 DEF PhaseInv, AllThreads
  <1>3. CASE stop
    <2>1. /\ pc' = [pc EXCEPT ![Root] = pc'[Root]]
          /\ pc'[Root] \in {"stop_root", "stop_all", "stop_call", "join", "scan", "returned"}
          /\ pc[Root] \notin {"init"} /\ m_autostop' = TRUE /\ UNCHANGED idle_fiber
          /\ pc'[Root] = "stop_root" => setup.threads = {}
      BY <1>0, <1>3 DEF stop, StopBegin, StopRootOnly, StopAll, StopCall, Join, locals, sched, PhaseInv
    <2>2. \A w \in Workers : pc'[w] = pc[w]  BY <1>0, <2>1
    <2> QED  BY <1>0, <2>1, <2>2 DEF PhaseInv, AllThreads
  <1>4. ASSUME NEW t \in AllThreads, run(t)  PROVE PhaseInv'
    <2>1. /\ pc' = [pc EXCEPT ![t] = pc'[t]] /\ m_autostop' = m_autostop
          /\ pc[t] \notin OnRoot \cup {"off", "exit"} /\ pc'[t] \notin (OnRoot \ {"join"}) \cup {"off"}
          /\ pc'[t] = "join" => t = Root
      BY <1>4
         DEF run, ScanTakes, ScanFindsNone, RunFiber, RunCb, SkipDead, GoIdle, idle, IdleBack, BackTo,
             swapIn, swapOut, back, AfterSwap, PostReady, PostDead, PostOther, SetHold, sched
    <2>2. \A u \in AllThreads : idle_fiber'[u] = "TERM" => idle_fiber[u] = "TERM" \/ m_autostop
      BY <1>0, <1>4
         DEF run, ScanTakes, ScanFindsNone, RunFiber, RunCb, SkipDead, GoIdle, idle, IdleBack, stopping,
             swapIn, swapOut, back, AfterSwap, PostReady, PostDead, PostOther, SetHold, Release, locals
    <2>3. \A u \in AllThreads : pc'[u] = "exit" => idle_fiber'[u] = "TERM"
      <3>1. CASE GoIdle(t)  BY <1>0, <3>1 DEF GoIdle, PhaseInv
      <3>2. CASE ~GoIdle(t)
        <4>1. pc'[t] # "exit"
          BY <1>4, <3>2
             DEF run, ScanTakes, ScanFindsNone, RunFiber, RunCb, SkipDead, idle, IdleBack, BackTo,
                 swapIn, swapOut, back, AfterSwap, PostReady, PostDead, PostOther, SetHold
        <4>2. \A u \in AllThreads \ {t} : idle_fiber'[u] = idle_fiber[u]
          BY <1>0, <1>4, <3>2
             DEF run, ScanTakes, ScanFindsNone, RunFiber, RunCb, SkipDead, idle, IdleBack,
                 swapIn, swapOut, back, AfterSwap, PostReady, PostDead, PostOther, SetHold, Release, locals
        <4> QED  BY <2>1, <4>1, <4>2 DEF PhaseInv
      <3> QED  BY <3>1, <3>2
    <2>4. \A u \in AllThreads \ {t} : pc'[u] = pc[u]  BY <2>1
    <2> QED  BY <1>0, <2>1, <2>2, <2>3, <2>4 DEF PhaseInv
  <1>5. ASSUME NEW t \in AllThreads, body(t)  PROVE PhaseInv'
    <2>1. /\ UNCHANGED <<m_autostop, idle_fiber>>
          /\ \/ pc' = pc
             \/ /\ pc' = [pc EXCEPT ![t] = pc'[t]] /\ pc[t] \in {"exec", "park"}
                /\ pc'[t] \in {"back", "park", "out"}
      BY <1>5
         DEF body, Submit, SubmitBatch, SubmitDead, Wake, YieldToReady, MayYield, Park, YieldToHold,
             MainFunc, locals, sched
    <2> QED  BY <1>0, <2>1 DEF PhaseInv
  <1> QED  BY <1>1, <1>2, <1>3, <1>4, <1>5 DEF Next

\* When stopping() says yes and no fiber yields, it says so for ever.
LEMMA StoppedStep ==
  ASSUME IndInv, PhaseInv, NobodyYields, stopping, [Next]_vars
  PROVE  stopping'
  <1> USE OwnTypes
  <1>0. /\ m_autostop /\ m_stopping /\ m_fibers = <<>> /\ m_activethreadcount = 0
        /\ pc[Root] \notin {"init", "main"}
    BY DEF stopping, PhaseInv
  <1>1. ASSUME NEW t \in AllThreads
        PROVE  /\ pc[t] \notin {"exec", "after"}
               /\ pc[t] = "dispatch" => ft[t].kind = "none"
               /\ ~InClient(t)
    <2>1. ~is_active[t]  BY <1>0, CountersPositive
    <2>2. pc[t] \notin {"exec", "after"}  BY <2>1 DEF IndInv, LocalInv, OnStack
    <2>3. pc[t] = "dispatch" => ft[t].kind = "none"  BY <2>1 DEF IndInv, LocalInv
    <2> QED  BY <1>0, <2>2, <2>3 DEF InClient
  <1>2. CASE UNCHANGED vars \/ start \/ stop \/ Returned
    BY <1>0, <1>2 DEF stopping, vars, sched, start, stop, StopBegin, StopRootOnly, StopAll, StopCall,
                      Join, Returned
  <1>3. ASSUME NEW t \in AllThreads, run(t)  PROVE stopping'
    <2>1. ~ScanTakes(t)  BY <1>0 DEF ScanTakes
    <2>2. ~PostReady(t)  BY DEF PostReady, NobodyYields, Holding
    <2>3. ~SkipDead(t) /\ ~AfterSwap(t)  BY <1>1 DEF SkipDead, AfterSwap
    <2> QED
      BY <1>0, <1>3, <2>1, <2>2, <2>3
         DEF stopping, sched, run, ScanFindsNone, RunFiber, RunCb, GoIdle, idle, IdleBack,
             swapIn, swapOut, back, PostDead, PostOther, SetHold
  <1>4. ASSUME NEW t \in AllThreads, body(t)  PROVE stopping'
    BY <1>0, <1>1, <1>4
       DEF stopping, sched, body, Submit, SubmitBatch, SubmitDead, Wake, YieldToReady, MayYield, Park,
           YieldToHold, MainFunc
  <1> QED  BY <1>2, <1>3, <1>4 DEF Next

\* A thread that scans a list without pins takes the first entry it sees.
LEMMA AllEligible ==
  ASSUME IndInv, OwnInv, PhaseInv, SomebodyScans, Loose, NEW t \in AllThreads,
         pc[t] = "scan", NEW e \in Entries
  PROVE  Eligible(e, t)
  <1> USE OwnTypes
  <1>0. NoThread \notin AllThreads /\ Root \notin Workers /\ AllThreads = Workers \cup {Root}
    BY ThreadAssumption DEF AllThreads
  <1>1. CASE ~setup.pinned
    <2>1. e.thr = NoThread  BY <1>1 DEF SomebodyScans
    <2>2. ~(e.kind = "fiber" /\ m_state[e.task] = "EXEC")
      BY <1>0, <2>1 DEF OwnInv, ListInv, Proper, Resumes, Rests, DeadUser, Dead
    <2> QED  BY <2>1, <2>2 DEF Eligible
  <1>2. CASE setup.threads = {}
    <2>1. \A w \in Workers : pc[w] = "off"  BY <1>2 DEF PhaseInv
    <2>2. t = Root /\ \A u \in AllThreads : pc[u] \notin Holding
      BY <1>0, <2>1 DEF Holding
    <2>3. e.thr \in {NoThread, t}  BY <1>2, <2>2 DEF SomebodyScans, Runners
    <2>4. ~(e.kind = "fiber" /\ m_state[e.task] = "EXEC")
      BY <2>2 DEF OwnInv, ListInv, Proper, Resumes, Rests, DeadUser, Dead, On
    <2> QED  BY <2>3, <2>4 DEF Eligible
  <1> QED  BY <1>1, <1>2 DEF Loose

\* The entries of the list keep to the setup.
LEMMA EntriesStep ==
  ASSUME IndInv, IndInv', OwnInv, SomebodyScans, DrainSetups, [Next]_vars, NEW e \in Entries'
  PROVE  e.thr \in Runners \cup {NoThread} /\ (~setup.pinned => e.thr = NoThread)
  <1>1. CASE e \in Entries  BY <1>1 DEF SomebodyScans
  <1>2. CASE e \notin Entries
    <2>1. setup \in Setups  BY DEF IndInv, TypeOK
    <2>2. \A f \in Tasks : parkedOn[f] = NoThread
      BY <2>1 DEF OwnInv, ParkInv, DrainSetups
    <2>3. \A c, thr : EntryOf(c, thr).thr = thr  BY DEF EntryOf
    <2> QED  BY <1>2, <2>2, <2>3, NewEntries
  <1> QED  BY <1>1, <1>2

\* Whoever fills the list, or finds nothing in it for itself, or leaves run(),
\* there is a thread that looks at it again.
LEMMA ScansStep ==
  ASSUME IndInv, IndInv', OwnInv, PhaseInv, PhaseInv', SomebodyScans, Loose, [Next]_vars,
         m_autostop', m_fibers' # <<>>
  PROVE  \E t \in AllThreads : WillScan(t)'
  <1> USE OwnTypes
  <1>0. /\ Root \in AllThreads /\ AllThreads = Workers \cup {Root} /\ setup' = setup
        /\ Root \notin Workers /\ setup \in Setups /\ setup.threads \subseteq Workers
        /\ idle_fiber \in [AllThreads -> State]
    BY ThreadAssumption, ClientKept, SetupAssumption DEF IndInv, TypeOK, AllThreads, Setup
  <1>E. \A i \in 1..Len(m_fibers) : m_fibers[i] \in Entries  BY DEF Entries
  <1>1. CASE UNCHANGED vars \/ Returned
    BY <1>0, <1>1 DEF SomebodyScans, WillScan, vars, sched, locals, client, Returned
  <1>2. CASE start
    BY <1>2 DEF start, IndInv, LocalInv, PhaseInv
  <1>3. CASE StopBegin
    <2>1. CASE setup.use_caller
      <3>1. pc'[Root] \in {"stop_root", "stop_all"}  BY <1>0, <1>3 DEF StopBegin, Goto
      <3> QED  BY <1>0, <2>1, <3>1 DEF WillScan
    <2>2. CASE ~setup.use_caller
      <3>1. PICK w \in setup.threads : w \in Workers  BY <1>0, <2>2, SetupAssumption
      <3>2. pc[Root] = "main" /\ ~m_autostop  BY <1>3 DEF StopBegin, PhaseInv
      <3>3. /\ pc[w] \in Labels \ (OnRoot \cup {"off", "exit"}) /\ idle_fiber[w] # "TERM"
        BY <1>0, <3>1, <3>2 DEF PhaseInv
      <3>4. pc'[w] = pc[w] /\ idle_fiber'[w] = idle_fiber[w] /\ w \in AllThreads /\ w # Root
        BY <1>0, <1>3, <3>1 DEF StopBegin, Goto, locals
      <3>5. WillScan(w)'  BY <3>3, <3>4 DEF WillScan, Labels, OnRoot, Holding
      <3> QED  BY <3>4, <3>5
    <2> QED  BY <2>1, <2>2
  <1>4. CASE StopRootOnly \/ StopAll \/ StopCall \/ Join
    <2>1. /\ UNCHANGED <<m_fibers, m_autostop, ft, idle_fiber>>
          /\ pc' = [pc EXCEPT ![Root] = pc'[Root]]
      BY <1>4 DEF StopRootOnly, StopAll, StopCall, Join, Goto, locals, sched
    <2>2. PICK t \in AllThreads : WillScan(t)  BY <2>1 DEF SomebodyScans
    <2>3. CASE t # Root
      <3>1. pc'[t] = pc[t] /\ ft'[t] = ft[t] /\ idle_fiber'[t] = idle_fiber[t]  BY <2>1, <2>3
      <3>2. WillScan(t)'  BY <2>2, <2>3, <3>1 DEF WillScan
      <3> QED  BY <3>2
    <2>4. CASE t = Root
      <3>0. pc[Root] \in {"stop_root", "stop_all", "stop_call", "join"}
        BY <1>4 DEF StopRootOnly, StopAll, StopCall, Join
      <3>1. pc[Root] # "join" /\ setup.use_caller
        BY <2>2, <2>4, <3>0 DEF WillScan, Holding
      <3>2. pc'[Root] \in {"stop_all", "stop_call", "scan"}
        BY <1>0, <1>4, <2>1, <3>1 DEF StopRootOnly, StopAll, StopCall, Join, Goto, stopping
      <3>3. WillScan(Root)'  BY <1>0, <3>1, <3>2 DEF WillScan
      <3> QED  BY <1>0, <3>3
    <2> QED  BY <2>3, <2>4
  <1>5. ASSUME NEW t \in AllThreads, run(t)  PROVE \E u \in AllThreads : WillScan(u)'
    <2>1. ASSUME NEW u \in AllThreads, u # t, WillScan(u)  PROVE WillScan(u)'
      BY <1>0, <1>5, <2>1, OthersStay DEF WillScan
    <2>2. CASE ScanTakes(t)
      <3>1. PICK i \in 1..Len(m_fibers) : ft' = [ft EXCEPT ![t] = m_fibers[i]]  BY <2>2 DEF ScanTakes
      <3>2. ft'[t].kind # "none" /\ pc'[t] = "dispatch"  BY <1>E, <2>2, <3>1 DEF ScanTakes, Goto
      <3> QED  BY <3>2 DEF WillScan
    <2>3. CASE ScanFindsNone(t)
      <3>1. \A i \in 1..Len(m_fibers) : ~Eligible(m_fibers[i], t) /\ pc[t] = "scan"
            /\ m_fibers' = m_fibers
        BY <2>3 DEF ScanFindsNone
      <3>2. Len(m_fibers) \in Nat /\ m_fibers \in Seq(FiberAndThread)
        BY LenProperties DEF IndInv, TypeOK
      <3>3. m_fibers # <<>>  BY <2>3 DEF ScanFindsNone
      <3>4. 1 \in 1..Len(m_fibers)  BY <3>2, <3>3, EmptySeq
      <3>5. pc[t] = "scan"  BY <2>3 DEF ScanFindsNone
      <3> QED  BY <1>E, <3>1, <3>4, <3>5, AllEligible
    <2>4. CASE RunFiber(t) \/ RunCb(t) \/ SkipDead(t) \/ IdleBack(t) \/ swapIn(t) \/ swapOut(t)
               \/ AfterSwap(t) \/ PostReady(t) \/ PostDead(t) \/ PostOther(t) \/ SetHold(t)
      <3>1. pc'[t] \in {"scan"} \cup Holding
        BY <2>4 DEF RunFiber, RunCb, SkipDead, IdleBack, swapIn, swapOut, AfterSwap, PostReady,
                    PostDead, PostOther, SetHold, Goto, Holding
      <3> QED  BY <3>1 DEF WillScan
    <2>5. CASE back(t)
      <3>1. t # Root  BY <2>5 DEF back, OwnInv, StackInv, StageInv, Holding
      <3>2. pc'[t] = "after"  BY <2>5, <3>1 DEF back, BackTo, Goto
      <3> QED  BY <3>2 DEF WillScan, Holding
    <2>6. CASE GoIdle(t) \/ idle(t)
      <3>1. UNCHANGED <<m_fibers, m_autostop>>  BY <2>6 DEF GoIdle, idle, sched
      <3>2. PICK u \in AllThreads : WillScan(u)  BY <3>1 DEF SomebodyScans
      <3>3. CASE u # t  BY <2>1, <3>2, <3>3
      <3>4. CASE u = t
        <4>1. t # Root  BY <2>6, <3>2, <3>4 DEF WillScan, GoIdle, idle, Holding
        <4>2. pc'[t] \in {"idle", "idleback"}
          BY <2>6, <3>2, <3>4, <4>1 DEF WillScan, GoIdle, idle, BackTo, Goto, Holding
        <4> QED  BY <4>1, <4>2 DEF WillScan
      <3> QED  BY <3>3, <3>4
    <2> QED  BY <1>5, <2>2, <2>3, <2>4, <2>5, <2>6 DEF run
  <1>6. ASSUME NEW t \in AllThreads, body(t)  PROVE \E u \in AllThreads : WillScan(u)'
    <2>1. pc[t] \in {"exec", "park"}
      <3>1. m_autostop  BY <1>6 DEF body, Submit, SubmitBatch, SubmitDead, Wake, YieldToReady, Park,
                           YieldToHold, MainFunc, sched
      <3> QED
        BY <1>6, <3>1 DEF body, Submit, SubmitBatch, SubmitDead, Wake, YieldToReady, MayYield, Park,
                          YieldToHold, MainFunc, InClient, PhaseInv
    <2>2. pc'[t] \in Holding
      BY <1>6, <2>1 DEF body, Submit, SubmitBatch, SubmitDead, Wake, YieldToReady, Park, YieldToHold,
                        MainFunc, Goto, Holding
    <2> QED  BY <2>2 DEF WillScan
  <1> QED  BY <1>1, <1>2, <1>3, <1>4, <1>5, <1>6 DEF Next, stop

\* stop() returns when the list is empty and every worker has left run().
LEMMA DrainedStep ==
  ASSUME IndInv, IndInv', PhaseInv, StaysStopped, SomebodyScans, Drained, PinnedSetups, [Next]_vars
  PROVE  Drained'
  <1> USE OwnTypes
  <1>0. /\ Root \in AllThreads /\ AllThreads = Workers \cup {Root} /\ Root \notin Workers
        /\ setup \in Setups /\ setup.threads \subseteq Workers
    BY ThreadAssumption, SetupAssumption DEF IndInv, TypeOK, AllThreads, Setup
  <1>1. CASE UNCHANGED <<m_fibers, pc>>  BY <1>1 DEF Drained
  <1>2. CASE start \/ StopBegin \/ StopAll \/ StopCall
    BY <1>0, <1>2 DEF Drained, start, StopBegin, StopAll, StopCall, Goto
  <1>3. CASE StopRootOnly
    <2> SUFFICES ASSUME pc'[Root] = "returned"  PROVE Drained'
      BY DEF Drained
    <2>1. stopping' /\ pc[Root] = "stop_root" /\ pc' = [pc EXCEPT ![Root] = "returned"]
      BY <1>0, <1>3 DEF StopRootOnly, Goto
    <2>2. m_fibers' = <<>>  BY <2>1 DEF stopping
    <2>3. \A w \in Workers : pc'[w] = "off"  BY <1>0, <2>1 DEF PhaseInv
    <2> QED  BY <2>2, <2>3 DEF Drained
  <1>4. CASE Join
    <2>1. /\ pc[Root] = "join" /\ \A w \in setup.threads : pc[w] = "exit"
          /\ pc' = [pc EXCEPT ![Root] = "returned"] /\ m_fibers' = m_fibers
      BY <1>4 DEF Join, Goto
    <2>2. \A w \in Workers : pc[w] \in {"off", "exit"} /\ pc'[w] = pc[w]
      BY <1>0, <2>1 DEF PhaseInv
    <2>3. m_autostop  BY <2>1 DEF PhaseInv
    <2>4. CASE Loose
      <3>1. ASSUME NEW t \in AllThreads  PROVE ~WillScan(t)
        BY <1>0, <2>1, <2>2 DEF WillScan, Holding
      <3>2. m_fibers = <<>>  BY <2>3, <2>4, <3>1 DEF SomebodyScans
      <3> QED  BY <2>1, <2>2, <3>2 DEF Drained
    <2>5. CASE ~Loose
      <3>1. PICK w \in setup.threads : pc[w] = "exit"  BY <2>1, <2>5 DEF Loose
      <3>2. setup.yields = 0  BY <1>0, <2>5 DEF Loose, PinnedSetups
      <3>3. stopping  BY <1>0, <3>1, <3>2 DEF StaysStopped, PhaseInv
      <3> QED  BY <2>1, <2>2, <3>3 DEF Drained, stopping
    <2> QED  BY <2>4, <2>5
  <1>5. ASSUME NEW t \in AllThreads, run(t) \/ body(t)  PROVE Drained'
    <2> SUFFICES ASSUME pc'[Root] = "returned"  PROVE FALSE
      BY DEF Drained
    <2>1. /\ pc' = pc \/ pc' = [pc EXCEPT ![t] = pc'[t]]
          /\ pc'[t] = "returned" => pc[t] = "returned"
          /\ pc[t] \notin {"off", "exit", "returned"}
      <3>1. CASE run(t)
        BY <3>1
           DEF run, ScanTakes, ScanFindsNone, RunFiber, RunCb, SkipDead, GoIdle, idle, IdleBack, BackTo,
               swapIn, swapOut, back, AfterSwap, PostReady, PostDead, PostOther, SetHold, Goto
      <3>2. CASE body(t)
        BY <3>2
           DEF body, Submit, SubmitBatch, SubmitDead, Wake, InClient, YieldToReady, MayYield, Park,
               YieldToHold, MainFunc, Goto
      <3> QED  BY <1>5, <3>1, <3>2
    <2>2. pc[Root] = "returned"  BY <1>0, <2>1
    <2> QED  BY <1>0, <2>1, <2>2 DEF Drained
  <1> QED  BY <1>1, <1>2, <1>3, <1>4, <1>5 DEF Next, stop, Returned, vars

LEMMA DrainStep ==
  ASSUME IndInv, IndInv', OwnInv, StillInv, DrainInv, DrainSetups, [Next]_vars
  PROVE  DrainInv'
  <1>0. PhaseInv /\ StaysStopped /\ SomebodyScans /\ Drained /\ PinnedSetups /\ setup' = setup
    BY ClientKept DEF DrainInv, DrainSetups
  <1>1. PhaseInv'  BY <1>0, PhaseStep
  <1>2. StaysStopped'
    <2> SUFFICES ASSUME setup.yields = 0, NEW t \in AllThreads, idle_fiber'[t] = "TERM"
                 PROVE  stopping'
      BY <1>0 DEF StaysStopped
    <2>1. NobodyYields  BY DEF StillInv
    <2>2. CASE stopping  BY <1>0, <2>1, <2>2, StoppedStep
    <2>3. CASE ~stopping
      <3>0. idle_fiber \in [AllThreads -> State]  BY DEF IndInv, TypeOK
      <3>1. \A u \in AllThreads : idle_fiber[u] # "TERM"  BY <1>0, <2>3 DEF StaysStopped
      <3>2. ~(UNCHANGED vars \/ start \/ stop \/ Returned)
        BY <3>1 DEF vars, locals, start, stop, StopBegin, StopRootOnly, StopAll, StopCall, Join,
                    Returned
      <3>3. ASSUME NEW u \in AllThreads, run(u)  PROVE idle_fiber'[t] # "TERM"
        BY <2>3, <3>0, <3>1, <3>3
           DEF run, ScanTakes, ScanFindsNone, RunFiber, RunCb, SkipDead, GoIdle, idle, IdleBack,
               swapIn, swapOut, back, AfterSwap, PostReady, PostDead, PostOther, SetHold, Release, locals
      <3>4. ASSUME NEW u \in AllThreads, body(u)  PROVE idle_fiber'[t] # "TERM"
        BY <3>1, <3>4
           DEF body, Submit, SubmitBatch, SubmitDead, Wake, YieldToReady, Park, YieldToHold,
               MainFunc, locals
      <3> QED  BY <3>2, <3>3, <3>4 DEF Next
    <2> QED  BY <2>2, <2>3
  <1>3. SomebodyScans'
    <2>1. \A e \in Entries' : e.thr \in Runners' \cup {NoThread} /\ (~setup'.pinned => e.thr = NoThread)
      BY <1>0, EntriesStep DEF Runners
    <2>2. Loose' => Loose  BY <1>0 DEF Loose
    <2>3. Loose' /\ m_autostop' /\ m_fibers' # <<>> => \E t \in AllThreads : WillScan(t)'
      BY <1>0, <1>1, <2>2, ScansStep
    <2> QED  BY <2>1, <2>3 DEF SomebodyScans
  <1>4. Drained'  BY <1>0, DrainedStep
  <1> QED  BY <1>1, <1>2, <1>3, <1>4 DEF DrainInv

\* When stop() returns, the list is empty and every task has been run to its
\* end, however the workers' last scans, the idle fibers' looks at stopping()
\* and the fibers that still yield fall together (scheduler.cc: stop, idle).
THEOREM StopLeavesNothing ==
  ASSUME DrainSetups
  PROVE  Spec => []StopDrains
  <1>0. CalmSetups  BY DEF DrainSetups, CalmSetups
  <1>1. Init => DrainInv /\ StillInv
    <2> SUFFICES ASSUME Init PROVE DrainInv /\ StillInv  OBVIOUS
    <2>1. Entries = {}  BY DEF Init, Entries
    <2>2. StillInv  BY DEF Init, StillInv, NobodyYields
    <2>3. PhaseInv
      BY ThreadAssumption DEF Init, PhaseInv, OnRoot, AllThreads
    <2>4. StaysStopped /\ SomebodyScans /\ Drained
      BY <2>1 DEF Init, StaysStopped, SomebodyScans, Drained, AllThreads
    <2> QED  BY <2>2, <2>3, <2>4 DEF DrainInv
  <1>2. IndInv /\ IndInv' /\ StillInv /\ [Next]_vars => StillInv'
    BY YieldsStep, ClientKept DEF StillInv
  <1>3. IndInv /\ IndInv' /\ OwnInv /\ StillInv /\ DrainInv /\ [Next]_vars => DrainInv'  BY DrainStep
  <1>4. IndInv /\ OwnInv /\ DrainInv => StopDrains
    <2> SUFFICES ASSUME IndInv, OwnInv, DrainInv, pc[Root] = "returned"
                 PROVE  m_fibers = <<>> /\ \A c \in submitted \ ended : Parked(c)
      BY DEF StopDrains
    <2>1. m_fibers = <<>> /\ \A w \in Workers : pc[w] \in {"off", "exit"}  BY DEF DrainInv, Drained
    <2>2. \A t \in AllThreads : pc[t] \notin Holding \cup {"dispatch"}
      BY <2>1 DEF AllThreads, Holding
    <2>3. ASSUME NEW c \in submitted \ ended  PROVE Parked(c)
      <3>1. ~Queued(c)  BY <2>1 DEF Queued
      <3>2. ~InHand(c)  BY <2>2 DEF InHand
      <3> QED  BY <3>1, <3>2 DEF OwnInv, NoTaskLost
    <2> QED  BY <2>1, <2>3
  <1>5. Spec => []OwnInv  BY <1>0, OwnershipInvariant
  <1> QED  BY <1>1, <1>2, <1>3, <1>4, <1>5, InductiveInvariant, PTL DEF Spec

=============================================================================
