----------------------------- MODULE TimerProofs -----------------------------
(***************************************************************************)
(* Proofs about TimerManager, for any number of threads and timers.        *)
(***************************************************************************)
EXTENDS TimerManager, FiniteSetTheorems, WellFoundedInduction, TLAPS

\* Every step keeps the books of TimerInv.
LEMMA TimerStep ==
  ASSUME TimerInv, [Next]_vars
  PROVE  TimerInv'
  <1> USE DEF TimerInv, BookTypes, AddingInv, EraseFindsTimer, FiredInv, Goto,
              IdlePhase, times, timers, locals, hist
  <1>1. CASE Tick  BY <1>1 DEF Tick
  <1>2. CASE TimeIsUp \/ UNCHANGED vars  BY <1>2 DEF TimeIsUp, vars
  <1>3. CASE SetClockBack  BY <1>3 DEF SetClockBack
  <1>4. ASSUME NEW t \in Threads, client(t) \/ idle(t)
        PROVE  TimerInv'
    <2>1. CASE NewTimer(t)
      <3>1. PICK x \in Timers \ (added \cup {new[u] : u \in Threads}),
                 recurring \in BOOLEAN :
              /\ new' = [new EXCEPT ![t] = x]
              /\ m_recurring' = [m_recurring EXCEPT ![x] = recurring]
              /\ m_cb' = m_cb \cup {x}
        BY <2>1 DEF NewTimer
      <3>2. /\ pc' = [pc EXCEPT ![t] = "add"]
            /\ UNCHANGED <<m_timers, added, cancelled, fired>>
        BY <2>1 DEF NewTimer
      <3>3. BookTypes'  BY <3>1, <3>2
      <3>4. AddingInv'  BY <3>1, <3>2
      <3>5. EraseFindsTimer'  BY <3>1, <3>2
      <3>6. FiredInv'  BY <3>1, <3>2
      <3> QED  BY <3>3, <3>4, <3>5, <3>6
    <2>2. CASE addTimer(t)
      <3>1. /\ pc[t] = "add"
            /\ m_timers' = m_timers \cup {new[t]}
            /\ added' = added \cup {new[t]}
            /\ new' = [new EXCEPT ![t] = NoTimer]
            /\ \E l \in {"front", "client"} : pc' = [pc EXCEPT ![t] = l]
            /\ UNCHANGED <<m_cb, m_recurring, cancelled, fired>>
        BY <2>2 DEF addTimer, IsaddTimer
      <3>2. new[t] \in Timers /\ new[t] \in m_cb /\ new[t] \notin added
        BY <3>1
      <3>3. BookTypes'  BY <3>1, <3>2
      <3>4. AddingInv'  BY <3>1, <3>2
      <3>5. EraseFindsTimer'  BY <3>1, <3>2
      <3>6. FiredInv'  BY <3>1, <3>2
      <3> QED  BY <3>3, <3>4, <3>5, <3>6
    <2>3. CASE cancel(t)
      <3>1. PICK x \in added \cap m_cb :
              /\ m_cb' = m_cb \ {x}
              /\ m_timers' = m_timers \ {x}
              /\ cancelled' = cancelled \cup {x}
        BY <2>3 DEF cancel
      <3>2. UNCHANGED <<pc, new, added, fired, m_recurring>>
        BY <2>3 DEF cancel
      <3>3. BookTypes' /\ AddingInv' /\ EraseFindsTimer'  BY <3>1, <3>2
      <3>4. FiredInv'  BY <3>1, <3>2
      <3> QED  BY <3>3, <3>4
    <2>4. CASE reset(t)
      <3>1. PICK x \in m_timers : m_timers' = m_timers \cup {x}
        BY <2>4 DEF reset, IsaddTimer
      <3>2. PICK l \in {"front", "client"} : pc' = [pc EXCEPT ![t] = l]
        BY <2>4 DEF reset, IsaddTimer
      <3>3. pc[t] = "client"
            /\ UNCHANGED <<m_cb, m_recurring, new, added, cancelled, fired>>
        BY <2>4 DEF reset
      <3> QED  BY <3>1, <3>2, <3>3
    <2>5. CASE listExpiredCb(t)
      <3> DEFINE E == Expired(now_ms[t])
      <3>1. E \subseteq m_timers  BY DEF Expired
      <3>2. /\ m_timers' = {x \in m_timers : x \in E => m_recurring[x]}
            /\ m_cb' = {x \in m_cb : x \in E => m_recurring[x]}
            /\ fired' = [x \in Timers |-> IF x \in E /\ fired[x] < 2
                                          THEN fired[x] + 1 ELSE fired[x]]
            /\ pc[t] = "list2"
            /\ \E l \in {"drain", "client"} : pc' = [pc EXCEPT ![t] = l]
            /\ UNCHANGED <<new, m_recurring, added, cancelled>>
        BY <2>5 DEF listExpiredCb, Collect, CbAfter, Handle
      <3> HIDE DEF E
      <3>3. BookTypes'
        <4>1. fired' \in [Timers -> 0..2]  BY <3>2
        <4> QED  BY <3>2, <4>1
      <3>4. AddingInv'  BY <3>1, <3>2
      <3>5. EraseFindsTimer'  BY <3>1, <3>2
      <3>6. FiredInv'  BY <3>1, <3>2
      <3> QED  BY <3>3, <3>4, <3>5, <3>6
    <2>6. CASE onTimerInsertedAtFront(t)  BY <2>6 DEF onTimerInsertedAtFront
    <2>7. CASE refresh(t)  BY <2>7 DEF refresh
    <2>8. CASE schedule(t)  BY <2>8 DEF schedule
    <2>9. CASE GoIdle(t)  BY <2>9 DEF GoIdle
    <2>10. CASE getNextTimer(t)  BY <2>10 DEF getNextTimer
    <2>11. CASE Tickled(t)  BY <2>11 DEF Tickled, EndWait
    <2>12. CASE TimedOut(t)  BY <2>12 DEF TimedOut, EndWait
    <2>13. CASE Interrupted(t)  BY <2>13 DEF Interrupted
    <2>14. CASE ListExpiredTest(t)
      <3>1. /\ pc[t] = "list1"
            /\ \E l \in {"drain", "client", "list2"} : pc' = [pc EXCEPT ![t] = l]
            /\ UNCHANGED <<m_timers, m_cb, m_recurring, new, added, cancelled,
                           fired>>
        BY <2>14 DEF ListExpiredTest, Handle
      <3> QED  BY <3>1
    <2>15. CASE ListExpiredEmpty(t)
      <3>1. /\ pc[t] = "list2"
            /\ \E l \in {"drain", "client", "crashed"} : pc' = [pc EXCEPT ![t] = l]
            /\ UNCHANGED <<m_timers, m_cb, m_recurring, new, added, cancelled,
                           fired>>
        BY <2>15 DEF ListExpiredEmpty, Handle
      <3> QED  BY <3>1
    <2>16. CASE DrainPipe(t)  BY <2>16 DEF DrainPipe
    <2> QED
      BY <1>4, <2>1, <2>2, <2>3, <2>4, <2>5, <2>6, <2>7, <2>8, <2>9, <2>10,
         <2>11, <2>12, <2>13, <2>14, <2>15, <2>16 DEF client, idle
  <1> QED  BY <1>1, <1>2, <1>3, <1>4 DEF Next

\* The books are right initially: no timer exists.
LEMMA TimerInit == Init => TimerInv
  BY DEF Init, TimerInv, BookTypes, AddingInv, EraseFindsTimer, FiredInv,
               IdlePhase

\* The inductive invariant of the timers' books, for any number of timers and
\* threads, and whatever the clock does.
THEOREM TimerInvariant == Spec => []TimerInv
  BY TimerInit, TimerStep, PTL DEF Spec

\* A timer has its callback exactly as long as it is in m_timers, so that
\* Timer::cancel's unchecked find() always finds it.
THEOREM EraseSafe == Spec => []EraseFindsTimer
  <1>1. TimerInv => EraseFindsTimer  BY DEF TimerInv
  <1> QED  BY TimerInvariant, <1>1, PTL

\* A one-shot timer's callback is scheduled at most once, and not at all if
\* cancel() returned true, however expiry and cancel race.
THEOREM OneShotFiresOnce == Spec => []OneShotOnce
  <1>1. TimerInv => OneShotOnce
    BY DEF TimerInv, FiredInv, BookTypes, OneShotOnce
  <1> QED  BY TimerInvariant, <1>1, PTL

-----------------------------------------------------------------------------
(* Times.                                                                   *)

\* The order of the natural numbers as a relation.
NatLess == {p \in Nat \X Nat : p[1] < p[2]}

\* A set of naturals has a least element.
LEMMA LeastNat ==
  ASSUME NEW S \in SUBSET Nat, S # {}
  PROVE  \E n \in S : \A k \in S : n <= k
  <1>1. IsWellFoundedOn(NatLess, Nat)
    BY NatLessThanWellFounded, Zenon DEF OpToRel, NatLess
  <1>2. PICK n \in S : \A k \in S : ~(<<k, n>> \in NatLess)
    BY <1>1, WFMin
  <1>3. ASSUME NEW k \in S  PROVE n <= k
    <2> DEFINE p == <<k, n>>
    <2>1. k \in Nat /\ n \in Nat  OBVIOUS
    <2>2. p \in Nat \X Nat /\ p[1] = k /\ p[2] = n  BY <2>1
    <2>3. p \notin NatLess  BY <1>2
    <2> HIDE DEF p
    <2>4. ~(p[1] < p[2])  BY <2>2, <2>3 DEF NatLess
    <2> QED  BY <2>1, <2>2, <2>4
  <1> QED  BY <1>3

\* getNextTimer finds the first deadline, at or after the epoch.
LEMMA NextDueLeast ==
  ASSUME TimesInv, m_timers # {}
  PROVE  /\ NextDue \in Nat
         /\ \E x \in m_timers : m_next[x] = NextDue
         /\ \A x \in m_timers : NextDue <= m_next[x]
  <1> DEFINE S == {m_next[x] : x \in m_timers}
  <1>1. \A x \in m_timers : m_next[x] \in Nat
    <2> SUFFICES ASSUME NEW x \in m_timers  PROVE m_next[x] \in Nat
      OBVIOUS
    <2>1. m_next[x] \in Int /\ m_ms[x] \in Nat /\ clock \in Nat
      BY DEF TimesInv, TypeOK
    <2>2. m_next[x] - m_ms[x] >= 0
      BY <2>1, TimerAssumption DEF TimesInv, TypeOK, ReadingsInv, Within
    <2> QED  BY <2>1, <2>2
  <1>2. S \in SUBSET Nat /\ S # {}  BY <1>1
  <1>3. \E n \in S : \A k \in S : n <= k
    <2> HIDE DEF S
    <2> QED  BY <1>2, LeastNat
  <1>4. \E n \in S : \A x \in m_timers : n <= m_next[x]  BY <1>3
  <1>5. NextDue \in S /\ \A x \in m_timers : NextDue <= m_next[x]
    BY <1>4 DEF NextDue
  <1> QED  BY <1>2, <1>5

\* (int) of an unsigned number is an integer, and the number itself if that
\* is an int.
LEMMA ToIntRight ==
  ASSUME NEW x \in Nat
  PROVE  ToInt(x) \in Int /\ (x < 2 ^ (IntBits - 1) => ToInt(x) = x)
  <1> DEFINE m == 2 ^ IntBits  h == 2 ^ (IntBits - 1)
  <1>1. m \in Nat \ {0} /\ h \in Nat \ {0} /\ h < m
    BY TimerAssumption, PowerAssumption
  <1>2. ToInt(x) = IF x % m >= h THEN (x % m) - m ELSE x % m
    BY DEF ToInt
  <1> HIDE DEF m, h
  <1>3. x % m \in 0..(m - 1) /\ (x < m => x % m = x)  BY <1>1
  <1>4. ToInt(x) \in Int  BY <1>1, <1>2, <1>3
  <1>5. x < h => ToInt(x) = x  BY <1>1, <1>2, <1>3
  <1> QED  BY <1>4, <1>5 DEF h

\* What getNextTimer and the clamp give epoll_wait: an int and, if no timer is
\* too far away, one that is neither negative nor too long nor past any timer.
LEMMA StartWaitRight ==
  ASSUME TimesInv, NEW t \in Threads, StartWait(t)
  PROVE  \E ms \in Int :
           /\ timeout' = [timeout EXCEPT ![t] = ms]
           /\ deadline' = [deadline EXCEPT ![t] = IF ms < 0 THEN -1
                                                  ELSE clock + ms]
           /\ NoWrap => /\ ms \in 0..MAX_TIMEOUT
                        /\ \A x \in m_timers :
                              clock + ms <= m_next[x] \/ clock + ms <= clock
  <1> DEFINE next == IF clock >= NextDue THEN 0 ELSE NextDue - clock
             ms == IF m_timers = {} THEN MAX_TIMEOUT ELSE EpollTimeout(next)
  <1>1. /\ timeout' = [timeout EXCEPT ![t] = ms]
        /\ deadline' = [deadline EXCEPT ![t] = IF ms < 0 THEN -1
                                               ELSE clock + ms]
    BY DEF StartWait
  <1>2. MAX_TIMEOUT \in Nat /\ clock \in Nat
    BY TimerAssumption DEF TimesInv, TypeOK
  <1>3. CASE m_timers = {}
    <2>1. ms = MAX_TIMEOUT  BY <1>3
    <2> HIDE DEF ms
    <2>2. ms \in Int /\ ms \in 0..MAX_TIMEOUT  BY <2>1, <1>2
    <2>3. \A x \in m_timers :
             clock + ms <= m_next[x] \/ clock + ms <= clock  BY <1>3
    <2> QED  BY <1>1, <2>2, <2>3
  <1>4. CASE m_timers # {}
    <2>1. /\ NextDue \in Nat
          /\ \E x \in m_timers : m_next[x] = NextDue
          /\ \A x \in m_timers : NextDue <= m_next[x]
      BY <1>4, NextDueLeast
    <2>2. next \in Nat  BY <2>1, <1>2
    <2>3. ms = ToInt(IF ToInt(next) > MAX_TIMEOUT THEN MAX_TIMEOUT ELSE next)
      BY <1>4 DEF EpollTimeout
    <2>4. ms \in Int
      <3> HIDE DEF next, ms
      <3> QED  BY <2>2, <2>3, <1>2, ToIntRight
    <2>5. ASSUME NoWrap
          PROVE  ms \in 0..MAX_TIMEOUT /\ ms <= next
      <3>1. next < 2 ^ (IntBits - 1)
        <4>1. PICK x \in m_timers : m_next[x] = NextDue  BY <2>1
        <4>2. PICK d \in ClockBacks \cup {0} : Within(d)
          BY DEF TimesInv, ReadingsInv
        <4>3. x \in Timers /\ m_next[x] \in Int /\ m_ms[x] \in Nat
          BY DEF TimesInv, TypeOK
        <4>4. m_next[x] - m_ms[x] <= clock + d
          BY <4>2, <4>3, <1>2, TimerAssumption DEF Within
        <4>5. m_ms[x] + d < 2 ^ (IntBits - 1)
          BY <2>5, <4>3 DEF NoWrap, TimesInv, ReadingsInv
        <4>6. d \in Nat /\ 2 ^ (IntBits - 1) \in Int
          BY TimerAssumption, PowerAssumption
        <4> HIDE DEF ms
        <4>7. CASE clock >= NextDue  BY <4>7, PowerAssumption
        <4>8. CASE ~(clock >= NextDue)
          <5>1. next = m_next[x] - clock  BY <4>1, <4>8
          <5> HIDE DEF next
          <5> QED  BY <5>1, <4>3, <4>4, <4>5, <4>6, <1>2
        <4> QED  BY <4>7, <4>8
      <3>2. MAX_TIMEOUT < 2 ^ (IntBits - 1)  BY <2>5 DEF NoWrap
      <3> HIDE DEF next, ms
      <3>3. ToInt(next) = next  BY <2>2, <3>1, ToIntRight
      <3>4. CASE next > MAX_TIMEOUT
        <4>1. ms = MAX_TIMEOUT  BY <2>3, <3>2, <3>3, <3>4, <1>2, ToIntRight
        <4> QED  BY <4>1, <3>4, <1>2, <2>2
      <3>5. CASE ~(next > MAX_TIMEOUT)
        <4>1. ms = next  BY <2>3, <3>3, <3>5
        <4> QED  BY <4>1, <3>5, <1>2, <2>2
      <3> QED  BY <3>4, <3>5
    <2>6. ASSUME NoWrap, NEW x \in m_timers
          PROVE  clock + ms <= m_next[x] \/ clock + ms <= clock
      <3>1. NextDue <= m_next[x] /\ m_next[x] \in Int
        BY <2>1 DEF TimesInv, TypeOK
      <3>2. ms \in 0..MAX_TIMEOUT /\ ms <= next  BY <2>5, <2>6
      <3> HIDE DEF ms
      <3> QED  BY <3>1, <3>2, <2>1, <1>2
    <2> HIDE DEF ms
    <2> QED  BY <1>1, <2>4, <2>5, <2>6
  <1> QED  BY <1>3, <1>4

\* Times read off the clock stay within d of it while the clock goes on.
LEMMA ReadingsKept ==
  ASSUME TimesInv, clock' \in Nat, clock' >= clock, setBack' = setBack,
         \A x \in Timers : m_ms'[x] \in Delays \cup {0},
         \A x \in Timers :
             \/ m_next'[x] - m_ms'[x] = m_next[x] - m_ms[x]
             \/ m_next'[x] - m_ms'[x] = clock
             \/ \E t \in Threads : m_next'[x] - m_ms'[x] = now_ms[t],
         \A t \in Threads : now_ms'[t] \in {now_ms[t], 0, clock},
         \/ m_previousTime' = m_previousTime
         \/ \E t \in Threads : m_previousTime' = now_ms[t]
  PROVE  ReadingsInv'
  <1>1. PICK d \in ClockBacks \cup {0} : (setBack # "was" => d = 0) /\ Within(d)
    BY DEF TimesInv, ReadingsInv
  <1>2. d \in Nat /\ clock \in Nat /\ \A t \in Threads : now_ms[t] \in Nat
    BY TimerAssumption DEF TimesInv, TypeOK
  <1>3. \A x \in Timers : m_next'[x] - m_ms'[x] \in 0..(clock' + d)
    BY <1>1, <1>2 DEF Within
  <1>4. \A t \in Threads : now_ms'[t] <= clock' + d  BY <1>1, <1>2 DEF Within
  <1>5. m_previousTime' <= clock' + d
    <2>1. m_previousTime \in Nat  BY DEF TimesInv, TypeOK
    <2> QED  BY <2>1, <1>1, <1>2 DEF Within
  <1>6. Within(d)'  BY <1>3, <1>4, <1>5 DEF Within
  <1> QED  BY <1>1, <1>6 DEF ReadingsInv

LEMMA ReadingsSame ==
  ASSUME TimesInv,
         UNCHANGED <<clock, setBack, m_ms, m_next, now_ms, m_previousTime>>
  PROVE  ReadingsInv'
  BY DEF TimesInv, ReadingsInv, Within

\* The types, and the bounds on the times, are kept by every step.
LEMMA TimesStep ==
  ASSUME TimesInv, TimerInv, [Next]_vars
  PROVE  TimesInv'
  <1> USE DEF Goto, IdlePhase, times, timers, locals, hist
  <1>1. CASE Tick
    <2>1. TypeOK'  BY <1>1 DEF Tick, TimesInv, TypeOK
    <2>2. clock \in Nat /\ clock' = clock + 1  BY <1>1 DEF Tick, TimesInv, TypeOK
    <2>3. UNCHANGED <<setBack, m_ms, m_next, now_ms, m_previousTime>>
      BY <1>1 DEF Tick
    <2>4. \A x \in Timers : m_ms[x] \in Delays \cup {0}
      BY DEF TimesInv, ReadingsInv
    <2>5. ReadingsInv'  BY <2>2, <2>3, <2>4, ReadingsKept
    <2> QED  BY <2>1, <2>5 DEF TimesInv
  <1>2. CASE TimeIsUp \/ UNCHANGED vars
    BY <1>2 DEF TimeIsUp, vars, TimesInv, TypeOK, ReadingsInv, Within
  <1>3. CASE SetClockBack
    <2>1. PICK d \in ClockBacks :
            /\ d <= clock
            /\ clock' = clock - d
            /\ deadline' = [t \in Threads |->
                  IF pc[t] # "wait" \/ deadline[t] < 0 THEN deadline[t]
                  ELSE IF deadline[t] < d THEN 0 ELSE deadline[t] - d]
      BY <1>3 DEF SetClockBack
    <2>2. /\ setBack = "may" /\ setBack' = "was"
          /\ UNCHANGED <<eintr, timers, m_tickled, m_previousTime, pipe, pc,
                         new, now_ms, rt, timeout, hist>>
      BY <1>3 DEF SetClockBack
    <2>3. d \in Nat /\ clock \in Nat /\ clock' \in Nat
      BY <2>1, TimerAssumption DEF TimesInv, TypeOK
    <2>4. deadline' \in [Threads -> Nat \cup {-1}]
      BY <2>1, <2>3 DEF TimesInv, TypeOK
    <2>5. TypeOK'  BY <2>2, <2>3, <2>4 DEF TimesInv, TypeOK
    <2>6. Within(0)  BY <2>2 DEF TimesInv, ReadingsInv
    <2>7. clock' + d = clock + 0  BY <2>1, <2>3
    <2>8. Within(d)'  BY <2>2, <2>6, <2>7 DEF Within
    <2>9. ReadingsInv'
      <3>1. \A x \in Timers : m_ms'[x] \in Delays \cup {0}
        BY <2>2 DEF TimesInv, ReadingsInv
      <3> QED  BY <2>2, <2>8, <3>1 DEF ReadingsInv
    <2> QED  BY <2>5, <2>9 DEF TimesInv
  <1>4. ASSUME NEW t \in Threads, client(t) \/ idle(t)
        PROVE  TimesInv'
    <2>0. /\ clock \in Nat
          /\ \A x \in Timers : m_ms[x] \in Delays \cup {0} /\ m_ms[x] \in Nat
                               /\ m_next[x] \in Int
          /\ \A u \in Threads : now_ms[u] \in Nat
      BY DEF TimesInv, TypeOK, ReadingsInv
    <2>1. CASE NewTimer(t)
      <3>1. PICK x \in Timers \ (added \cup {new[u] : u \in Threads}),
                 ms \in Delays, recurring \in BOOLEAN :
              /\ new' = [new EXCEPT ![t] = x]
              /\ m_next' = [m_next EXCEPT ![x] = clock + ms]
              /\ m_ms' = [m_ms EXCEPT ![x] = ms]
              /\ m_recurring' = [m_recurring EXCEPT ![x] = recurring]
              /\ m_cb' = m_cb \cup {x}
        BY <2>1 DEF NewTimer
      <3>2. /\ pc' = [pc EXCEPT ![t] = "add"]
            /\ UNCHANGED <<times, m_timers, m_tickled, m_previousTime, pipe,
                           now_ms, rt, timeout, deadline, hist>>
        BY <2>1 DEF NewTimer
      <3>3. ms \in Nat  BY TimerAssumption
      <3>4. TypeOK'  BY <3>1, <3>2, <3>3 DEF TimesInv, TypeOK
      <3>5. \A y \in Timers : m_ms'[y] \in Delays \cup {0}
        BY <2>0, <3>1 DEF TimesInv, TypeOK
      <3>6. \A y \in Timers : \/ m_next'[y] - m_ms'[y] = m_next[y] - m_ms[y]
                              \/ m_next'[y] - m_ms'[y] = clock
        BY <2>0, <3>1, <3>3 DEF TimesInv, TypeOK
      <3>7. ReadingsInv'  BY <2>0, <3>2, <3>5, <3>6, ReadingsKept
      <3> QED  BY <3>4, <3>7 DEF TimesInv
    <2>2. CASE addTimer(t)
      <3>1. /\ m_timers' = m_timers \cup {new[t]} /\ added' = added \cup {new[t]}
            /\ m_tickled' \in BOOLEAN
            /\ new' = [new EXCEPT ![t] = NoTimer]
            /\ \E l \in {"front", "client"} : pc' = [pc EXCEPT ![t] = l]
            /\ UNCHANGED <<times, m_cb, m_next, m_ms, m_recurring,
                           m_previousTime, pipe, now_ms, rt, timeout, deadline,
                           cancelled, fired>>
        BY <2>2 DEF addTimer, IsaddTimer, TimesInv, TypeOK
      <3>2. pc[t] = "add"  BY <2>2 DEF addTimer
      <3>3. new[t] \in Timers  BY <3>2 DEF TimerInv, AddingInv
      <3>4. TypeOK'  BY <3>1, <3>3 DEF TimesInv, TypeOK
      <3>5. ReadingsInv'  BY <3>1, ReadingsSame
      <3> QED  BY <3>4, <3>5 DEF TimesInv
    <2>3. CASE cancel(t)
      <3>1. TypeOK'  BY <2>3 DEF cancel, TimesInv, TypeOK
      <3>2. ReadingsInv'  BY <2>3, ReadingsSame DEF cancel
      <3> QED  BY <3>1, <3>2 DEF TimesInv
    <2>4. CASE reset(t)
      <3>1. PICK x \in added \cap m_cb \cap m_timers, ms \in Delays,
                 from_now \in BOOLEAN :
              /\ m_ms' = [m_ms EXCEPT ![x] = ms]
              /\ IsaddTimer(t, x, [m_next EXCEPT ![x] =
                     (IF from_now THEN clock ELSE m_next[x] - m_ms[x]) + ms])
        BY <2>4 DEF reset
      <3>2. UNCHANGED <<times, m_cb, m_recurring, m_previousTime, pipe, locals,
                        hist>>
        BY <2>4 DEF reset
      <3>3. x \in Timers /\ ms \in Nat  BY TimerAssumption DEF TimesInv, TypeOK
      <3>4. m_next' = [m_next EXCEPT ![x] =
               (IF from_now THEN clock ELSE m_next[x] - m_ms[x]) + ms]
        BY <3>1 DEF IsaddTimer
      <3>5. /\ m_timers' = m_timers \cup {x} /\ m_tickled' \in BOOLEAN
            /\ \E l \in {"front", "client"} : pc' = [pc EXCEPT ![t] = l]
        BY <3>1 DEF IsaddTimer, TimesInv, TypeOK
      <3>6. m_next' \in [Timers -> Int] /\ m_ms' \in [Timers -> Nat]
        BY <2>0, <3>1, <3>3, <3>4 DEF TimesInv, TypeOK
      <3>7. TypeOK'  BY <3>2, <3>3, <3>5, <3>6 DEF TimesInv, TypeOK
      <3>8. \A y \in Timers : m_ms'[y] \in Delays \cup {0}
        BY <2>0, <3>1 DEF TimesInv, TypeOK
      <3>9. \A y \in Timers : \/ m_next'[y] - m_ms'[y] = m_next[y] - m_ms[y]
                              \/ m_next'[y] - m_ms'[y] = clock
        BY <2>0, <3>1, <3>3, <3>4 DEF TimesInv, TypeOK
      <3>10. ReadingsInv'  BY <2>0, <3>2, <3>8, <3>9, ReadingsKept
      <3> QED  BY <3>7, <3>10 DEF TimesInv
    <2>5. CASE listExpiredCb(t)
      <3> DEFINE now == now_ms[t]
      <3>1. now \in Nat  BY <2>0
      <3>2. /\ m_timers' \subseteq m_timers /\ m_cb' \subseteq m_cb
            /\ pipe' \in BOOLEAN
            /\ m_previousTime' = now
            /\ now_ms' = [now_ms EXCEPT ![t] = 0]
            /\ UNCHANGED <<times, m_ms, m_recurring, m_tickled, new, rt,
                           timeout, deadline, added, cancelled>>
        BY <2>5 DEF listExpiredCb, Collect, CbAfter, TimesInv, TypeOK
      <3>3. pc' = [pc EXCEPT ![t] = Handle(t)]
        BY <2>5 DEF listExpiredCb, Collect
      <3>4. Handle(t) \in {"drain", "client"}  BY DEF Handle
      <3>5. m_next' = [x \in Timers |-> IF x \in Expired(now) /\ m_recurring[x]
                                        THEN now + m_ms[x] ELSE m_next[x]]
        BY <2>5 DEF listExpiredCb, Collect, NextAfter
      <3>6. fired' \in [Timers -> 0..2]
        <4>1. fired' = [x \in Timers |->
                 IF x \in Expired(now) /\ fired[x] < 2 THEN fired[x] + 1
                 ELSE fired[x]]
          BY <2>5 DEF listExpiredCb, Collect
        <4>2. fired \in [Timers -> 0..2]  BY DEF TimesInv, TypeOK
        <4> QED  BY <4>1, <4>2
      <3> HIDE DEF now
      <3>7. m_next' \in [Timers -> Int]  BY <2>0, <3>1, <3>5
      <3>8. TypeOK'
        BY <3>1, <3>2, <3>3, <3>4, <3>6, <3>7 DEF TimesInv, TypeOK
      <3>9. \A x \in Timers : \/ m_next'[x] - m_ms'[x] = m_next[x] - m_ms[x]
                              \/ m_next'[x] - m_ms'[x] = now
        BY <2>0, <3>1, <3>2, <3>5
      <3>10. \A u \in Threads : now_ms'[u] \in {now_ms[u], 0, clock}
        BY <3>2 DEF TimesInv, TypeOK
      <3>11. ReadingsInv'
        BY <2>0, <3>2, <3>9, <3>10, ReadingsKept DEF now
      <3> QED  BY <3>8, <3>11 DEF TimesInv
    <2>6. CASE onTimerInsertedAtFront(t)
      <3>1. pipe' \in BOOLEAN
        BY <2>6 DEF onTimerInsertedAtFront, hasIdleThreads, TimesInv, TypeOK
      <3>2. TypeOK'  BY <2>6, <3>1 DEF onTimerInsertedAtFront, TimesInv, TypeOK
      <3>3. ReadingsInv'  BY <2>6, ReadingsSame DEF onTimerInsertedAtFront
      <3> QED  BY <3>2, <3>3 DEF TimesInv
    <2>7. CASE refresh(t)
      <3>1. PICK x \in added \cap m_cb \cap m_timers :
              m_next' = [m_next EXCEPT ![x] = clock + m_ms[x]]
        BY <2>7 DEF refresh
      <3>2. UNCHANGED <<times, m_timers, m_cb, m_ms, m_recurring, m_tickled,
                        m_previousTime, pipe, pc, locals, hist>>
        BY <2>7 DEF refresh
      <3>3. x \in Timers  BY DEF TimesInv, TypeOK
      <3>4. m_next' \in [Timers -> Int]
        BY <2>0, <3>1, <3>3 DEF TimesInv, TypeOK
      <3>5. TypeOK'  BY <3>2, <3>4 DEF TimesInv, TypeOK
      <3>6. \A y \in Timers : \/ m_next'[y] - m_ms'[y] = m_next[y] - m_ms[y]
                              \/ m_next'[y] - m_ms'[y] = clock
        BY <2>0, <3>1, <3>2, <3>3 DEF TimesInv, TypeOK
      <3>7. ReadingsInv'  BY <2>0, <3>2, <3>6, ReadingsKept
      <3> QED  BY <3>5, <3>7 DEF TimesInv
    <2>8. CASE schedule(t) \/ GoIdle(t) \/ DrainPipe(t)
      <3>1. TypeOK'  BY <2>8 DEF schedule, GoIdle, DrainPipe, TimesInv, TypeOK
      <3>2. ReadingsInv'  BY <2>8, ReadingsSame DEF schedule, GoIdle, DrainPipe
      <3> QED  BY <3>1, <3>2 DEF TimesInv
    <2>9. CASE getNextTimer(t)
      <3>1. StartWait(t)  BY <2>9 DEF getNextTimer
      <3>2. PICK ms \in Int :
              /\ timeout' = [timeout EXCEPT ![t] = ms]
              /\ deadline' = [deadline EXCEPT ![t] = IF ms < 0 THEN -1
                                                     ELSE clock + ms]
        BY <3>1, StartWaitRight
      <3>3. /\ timeout' \in [Threads -> Int]
            /\ deadline' \in [Threads -> Nat \cup {-1}]
        BY <2>0, <3>2 DEF TimesInv, TypeOK
      <3>4. TypeOK'  BY <2>9, <3>3 DEF getNextTimer, TimesInv, TypeOK
      <3>5. ReadingsInv'  BY <2>9, ReadingsSame DEF getNextTimer
      <3> QED  BY <3>4, <3>5 DEF TimesInv
    <2>10. CASE Tickled(t) \/ TimedOut(t)
      <3>0. /\ pipe' \in BOOLEAN
            /\ \/ rt' = [rt EXCEPT ![t] = TRUE]
               \/ rt' = rt
            /\ timeout' = [timeout EXCEPT ![t] = 0]
            /\ deadline' = [deadline EXCEPT ![t] = 0]
            /\ pc' = [pc EXCEPT ![t] = "list1"]
            /\ UNCHANGED <<times, timers, m_tickled, m_previousTime, new,
                           now_ms, hist>>
        BY <2>10 DEF Tickled, TimedOut, EndWait, TimesInv, TypeOK
      <3>1. TypeOK'
        <4>1. rt' \in [Threads -> BOOLEAN]  BY <3>0 DEF TimesInv, TypeOK
        <4>2. /\ timeout' \in [Threads -> Int]
              /\ deadline' \in [Threads -> Nat \cup {-1}]
          BY <3>0 DEF TimesInv, TypeOK
        <4> QED  BY <3>0, <4>1, <4>2 DEF TimesInv, TypeOK
      <3>2. ReadingsInv'  BY <2>10, ReadingsSame DEF Tickled, TimedOut, EndWait
      <3> QED  BY <3>1, <3>2 DEF TimesInv
    <2>11. CASE Interrupted(t)
      <3>1. TypeOK'  BY <2>11 DEF Interrupted, TimesInv, TypeOK
      <3>2. ReadingsInv'  BY <2>11, ReadingsSame DEF Interrupted
      <3> QED  BY <3>1, <3>2 DEF TimesInv
    <2>12. CASE ListExpiredTest(t) \/ ListExpiredEmpty(t)
      <3>1. \/ now_ms' = [now_ms EXCEPT ![t] = IF m_timers = {} THEN 0 ELSE clock]
               /\ m_previousTime' = m_previousTime
            \/ now_ms' = [now_ms EXCEPT ![t] = 0] /\ m_previousTime' = now_ms[t]
        BY <2>12 DEF ListExpiredTest, ListExpiredEmpty
      <3>2. /\ \E l \in {"drain", "client", "list2", "crashed"} :
                   pc' = [pc EXCEPT ![t] = l]
            /\ UNCHANGED <<times, timers, m_tickled, pipe, new, rt, timeout,
                           deadline, hist>>
        BY <2>12 DEF ListExpiredTest, ListExpiredEmpty, Handle
      <3>3. now_ms' \in [Threads -> Nat] /\ m_previousTime' \in Nat
        BY <2>0, <3>1 DEF TimesInv, TypeOK
      <3>4. TypeOK'  BY <3>2, <3>3 DEF TimesInv, TypeOK
      <3>5. \A u \in Threads : now_ms'[u] \in {now_ms[u], 0, clock}
        BY <3>1 DEF TimesInv, TypeOK
      <3>6. ReadingsInv'  BY <2>0, <3>1, <3>2, <3>5, ReadingsKept
      <3> QED  BY <3>4, <3>6 DEF TimesInv
    <2> QED
      BY <1>4, <2>1, <2>2, <2>3, <2>4, <2>5, <2>6, <2>7, <2>8, <2>9, <2>10,
         <2>11, <2>12 DEF client, idle
  <1> QED  BY <1>1, <1>2, <1>3, <1>4 DEF Next

\* Initially every time is the start of the clock.
LEMMA TimesInit == Init => TimesInv
  <1> SUFFICES ASSUME Init  PROVE TimesInv
    OBVIOUS
  <1>1. TypeOK
    <2>1. /\ setBack \in {"never", "may", "was"}
          /\ pc \in [Threads -> {"off", "client", "add", "front", "crashed"}
                                \cup IdlePhase]
      BY DEF Init
    <2>2. /\ m_next \in [Timers -> Int] /\ m_ms \in [Timers -> Nat]
          /\ m_recurring \in [Timers -> BOOLEAN] /\ fired \in [Timers -> 0..2]
          /\ new \in [Threads -> Timers \cup {NoTimer}]
          /\ now_ms \in [Threads -> Nat] /\ rt \in [Threads -> BOOLEAN]
          /\ timeout \in [Threads -> Int]
          /\ deadline \in [Threads -> Nat \cup {-1}]
      BY DEF Init
    <2>3. /\ clock \in Nat /\ eintr \in Nat /\ m_previousTime \in Nat
          /\ m_timers \subseteq Timers /\ m_cb \subseteq Timers
          /\ m_tickled \in BOOLEAN /\ pipe \in BOOLEAN
          /\ added \subseteq Timers /\ cancelled \subseteq added
      BY TimerAssumption DEF Init
    <2> QED  BY <2>1, <2>2, <2>3 DEF TypeOK
  <1>2. Within(0)  BY TimerAssumption DEF Init, Within
  <1>3. \A x \in Timers : m_ms[x] \in Delays \cup {0}  BY DEF Init
  <1> QED  BY <1>1, <1>2, <1>3 DEF TimesInv, ReadingsInv

\* Every time in the manager is a clock reading, or one plus a delay, for any
\* number of threads and timers and whatever the clock does.
THEOREM TimesInvariant == Spec => []TimesInv
  BY TimesInit, TimesStep, TimerInvariant, PTL DEF Spec

\* The type invariant of the timers.
THEOREM TimerTypeOK == Spec => []TypeOK
  <1>1. TimesInv => TypeOK  BY DEF TimesInv
  <1> QED  BY TimesInvariant, <1>1, PTL

\* Only listExpiredCb schedules callbacks.
LEMMA OnlyExpiryFires ==
  ASSUME [Next]_vars
  PROVE  UNCHANGED fired \/ \E t \in Threads : listExpiredCb(t)
  BY DEF Next, client, idle, Tick, TimeIsUp, SetClockBack, NewTimer, addTimer,
         onTimerInsertedAtFront, cancel, refresh, reset, schedule, GoIdle,
         getNextTimer, Tickled, TimedOut, Interrupted, ListExpiredTest,
         ListExpiredEmpty, DrainPipe, vars, times, timers, locals, hist

\* A reading of the clock that is at most an hour old is not mistaken for a
\* clock that was set back.
LEMMA NoFalseRollover ==
  ASSUME TimesInv, NotHeldUp, NEW t \in Threads, pc[t] = "list2",
         setBack # "was"
  PROVE  now_ms[t] <= clock /\ ~detectClockRollover(now_ms[t])
  <1>1. /\ clock \in Nat /\ m_previousTime \in Nat /\ now_ms[t] \in Nat
        /\ Hour \in Nat
    BY TimerAssumption DEF TimesInv, TypeOK
  <1>2. Within(0)  BY DEF TimesInv, ReadingsInv
  <1>3. now_ms[t] <= clock /\ m_previousTime <= clock
    BY <1>1, <1>2 DEF Within
  <1>4. clock - now_ms[t] <= Hour  BY DEF NotHeldUp
  <1> QED  BY <1>1, <1>3, <1>4 DEF detectClockRollover

\* No callback is scheduled before its timer is due, unless the clock was set
\* back, as long as no thread is held up for an hour in front of the lock.
THEOREM TimersNotEarly == Spec /\ []NotHeldUp => NotEarly
  <1>1. ASSUME TimesInv, NotHeldUp, [Next]_vars
        PROVE  [\A x \in Timers : fired'[x] # fired[x] =>
                   setBack = "was" \/ m_next[x] <= clock]_vars
    <2> SUFFICES ASSUME NEW x \in Timers, fired'[x] # fired[x],
                        setBack # "was"
                 PROVE  m_next[x] <= clock
      OBVIOUS
    <2>1. PICK t \in Threads : listExpiredCb(t)  BY <1>1, OnlyExpiryFires
    <2>2. pc[t] = "list2"  BY <2>1 DEF listExpiredCb, Collect
    <2>3. x \in Expired(now_ms[t])  BY <2>1 DEF listExpiredCb, Collect
    <2>4. now_ms[t] <= clock /\ ~detectClockRollover(now_ms[t])
      BY <1>1, <2>2, NoFalseRollover
    <2>5. m_next[x] <= now_ms[t]  BY <2>3, <2>4 DEF Expired
    <2>6. m_next[x] \in Int /\ now_ms[t] \in Int /\ clock \in Int
      BY <1>1 DEF TimesInv, TypeOK
    <2> QED  BY <2>4, <2>5, <2>6
  <1> QED  BY <1>1, TimesInvariant, PTL DEF Spec, NotEarly

\* Every epoll_wait's timeout is one that getNextTimer and the clamp gave.
LEMMA WaitStep ==
  ASSUME NoWrap, TimesInv, TimesInv', WaitInv, [Next]_vars
  PROVE  WaitInv'
  <1> USE DEF Goto, times, timers, locals, hist
  <1>0. /\ clock \in Nat /\ clock' \in Nat /\ MAX_TIMEOUT \in Nat
        /\ pc \in [Threads -> {"off", "client", "add", "front", "crashed"}
                              \cup IdlePhase]
        /\ timeout \in [Threads -> Int] /\ deadline \in [Threads -> Nat \cup {-1}]
    BY TimerAssumption DEF TimesInv, TypeOK
  <1>1. CASE Tick  BY <1>0, <1>1 DEF Tick, WaitInv
  <1>2. CASE TimeIsUp \/ UNCHANGED vars  BY <1>2 DEF TimeIsUp, vars, WaitInv
  <1>3. CASE SetClockBack
    <2>1. PICK d \in ClockBacks :
            /\ d <= clock
            /\ clock' = clock - d
            /\ deadline' = [t \in Threads |->
                  IF pc[t] # "wait" \/ deadline[t] < 0 THEN deadline[t]
                  ELSE IF deadline[t] < d THEN 0 ELSE deadline[t] - d]
      BY <1>3 DEF SetClockBack
    <2>2. d \in Nat /\ UNCHANGED <<pc, timeout>>
      BY <1>3, TimerAssumption DEF SetClockBack
    <2> SUFFICES ASSUME NEW t \in Threads, pc[t] = "wait"
                 PROVE  /\ timeout[t] \in 0..MAX_TIMEOUT
                        /\ deadline'[t] \in 0..(clock' + MAX_TIMEOUT)
      BY <2>2 DEF WaitInv
    <2>3. timeout[t] \in 0..MAX_TIMEOUT
          /\ deadline[t] \in 0..(clock + MAX_TIMEOUT)
      BY DEF WaitInv
    <2>4. deadline'[t] = IF deadline[t] < d THEN 0 ELSE deadline[t] - d
      BY <1>0, <2>1, <2>3
    <2> QED  BY <1>0, <2>1, <2>2, <2>3, <2>4
  <1>4. ASSUME NEW t \in Threads, client(t) \/ idle(t)
        PROVE  WaitInv'
    <2>1. CASE getNextTimer(t)
      <3>1. StartWait(t) /\ UNCHANGED clock /\ pc' = [pc EXCEPT ![t] = "wait"]
        BY <2>1 DEF getNextTimer
      <3>2. PICK ms \in Int :
              /\ timeout' = [timeout EXCEPT ![t] = ms]
              /\ deadline' = [deadline EXCEPT ![t] = IF ms < 0 THEN -1
                                                     ELSE clock + ms]
              /\ ms \in 0..MAX_TIMEOUT
        BY <3>1, StartWaitRight
      <3> QED  BY <1>0, <3>1, <3>2 DEF WaitInv
    <2>2. CASE Interrupted(t)
      <3>1. /\ pc[t] = "wait" /\ UNCHANGED <<clock, pc, timeout>>
            /\ deadline' = [deadline EXCEPT ![t] = IF timeout[t] < 0 THEN -1
                                                   ELSE clock + timeout[t]]
        BY <2>2 DEF Interrupted
      <3> QED  BY <1>0, <3>1 DEF WaitInv
    <2>3. CASE Tickled(t) \/ TimedOut(t)
      BY <1>0, <2>3 DEF Tickled, TimedOut, EndWait, WaitInv
    <2>4. CASE /\ ~getNextTimer(t) /\ ~Interrupted(t)
               /\ ~Tickled(t) /\ ~TimedOut(t)
      <3>1. /\ UNCHANGED <<clock, timeout, deadline>>
            /\ \/ UNCHANGED pc
               \/ \E l \in {"add", "front", "client", "getnext", "list2",
                            "drain", "crashed"} : pc' = [pc EXCEPT ![t] = l]
        BY <1>4, <2>4
           DEF client, idle, NewTimer, addTimer, IsaddTimer, cancel, refresh,
               reset, onTimerInsertedAtFront, schedule, GoIdle, ListExpiredTest,
               listExpiredCb, Collect, ListExpiredEmpty, Handle, DrainPipe
      <3> QED  BY <1>0, <3>1 DEF WaitInv
    <2> QED  BY <2>1, <2>2, <2>3, <2>4
  <1> QED  BY <1>1, <1>2, <1>3, <1>4 DEF Next

LEMMA WaitInvariant == ASSUME NoWrap PROVE Spec => []WaitInv
  <1>1. Init => WaitInv  BY DEF Init, WaitInv
  <1>2. TimesInv /\ TimesInv' /\ WaitInv /\ [Next]_vars => WaitInv'
    BY WaitStep
  <1> QED  BY <1>1, <1>2, TimesInvariant, PTL DEF Spec

\* No epoll_wait lasts longer than MAX_TIMEOUT, also when the clock is set or
\* a signal interrupts it, if no timer is more than 2^(IntBits - 1) ms away.
THEOREM SleepIsBounded == ASSUME NoWrap PROVE Spec => []SleepBounded
  <1>1. WaitInv => SleepBounded  BY DEF WaitInv, SleepBounded, Threads
  <1> QED  BY WaitInvariant, <1>1, PTL

\* The timer x goes in: unless that owes a tickle, m_tickled is set or some
\* other timer is due no later.
LEMMA InsertOwesTickle ==
  ASSUME NEW t \in Threads, NEW x, NEW next, IsaddTimer(t, x, next),
         ~m_tickled, pc'[t] # "front", t \in DOMAIN pc
  PROVE  /\ ~m_tickled'
         /\ \E y \in m_timers \ {x} : ~(next[x] < next[y])
  <1>1. ~AtFront(next, x, m_timers \cup {x})
    BY DEF IsaddTimer, Goto
  <1> QED  BY <1>1 DEF IsaddTimer, AtFront, Before

\* A client's step while the only worker sleeps.
LEMMA ClientStep ==
  ASSUME TimerInv, TimesInv, WaitInv, SleepInv,
         NEW w \in Workers, OnlySleeper(w),
         NEW t \in Clients, client(t) \/ idle(t), ~TickleComes'
  PROVE  /\ ~m_tickled'
         /\ \A x \in m_timers' :
               deadline'[w] <= m_next'[x] \/ deadline'[w] <= clock'
  <1> USE DEF Goto, times, timers, locals, hist
  <1>1. t \in Threads /\ w \in Threads /\ t # w /\ DOMAIN pc = Threads
    BY TimerAssumption DEF Threads, TimesInv, TypeOK
  <1>2. client(t)
    <2>1. pc[t] \notin IdlePhase /\ t \notin Workers
      BY TimerAssumption DEF SleepInv
    <2> QED
      BY <2>1 DEF client, idle, IdlePhase, GoIdle, getNextTimer, Tickled,
                  TimedOut, Interrupted, ListExpiredTest, listExpiredCb,
                  Collect, ListExpiredEmpty, DrainPipe
  <1>3. UNCHANGED <<clock, deadline>>
    BY <1>2 DEF client, NewTimer, addTimer, onTimerInsertedAtFront, cancel,
                refresh, reset, schedule
  <1>4. /\ clock \in Nat /\ m_timers \subseteq Timers
        /\ m_next \in [Timers -> Int] /\ deadline[w] \in Int
        /\ \A x \in Timers : m_ms[x] \in Nat
    BY <1>1 DEF TimesInv, TypeOK
  <1>5. \A x \in Timers : m_next[x] - m_ms[x] <= clock
    <2>1. Within(0)  BY DEF OnlySleeper, TimesInv, ReadingsInv
    <2> QED  BY <2>1, <1>4 DEF Within
  <1>6. ~onTimerInsertedAtFront(t) /\ ~schedule(t)
    <2>1. hasIdleThreads  BY DEF OnlySleeper, hasIdleThreads, IdlePhase
    <2> QED  BY <2>1 DEF onTimerInsertedAtFront, schedule, TickleComes
  <1>7. ~TickleComes
    <2>1. UNCHANGED pipe /\ pc[t] # "front"
      BY <1>2, <1>6 DEF client, NewTimer, addTimer, cancel, refresh, reset
    <2>2. \A u \in Threads \ {t} : pc'[u] = pc[u]
      BY <1>1, <1>2, <1>6 DEF client, NewTimer, addTimer, IsaddTimer, cancel,
                              refresh, reset
    <2> QED  BY <2>1, <2>2 DEF TickleComes, Threads
  <1>8. /\ ~m_tickled
        /\ \A x \in m_timers : deadline[w] <= m_next[x] \/ deadline[w] <= clock
    BY <1>7 DEF SleepInv
  <1>9. pc'[t] # "front"  BY DEF TickleComes
  <1>10. CASE NewTimer(t)
    <2>1. PICK x \in Timers \ added, ms \in Delays :
            m_next' = [m_next EXCEPT ![x] = clock + ms]
      BY <1>10 DEF NewTimer
    <2>2. UNCHANGED <<m_timers, m_tickled>>  BY <1>10 DEF NewTimer
    <2>3. x \notin m_timers  BY DEF TimerInv, EraseFindsTimer
    <2> QED  BY <1>3, <1>4, <1>8, <2>1, <2>2, <2>3
  <1>11. CASE addTimer(t)
    <2>1. /\ IsaddTimer(t, new[t], m_next)
          /\ m_timers' = m_timers \cup {new[t]} /\ m_next' = m_next
          /\ pc[t] = "add"
      BY <1>11 DEF addTimer, IsaddTimer
    <2>2. new[t] \in Timers  BY <1>1, <2>1 DEF TimerInv, AddingInv
    <2>3. ~m_tickled' /\ \E y \in m_timers : ~(m_next[new[t]] < m_next[y])
      BY <1>1, <1>8, <1>9, <2>1, InsertOwesTickle
    <2> QED  BY <1>3, <1>4, <1>8, <2>1, <2>2, <2>3
  <1>12. CASE cancel(t)  BY <1>3, <1>8, <1>12 DEF cancel
  <1>13. CASE refresh(t)
    <2>1. PICK x \in m_timers : m_next' = [m_next EXCEPT ![x] = clock + m_ms[x]]
      BY <1>13 DEF refresh
    <2>2. UNCHANGED <<m_timers, m_tickled>>  BY <1>13 DEF refresh
    <2>3. clock + m_ms[x] >= m_next[x]  BY <1>4, <1>5
    <2> QED  BY <1>3, <1>4, <1>8, <2>1, <2>2, <2>3
  <1>14. CASE reset(t)
    <2>1. PICK x \in m_timers, n \in Int :
            /\ IsaddTimer(t, x, [m_next EXCEPT ![x] = n])
      <3>1. PICK x \in added \cap m_cb \cap m_timers, ms \in Delays,
                 from_now \in BOOLEAN :
              IsaddTimer(t, x, [m_next EXCEPT ![x] =
                 (IF from_now THEN clock ELSE m_next[x] - m_ms[x]) + ms])
        BY <1>14 DEF reset
      <3>2. (IF from_now THEN clock ELSE m_next[x] - m_ms[x]) + ms \in Int
        BY <1>4, TimerAssumption
      <3> QED  BY <3>1, <3>2
    <2>2. /\ m_timers' = m_timers \cup {x}
          /\ m_next' = [m_next EXCEPT ![x] = n]
      BY <2>1 DEF IsaddTimer
    <2>3. /\ ~m_tickled'
          /\ \E y \in m_timers \ {x} : ~(m_next'[x] < m_next'[y])
      BY <1>1, <1>8, <1>9, <2>1, <2>2, InsertOwesTickle
    <2> QED  BY <1>3, <1>4, <1>8, <2>2, <2>3
  <1> QED
    BY <1>2, <1>6, <1>10, <1>11, <1>12, <1>13, <1>14 DEF client

\* The only worker's sleep stays in time whatever a step does.
LEMMA SleepStep ==
  ASSUME NoWrap, TimerInv, TimesInv, TimesInv', WaitInv, SleepInv, [Next]_vars
  PROVE  SleepInv'
  <1> USE DEF Goto, times, timers, locals, hist
  <1>0. /\ pc \in [Threads -> {"off", "client", "add", "front", "crashed"}
                              \cup IdlePhase]
        /\ eintr \in Nat /\ clock \in Nat
        /\ \A x \in Timers : m_next[x] \in Int
        /\ \A t \in Threads : deadline[t] \in Int
    BY DEF TimesInv, TypeOK
  <1>1. CASE Tick
    <2>1. UNCHANGED <<pc, setBack, eintr, pipe, m_tickled, m_timers, m_next,
                      deadline>> /\ clock' = clock + 1
      BY <1>1 DEF Tick
    <2>2. TickleComes' <=> TickleComes  BY <2>1 DEF TickleComes
    <2>3. \A w \in Workers : OnlySleeper(w)' <=> OnlySleeper(w)
      BY <2>1 DEF OnlySleeper
    <2>4. \A w \in Workers : w \in Threads  BY DEF Threads
    <2>5. \A w \in Workers : deadline[w] <= clock => deadline[w] <= clock'
      BY <1>0, <2>1, <2>4
    <2> QED  BY <2>1, <2>2, <2>3, <2>5 DEF SleepInv
  <1>2. CASE TimeIsUp \/ UNCHANGED vars
    BY <1>2 DEF TimeIsUp, vars, SleepInv, OnlySleeper, TickleComes
  <1>3. CASE SetClockBack
    BY <1>3 DEF SetClockBack, SleepInv, OnlySleeper
  <1>4. ASSUME NEW t \in Threads, client(t) \/ idle(t)
        PROVE  SleepInv'
    <2>1. PICK l : pc' = [pc EXCEPT ![t] = l]
      <3>1. pc' = pc \/ \E l : pc' = [pc EXCEPT ![t] = l]
        BY <1>4 DEF client, idle, NewTimer, addTimer, IsaddTimer,
              onTimerInsertedAtFront, cancel, refresh, reset, schedule, GoIdle,
              getNextTimer, Tickled, TimedOut, EndWait, Interrupted,
              ListExpiredTest, listExpiredCb, Collect, ListExpiredEmpty,
              DrainPipe
      <3>2. pc = [pc EXCEPT ![t] = pc[t]]  BY <1>0
      <3> QED  BY <3>1, <3>2
    <2>2. pc[t] # "off" /\ pc'[t] # "off"
      BY <1>0, <1>4 DEF client, idle, NewTimer, addTimer, IsaddTimer,
            onTimerInsertedAtFront, cancel, refresh, reset, schedule, GoIdle,
            getNextTimer, Tickled, TimedOut, EndWait, Interrupted,
            ListExpiredTest, listExpiredCb, Collect, Handle, ListExpiredEmpty,
            DrainPipe
    <2>3. \A u \in Clients : pc'[u] \notin IdlePhase
      <3>1. CASE t \in Workers
        <4>1. \A u \in Clients : u \in Threads /\ u # t
          BY <3>1, TimerAssumption DEF Threads
        <4> QED  BY <1>0, <2>1, <4>1 DEF SleepInv
      <3>2. CASE t \in Clients
        <4>1. pc[t] \notin IdlePhase /\ t \notin Workers
          BY <3>2, TimerAssumption DEF SleepInv
        <4>2. client(t)
          BY <1>4, <4>1 DEF idle, IdlePhase, GoIdle, getNextTimer, Tickled,
                TimedOut, Interrupted, ListExpiredTest, listExpiredCb,
                Collect, ListExpiredEmpty, DrainPipe
        <4>3. pc'[t] \in {"client", "add", "front"}
          BY <1>0, <4>2 DEF client, NewTimer, addTimer, IsaddTimer,
                onTimerInsertedAtFront, cancel, refresh, reset, schedule
        <4>4. pc'[t] \notin IdlePhase  BY <4>3 DEF IdlePhase
        <4> QED  BY <1>0, <2>1, <4>4 DEF SleepInv, Threads
      <3> QED  BY <3>1, <3>2 DEF Threads
    <2>4. ASSUME NEW w \in Workers, OnlySleeper(w)', ~TickleComes'
          PROVE  /\ ~m_tickled'
                 /\ \A x \in m_timers' :
                       deadline'[w] <= m_next'[x] \/ deadline'[w] <= clock'
      <3>0. w \in Threads  BY DEF Threads
      <3>1. t = w \/ t \in Clients
        BY <1>0, <2>2, <2>4, <3>0 DEF OnlySleeper, Threads
      <3>2. CASE t = w
        <4>1. pc'[t] = "wait" /\ eintr' = 0  BY <2>4, <3>2 DEF OnlySleeper
        <4>2. getNextTimer(t)
          <5> SUFFICES ASSUME ~getNextTimer(t)  PROVE FALSE
            OBVIOUS
          <5>1. ~Interrupted(t)  BY <1>0, <4>1 DEF Interrupted
          <5>2. \/ pc[t] = "client" /\ UNCHANGED pc
                \/ \E k \in {"add", "front", "client", "getnext", "list1",
                             "list2", "drain", "crashed"} :
                      pc' = [pc EXCEPT ![t] = k]
            BY <1>4, <5>1
               DEF client, idle, NewTimer, addTimer, IsaddTimer, cancel,
                   refresh, reset, onTimerInsertedAtFront, schedule, GoIdle,
                   Tickled, TimedOut, EndWait, ListExpiredTest, listExpiredCb,
                   Collect, ListExpiredEmpty, Handle, DrainPipe
          <5> QED  BY <1>0, <4>1, <5>2
        <4>3. ~m_tickled' /\ StartWait(t) /\ UNCHANGED <<clock, m_timers, m_next>>
          BY <4>2 DEF getNextTimer
        <4>4. PICK ms \in Int :
                /\ deadline' = [deadline EXCEPT ![t] = IF ms < 0 THEN -1
                                                       ELSE clock + ms]
                /\ ms \in 0..MAX_TIMEOUT
                /\ \A x \in m_timers :
                      clock + ms <= m_next[x] \/ clock + ms <= clock
          BY <4>3, StartWaitRight
        <4>5. deadline'[t] = clock + ms
          BY <4>4, TimerAssumption DEF TimesInv, TypeOK
        <4> QED  BY <3>2, <4>3, <4>4, <4>5
      <3>3. CASE t \in Clients
        <4>1. pc'[w] = pc[w] /\ \A v \in Workers : pc'[v] = pc[v]
          BY <1>0, <2>1, <3>3, TimerAssumption DEF Threads
        <4>2. setBack' = setBack /\ (eintr' = 0 => eintr = 0)
          BY <1>0, <1>4 DEF client, idle, NewTimer, addTimer,
              onTimerInsertedAtFront, cancel, refresh, reset, schedule, GoIdle,
              getNextTimer, Tickled, TimedOut, Interrupted,
              ListExpiredTest, listExpiredCb, Collect, ListExpiredEmpty,
              DrainPipe
        <4>3. OnlySleeper(w)  BY <2>4, <4>1, <4>2 DEF OnlySleeper
        <4> QED  BY <1>4, <2>4, <3>3, <4>3, ClientStep
      <3> QED  BY <3>1, <3>2, <3>3
    <2> QED  BY <2>3, <2>4 DEF SleepInv
  <1> QED  BY <1>1, <1>2, <1>3, <1>4 DEF Next

LEMMA SleepInvariant == ASSUME NoWrap PROVE Spec => []SleepInv
  <1>1. Init => SleepInv
    BY DEF Init, SleepInv, OnlySleeper, IdlePhase, Threads
  <1>2. /\ TimerInv /\ TimesInv /\ TimesInv' /\ WaitInv /\ SleepInv
        /\ [Next]_vars
        => SleepInv'
    BY SleepStep
  <1> QED
    BY <1>1, <1>2, TimerInvariant, TimesInvariant, WaitInvariant, PTL DEF Spec

\* A worker that has the scheduler for itself never sleeps past the first
\* timer's time unless a tickle is under way, whatever any number of other
\* threads do to any number of timers.
THEOREM SleepsInTime == ASSUME NoWrap PROVE Spec => []SleepersInTime
  <1>1. ASSUME TimesInv, WaitInv, SleepInv  PROVE SleepersInTime
    <2> DEFINE awake == {t \in Workers : pc[t] \notin {"off", "wait"}}
               asleep == {t \in Workers : pc[t] = "wait"}
    <2> SUFFICES ASSUME awake = {}, Cardinality(asleep) = 1, m_timers # {},
                        ~pipe, setBack # "was", eintr = 0,
                        \A t \in Clients : pc[t] # "front",
                        NEW w \in asleep
                 PROVE  /\ deadline[w] >= 0
                        /\ deadline[w] <= NextDue \/ deadline[w] <= clock
      BY DEF SleepersInTime
    <2>1. asleep = {w}
      <3>1. IsFiniteSet(asleep)  BY TimerAssumption, FS_Subset
      <3> HIDE DEF asleep
      <3>2. PICK v : asleep = {v}  BY <3>1, FS_Singleton
      <3> QED  BY <3>2
    <2>2. w \in Workers /\ OnlySleeper(w)  BY <2>1 DEF OnlySleeper
    <2>3. \A x \in m_timers : deadline[w] <= m_next[x] \/ deadline[w] <= clock
      BY <1>1, <2>2 DEF SleepInv, TickleComes
    <2>4. \E x \in m_timers : m_next[x] = NextDue  BY <1>1, NextDueLeast
    <2>5. deadline[w] >= 0
      BY <1>1, <2>2, TimerAssumption
         DEF WaitInv, Threads, TimesInv, TypeOK, OnlySleeper
    <2> QED  BY <2>3, <2>4, <2>5
  <1> QED
    BY <1>1, TimesInvariant, WaitInvariant, SleepInvariant, PTL

=============================================================================
