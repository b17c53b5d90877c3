----------------------------- MODULE MCScheduler -----------------------------
(* Small instances of Scheduler for TLC.                                    *)
EXTENDS Scheduler

\* Workers, callbacks and user fibers are interchangeable; used only where no
\* liveness property is checked.  Every set of setups below holds, with one
\* setup, the setups that a permutation of workers or tasks makes of it.
Symmetry ==
    Permutations(Workers) \cup Permutations(Cbs) \cup Permutations(UserFibers)

\* The pools of n threads.
SomeWorkers(n) == {ws \in SUBSET Workers : Cardinality(ws) = n}

Plain == [threads |-> Workers, use_caller |-> FALSE, pinned |-> FALSE,
          tasks |-> Tasks, yields |-> 0, rootYields |-> FALSE, wake |-> "none"]

\* A pool whose fibers yield; one with two fibers that yield or park; the
\* caller with one worker; the caller alone.
PoolSetups ==
    {[Plain EXCEPT !.yields = 1]}
    \cup {[Plain EXCEPT !.tasks = cs, !.yields = 1, !.wake = "own"] :
            cs \in {cs \in SUBSET Tasks : Cardinality(cs) = 2}}
    \cup {[Plain EXCEPT !.threads = ws, !.use_caller = TRUE] :
            ws \in SomeWorkers(1)}
    \cup {[Plain EXCEPT !.threads = {}, !.use_caller = TRUE]}

\* Yields between two workers; yields and wakes on one; tasks pinned to
\* threads; the caller with one worker; the caller alone.
LiveSetups ==
    {[Plain EXCEPT !.yields = 1], [Plain EXCEPT !.pinned = TRUE]}
    \cup {[Plain EXCEPT !.threads = ws, !.yields = MaxYields, !.wake = "any"] :
            ws \in SomeWorkers(1)}
    \cup {[Plain EXCEPT !.threads = ws, !.use_caller = TRUE] :
            ws \in SomeWorkers(1)}
    \cup {[Plain EXCEPT !.threads = {}, !.use_caller = TRUE,
                        !.pinned = TRUE]}

\* Whoever wakes a fiber lets any thread resume it.
WakeAnySetups == {[Plain EXCEPT !.yields = 1, !.wake = "any"]}

\* The caller's thread runs a fiber that yields.
CallerYieldSetups ==
    {[Plain EXCEPT !.threads = {}, !.use_caller = TRUE, !.pinned = TRUE,
                   !.yields = 1, !.rootYields = TRUE]}

=============================================================================
