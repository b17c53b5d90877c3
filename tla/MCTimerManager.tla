--------------------------- MODULE MCTimerManager ---------------------------
(* Small instances of TimerManager for TLC.                                 *)
EXTENDS TimerManager, TLC

\* Two workers; one worker and a thread that is not the scheduler's; one
\* worker while the clock is set back.
SmallPrograms ==
    {[threads |-> Workers, clockSet |-> FALSE]}
    \cup {[threads |-> {w} \cup Clients, clockSet |-> FALSE] : w \in Workers}
    \cup {[threads |-> {w}, clockSet |-> TRUE] : w \in Workers}

\* Every thread, and a clock that is not set.
OneProgram == {[threads |-> Threads, clockSet |-> FALSE]}

\* Workers are interchangeable; timers are not, their addresses are ordered.
Symmetry == Permutations(Workers)

=============================================================================
