----------------------------- MODULE MCIOManager -----------------------------
(* Small instances of IOManager for TLC.                                    *)
EXTENDS IOManager

AllOps == {"del", "cancel", "cancelAll"}

Reading == [threads |-> Threads, fds |-> {2, 4}, events |-> {"READ"},
            ops |-> AllOps, err |-> TRUE]

\* Threads that only read, from descriptors the table has to grow for; threads
\* that wait for both events of a descriptor; one thread with both, more
\* descriptors and one that epoll refuses.
SomeUses ==
    {Reading, [Reading EXCEPT !.fds = {0}, !.events = Events]}
    \cup {[Reading EXCEPT !.threads = {t}, !.fds = {1, 2, 4},
                          !.events = Events, !.ops = {"del", "cancel"},
                          !.err = FALSE] : t \in Threads}

\* One thread waits for both events of descriptors that may fail.
ErrorUses ==
    {[Reading EXCEPT !.threads = {t}, !.fds = {0, 1}, !.events = Events] :
        t \in Threads}

=============================================================================
