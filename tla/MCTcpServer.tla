----------------------------- MODULE MCTcpServer -----------------------------
(* Programs for TLC.                                                        *)
EXTENDS TcpServer

CONSTANTS f1, f2

\* A program with two fibers that make the calls of ops1 and ops2.
Program(ops1, ops2, first, evs) ==
    [ops |-> [f \in Fibers |-> IF f = f1 THEN ops1 ELSE ops2],
     init |-> [fd \in Fds |-> IF fd = 0 THEN first ELSE "none"],
     events |-> evs, server |-> FALSE, restart |-> FALSE, calls |-> 4, nofile |-> 2]

Server(restart, ncalls, limit) ==
    [Program({}, {}, "listening", {"READ"}) EXCEPT
        !.server = TRUE, !.restart = restart, !.calls = ncalls, !.nofile = limit]

\* Readers and writers with timeouts and a close; connects with a close;
\* settings; descriptors that another thread closes; sleepers; servers.
SomeUses ==
    {Program({"io", "setsockopt"}, {"io", "close", "sleep"}, "connected", {"READ"}),
     [Program({"connect", "io"}, {"close", "connect"}, "new", {"WRITE"}) EXCEPT !.calls = 3],
     Program({"io", "fcntl", "ioctl"}, {"io", "sleep"}, "connected", {"READ"}),
     Program({"socket", "connect", "io"}, {"close_f"}, "connected", {"READ"}),
     Server(FALSE, 1, 2), Server(FALSE, 0, 3), Server(TRUE, 0, 2)}

OneServer == {Server(FALSE, 1, 2)}
=============================================================================
