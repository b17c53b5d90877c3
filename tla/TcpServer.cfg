SPECIFICATION Spec
CONSTANTS
    Fibers = {f1, f2}
    f1 = f1
    f2 = f2
    Fds = {0, 1, 2}
    Listener = 0
    MaxStarts = 2
    Uses <- SomeUses
INVARIANTS
    TimeoutHonest
    ConnectHonest
    BlockingKept
    OneWaiter
    LateClients
PROPERTIES
    WaitEnds
CHECK_DEADLOCK FALSE
