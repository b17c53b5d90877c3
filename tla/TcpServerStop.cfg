SPECIFICATION Spec
CONSTANTS
    Fibers = {f1, f2}
    f1 = f1
    f2 = f2
    Fds = {0, 1}
    Listener = 0
    MaxStarts = 1
    Uses <- OneServer
PROPERTIES
    StopEndsAccepting
CHECK_DEADLOCK FALSE
