SPECIFICATION Spec
CONSTANTS
    Threads = {t1}
    Fds = {0, 1}
    InitSize = 2
    Uses <- ErrorUses
    BadFds = {}
    MaxAdds = 3
    MaxGen = 0
INVARIANTS
    TriggerAssert
