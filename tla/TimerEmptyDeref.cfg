SPECIFICATION Spec
CONSTANTS
    Workers = {w1}
    Clients = {k1}
    Programs <- OneProgram
    Timers = {1, 2}
    Delays = {1, 3}
    MaxTime = 12
    ClockBacks = {}
    MaxEintr = 0
    Hour = 8
    MAX_TIMEOUT = 2
    IntBits = 4
    NoTimer = NoTimer
INVARIANTS
    FirstTimerExists
