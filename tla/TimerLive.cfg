SPECIFICATION FairSpec
CONSTANTS
    Workers = {w1, w2}
    Clients = {}
    Programs <- SmallPrograms
    Timers = {1}
    Delays = {1, 2}
    MaxTime = 4
    ClockBacks = {3}
    MaxEintr = 1
    Hour = 2
    MAX_TIMEOUT = 1
    IntBits = 5
    NoTimer = NoTimer
INVARIANTS
    SleepBounded
PROPERTIES
    DeadlineMet
