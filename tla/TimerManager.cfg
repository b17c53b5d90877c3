SPECIFICATION Spec
CONSTANTS
    Workers = {w1, w2}
    Clients = {k1}
    Programs <- SmallPrograms
    Timers = {1, 2}
    Delays = {0, 1}
    MaxTime = 3
    ClockBacks = {3}
    MaxEintr = 0
    Hour = 2
    MAX_TIMEOUT = 1
    IntBits = 5
    NoTimer = NoTimer
SYMMETRY Symmetry
INVARIANTS
    TypeOK
    EraseFindsTimer
    OneShotOnce
    SleepersInTime
PROPERTIES
    NotEarly
