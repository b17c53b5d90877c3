SPECIFICATION FairSpec
CONSTANTS
    Workers = {w1, w2}
    Root = root
    Cbs = {c1, c2}
    UserFibers = {}
    MaxYields = 2
    Setups <- LiveSetups
    NoThread = NoThread
    NoTask = NoTask
INVARIANTS
    StopDrains
PROPERTIES
    EveryTaskRuns
    StopReturns
