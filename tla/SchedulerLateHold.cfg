SPECIFICATION Spec
CONSTANTS
    Workers = {w1, w2}
    Root = root
    Cbs = {c1, c2}
    UserFibers = {f1}
    MaxYields = 1
    Setups <- WakeAnySetups
    NoThread = NoThread
    NoTask = NoTask
INVARIANTS
    FreedWhenDone
CONSTRAINT OneThreadPerFiber
