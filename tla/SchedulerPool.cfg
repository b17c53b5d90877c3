SPECIFICATION Spec
CONSTANTS
    Workers = {w1, w2}
    Root = root
    Cbs = {c1, c2}
    UserFibers = {f1}
    MaxYields = 1
    Setups <- PoolSetups
    NoThread = NoThread
    NoTask = NoTask
SYMMETRY Symmetry
INVARIANTS
    TypeOK
    IndInv
    StoppingIsQuiet
    OneThreadPerFiber
    FiberAsserts
    NoTaskLost
    RunsOnce
