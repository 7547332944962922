CONSTANTS
    t1 = t1
    t2 = t2
    NoTurn = NoTurn
    Turns <- TwoTurns
    MaxSignals = 2
    MaxRuns = 2
    MaxDeletes = 0
    ContinueAfter = 1
    SeenBound = 2
    MaxLost = 0
    Faults = {}
SYMMETRY AnyOrder
SPECIFICATION Spec
CHECK_DEADLOCK FALSE
INVARIANT FlushIsStored
