CONSTANTS
    t1 = t1
    t2 = t2
    NoTurn = NoTurn
    Turns <- TwoTurns
    MaxSignals = 2
    MaxRuns = 2
    MaxDeletes = 1
    ContinueAfter = 2
    SeenBound = 1
    MaxLost = 1
    Faults = {"tenant", "redact", "chunk", "pg", "wv", "stats", "deadLetter"}
SYMMETRY AnyOrder
SPECIFICATION Spec
CHECK_DEADLOCK FALSE
INVARIANT CountMatchesRows
INVARIANT FailedFlushOnRecord
INVARIANT AtMostOnce
INVARIANT TurnsKept
