CONSTANTS
    MaxRuns = 1
    MaxZombies = 1
    v1 = v1
    v2 = v2
    NoVersion = NoVersion
    Versions <- MCVersions
    Slots <- MCSlots
    ChunksOf <- MCChunksOf
    Faults = {"claim", "processing", "prepare", "extract", "chunk", "pg", "wv", "stats", "resolve", "publishOk", "markFailed", "deadLetter", "publishFailed", "cleanupOk", "cleanupFailed", "lostAck", "zombie", "partial", "wvDelete", "sweep"}
    ApiOps = {"reset", "markFailed", "delete"}
SPECIFICATION Spec
CHECK_DEADLOCK FALSE
INVARIANT OneVerdict
INVARIANT VerdictSteps
