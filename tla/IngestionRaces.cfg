CONSTANTS
    MaxRuns = 2
    MaxZombies = 1
    v1 = v1
    v2 = v2
    NoVersion = NoVersion
    Versions <- MCVersions
    Slots <- MCSlots
    ChunksOf <- MCChunksOf
    Faults = {"pg", "stats", "lostAck"}
    ApiOps = {"reset", "markFailed"}
SPECIFICATION Spec
CHECK_DEADLOCK FALSE
INVARIANT NewestContentStands
INVARIANT StoresAgree
INVARIANT StatsOncePerRun
PROPERTY RowIsFenced
