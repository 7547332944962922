CONSTANTS
    MaxRuns = 2
    MaxZombies = 1
    v1 = v1
    v2 = v2
    NoVersion = NoVersion
    Versions <- MCVersions
    Slots <- MCSlots
    ChunksOf <- MCChunksOf
    Faults = {"sweep"}
    ApiOps = {}
SPECIFICATION FairSpec
CHECK_DEADLOCK FALSE
PROPERTY EveryRunCloses
PROPERTY StatusSettles
 
