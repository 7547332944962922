CONSTANTS
    Nobody = Nobody
    MaxEvents = 3
    Consumers = {c1}
    ReadCount = 2
    MaxConcurrent = 1
    MaxDeliveries = 1
    MaxCrashes = 1
    Undecodable = {3}
    Invalid = {1}
    Faults = {"handler", "slow", "redis"}
SPECIFICATION FairSpec
CHECK_DEADLOCK FALSE
INVARIANT NoEventLost
INVARIANT HandlersBounded
PROPERTY LoopReturns
