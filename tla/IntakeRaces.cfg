CONSTANTS
    n1 = n1
    n2 = n2
    c1 = c1
    c2 = c2
    None = None
    MaxRequests = 3
    MaxOpen = 2
    Names <- MCNames
    Contents <- MCContents
    Ops = {"upload", "refresh"}
    Faults = {"s3", "db", "mq", "mark", "ingest", "crash"}
SYMMETRY Interchangeable
SPECIFICATION Spec
CHECK_DEADLOCK FALSE
INVARIANT EventsAreReadable
INVARIANT PendingIsOwed
INVARIANT DuplicatesOnlyFromRaces
