\* An unknown object count and the verified flag of the receipt.
CONSTANTS
    Requests = {r1, r2, r3}
    MaxIndex = 1
    Attempts = 2
    MaxFaults = 3
    Original = Original
    None = None
    Documents = {d1}
    Chats = {c1}
    AuditEvents = {e1}
    PurgeAttempts = 2
    MaxPurgeFaults = 2
    MaxPurges = 2
    Operators = {o1, o2}
    MaxVersions = 2
    MaxRows = 2
    Migrators = {p1, p2}
    FileCount = 3
    MaxStarts = 4
    MaxDocuments = 3
    PageSize = 2
    ChunkPageSize = 1
    MostRows = 2
    MaxTouches = 2
    LabelledDocuments = {1, 2}
    BatchSize = 1
    MaxScriptRuns = 2
    MaxReuploads = 1
SPECIFICATION MCSpec
SYMMETRY RequestSymmetry
INVARIANT UnknownIsNotVerified
\* Every request has been answered and every purge has ended.
CHECK_DEADLOCK FALSE
