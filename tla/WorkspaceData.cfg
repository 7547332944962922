\* Three requests on one document, a purge asked for twice, and two operators
\* retrying the dead letters of a document with two contents.  Three migrators
\* over three files; a listing of two pages with pages of chunks; two labelled
\* rows in pages of one.
CONSTANTS
    Requests = {r1, r2, r3}
    MaxIndex = 1
    Attempts = 2
    MaxFaults = 3
    Original = Original
    None = None
    Documents = {d1}
    Chats = {c1}
    AuditEvents = {e1}
    PurgeAttempts = 2
    MaxPurgeFaults = 2
    MaxPurges = 2
    Operators = {o1, o2}
    MaxVersions = 2
    MaxRows = 2
    Migrators = {p1, p2}
    FileCount = 3
    MaxStarts = 4
    MaxDocuments = 3
    PageSize = 2
    ChunkPageSize = 1
    MostRows = 2
    MaxTouches = 2
    LabelledDocuments = {1, 2}
    BatchSize = 1
    MaxScriptRuns = 2
    MaxReuploads = 1
SPECIFICATION MCSpec
SYMMETRY RequestSymmetry
INVARIANTS
    ChunkCountExact
    DivergenceOnRecord
    
    RetriesSound
    MigrationsSound
    IndexRepairSound
    LabelsSound
PROPERTIES
    AcknowledgedTextStands
\* Every request has been answered and every purge has ended.
CHECK_DEADLOCK FALSE
