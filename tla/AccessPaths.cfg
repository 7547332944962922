\* One request of every kind, and five requests against the counters.
CONSTANTS
    Workspaces = {w1, w2}
    Calls = {c1}
    PackWorkspace = w1
    MaxChanges = 1
    MaxLookupFaults = 2
    NoWorkspace = NoWorkspace
    Callers = {r1, r2}
    MinuteLimit = 1
    MonthLimit = 3
    MinuteWindow = 2
    MonthWindow = 5
    CleanupInterval = 3
    MaxDocuments = 1
    MaxTime = 6
    MaxAsked = 5
    MaxLimiterFaults = 1
SPECIFICATION MCSpec
INVARIANTS
    ViewerNeverWrites
    RemovedIsRefused
    AuditTellsTheOutcome
    LimitsHold
    QuietIsServed
\* Every request has been answered and time has run out.
CHECK_DEADLOCK FALSE
