\* Small files and texts of every shape, short result lists, two workspaces
\* searched twice, and documents read page by page.
CONSTANTS
    FileItems = 5
    CountCap = 3
    TextCap = 6
    MaxAttempts = 2
    Lengths = {10, 40, 100}
    HeadingLengths = {10, 50}
    Limit = 90
    CarryOver = 45
    HeaderLength = 10
    MaxUnits = 4
    MaxChars = 6
    TokenBudgets = {2, 3}
    Documents = {"a", "b", "c"}
    Chunks <- MCChunks
    Rows <- MCRows
    Scores = {30, 60}
    ReuseCount <- MCReuseCount
    Limits = {1, 2}
    FetchMost = 5
    Weights = {0, 30, 80}
    Windows = {0, 1, 2}
    LongestAnswer = 3
    SearchWorkspaces = {1, 2}
    HitScores = {30, 60}
    AskedLimits = {2}
    LargestLimit = 3
    Concurrency = 2
    MaxSearches = 2
    ChunkSizes = {0, 1, 3, 5}
    MostChunks = 3
    PageSizes = {1, 2, 3, 4, 50}
    FirstOffsets = {0, 2, 4}
SPECIFICATION MCSpec
INVARIANTS
    
    
    
    RankingSound
    
    MismatchNotServed
    PagesComplete
PROPERTIES
    OneFailureIsIsolated
\* Every scene comes to an end.
CHECK_DEADLOCK FALSE
