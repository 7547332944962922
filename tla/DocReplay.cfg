\* A dead letter is retried while newer content is ingested.
CONSTANTS
    Operators = {o1, o2}
    MaxVersions = 2
    MaxRows = 2
SPECIFICATION LettersSpec
INVARIANT ReplayRejected
CHECK_DEADLOCK FALSE
