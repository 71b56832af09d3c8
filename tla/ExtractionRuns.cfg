SPECIFICATION FairSpec
CONSTANTS
    Requests = {r1, r2}
    Inputs = {i1, i2}
    Invalid = Invalid
    Pipelines = {live, mock}
    Live = {live}
    None = None
    CallTimeout = 1
    Retries = 1
    Margin = 1
    MaxTime = 3
    MayCrash = {r1, r2}
INVARIANTS TypeOK NoDuplicateExtraction ResultOfRecordedInput LeaseOutlivesAttempts
PROPERTIES HistoryIsFinal RunsConclude
CHECK_DEADLOCK FALSE
