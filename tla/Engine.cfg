SPECIFICATION FairSpec
CONSTANTS
    MaxCalls = 4
    Kinds = {"query", "parse", "summary", "metatrace"}
    NumBatches = 2
    FirstSeq = 1
    MaxDrops = 2
    EarlyDrops = FALSE
    None = None
CHECK_DEADLOCK FALSE
INVARIANTS
    PendingIsCounted
PROPERTIES
    AnswersAreOwn
    CallsAreAnswered
