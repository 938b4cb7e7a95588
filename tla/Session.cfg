SPECIFICATION FairSpec
CONSTANTS
    p1 = p1
    p2 = p2
    Producers = {p1,p2}
    NotifyOnStart = {p1}
    NotifyOnStop = {p1}
    NoFlush = {p2}
    SelfScraped = {p2}
    TransferOnClone = {p1}
    MayFreeze = {p1}
    Configs <- MCConfigs
    kMaxPendingFlushes = 1
    MaxFlushes = 1
    MaxInstances = 2
    MaxTriggers = 1
    None = None
CHECK_DEADLOCK FALSE
INVARIANTS
    SessionIsSound
    AnswersAreEarned
PROPERTIES
    RequestsAnswered
    TimedSessionsEnd
