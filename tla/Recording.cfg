SPECIFICATION FairSpec
CONSTANTS
    MaxRecordings = 2
    Packets <- TwoPackets
    Reachable = {1}
    MaxPolls = 2
    Timed = TRUE
    MayDisconnect = TRUE
    None = None
CHECK_DEADLOCK FALSE
INVARIANTS
    FinishedTraceIsWhole
PROPERTIES
    VerdictIsFinal
    StopsEnd
