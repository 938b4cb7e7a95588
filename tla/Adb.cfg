SPECIFICATION FairSpec
CONSTANTS
    MaxStreams = 2
    MaxChunks <- MCChunks
    MaxReplies <- MCReplies
    Leftovers <- MCLeftovers
    MaxAttempts = 4
    MayUnplug = TRUE
    None = None
CHECK_DEADLOCK FALSE
INVARIANTS
    OneWriteInFlight
    WritesArriveInOrder
PROPERTIES
    WritesComplete
