SPECIFICATION Spec
CONSTANTS
    NumPages = 1
    NumChunks = 2
    Writers = {w1, w2}
    Service = service
    NoWriter = none
    kMaxChunkID = 1
    kMaxPacketsPerChunk = 2
    kRetryAttempts = 2
SYMMETRY Symmetry
INVARIANTS
    TypeOK
    ExclusiveOwnership
    NoCheckFailure
    ScrapedHeaderIsCurrent
    ReadChunkIsWhole
PROPERTIES
    OneTransitionAtATime
