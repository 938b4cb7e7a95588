SPECIFICATION Spec
CONSTANTS
    Writers = {1, 2}
    Size = 5
    kMaxChunkID = 4
    Policies = {"kOverwrite", "kDiscard"}
    Scraping = FALSE
    Drops = TRUE
    Loads <- WritersLoads
    RecordSize <- MCRecordSize
CHECK_DEADLOCK FALSE
INVARIANTS
    LossIsFlagged
    NothingReadableLeft
    NothingLostBefore
    RingIsSound
