SPECIFICATION Spec
CONSTANTS
    Writers = {1}
    Size = 4
    kMaxChunkID = 6
    Policies = {"kOverwrite"}
    Scraping = TRUE
    Drops = FALSE
    Loads <- ScrapingLoads
    RecordSize <- MCRecordSize
CHECK_DEADLOCK FALSE
INVARIANTS
    ReadInOrder
    ReadsWholePackets
    CopiesAreSound
