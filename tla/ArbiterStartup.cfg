SPECIFICATION FairSpec
CONSTANTS
    a1 = a1
    w1 = w1
    w2 = w2
    AppThreads = {a1}
    IPC = IPC
    Writers = {w1, w2}
    Home <- Spread
    Reservations = {r1}
    Buffers = {1}
    kMaxWriterID = 1
    Callbacks = {c1}
    FlushIDs = {1}
    kMaxCommitSize = 2
    CreatedBound = FALSE
    InProcess = FALSE
    DirectPatching = FALSE
    Setups <- StartupSetups
    None = None
CHECK_DEADLOCK FALSE
INVARIANTS
    FlushCoversEarlierData
    BindingSettles
PROPERTIES
    FlushesComplete
    ReturnedChunksArrive
