SPECIFICATION Spec
CONSTANTS
    a1 = a1
    w1 = w1
    w2 = w2
    AppThreads = {a1}
    IPC = IPC
    Writers = {w1, w2}
    Home <- Spread
    Reservations = {}
    Buffers = {1}
    kMaxWriterID = 2
    Callbacks = {c1}
    FlushIDs = {1}
    kMaxCommitSize = 2
    CreatedBound = TRUE
    InProcess = TRUE
    DirectPatching = TRUE
    Setups <- PatchesSetups
    None = None
CHECK_DEADLOCK FALSE
INVARIANTS
    PatchesAreKept
    CommitsInOrder
    NoStrandedCommit
    ShutdownLeavesNoUser
