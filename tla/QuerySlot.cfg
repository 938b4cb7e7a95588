SPECIFICATION FairSpec
CONSTANTS
    Order <- MCOrder
    Keys <- MCKeys
    RetainOn <- MCRetainOn
    Needs <- MCNeeds
    Disposable = {"table"}
    Cancellable = {"table", "rows"}
    Fallible = {"rows", "table"}
    MaxChanges = 2
    None = None
CHECK_DEADLOCK FALSE
INVARIANTS
    ResourcesAreOwned
    PendingIsWorkedOn
PROPERTIES
    PlainSlotsSettle
