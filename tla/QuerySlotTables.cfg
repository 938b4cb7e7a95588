SPECIFICATION Spec
CONSTANTS
    Order <- MCOrder
    Keys <- MCKeys
    RetainOn <- MCRetainOn
    Needs <- MCNeeds
    Disposable = {"table"}
    Cancellable = {"table", "rows"}
    Fallible = {}
    MaxChanges = 3
    None = None
CHECK_DEADLOCK FALSE
INVARIANTS
    QueriesReadLiveTables
