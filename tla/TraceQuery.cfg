\* Every fault but "refuse"; those that OneIsFaulty names befall one session only.
SPECIFICATION FairSpec
CONSTANTS
    Calls = {1, 2}
    Sessions = {1, 2, 3}
    CallOf <- MCCallOf
    UrlOf <- MCUrlOf
    NumChunks = 2
    NumPorts = 3
    Faults = {"download", "corrupt", "reject", "crash"}
ACTION_CONSTRAINTS
    PortsInOrder
    OneIsFaulty
INVARIANTS
    QueriesSeeTheirTrace
    FinishedCallsLeaveNoShell
PROPERTY
    CallsReturn
