SPECIFICATION Spec
CONSTANTS
    Tasks = {k1}
    None = None
    RelayFresh = 1
    MaxTime = 1
    MaxVersion = 1
    MaxSubs = 1
INVARIANTS UserRefreshFetches
CHECK_DEADLOCK FALSE
