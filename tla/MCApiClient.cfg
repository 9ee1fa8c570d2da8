SPECIFICATION FairSpec
CONSTANTS
    Calls = {r, w}
    Writes = {w}
    Unlocks = {w}
    Cached = {r}
    None = None
    MaxEvents = 2
INVARIANTS Inv RunsAsOwner WritesRunOnce RefusedDidNotRun
PROPERTIES CallsEnd
