SPECIFICATION PacedSpec
CONSTANTS
    Tabs = {t1, s1}
    Sandboxed = {s1}
    NoTab = NoTab
    MaxMounts = 1
    ParallelSync = FALSE
    Breath = 0
    Active = 1
    MinGap = 1
    Idle = 2
    Waits = {2}
INVARIANTS PacedInv WaitIsExact
PROPERTIES WaitKept
