SPECIFICATION Spec
CONSTANTS
    Tabs = {t1, s1}
    Sandboxed = {s1}
    NoTab = NoTab
    MaxMounts = 2
    ParallelSync = TRUE
INVARIANTS Inv NobodyLeftOut WakeIsQueued
PROPERTIES NoOverlapInTab
