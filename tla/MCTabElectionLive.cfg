SPECIFICATION FairSpec
CONSTANTS
    Tabs = {t1, t2}
    Sandboxed = {}
    NoTab = NoTab
    MaxMounts = 2
    ParallelSync = FALSE
INVARIANTS OneVisibleLeader
PROPERTIES SomeoneLeads LeaderTicks
