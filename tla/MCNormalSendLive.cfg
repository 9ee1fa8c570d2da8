SPECIFICATION FairSpec
CONSTANTS
    c1 = c1
    c2 = c2
    c3 = c3
    t1 = t1
    t2 = t2
    Callers = {c1, c3}
    Tabs = {t1, t2}
    TabOf <- MCTabOf
    Attempts = {a1, a2}
    MaxEpoch = 1
    NoCaller = NoCaller
    NoAttempt = NoAttempt
    Corrupt = Corrupt
PROPERTIES SendEnds
CHECK_DEADLOCK FALSE
