SPECIFICATION Spec
CONSTANTS
    c1 = c1
    c2 = c2
    c3 = c3
    t1 = t1
    t2 = t2
    Callers = {c1, c2, c3}
    Tabs = {t1, t2}
    TabOf <- MCTabOf
    Attempts = {a1, a2}
    MaxEpoch = 2
    NoCaller = NoCaller
    NoAttempt = NoAttempt
    Corrupt = Corrupt
SYMMETRY Symmetry
INVARIANTS Inv OneOpenAttempt AckedWasDelivered
PROPERTIES RecheckStopsDuplicate UnresolvedIsKept KeepsPromise
CHECK_DEADLOCK FALSE
