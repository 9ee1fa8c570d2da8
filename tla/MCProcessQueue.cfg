SPECIFICATION Spec
CONSTANTS
    Tasks = {k1, k2}
    None = None
    RelayFresh = 1
    MaxTime = 2
    MaxVersion = 2
    MaxSubs = 2
SYMMETRY TaskSymmetry
INVARIANTS Inv ShownIsFresh RelaysAreHonest PollerAlive
PROPERTIES RelayKeepsCancel
CHECK_DEADLOCK FALSE
