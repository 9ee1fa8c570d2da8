SPECIFICATION Spec
CONSTANTS
    MaxSaves = 2
    MaxOps = 2
    MaxForms = 2
    MaxEdits = 2
    None = None
INVARIANTS
    Inv
    NoDraftLeftBehind
PROPERTIES
    KeepsFolder
    ClosedWordsAreSafe
    NeverOlderWords
CHECK_DEADLOCK FALSE
