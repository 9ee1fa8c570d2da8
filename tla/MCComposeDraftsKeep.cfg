SPECIFICATION Spec
CONSTANTS
    MaxSaves = 2
    MaxOps = 2
    MaxForms = 2
    MaxEdits = 2
    None = None
PROPERTIES
    KeptWordsStay
CHECK_DEADLOCK FALSE
