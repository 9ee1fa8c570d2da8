SPECIFICATION FairSpec
CONSTANTS
    a = a
    b = b
    Messages = {a, b}
    Folders <- MCFolders
    Asked = {"user-selected", "background"}
    MaxCalls = 3
    MaxConcurrent = 1
    MaxClicks = 2
    None = None
INVARIANTS
    Inv
    OneReadPerMessage
    ClickToldWhy
PROPERTIES
    WarmYields
    CallsSettle
