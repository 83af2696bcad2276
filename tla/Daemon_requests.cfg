SPECIFICATION FairSpec
CONSTANTS
    j1 = j1
    j2 = j2
    Jail = {j1, j2}
    Contents <- MCContents
    FirstContent <- Both
    Builtin = 5
    Signals = {"TERM", "HUP", "USR1"}
    Commands = {"shutdown", "reload", "rotate"}
    LogToFile = TRUE
    InitFails = TRUE
    MaxRequests = 3
    MaxEdits = 2
INVARIANTS
    JailsOfConfig
PROPERTIES
    ReloadServed
    ShutdownServed
