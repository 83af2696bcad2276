SPECIFICATION Spec
CONSTANTS
    a1 = a1
    Addr = {a1}
    T0 = 10
    MaxTime = 14
    Scores = {1}
    Grace = 1
    ShortHalf = 100
    Defaults <- MCDefaults
    Config <- MCStrict
    Settable = {"bantime"}
    Values = {0, 3}
    Commands = {"ban", "release"}
    HasState = TRUE
    HasCheck = TRUE
    CanFail = TRUE
    CanCrash = TRUE
    MaxLines = 1
    MaxBans = 2
INVARIANTS
    BanTerm
PROPERTIES
    NoEarlyRelease
