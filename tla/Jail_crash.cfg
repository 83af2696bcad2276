SPECIFICATION Spec
CONSTANTS
    a1 = a1
    a2 = a2
    Addr = {a1, a2}
    T0 = 10
    MaxTime = 13
    Scores = {1}
    Grace = 1
    ShortHalf = 100
    Defaults <- MCDefaults
    Config <- MCConfig
    Settable = {}
    Values = {0}
    Commands = {}
    HasState = TRUE
    HasCheck = FALSE
    CanFail = FALSE
    CanCrash = TRUE
    MaxLines = 2
    MaxBans = 1
SYMMETRY AddrSymmetry
INVARIANTS
    FirewallCoversBans
    BansOnDisk
    BansRestored
