SPECIFICATION FairSpec
CONSTANTS
    a1 = a1
    Addr = {a1}
    T0 = 10
    MaxTime = 14
    Scores = {1}
    Grace = 1
    ShortHalf = 3
    Defaults <- MCDefaults
    Config <- MCForget
    Settable = {"banscore", "findtime"}
    Values = {0, 11}
    Commands = {"ban", "release"}
    HasState = FALSE
    HasCheck = TRUE
    CanFail = FALSE
    CanCrash = FALSE
    MaxLines = 2
    MaxBans = 2
INVARIANTS
    FirewallExact
PROPERTIES
    BanDecision
    BansEnd
