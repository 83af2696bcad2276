SPECIFICATION FairSpec
CONSTANTS
    j1 = j1
    j2 = j2
    j3 = j3
    t1 = t1
    t2 = t2
    p1 = p1
    p2 = p2
    a1 = a1
    Jail = {j1, j2, j3}
    Table = {t1, t2}
    TableOf <- TwoTables
    Port = {p1, p2}
    PortsOf <- TwoPorts
    Addr = {a1}
    Backlog = 1
    MaxFaults = 1
    MaxRounds = 2
CHECK_DEADLOCK FALSE
INVARIANTS
    UsageCountsUsers
    RulesPaired
    FirewallAgrees
    PortsHeard
PROPERTIES
    NothingWaits
