SPECIFICATION FairSpec
CONSTANTS
    s1 = s1
    s2 = s2
    x1 = x1
    a1 = a1
    Sensor = {s1, s2}
    Actor = {x1}
    Addr = {a1}
    Banscore = 20
    DefScore = 10
    PingMax = 2
    MaxBans = 3
    MaxFaults = 1
INVARIANTS
    NothingMissed
    BansAreEarned
    CountedAndPublished
PROPERTIES
    FollowsFeed
    Heard
    Reconnected
