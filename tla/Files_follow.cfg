SPECIFICATION FairSpec
CONSTANTS
    Paths <- TwoPaths
    MayBeBusy <- HeadOnly
    MayVanish = TRUE
    MaxPieces = 2
    MaxRotations = 1
    MaxTruncations = 1
INVARIANTS
    InOrder
    NothingLost
PROPERTIES
    EverythingRead
    FollowsReplacement
