SPECIFICATION FairSpec
CONSTANTS
    u = u
    r = r
    Nobody = Nobody
    Local = {}
    Remote = {r}
    Slots = 2
    RBuf = 2
    WBuf = 6
    Lines <- All
    MayStop = TRUE
    MaxLines = 3
    MaxEvents = 1
INVARIANTS
    TypeOK
    InOrder
    RunsAuthorized
    OverflowIsLongLine
    AnswersInOrder
PROPERTIES
    LinesServed
