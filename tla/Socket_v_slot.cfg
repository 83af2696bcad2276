SPECIFICATION Spec
CONSTANTS
    u = u
    r = r
    Nobody = Nobody
    Local = {u}
    Remote = {r}
    Slots = 2
    RBuf = 3
    WBuf = 7
    Lines <- Talk
    MayStop = FALSE
    MaxLines = 1
    MaxEvents = 0
INVARIANTS
    OpenIsHeld
