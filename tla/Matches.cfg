SPECIFICATION Spec
CONSTANTS
    T0 = 5
    MaxTime = 8
    Scores = {1, 3}
    MaxCount = 4
INVARIANTS
    CountersAgree
PROPERTIES
    ImplementsHistory
