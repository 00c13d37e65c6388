SPECIFICATION Spec
CONSTANTS
    m1 = m1
    m2 = m2
    m3 = m3
    m4 = m4
    m5 = m5
    Messages <- MCMessages
    NoMessage = NoMessage
    Threshold = 2
    MaxCrashes = 1
SYMMETRY MessageSymmetry
CHECK_DEADLOCK FALSE
INVARIANTS
    DueIsNoticed
    ResetsCoverMessages
    BatchesExact
