SPECIFICATION Spec
CONSTANTS
    Procs = {1}
    Sessions = {s1, s2}
    MaxTime = 3
    MaxJump = 1
    MaxAttempts = 2
    MaxOccRetries = 1
SYMMETRY MCSymmetry
INVARIANTS TypeOK ReadsAreLinearized
PROPERTIES WritesAreSerial
CHECK_DEADLOCK FALSE
