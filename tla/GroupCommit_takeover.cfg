SPECIFICATION Spec
CONSTANTS
    Procs = {1, 2, 3}
    Sessions = {}
    MaxTime = 8
    MaxJump = 1
    MaxAttempts = 1
    MaxOccRetries = 1
PROPERTIES WritesAreSerial NoStaleWrites
CHECK_DEADLOCK FALSE
