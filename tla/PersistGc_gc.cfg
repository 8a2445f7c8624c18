SPECIFICATION Spec
CONSTANTS
    Procs = {"p1", "p2"}
    ClientProcs = {"p1"}
    Tasks = {"t1", "t2"}
    ProcOf <- MCProcOf
    Readers = {"r"}
    ActiveGcProcs = {"p2"}
    GcMinVersions = 2
    GcMaxVersions = 10
    NoWriters = TRUE
    MaxSeqNo = 5
    MaxCommands = 3
    MaxFaults = 1
INVARIANTS TypeOK EarliestIsHeld EarliestHasRollup RefetchMakesProgress HeldPartsExist NothingLeaks
CHECK_DEADLOCK FALSE
