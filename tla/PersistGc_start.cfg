SPECIFICATION Spec
CONSTANTS
    Procs = {"p1", "p2"}
    ClientProcs = {"p1"}
    Tasks = {"t1", "t2"}
    ProcOf <- MCProcOf
    Readers = {}
    ActiveGcProcs = {}
    GcMinVersions = 1
    GcMaxVersions = 10
    NoWriters = TRUE
    MaxSeqNo = 5
    MaxCommands = 2
    MaxFaults = 0
INVARIANTS GcNeverPanics
CHECK_DEADLOCK FALSE
