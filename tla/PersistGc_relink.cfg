SPECIFICATION Spec
CONSTANTS
    Procs = {"p1"}
    ClientProcs = {"p1"}
    Tasks = {t1, t2, t3, t4}
    ProcOf <- MCOneProc
    Readers = {}
    ActiveGcProcs = {"p1"}
    GcMinVersions = 4
    GcMaxVersions = 10
    NoWriters = TRUE
    MaxSeqNo = 8
    MaxCommands = 2
    MaxFaults = 1
SYMMETRY MCTaskSymmetry
INVARIANTS RollupsExist
CHECK_DEADLOCK FALSE
