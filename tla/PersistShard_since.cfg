SPECIFICATION Spec
CONSTANTS
    Writers = {}
    InlineWriters = {}
    LeasedReaders = {"r1"}
    CriticalIds = {"c"}
    SinceHandles = {"e2"}
    Finalizers = {}
    Procs = {"p1", "p2"}
    Top = 2
    InlineMax = 2
    MaxCalls = 4
    MaxErrs = 1
    Expirable = {"r1"}
    LeaseOutlivesCall = TRUE
    AppendInputs <- TwoAppends
    ProcOf <- MCProcOf
    EpochOf <- MCEpochOf
    CriticalIdOf <- MCCriticalIdOf
INVARIANTS SinceHeldBack LiveHandlesReadable NoAssertFails
PROPERTIES NothingRegresses
CHECK_DEADLOCK FALSE
