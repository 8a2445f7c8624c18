SPECIFICATION Spec
CONSTANTS
    Writers = {"w1"}
    InlineWriters = {}
    LeasedReaders = {"r2"}
    CriticalIds = {}
    SinceHandles = {}
    Finalizers = {"f"}
    Procs = {"p1", "p2"}
    Top = 2
    InlineMax = 2
    MaxCalls = 5
    MaxErrs = 0
    Expirable = {}
    LeaseOutlivesCall = TRUE
    AppendInputs <- FinalAppends
    ProcOf <- MCProcOf
    EpochOf <- MCEpochOf
    CriticalIdOf <- MCCriticalIdOf
INVARIANTS NoAssertFails FinalizedForGood
PROPERTIES TombstoneIsFinal
CHECK_DEADLOCK FALSE
