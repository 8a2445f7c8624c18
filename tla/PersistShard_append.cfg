SPECIFICATION Spec
CONSTANTS
    Writers = {"w1", "w2"}
    InlineWriters = {"w2"}
    LeasedReaders = {}
    CriticalIds = {}
    SinceHandles = {}
    Finalizers = {}
    Procs = {"p1", "p2"}
    Top = 2
    InlineMax = 2
    MaxCalls = 3
    MaxErrs = 1
    Expirable = {"w1", "w2"}
    LeaseOutlivesCall = TRUE
    AppendInputs <- RacingAppends
    ProcOf <- MCProcOf
    EpochOf <- MCEpochOf
    CriticalIdOf <- MCCriticalIdOf
INVARIANTS TypeOK OneHistory AppendExactlyOnce AnswersAreTrue SnapshotsAgree NoAssertFails
PROPERTIES ImplementsShardLog
CHECK_DEADLOCK FALSE
