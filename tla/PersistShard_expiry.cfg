SPECIFICATION Spec
CONSTANTS
    Writers = {"w1", "w2"}
    InlineWriters = {}
    LeasedReaders = {}
    CriticalIds = {}
    SinceHandles = {}
    Finalizers = {}
    Procs = {"p1", "p2"}
    Top = 2
    InlineMax = 2
    MaxCalls = 3
    MaxErrs = 1
    Expirable = {"w1", "w2"}
    LeaseOutlivesCall = FALSE
    AppendInputs <- TwoAppends
    ProcOf <- MCProcOf
    EpochOf <- MCEpochOf
    CriticalIdOf <- MCCriticalIdOf
INVARIANTS AnswersAreTrue
CHECK_DEADLOCK FALSE
