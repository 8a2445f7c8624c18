SPECIFICATION FairSpec
CONSTANTS
    Writers = {}
    InlineWriters = {}
    LeasedReaders = {}
    CriticalIds = {"c"}
    SinceHandles = {"e1", "e2"}
    Finalizers = {}
    Procs = {"p1", "p2"}
    Top = 1
    InlineMax = 2
    MaxCalls = 3
    MaxErrs = 1
    Expirable = {}
    LeaseOutlivesCall = TRUE
    AppendInputs <- OneAppend
    ProcOf <- MCProcOf
    EpochOf <- MCEpochOf
    CriticalIdOf <- MCCriticalIdOf
PROPERTIES EpochsFence TakeoversEnd CallsReturn
CHECK_DEADLOCK FALSE
