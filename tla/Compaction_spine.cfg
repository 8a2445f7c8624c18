SPECIFICATION Spec
CONSTANTS
    Batches <- RacingBatches
    Modes = {"incremental", "legacy"}
    MemRuns = 1
    Fuel = 4
    MaxBatches = 4
    MaxJobs = 2
    MaxEvents = 1
INVARIANTS SpineIsValid NothingLostOrDoubled NeverPanics FuelDiscipline
           ReferencedRunsExist
CHECK_DEADLOCK FALSE
