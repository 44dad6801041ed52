SPECIFICATION Spec
CONSTANTS
    Tasks <- MCTasks
    Optional <- MCOptional
    Storing <- MCStoring
    Swallowing <- MCSwallowing
    Outcomes <- MCOutcomes
    EnvIntervals <- MCEnvLong
    ConfigMin <- MCConfigMin
    MinInterval <- MCMinInterval
    Hash <- MCHash
    OffsetRange <- MCOffsetRange
    MaxTimer = 3
    MaxCollections = 2
    MaxRuns = 5
    MaxTime = 3
INVARIANTS
    StartsAreSpaced
CHECK_DEADLOCK FALSE
