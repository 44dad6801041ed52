SPECIFICATION Spec
CONSTANTS
    Tasks <- MCTasks
    Optional <- MCOptional
    Storing <- MCStoring
    Swallowing <- MCSwallowing
    Outcomes <- MCOutcomes
    EnvIntervals <- MCEnv
    ConfigMin <- MCConfigMin
    MinInterval <- MCMinInterval
    Hash <- MCHash
    OffsetRange <- MCOffsetRange
    MaxTimer = 3
    MaxCollections = 2
    MaxRuns = 5
    MaxTime = 3
INVARIANTS
    TypeOK
    StorageKeepsNewest
    CountsAddUp
    StartsAreSpaced
PROPERTIES
    NothingStartsAfterStop
    TasksRunAndSettle
CHECK_DEADLOCK FALSE
