SPECIFICATION FairSpec
CONSTANTS
    id1 = id1
    id2 = id2
    EventIds = {id1}
    MaxQueueSize = 2
    MaxBatchSize = 1
    MaxArrivals = 1
    MaxRestarts = 0
PROPERTY
    FailedWatchIsRetried
CHECK_DEADLOCK FALSE
