SPECIFICATION FairSpec
CONSTANTS
    id1 = id1
    id2 = id2
    EventIds = {id1, id2}
    MaxQueueSize = 3
    MaxBatchSize = 2
    MaxArrivals = 4
    MaxRestarts = 1
INVARIANTS
    BooksBalance
    EventsStayInOrder
    CleanExitKeepsEvents
PROPERTIES
    FifoRefinement
    PipelineSettles
CHECK_DEADLOCK FALSE
