SPECIFICATION FairSpec
CONSTANTS
    r1 = r1
    r2 = r2
    Runs = {r1, r2}
    Outcomes = {"failing", "timeout"}
    MaxChecks = 2
    MaxTime = 2
INVARIANT
    PublishedRunIsStored
PROPERTIES
    CompletedRunsHold
    PublishedNotOlderThanTick
    RunsReachTheStatus
CHECK_DEADLOCK FALSE
