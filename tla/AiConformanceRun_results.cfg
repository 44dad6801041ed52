SPECIFICATION FairSpec
CONSTANTS
    r1 = r1
    r2 = r2
    Runs = {r1, r2}
    Statuses = {"passed", "not-evaluated"}
    Readers = {"status"}
    ChecklistSizes = {2}
    MaxTime = 2
INVARIANTS
    StoredRunsAreWhole
    SummaryIsConsistent
PROPERTIES
    RunsMoveForward
    RecordedRunIsPublished
CHECK_DEADLOCK FALSE
