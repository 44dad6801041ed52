SPECIFICATION Spec
CONSTANTS
    Checks = {c1}
    MaxRuns = 2
    Servers <- MCServers
    Installations <- MCInstallations
    Apps = {a}
    RawStatuses <- MCRawStatuses
    FirstStatuses <- MCFirstStatuses
    MaxChanges = 1
    MaxInstalls = 1
INVARIANTS
    TypeOK
    DetectionIsSound
    PreviousIsOneAnswer
    TransitionsAreReal
PROPERTY ArgoCdSettles
CHECK_DEADLOCK FALSE
