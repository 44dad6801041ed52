SPECIFICATION FairPublisherSpec
CONSTANTS
    s1 = s1
    s2 = s2
    Slots = {s1, s2}
INVARIANT
    QuietExitReportsShutdown
PROPERTIES
    ConfigMapRecovers
    ShutdownEnds
