SPECIFICATION HubSpec
CONSTANTS
    Spokes = {a, b}
    Requests = {r1, r2}
    SpokeTimeout = 1
    MinPushInterval = 1
    MaxGraph = 4
    Size <- SizeOfCycle
    FutureSlack = 1
    HA = TRUE
    MayPanic = TRUE
    MaxTime = 3
    MaxGen = 2
SYMMETRY Symmetry
INVARIANT NoSilentGhost
PROPERTIES
    RestoredUntilLive
    EvictsOnlySilent
    PublishedOnlyForward
