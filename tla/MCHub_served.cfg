SPECIFICATION HubSpec
CONSTANTS
    Spokes = {a, b}
    Requests = {r1, r2}
    SpokeTimeout = 1
    MinPushInterval = 0
    MaxGraph = 0
    Size <- SizeOfCycle
    FutureSlack = 0
    HA = FALSE
    MayPanic = FALSE
    MaxTime = 3
    MaxGen = 2
INVARIANT AcceptedIsServed
