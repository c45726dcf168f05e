SPECIFICATION PartsSpec
CONSTANTS
    Spokes = {a, b}
    Requests = {r1}
    SpokeTimeout = 1
    MinPushInterval = 1
    MaxGraph = 4
    Size <- SizeOfCycle
    FutureSlack = 0
    HA = TRUE
    MayPanic = TRUE
    MaxTime = 3
    MaxGen = 2
    MaxAttempts = 2
    MaxCycles = 4
    PushMayPanic = TRUE
    Targets = {1, 2}
    IpOf <- MCIpOf
    IdOf <- MCIdOf
    ProfilesFor <- MCProfilesFor
    UsableProfiles = {1, 2}
    Limits = {1}
    TrialRate = 1
    ModulesFor <- MCModulesFor
    MayPanicProbe = TRUE
    MaxRounds = 1
    MaxCalls = 3
INVARIANT NobodyReadsAfterReturn
PROPERTIES
    SilentSpokesLeave
    QueuedSettles
    ShutdownReturns
    ImplementsMailbox
    CycleCompletes
    CallReturns
