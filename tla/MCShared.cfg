SPECIFICATION PartsSpec
CONSTANTS
    Spokes = {a, b}
    Requests = {r1}
    SpokeTimeout = 1
    MinPushInterval = 0
    MaxGraph = 0
    Size <- SizeOfCycle
    FutureSlack = 0
    HA = FALSE
    MayPanic = FALSE
    MaxTime = 2
    MaxGen = 2
    MaxCrashes = 1
    Hubs = {h1, h2}
    NewLease = TRUE
    ReadErrors = TRUE
    MaxTenure = 2
    Procs = {1, 2}
    Slots = {0, 1}
    MaxWrites = 3
    Cap = 2
    HeartbeatCycles = 2
    Port = 4318
    MaxGraphs = 2
    Targets = {1, 2}
    IpOf <- MCIpOf
    IdOf <- MCIdOf
    ProfilesFor <- MCProfilesFor
    UsableProfiles = {1, 2}
    Limits = {1, 2}
    TrialRate = 1
    ModulesFor <- MCModulesFor
    MayPanicProbe = TRUE
    MaxRounds = 2
SYMMETRY Symmetry
INVARIANTS
    DiskWasServed
    HolderNotRefused
    
    EvidenceIsKept
    ReceiverIsCurrent
    
PROPERTIES
    
    ProfileKeptUnlessRejected
    ImplementsSweep
