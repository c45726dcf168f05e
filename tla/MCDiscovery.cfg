SPECIFICATION PartsSpec
CONSTANTS
    Bits = 2
    Overrides <- MCOverrides
    Assignments <- MCAssignments
    Enabled = {"lldp", "fdb"}
    Fallback <- MCFallback
    MaxRules = 3
    Neighbours <- MCNeighbours
    MaxChanges = 1
    Bridges <- MCBridges
    Special = {9}
    Slots = 2
    MaxVlans = 3
    Speakers <- MCSpeakers
    Established = 6
    InScope <- MCInScope
    Polled <- MCPolled
    Returns <- MCReturns
    MaxTick = 4
    Sightings <- MCSightings
    MaxSightings = 3
    Links <- MCLinks
    TTL = 2
    Walks <- MCWalks
    Inventories <- MCInventories
    Raw <- MCRaw
    SpokeDevices <- MCSpokeDevices
    SpokeSightings <- MCSpokeSightings
    SpokeBoundary <- MCSpokeBoundary
    KnownInterDomainLinks <- MCKnownLinks
    Configured = 3
    MaxReports = 2
    Ips = {ip}
    Profiles = {p}
    Walkers = {w1, w2, w3}
    WarnKeys = {1, 2, 3}
    Callers = {c1, c2}
    Cooldown = 2
    MaxKeys = 2
    MaxTicks = 3
INVARIANTS
    NarrowestRuleDecides
    NeverAliased
    EdgesAreWhole
    TrunksAreNotLinks
    
    SynthesisOrderFree
    FdbEndsAtDevices
    FirstSeenSticks
    
    
    
    MergeIsExact
    CooldownHolds
