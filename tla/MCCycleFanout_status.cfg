SPECIFICATION FanSpec
CONSTANTS
    Targets = {1, 2}
    IpOf <- MCIpOf
    IdOf <- MCIdOf
    ProfilesFor <- MCProfilesFor
    UsableProfiles = {1}
    Limits = {1}
    TrialRate = 1
    ModulesFor <- MCModulesFor
    MayPanicProbe = FALSE
    MaxRounds = 2
INVARIANT StatusIsCurrent
