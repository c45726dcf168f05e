SPECIFICATION Spec
CONSTANTS
    Hubs = {h1, h2}
    Spokes = {a, b}
    HA = TRUE
    Gated = FALSE
    MaxAttempts = 2
    MaxFlips = 2
PROPERTY LeaderBecomesFresh
