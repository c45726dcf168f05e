SPECIFICATION LoopSpec
CHECK_DEADLOCK FALSE
CONSTANTS
    Edges = {e1, e2}
    Admins = {}
    MaxTargets = 1
    MaxEdges = 1
    MaxStale = 1
    CyclePanics = TRUE
    WritePanics = TRUE
SYMMETRY Symmetry
INVARIANTS
    EventsFollowTopology
    DiskFollowsTopology
