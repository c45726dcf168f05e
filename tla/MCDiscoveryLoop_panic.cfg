SPECIFICATION FairLoopSpec
CHECK_DEADLOCK FALSE
CONSTANTS
    Edges = {e1}
    Admins = {}
    MaxTargets = 1
    MaxEdges = 0
    MaxStale = 1
    CyclePanics = TRUE
    WritePanics = FALSE
PROPERTY CyclesGoOn
