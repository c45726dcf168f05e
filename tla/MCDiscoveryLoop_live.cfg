SPECIFICATION FairLoopSpec
CHECK_DEADLOCK FALSE
CONSTANTS
    Edges = {}
    Admins = {r1}
    MaxTargets = 1
    MaxEdges = 0
    MaxStale = 1
    CyclePanics = TRUE
    WritePanics = FALSE
PROPERTIES
    CyclesContinue
    RequestsAnswered
    LoopReturns
    WedgeIsReported
