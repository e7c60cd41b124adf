SPECIFICATION Spec
CONSTANTS
    NilPanics = TRUE
    HasPeers = TRUE
    Calls = {}
    MaxCalls = 0
INVARIANT LoopSurvives
CHECK_DEADLOCK FALSE
