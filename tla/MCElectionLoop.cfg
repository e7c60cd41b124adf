SPECIFICATION Spec
CONSTANTS
    NilPanics = FALSE
    HasPeers = TRUE
    Calls <- AllCalls
    MaxCalls = 4
INVARIANTS
    TypeOK
    OfficeHasTimer
PROPERTIES
    VeteranStartsElection
    LeaderBeats
    StopEndsLoop
CHECK_DEADLOCK FALSE
