SPECIFICATION Spec
CONSTANTS
    Node = {n1, n2, n3}
    None = None
    Peers <- FullMesh
    Genesis <- OwnGenesis
    Wired = TRUE
    MaxTerm = 2
    MaxHeight = 0
    MaxAppends = 3
SYMMETRY Symmetry
INVARIANTS
    TypeOK
    CandidateVotedForItself
    VotesAnswerRequests
    LeaderRanForOffice
PROPERTY VotesAreFinal
CHECK_DEADLOCK FALSE
