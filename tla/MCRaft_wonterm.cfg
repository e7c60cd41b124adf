SPECIFICATION Spec
CONSTANTS
    Node = {n1, n2}
    None = None
    Peers <- FullMesh
    Genesis <- OwnGenesis
    Wired = TRUE
    MaxTerm = 2
    MaxHeight = 0
    MaxAppends = 0
INVARIANT LeaderWonItsTerm
CHECK_DEADLOCK FALSE
