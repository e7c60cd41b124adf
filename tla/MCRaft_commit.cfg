SPECIFICATION Spec
CONSTANTS
    Node = {n1, n2}
    None = None
    Peers <- FullMesh
    Genesis <- OneGenesis
    Wired = TRUE
    MaxTerm = 1
    MaxHeight = 1
    MaxAppends = 0
INVARIANT CommittedByMajority
CHECK_DEADLOCK FALSE
