SPECIFICATION Spec
CONSTANTS
    Node = {n1, n2}
    None = None
    Peers <- FullMesh
    Genesis <- OneGenesis
    Wired = TRUE
    MaxTerm = 2
    MaxHeight = 1
    MaxAppends = 2
INVARIANT RequestsAreHonest
 
CHECK_DEADLOCK FALSE
