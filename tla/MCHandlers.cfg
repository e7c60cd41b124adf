SPECIFICATION HSpec
CONSTANTS
    Node = {"n1", "n2"}
    Self = "n1"
    Body <- MCBody
    TxId <- MCBody
    SystemBody = {}
    BlockArgs <- MCBlockArgs
    TxArgs <- MCTxArgs
    MaxHeight = 4
    MaxCopies = 1
    Byte = {0, 1}
    Width = 2
    Reader = {r1, r2}
    What = {"follow"}
    MaxEntries = 2
    MaxTime = 1
    MaxTerm = 1
    Pairs <- MCPairs
INVARIANTS
    SuccessMeansStored
    PooledIfFresh
SYMMETRY ReaderSymmetry
CHECK_DEADLOCK FALSE
