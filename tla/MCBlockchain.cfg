SPECIFICATION Spec
CONSTANTS
    Node = {"n1", "n2"}
    Self = "n1"
    Body = {"follow", "notice"}
    TxId = {"follow", "notice"}
    SystemBody = {"notice"}
    BlockArgs <- MCBlockArgs
    TxArgs <- MCTxArgs
    MaxHeight = 4
    MaxCopies = 1
INVARIANTS
    TypeOK
    HashPinsHistory
    OnlyVerifiedTransactions
    OnlyIndexZeroInvalidates
    LookupsFindEveryBlock
PROPERTY ImplementsLedger
CHECK_DEADLOCK FALSE
