SPECIFICATION Spec
CONSTANTS
    Node = {n1}
    Self = n1
    Body = {"follow"}
    TxId = {"follow"}
    SystemBody = {}
    TxArgs <- GoodAndBad
    BlockArgs <- MCBlockArgs
    Thread = {t1, t2, t3}
    NoThread = NoThread
    Methods = {"AddBlock", "AddTransaction", "CreateBlock", "GetLatestBlock"}
    MaxHeight = 4
    MaxCopies = 1
INVARIANTS
    TypeOK
    ReadersSeeOneChain
PROPERTIES
    ImplementsBlockchain
    CallsReturnUnlessStuck
CHECK_DEADLOCK FALSE
