----------------------------- MODULE Blockchain -----------------------------
(***************************************************************************)
(* One node's Blockchain object (blockchain/blockchain.go): the chain, the *)
(* pool of pending transactions and the mutex.  AddBlock, AddTransaction   *)
(* and CreateBlock hold Mutex for their whole body, so each is one action. *)
(* Their callers are the NEW_BLOCK, NEW_TX and APPEND_ENTRIES handlers of  *)
(* network/p2p.go, POST /transactions of api/api.go and                    *)
(* RaftConsensus.ProposeBlock; a call that is refused changes nothing and  *)
(* is a stuttering step.                                                   *)
(***************************************************************************)
EXTENDS Block

CONSTANTS
    Self,       \* this node
    BlockArgs,  \* the blocks AddBlock is called with, made up or not
    TxArgs,     \* the transactions AddTransaction is called with
    MaxHeight,  \* bound: length of the chain
    MaxCopies   \* bound: copies of one transaction in the pool

ASSUME BlockchainAssumption ==
    /\ Self \in Node
    /\ BlockArgs \subseteq Block
    /\ TxArgs \subseteq Tx
    /\ MaxHeight \in Nat
    /\ MaxCopies \in Nat

VARIABLES
    chain,    \* Blockchain.Chain
    pending,  \* Blockchain.PendingTransactions
    mutex     \* Blockchain.Mutex: "free", or "stuck" in a call that never returns

vars == <<chain, pending, mutex>>

----------------------------------------------------------------------------

\* NewBlockchain(Self)
Init ==
    /\ chain = <<NewGenesisBlock(Self)>>
    /\ pending = NoTx
    /\ mutex = "free"

AddBlock(b) ==
    /\ mutex = "free"
    /\ Len(chain) < MaxHeight
    /\ ValidateBlock(chain, b)
    /\ chain' = Append(chain, b)
    /\ pending' = ClearProcessed(pending, b.txs)
    /\ UNCHANGED mutex

AddTransaction(tx) ==
    /\ mutex = "free"
    /\ pending[tx] < MaxCopies
    /\ TxVerify(tx)
    /\ pending' = [pending EXCEPT ![tx] = @ + 1]
    /\ UNCHANGED <<chain, mutex>>

\* CreateBlock takes the write lock and calls GetLatestBlock, which asks the
\* same mutex for a read lock.  The mutex is not reentrant: the call never
\* returns and the write lock is never released.
CreateBlock ==
    /\ mutex = "free"
    /\ mutex' = "stuck"
    /\ UNCHANGED <<chain, pending>>

Next ==
    \/ \E b \in BlockArgs : AddBlock(b)
    \/ \E tx \in TxArgs : AddTransaction(tx)
    \/ CreateBlock

Spec == Init /\ [][Next]_vars

----------------------------------------------------------------------------

\* The chain holds blocks, the pool counts transactions.
TypeOK ==
    /\ chain \in Seq(Block)
    /\ chain # <<>>
    /\ pending \in TxBag
    /\ mutex \in {"free", "stuck"}

\* The segment of position k starts at a block of index 0, which AddBlock takes
\* as it is: this node's genesis block, another node's, or a made-up one.
SegmentStart(k) == k - chain[k].index

\* The hash of every block pins the blocks of its segment after the first: it is
\* the hash of the first, whatever that is, extended by their contents in order.
\* ValidateBlock may not let in a block whose index, predecessor or hash
\* disagrees with the blocks already there, in any order of NEW_BLOCK messages,
\* index-0 blocks with any hash in between included.
HashPinsHistory ==
    \A k \in DOMAIN chain :
        /\ SegmentStart(k) \in DOMAIN chain
        /\ chain[SegmentStart(k)].index = 0
        /\ chain[k].hash = chain[SegmentStart(k)].hash
                             \o [i \in 1 .. chain[k].index |-> ContentOf(chain[SegmentStart(k) + i])]

\* Every transaction in the pool, and on the chain in a block above index 0,
\* passed Verify: such a block's list is checked when it is added although it
\* was not taken from the pool, an index-0 block's is not.
OnlyVerifiedTransactions ==
    \A tx \in Tx :
        \/ pending[tx] > 0
        \/ \E k \in DOMAIN chain : chain[k].index # 0 /\ chain[k].txs[tx] > 0
        => TxVerify(tx)

\* The chain holds no block of index 0 but its own first one.
OneGenesis == \A k \in 2 .. Len(chain) : chain[k].index # 0

\* What ValidateBlock let in, block by block and in any order of arrival,
\* ValidateChain accepts as a whole, up to the later index-0 blocks: the chain is
\* refused exactly if one of them has a wrong hash or names another predecessor.
OnlyIndexZeroInvalidates ==
    ValidateChain(chain) <=>
        \A k \in 2 .. Len(chain) : chain[k].index = 0 =>
            chain[k].hash = CalculateHash(chain[k]) /\ chain[k].prev = chain[k - 1].hash

\* Every stored block can be looked up, by hash and by index, as the block it
\* is: no earlier block of the chain answers for it.
LookupsFindEveryBlock ==
    OneGenesis =>
        \A k \in DOMAIN chain :
            /\ GetBlockByHash(chain, chain[k].hash) = k
            /\ GetBlockByIndex(chain, chain[k].index) = k

\* Whatever AddBlock did not refuse, ValidateChain accepts.
ChainIsValid == ValidateChain(chain)

\* ValidateChain tells whether an index-0 block has joined the chain.
ValidWithOneGenesis == ValidateChain(chain) <=> OneGenesis

\* No transaction that Verify refuses is on the chain.
ChainIsVerified == \A k \in DOMAIN chain, tx \in Tx : chain[k].txs[tx] > 0 => TxVerify(tx)

\* A transaction leaves the pool only with the block that holds it, not with one
\* that holds another transaction under the same ID.
OnlyTheRecordedLeave ==
    [][\A tx \in Tx : pending[tx] > 0 /\ pending'[tx] = 0 => LatestBlock(chain').txs[tx] > 0]_vars

\* A pending transaction is still to be processed: no block holds it already.
PendingIsUnprocessed ==
    \A k \in DOMAIN chain : TxIds(pending) \cap TxIds(chain[k].txs) = {}

\* The chain is an append-only ledger, and no ID taken into the pool leaves it
\* otherwise than with the block just added that records it, although the pool
\* may hold several transactions and copies under one ID.
LedgerLog == [k \in DOMAIN chain |-> TxIds(chain[k].txs)]
L == INSTANCE Ledger WITH Id <- TxId, log <- LedgerLog, waiting <- TxIds(pending)
ImplementsLedger == L!Spec
=============================================================================
