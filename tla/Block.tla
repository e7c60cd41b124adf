------------------------------- MODULE Block -------------------------------
(***************************************************************************)
(* Blocks, transactions and the pure checks made on them: block.go,        *)
(* transaction.go and the functions of blockchain.go that only read a      *)
(* chain.                                                                  *)
(*                                                                         *)
(* A SHA-256 hash is the history it commits to: the hash of a block is the *)
(* hash of its predecessor with the block's own content appended, so equal *)
(* hashes mean equal histories (no collisions).  The genesis predecessor   *)
(* "0" is the empty history, and a made-up hash one that nobody has.       *)
(* A Body is also the hash of that content, which NewTransaction and POST  *)
(* /transactions take as the ID; but nothing compares the two, so the ID   *)
(* of a transaction is any.  A signature is what verifying it against the  *)
(* current content yields; a transaction's ID is not signed.  Timestamps   *)
(* are part of a Body; a block's timestamp is told apart only through its  *)
(* creator.                                                                *)
(***************************************************************************)
EXTENDS Naturals, Sequences

CONSTANTS
    Node,        \* node identities, the creators of blocks
    Body,        \* transaction contents, and their hashes
    TxId,        \* transaction IDs: the hashes of contents, and any others
    SystemBody   \* the contents of type TxSystem, which need no signature

ASSUME BodyAssumption == SystemBody \subseteq Body /\ Body \subseteq TxId

\* Signature == "", a signature Verify refuses, one it accepts.
Sig == {"none", "bad", "ok"}

Tx == [id : TxId, body : Body, sig : Sig]

\* []*Transaction: how many copies of each transaction a list holds.  The
\* order inside a list is not kept, nothing below depends on it.
TxBag == [Tx -> Nat]
NoTx == [tx \in Tx |-> 0]

Content == [index : Nat, txs : TxBag, creator : Node]
Hash == Seq(Content)
Block == [index : Nat, txs : TxBag, creator : Node,
          prev : Hash, hash : Hash, sig : Sig]

----------------------------------------------------------------------------

\* Transaction.Verify
TxVerify(tx) == tx.body \in SystemBody \/ tx.sig = "ok"

\* The keys of clearProcessedTransactions' processedMap.
TxIds(txs) == {tx.id : tx \in {t \in Tx : txs[t] > 0}}

\* What the hash of a block covers beside the predecessor's hash.
ContentOf(b) == [index |-> b.index, txs |-> b.txs, creator |-> b.creator]

CalculateHash(b) == Append(b.prev, ContentOf(b))

NewBlock(index, txs, prev, creator) ==
    [index |-> index, txs |-> txs, creator |-> creator, prev |-> prev,
     hash |-> Append(prev, [index |-> index, txs |-> txs, creator |-> creator]),
     sig |-> "none"]

NewGenesisBlock(creator) == NewBlock(0, NoTx, <<>>, creator)

\* Block.VerifyBlock: a genesis block needs no signature.
VerifyBlock(b) == b.index = 0 \/ b.sig = "ok"

----------------------------------------------------------------------------

\* GetLatestBlock on a non-empty chain.
LatestBlock(ch) == ch[Len(ch)]

\* Mutations of Extends: each forgets one of its checks.
ExtendsAnyIndex(p, b) ==
    /\ b.prev = p.hash /\ b.hash = CalculateHash(b) /\ VerifyBlock(b)
    /\ \A tx \in Tx : b.txs[tx] > 0 => TxVerify(tx)
ExtendsAnyPrev(p, b) ==
    /\ b.index = p.index + 1 /\ b.hash = CalculateHash(b) /\ VerifyBlock(b)
    /\ \A tx \in Tx : b.txs[tx] > 0 => TxVerify(tx)
ExtendsAnyHash(p, b) ==
    /\ b.index = p.index + 1 /\ b.prev = p.hash /\ VerifyBlock(b)
    /\ \A tx \in Tx : b.txs[tx] > 0 => TxVerify(tx)
ExtendsAnyTx(p, b) ==
    /\ b.index = p.index + 1 /\ b.prev = p.hash
    /\ b.hash = CalculateHash(b) /\ VerifyBlock(b)

\* The checks ValidateBlock makes of a block against its predecessor.
Extends(p, b) ==
    /\ b.index = p.index + 1
    /\ b.prev = p.hash
    /\ b.hash = CalculateHash(b)
    /\ VerifyBlock(b)
    /\ \A tx \in Tx : b.txs[tx] > 0 => TxVerify(tx)

\* ValidateBlock returns true for every block of index 0 before it looks at
\* anything else.
ValidateBlock(ch, b) ==
    \/ b.index = 0
    \/ ch # <<>> /\ Extends(LatestBlock(ch), b)

ValidateChain(ch) ==
    \A i \in 2 .. Len(ch) :
        /\ ch[i].hash = CalculateHash(ch[i])
        /\ ch[i].prev = ch[i-1].hash

\* The first block, in chain order, that a lookup loop stops at; 0 is nil.
FirstAt(ch, I) ==
    IF I = {} THEN 0 ELSE CHOOSE i \in I : \A j \in I : i <= j
GetBlockByHash(ch, h) == FirstAt(ch, {i \in DOMAIN ch : ch[i].hash = h})
GetBlockByIndex(ch, n) == FirstAt(ch, {i \in DOMAIN ch : ch[i].index = n})

\* Mutations of ClearProcessed: copy by copy, or the whole pool.
SubtractProcessed(pool, txs) == [tx \in Tx |-> pool[tx] - txs[tx]]
ClearAll(pool, txs) == NoTx

\* clearProcessedTransactions: every transaction with a processed ID goes.
ClearProcessed(pool, txs) ==
    [tx \in Tx |-> IF tx.id \in TxIds(txs) THEN 0 ELSE pool[tx]]
============================================================================
