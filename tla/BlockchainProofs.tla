-------------------------- MODULE BlockchainProofs --------------------------
(***************************************************************************)
(* Proofs about Blockchain, for every set of nodes and of transactions,    *)
(* whatever blocks and transactions it is called with, and every bound.    *)
(***************************************************************************)
EXTENDS Blockchain, SequenceTheorems, TLAPS

\* What NewBlock builds is a block.
LEMMA NewBlockType ==
    ASSUME NEW i \in Nat, NEW t \in TxBag, NEW p \in Hash, NEW c \in Node
    PROVE  /\ NewBlock(i, t, p, c) \in Block
           /\ NewBlock(i, t, p, c).hash = CalculateHash(NewBlock(i, t, p, c))
<1>1. [index |-> i, txs |-> t, creator |-> c] \in Content
  BY DEF Content
<1>2. Append(p, [index |-> i, txs |-> t, creator |-> c]) \in Hash
  BY <1>1, AppendProperties DEF Hash
<1> QED
  BY <1>1, <1>2 DEF NewBlock, Block, Sig, CalculateHash, ContentOf

\* The genesis block of a node.
LEMMA GenesisType ==
    ASSUME NEW n \in Node
    PROVE  /\ NewGenesisBlock(n) \in Block
           /\ NewGenesisBlock(n).index = 0
           /\ NewGenesisBlock(n).txs = NoTx
           /\ NewGenesisBlock(n).hash = <<ContentOf(NewGenesisBlock(n))>>
<1>1. NoTx \in TxBag
  BY DEF NoTx, TxBag
<1>2. <<>> \in Hash
  BY EmptySeq DEF Hash
<1>3. NewGenesisBlock(n) \in Block
  BY <1>1, <1>2, NewBlockType DEF NewGenesisBlock
<1>4. NewGenesisBlock(n).hash = <<ContentOf(NewGenesisBlock(n))>>
  BY DEF NewGenesisBlock, NewBlock, ContentOf
<1> QED
  BY <1>3, <1>4 DEF NewGenesisBlock, NewBlock

\* Dropping processed transactions leaves a pool.
LEMMA ClearProcessedType ==
    ASSUME NEW pool \in TxBag, NEW txs
    PROVE  ClearProcessed(pool, txs) \in TxBag
BY DEF ClearProcessed, TxBag

\* A block joins the chain at its end.
LEMMA AddBlockStep ==
    ASSUME TypeOK, NEW b \in Block, AddBlock(b)
    PROVE  /\ TypeOK'
           /\ Len(chain) \in Nat \ {0}
           /\ DOMAIN chain = 1 .. Len(chain)
           /\ Len(chain') = Len(chain) + 1
           /\ DOMAIN chain' = 1 .. Len(chain) + 1
           /\ \A k \in 1 .. Len(chain) : chain'[k] = chain[k] /\ chain[k] \in Block
           /\ chain'[Len(chain) + 1] = b
           /\ b.index = 0 \/ Extends(chain[Len(chain)], b)
<1>1. chain' = Append(chain, b) /\ chain \in Seq(Block) /\ chain # <<>>
  BY DEF AddBlock, TypeOK
<1>2. chain' \in Seq(Block) /\ chain' # <<>> /\ Len(chain') = Len(chain) + 1
      /\ (\A k \in 1 .. Len(chain) : chain'[k] = chain[k])
      /\ chain'[Len(chain) + 1] = b
  BY <1>1, AppendProperties
<1>3. Len(chain) \in Nat \ {0} /\ DOMAIN chain = 1 .. Len(chain)
  BY <1>1, EmptySeq, LenProperties
<1>4. DOMAIN chain' = 1 .. Len(chain) + 1
  BY <1>2, LenProperties
<1>5. \A k \in 1 .. Len(chain) : chain[k] \in Block
  BY <1>1, ElementOfSeq
<1>6. pending' \in TxBag /\ mutex' = mutex
  BY ClearProcessedType DEF AddBlock, TypeOK
<1>7. b.index = 0 \/ Extends(chain[Len(chain)], b)
  BY DEF AddBlock, ValidateBlock, LatestBlock
<1> QED
  BY <1>2, <1>3, <1>4, <1>5, <1>6, <1>7 DEF TypeOK

\* Any calls from any callers: whatever block is handed to AddBlock, made up or
\* not, and whatever transaction to AddTransaction.
AnyCall ==
    \/ \E b \in Block : AddBlock(b)
    \/ \E tx \in Tx : AddTransaction(tx)
    \/ CreateBlock

OpenSpec == Init /\ [][AnyCall]_vars

\* Every step is an AddBlock of a block, an AddTransaction, or leaves the
\* chain and the pool alone.
LEMMA StepCases ==
    ASSUME TypeOK, [AnyCall]_vars
    PROVE  \/ \E b \in Block : AddBlock(b)
           \/ \E tx \in Tx : AddTransaction(tx)
           \/ UNCHANGED <<chain, pending>> /\ mutex' \in {mutex, "stuck"}
BY DEF AnyCall, CreateBlock, vars

\* The arguments of the calls are blocks and transactions.
LEMMA NextIsAnyCall == Next => AnyCall
BY BlockchainAssumption DEF Next, AnyCall

----------------------------------------------------------------------------

LEMMA TypeInit == Init => TypeOK
<1> SUFFICES ASSUME Init PROVE TypeOK
  OBVIOUS
<1>1. NewGenesisBlock(Self) \in Block
  BY GenesisType, BlockchainAssumption
<1>2. NoTx \in TxBag
  BY DEF NoTx, TxBag
<1> QED
  BY <1>1, <1>2 DEF Init, TypeOK

LEMMA TypeStep ==
    ASSUME TypeOK, [AnyCall]_vars
    PROVE  TypeOK'
<1>1. ASSUME NEW b \in Block, AddBlock(b) PROVE TypeOK'
  BY <1>1, AddBlockStep
<1>2. ASSUME NEW tx \in Tx, AddTransaction(tx) PROVE TypeOK'
  BY <1>2 DEF AddTransaction, TypeOK, TxBag
<1>3. CASE UNCHANGED <<chain, pending>> /\ mutex' \in {mutex, "stuck"}
  BY <1>3 DEF TypeOK
<1> QED
  BY <1>1, <1>2, <1>3, StepCases

\* The callers of module Blockchain make no other calls.
THEOREM CallersAreAny == Spec => OpenSpec
<1>1. [Next]_vars => [AnyCall]_vars
  BY NextIsAnyCall
<1> QED
  BY <1>1, PTL DEF Spec, OpenSpec

\* The chain stays a non-empty sequence of blocks and the pool a count of
\* transactions, whatever is handed to AddBlock and AddTransaction.
LEMMA AnyTypeCorrect == OpenSpec => []TypeOK
<1>1. TypeOK /\ [AnyCall]_vars => TypeOK'
  BY TypeStep
<1> QED
  BY <1>1, TypeInit, PTL DEF OpenSpec

----------------------------------------------------------------------------

\* The contents of the n blocks after position s, and HashPinsHistory for one
\* position.
Contents(ch, s, n) == [i \in 1 .. n |-> ContentOf(ch[s + i])]
Pins(ch, k) ==
    /\ k - ch[k].index \in DOMAIN ch
    /\ ch[k - ch[k].index].index = 0
    /\ ch[k].hash = ch[k - ch[k].index].hash \o Contents(ch, k - ch[k].index, ch[k].index)

LEMMA PinsEverywhere == HashPinsHistory <=> \A k \in DOMAIN chain : Pins(chain, k)
BY DEF HashPinsHistory, SegmentStart, Pins, Contents

LEMMA HashType ==
    ASSUME NEW ch \in Seq(Block), NEW k \in 1 .. Len(ch)
    PROVE  ch[k] \in Block /\ ch[k].hash \in Seq(Content)
<1>1. ch[k] \in Block
  BY ElementOfSeq
<1> QED
  BY <1>1 DEF Block, Hash

LEMMA AppendToConcat ==
    ASSUME NEW s \in Seq(Content), NEW t \in Seq(Content), NEW c \in Content
    PROVE  Append(s \o t, c) = s \o Append(t, c)
<1>1. <<c>> \in Seq(Content)
  OBVIOUS
<1>2. s \o t \in Seq(Content)
  BY ConcatProperties
<1>3. Append(s \o t, c) = (s \o t) \o <<c>>
  BY <1>2, AppendIsConcat
<1>4. Append(t, c) = t \o <<c>>
  BY AppendIsConcat
<1> QED
  BY <1>1, <1>3, <1>4, ConcatAssociative

\* The contents of stored blocks, none of them and one more of them.
LEMMA ContentsProperties ==
    ASSUME NEW ch \in Seq(Block), NEW s \in Nat, NEW n \in Nat, s + n <= Len(ch)
    PROVE  /\ Contents(ch, s, n) \in Seq(Content) /\ Len(Contents(ch, s, n)) = n
           /\ n = 0 => Contents(ch, s, n) = <<>>
<1>1. \A i \in 1 .. n : s + i \in 1 .. Len(ch)
  BY LenProperties
<1>2. \A i \in 1 .. n : ch[s + i] \in Block
  BY <1>1, ElementOfSeq
<1>3. \A i \in 1 .. n : ContentOf(ch[s + i]) \in Content
  BY <1>2 DEF Block, ContentOf, Content
<1>4. Contents(ch, s, n) \in [1 .. n -> Content]
  BY <1>3 DEF Contents
<1>5. Contents(ch, s, n) \in Seq(Content)
  BY <1>4, SeqDef
<1>6. Len(Contents(ch, s, n)) = n
  BY <1>4, <1>5, LenProperties
<1>7. n = 0 => Contents(ch, s, n) = <<>>
  BY <1>5, <1>6, EmptySeq
<1> QED
  BY <1>5, <1>6, <1>7

LEMMA ContentsExtended ==
    ASSUME NEW ch \in Seq(Block), NEW s \in Nat, NEW n \in Nat, s + n + 1 <= Len(ch)
    PROVE  Contents(ch, s, n + 1) = Append(Contents(ch, s, n), ContentOf(ch[s + n + 1]))
<1> DEFINE c == ContentOf(ch[s + n + 1])
           few == Contents(ch, s, n)
           more == Contents(ch, s, n + 1)
<1>0. s + n + 1 \in 1 .. Len(ch)
  BY LenProperties
<1>1. c \in Content
  <2>1. ch[s + n + 1] \in Block
    BY <1>0, ElementOfSeq
  <2> QED
    BY <2>1 DEF Block, ContentOf, Content
<1>2. few \in Seq(Content) /\ Len(few) = n
  BY <1>0, ContentsProperties
<1>3. more \in Seq(Content) /\ Len(more) = n + 1
  <2>1. n + 1 \in Nat /\ s + (n + 1) <= Len(ch)
    BY <1>0
  <2> QED
    BY <2>1, ContentsProperties
<1>4. \A i \in 1 .. n : more[i] = few[i]
  BY DEF Contents
<1>5. more[n + 1] = c
  BY DEF Contents
<1> HIDE DEF c, few, more
<1>6. /\ Append(few, c) \in Seq(Content) /\ Len(Append(few, c)) = n + 1
      /\ \A i \in 1 .. n : Append(few, c)[i] = few[i]
      /\ Append(few, c)[n + 1] = c
  BY <1>1, <1>2, AppendProperties
<1>7. \A i \in 1 .. n + 1 : more[i] = Append(few, c)[i]
  BY <1>4, <1>5, <1>6
<1>8. more = Append(few, c)
  BY <1>3, <1>6, <1>7, SeqEqual
<1> QED
  BY <1>8 DEF c, few, more

\* An index-0 block pins itself, whatever its hash.
LEMMA RootPins ==
    ASSUME NEW ch \in Seq(Block), NEW k \in 1 .. Len(ch), ch[k].index = 0
    PROVE  Pins(ch, k)
<1>1. k \in Nat /\ k - ch[k].index = k /\ DOMAIN ch = 1 .. Len(ch) /\ k + 0 <= Len(ch)
  BY LenProperties
<1>2. ch[k].hash \in Seq(Content)
  BY HashType
<1>3. Contents(ch, k, 0) = <<>>
  BY <1>1, ContentsProperties
<1>4. ch[k].hash \o Contents(ch, k, 0) = ch[k].hash
  BY <1>2, <1>3, ConcatEmptySeq
<1> QED
  BY <1>1, <1>4 DEF Pins

\* A block that joins the chain leaves the pins of the others alone and is
\* pinned itself.
LEMMA AddBlockPins ==
    ASSUME TypeOK, HashPinsHistory, NEW b \in Block, AddBlock(b)
    PROVE  \A k \in DOMAIN chain' : Pins(chain', k)
<1> DEFINE N == Len(chain)
<1>1. /\ N \in Nat \ {0} /\ DOMAIN chain = 1 .. N /\ DOMAIN chain' = 1 .. N + 1
      /\ \A k \in 1 .. N : chain'[k] = chain[k] /\ chain[k] \in Block
      /\ chain'[N + 1] = b
      /\ b.index = 0 \/ Extends(chain[N], b)
      /\ Len(chain') = N + 1
      /\ chain \in Seq(Block) /\ chain' \in Seq(Block)
  BY AddBlockStep DEF TypeOK
<1>2. \A k \in 1 .. N : Pins(chain, k)
  BY <1>1, PinsEverywhere
<1>0. Len(chain) = N
  OBVIOUS
<1> HIDE DEF N
<1>3. ASSUME NEW s \in 1 .. N, NEW n \in Nat, s + n <= N
      PROVE  Contents(chain', s, n) = Contents(chain, s, n)
  <2>1. \A i \in 1 .. n : s + i \in 1 .. N
    BY <1>1, <1>3
  <2> QED
    BY <1>1, <2>1 DEF Contents
<1>4. ASSUME NEW k \in 1 .. N PROVE Pins(chain', k)
  <2> DEFINE n == chain[k].index
             s == k - n
  <2>1. n \in Nat /\ chain'[k] = chain[k] /\ Pins(chain, k)
    BY <1>1, <1>2 DEF Block
  <2>2. s \in 1 .. N /\ s + n = k /\ s + n <= N
    BY <1>1, <2>1 DEF Pins
  <2>3. Contents(chain', s, n) = Contents(chain, s, n)
    BY <1>3, <2>1, <2>2
  <2>4. chain[s].index = 0 /\ chain[k].hash = chain[s].hash \o Contents(chain, s, n)
    BY <2>1 DEF Pins
  <2>5. chain'[s] = chain[s] /\ s \in DOMAIN chain' /\ k - chain'[k].index = s
    BY <1>1, <2>1, <2>2
  <2>6. chain'[k].hash = chain'[s].hash \o Contents(chain', s, n)
    BY <2>1, <2>3, <2>4, <2>5
  <2>7. chain'[k].index = n
    BY <2>1
  <2> HIDE DEF n, s
  <2> QED
    BY <2>4, <2>5, <2>6, <2>7 DEF Pins
<1>5. Pins(chain', N + 1)
  <2>1. CASE b.index = 0
    BY <1>1, <2>1, RootPins
  <2>2. CASE b.index # 0
    <3> DEFINE p == chain[N]
               n == p.index
               s == N - n
               f == Contents(chain', s, n)
               c == ContentOf(b)
    <3>1. p \in Block /\ Pins(chain, N) /\ Extends(p, b) /\ N \in 1 .. N
      BY <1>1, <1>2, <2>2
    <3>2. n \in Nat /\ c \in Content /\ b.index = n + 1 /\ b.hash = Append(p.hash, c)
      BY <3>1 DEF Block, ContentOf, Content, Extends, CalculateHash
    <3>3. s \in 1 .. N /\ chain[s].index = 0 /\ s + n = N
      BY <1>1, <3>1, <3>2 DEF Pins
    <3>4. p.hash = chain[s].hash \o f /\ chain[s].hash \in Seq(Content)
      <4>1. f = Contents(chain, s, n)
        BY <1>3, <3>2, <3>3
      <4>2. chain[s] \in Block
        BY <1>1, <3>3
      <4> QED
        BY <3>1, <4>1, <4>2 DEF Pins, Block, Hash
    <3>5. f \in Seq(Content) /\ Contents(chain', s, n + 1) = Append(f, c)
      <4>1. s \in Nat /\ s + n <= Len(chain') /\ s + n + 1 <= Len(chain') /\ s + n + 1 = N + 1
        BY <1>1, <3>2, <3>3
      <4>2. n \in Nat /\ chain' \in Seq(Block) /\ ContentOf(chain'[s + n + 1]) = c
        BY <1>1, <3>2, <4>1
      <4> HIDE DEF s, n, c
      <4>3. f \in Seq(Content)
        BY <4>1, <4>2, ContentsProperties
      <4>4. Contents(chain', s, n + 1) = Append(f, c)
        BY <4>1, <4>2, ContentsExtended
      <4> QED
        BY <4>3, <4>4
    <3>6. /\ (N + 1) - b.index = s /\ s \in DOMAIN chain' /\ chain'[N + 1] = b
          /\ chain'[s] = chain[s]
      BY <1>1, <3>2, <3>3
    <3> HIDE DEF p, n, s, f, c
    <3>7. Append(chain[s].hash \o f, c) = chain[s].hash \o Append(f, c)
      <4> DEFINE h == chain[s].hash
      <4>1. h \in Seq(Content) /\ f \in Seq(Content) /\ c \in Content
        BY <3>2, <3>4, <3>5
      <4> HIDE DEF h
      <4>2. Append(h \o f, c) = h \o Append(f, c)
        BY <4>1, AppendToConcat
      <4> QED
        BY <4>2 DEF h
    <3>8. b.hash = chain'[s].hash \o Contents(chain', s, b.index)
      BY <3>2, <3>4, <3>5, <3>6, <3>7
    <3> QED
      BY <3>3, <3>6, <3>8 DEF Pins
  <2> QED
    BY <2>1, <2>2
<1>6. DOMAIN chain' = 1 .. N \cup {N + 1}
  BY <1>1
<1> QED
  BY <1>4, <1>5, <1>6

\* Whatever blocks arrive in whatever order, index-0 blocks with any hash
\* included, the hash of a block on the chain pins the blocks of its segment.
LEMMA AnyHistoryIsPinned == OpenSpec => []HashPinsHistory
<1>1. Init => HashPinsHistory
  <2> SUFFICES ASSUME Init PROVE HashPinsHistory
    OBVIOUS
  <2>1. /\ DOMAIN chain = 1 .. 1 /\ chain[1].index = 0
        /\ chain \in Seq(Block) /\ Len(chain) = 1
    BY GenesisType, BlockchainAssumption DEF Init
  <2>3. Pins(chain, 1)
    BY <2>1, RootPins
  <2> QED
    BY <2>1, <2>3, PinsEverywhere
<1>2. TypeOK /\ HashPinsHistory /\ [AnyCall]_vars => HashPinsHistory'
  <2> SUFFICES ASSUME TypeOK, HashPinsHistory, [AnyCall]_vars PROVE HashPinsHistory'
    OBVIOUS
  <2>1. ASSUME NEW b \in Block, AddBlock(b)
        PROVE  HashPinsHistory'
    <3>1. \A k \in DOMAIN chain' : Pins(chain', k)
      BY <2>1, AddBlockPins
    <3> QED
      BY <3>1 DEF HashPinsHistory, SegmentStart, Pins, Contents
  <2>2. ASSUME NEW tx \in Tx, AddTransaction(tx) PROVE HashPinsHistory'
    BY <2>2 DEF AddTransaction, HashPinsHistory, SegmentStart
  <2>3. CASE UNCHANGED <<chain, pending>> /\ mutex' \in {mutex, "stuck"}
    BY <2>3 DEF HashPinsHistory, SegmentStart
  <2> QED
    BY <2>1, <2>2, <2>3, StepCases
<1> QED
  BY <1>1, <1>2, AnyTypeCorrect, PTL DEF OpenSpec

----------------------------------------------------------------------------

\* No transaction that Verify refuses is ever in the pool, or on the chain in a
\* block above index 0.
LEMMA AnyVerified == OpenSpec => []OnlyVerifiedTransactions
<1>1. Init => OnlyVerifiedTransactions
  <2> SUFFICES ASSUME Init PROVE OnlyVerifiedTransactions
    OBVIOUS
  <2>1. DOMAIN chain = 1 .. 1 /\ chain[1].txs = NoTx
    BY GenesisType, BlockchainAssumption DEF Init
  <2>2. pending = NoTx /\ \A tx \in Tx : NoTx[tx] = 0
    BY DEF Init, NoTx
  <2> QED
    BY <2>1, <2>2 DEF OnlyVerifiedTransactions
<1>2. TypeOK /\ OnlyVerifiedTransactions /\ [AnyCall]_vars => OnlyVerifiedTransactions'
  <2> SUFFICES ASSUME TypeOK, OnlyVerifiedTransactions, [AnyCall]_vars
               PROVE  OnlyVerifiedTransactions'
    OBVIOUS
  <2>1. ASSUME NEW b \in Block, AddBlock(b)
        PROVE  OnlyVerifiedTransactions'
    <3> SUFFICES ASSUME NEW tx \in Tx,
                        \/ pending'[tx] > 0
                        \/ \E k \in DOMAIN chain' : chain'[k].index # 0 /\ chain'[k].txs[tx] > 0
                 PROVE  TxVerify(tx)
      BY DEF OnlyVerifiedTransactions
    <3>1. pending'[tx] > 0 => pending[tx] > 0
      BY <2>1 DEF AddBlock, ClearProcessed
    <3>2. b.index # 0 /\ b.txs[tx] > 0 => TxVerify(tx)
      BY <2>1, AddBlockStep DEF Extends
    <3>3. \A k \in DOMAIN chain' :
          chain'[k] = b \/ (k \in DOMAIN chain /\ chain'[k] = chain[k])
      <4>1. /\ Len(chain) \in Nat \ {0} /\ DOMAIN chain = 1 .. Len(chain)
            /\ DOMAIN chain' = 1 .. Len(chain) + 1
            /\ \A k \in 1 .. Len(chain) : chain'[k] = chain[k]
            /\ chain'[Len(chain) + 1] = b
        BY <2>1, AddBlockStep
      <4>2. ASSUME NEW k \in DOMAIN chain', k # Len(chain) + 1 PROVE k \in DOMAIN chain
        BY <4>1, <4>2
      <4>3. \A k \in DOMAIN chain : chain'[k] = chain[k]
        BY <4>1
      <4> QED
        BY <4>1, <4>2, <4>3, Zenon
    <3>4. /\ pending[tx] > 0 => TxVerify(tx)
          /\ \A k \in DOMAIN chain : chain[k].index # 0 /\ chain[k].txs[tx] > 0 => TxVerify(tx)
      BY DEF OnlyVerifiedTransactions
    <3>5. CASE pending'[tx] > 0
      BY <3>1, <3>4, <3>5
    <3>6. ASSUME NEW k \in DOMAIN chain', chain'[k].index # 0, chain'[k].txs[tx] > 0
          PROVE  TxVerify(tx)
      <4>1. CASE chain'[k] = b
        BY <3>2, <3>6, <4>1
      <4>2. CASE k \in DOMAIN chain /\ chain'[k] = chain[k]
        BY <3>4, <3>6, <4>2
      <4> QED
        BY <3>3, <4>1, <4>2
    <3> QED
      BY <3>5, <3>6
  <2>2. ASSUME NEW tx \in Tx, AddTransaction(tx) PROVE OnlyVerifiedTransactions'
    BY <2>2 DEF AddTransaction, OnlyVerifiedTransactions, TypeOK, TxBag
  <2>3. CASE UNCHANGED <<chain, pending>> /\ mutex' \in {mutex, "stuck"}
    BY <2>3 DEF OnlyVerifiedTransactions
  <2> QED
    BY <2>1, <2>2, <2>3, StepCases
<1> QED
  BY <1>1, <1>2, AnyTypeCorrect, PTL DEF OpenSpec

----------------------------------------------------------------------------

\* Position k starts a segment or continues the one before it.
Linked(ch, k) == ch[k].hash = CalculateHash(ch[k]) /\ ch[k].prev = ch[k - 1].hash
Joins(ch, k) == ch[k].index = 0 \/ Linked(ch, k)
Segments == \A k \in 2 .. Len(chain) : Joins(chain, k)

\* With one genesis block the chain is one segment.
HeightIsIndex == OneGenesis => \A k \in DOMAIN chain : chain[k].index = k - 1

\* AddBlock starts a segment or continues the last one.
LEMMA SegmentsHold == OpenSpec => []Segments
<1>1. Init => Segments
  BY DEF Init, Segments
<1>2. TypeOK /\ Segments /\ [AnyCall]_vars => Segments'
  <2> SUFFICES ASSUME TypeOK, Segments, [AnyCall]_vars PROVE Segments'
    OBVIOUS
  <2>1. ASSUME NEW b \in Block, AddBlock(b)
        PROVE  Segments'
    <3> DEFINE N == Len(chain)
    <3>1. /\ N \in Nat \ {0} /\ Len(chain') = N + 1
          /\ \A k \in 1 .. N : chain'[k] = chain[k]
          /\ chain'[N + 1] = b
          /\ b.index = 0 \/ Extends(chain[N], b)
      BY <2>1, AddBlockStep
    <3>3. b.index # 0 => b.hash = CalculateHash(b) /\ b.prev = chain[N].hash
      BY <3>1 DEF Extends
    <3>4. \A i \in 2 .. N : Joins(chain, i)
      BY DEF Segments
    <3> HIDE DEF N
    <3> SUFFICES ASSUME NEW i \in 2 .. N + 1 PROVE Joins(chain', i)
      BY <3>1 DEF Segments, Joins, Linked
    <3>5. CASE i = N + 1
      <4>1. chain'[i] = b /\ chain'[i - 1] = chain[N]
        BY <3>1, <3>5
      <4> QED
        BY <3>3, <4>1 DEF Joins, Linked
    <3>6. CASE i # N + 1
      <4>1. i \in 2 .. N /\ i \in 1 .. N /\ i - 1 \in 1 .. N
        BY <3>1, <3>6
      <4>2. chain'[i] = chain[i] /\ chain'[i - 1] = chain[i - 1]
        BY <3>1, <4>1
      <4> QED
        BY <3>4, <4>1, <4>2 DEF Joins, Linked
    <3> QED
      BY <3>5, <3>6
  <2>2. ASSUME NEW tx \in Tx, AddTransaction(tx) PROVE Segments'
    BY <2>2 DEF AddTransaction, Segments, Joins, Linked
  <2>3. CASE UNCHANGED <<chain, pending>> /\ mutex' \in {mutex, "stuck"}
    BY <2>3 DEF Segments, Joins, Linked
  <2> QED
    BY <2>1, <2>2, <2>3, StepCases
<1> QED
  BY <1>1, <1>2, AnyTypeCorrect, PTL DEF OpenSpec

LEMMA OneSegment == OpenSpec => []HeightIsIndex
<1>1. Init => HeightIsIndex
  <2> SUFFICES ASSUME Init PROVE HeightIsIndex
    OBVIOUS
  <2>1. DOMAIN chain = 1 .. 1 /\ chain[1].index = 0
    BY GenesisType, BlockchainAssumption DEF Init
  <2> QED
    BY <2>1 DEF HeightIsIndex
<1>2. TypeOK /\ HeightIsIndex /\ [AnyCall]_vars => HeightIsIndex'
  <2> SUFFICES ASSUME TypeOK, HeightIsIndex, [AnyCall]_vars PROVE HeightIsIndex'
    OBVIOUS
  <2>1. ASSUME NEW b \in Block, AddBlock(b), OneGenesis'
        PROVE  \A k \in DOMAIN chain' : chain'[k].index = k - 1
    <3>1. /\ Len(chain) \in Nat \ {0} /\ DOMAIN chain = 1 .. Len(chain)
          /\ DOMAIN chain' = 1 .. Len(chain) + 1 /\ Len(chain') = Len(chain) + 1
          /\ \A k \in 1 .. Len(chain) : chain'[k] = chain[k]
          /\ chain'[Len(chain) + 1] = b
          /\ b.index = 0 \/ Extends(chain[Len(chain)], b)
      BY <2>1, AddBlockStep
    <3>2. \A k \in 2 .. Len(chain) + 1 : chain'[k].index # 0
      BY <2>1, <3>1 DEF OneGenesis
    <3>3. OneGenesis
      BY <3>1, <3>2 DEF OneGenesis
    <3>4. b.index # 0
      <4>1. Len(chain) + 1 \in 2 .. Len(chain) + 1
        BY <3>1
      <4> QED
        BY <3>1, <3>2, <4>1
    <3>5. b.index = chain[Len(chain)].index + 1
      BY <3>1, <3>4 DEF Extends
    <3>6. \A k \in 1 .. Len(chain) : chain[k].index = k - 1
      BY <3>1, <3>3 DEF HeightIsIndex
    <3>7. b.index = Len(chain) + 1 - 1
      BY <3>1, <3>5, <3>6
    <3>8. \A k \in DOMAIN chain' : k \in 1 .. Len(chain) \/ k = Len(chain) + 1
      BY <3>1
    <3> QED
      BY <3>1, <3>6, <3>7, <3>8
  <2>2. ASSUME NEW tx \in Tx, AddTransaction(tx) PROVE HeightIsIndex'
    BY <2>2 DEF AddTransaction, HeightIsIndex, OneGenesis
  <2>3. CASE UNCHANGED <<chain, pending>> /\ mutex' \in {mutex, "stuck"}
    BY <2>3 DEF HeightIsIndex, OneGenesis
  <2>4. ASSUME NEW b \in Block, AddBlock(b) PROVE HeightIsIndex'
    BY <2>1, <2>4 DEF HeightIsIndex
  <2> QED
    BY <2>2, <2>3, <2>4, StepCases
<1> QED
  BY <1>1, <1>2, AnyTypeCorrect, PTL DEF OpenSpec

\* ValidateChain accepts the chain unless a later index-0 block has a wrong hash
\* or names another predecessor.
LEMMA AnyChainValidity == OpenSpec => []OnlyIndexZeroInvalidates
<1>1. Segments => OnlyIndexZeroInvalidates
  BY DEF Segments, Joins, Linked, ValidateChain, OnlyIndexZeroInvalidates
<1> QED
  BY <1>1, SegmentsHold, PTL

\* A lookup that only one block answers finds it.
LEMMA FirstOfOne == ASSUME NEW ch, NEW k \in Nat PROVE FirstAt(ch, {k}) = k
BY DEF FirstAt

\* On a chain of one segment no two blocks share a hash or an index: a lookup
\* by either finds the block it was asked for.
LEMMA AnyBlockIsFound == OpenSpec => []LookupsFindEveryBlock
<1>1. TypeOK /\ HashPinsHistory /\ HeightIsIndex => LookupsFindEveryBlock
  <2> SUFFICES ASSUME TypeOK, HashPinsHistory, HeightIsIndex, OneGenesis, NEW k \in DOMAIN chain
               PROVE  /\ GetBlockByHash(chain, chain[k].hash) = k
                      /\ GetBlockByIndex(chain, chain[k].index) = k
    BY DEF LookupsFindEveryBlock
  <2>1. DOMAIN chain \subseteq Nat
    BY LenProperties DEF TypeOK
  <2>2. \A i \in DOMAIN chain : chain[i].index = i - 1
    BY DEF HeightIsIndex
  <2>5. \A i \in DOMAIN chain : Len(chain[i].hash) = Len(chain[1].hash) + i - 1
    <3> SUFFICES ASSUME NEW i \in DOMAIN chain
                 PROVE  Len(chain[i].hash) = Len(chain[1].hash) + i - 1
      OBVIOUS
    <3>1. chain \in Seq(Block) /\ DOMAIN chain = 1 .. Len(chain) /\ i \in Nat /\ 1 \in DOMAIN chain
      BY LenProperties DEF TypeOK
    <3>2. i - chain[i].index = 1 /\ chain[i].index = i - 1 /\ i - 1 \in Nat /\ 1 + (i - 1) <= Len(chain)
      BY <2>2, <3>1
    <3>3. chain[i].hash = chain[1].hash \o Contents(chain, 1, i - 1)
      BY <3>2, PinsEverywhere DEF Pins
    <3>4. chain[1].hash \in Seq(Content)
      BY <3>1, HashType
    <3>5. Contents(chain, 1, i - 1) \in Seq(Content) /\ Len(Contents(chain, 1, i - 1)) = i - 1
      BY <3>1, <3>2, ContentsProperties
    <3> DEFINE h == chain[1].hash
               f == Contents(chain, 1, i - 1)
    <3>6. h \in Seq(Content) /\ f \in Seq(Content) /\ Len(f) = i - 1 /\ chain[i].hash = h \o f
      BY <3>3, <3>4, <3>5
    <3> HIDE DEF h, f
    <3>7. Len(chain[i].hash) = Len(h) + Len(f) /\ Len(h) \in Nat
      BY <3>6, ConcatProperties, LenProperties
    <3>8. Len(chain[i].hash) = Len(h) + i - 1
      BY <3>1, <3>6, <3>7
    <3> QED
      BY <3>8 DEF h
  <2>6. Len(chain[1].hash) \in Nat
    <3>1. chain \in Seq(Block) /\ 1 \in 1 .. Len(chain)
      BY EmptySeq DEF TypeOK
    <3>2. chain[1].hash \in Seq(Content)
      BY <3>1, HashType
    <3> QED
      BY <3>2, LenProperties
  <2>3. {i \in DOMAIN chain : chain[i].hash = chain[k].hash} = {k}
    <3>1. ASSUME NEW i \in DOMAIN chain, chain[i].hash = chain[k].hash PROVE i = k
      <4>1. Len(chain[1].hash) + i - 1 = Len(chain[1].hash) + k - 1
        BY <2>5, <3>1
      <4> QED
        BY <2>1, <2>6, <4>1
    <3> QED
      BY <3>1
  <2>4. {i \in DOMAIN chain : chain[i].index = chain[k].index} = {k}
    BY <2>1, <2>2
  <2> QED
    BY <2>1, <2>3, <2>4, FirstOfOne DEF GetBlockByHash, GetBlockByIndex
<1> QED
  BY <1>1, OneSegment, AnyTypeCorrect, AnyHistoryIsPinned, PTL

----------------------------------------------------------------------------

\* Dropping processed transactions drops the IDs of the block, no other.
LEMMA ClearProcessedIds ==
    ASSUME NEW pool \in TxBag, NEW txs \in TxBag
    PROVE  TxIds(ClearProcessed(pool, txs)) = TxIds(pool) \ TxIds(txs)
<1> DEFINE left == ClearProcessed(pool, txs)
<1>1. \A tx \in Tx : left[tx] > 0 <=> pool[tx] > 0 /\ tx.id \notin TxIds(txs)
  BY DEF ClearProcessed
<1> HIDE DEF left
<1>2. TxIds(left) = {tx.id : tx \in {t \in Tx : pool[t] > 0 /\ t.id \notin TxIds(txs)}}
  BY <1>1 DEF TxIds
<1>3. TxIds(pool) = {tx.id : tx \in {t \in Tx : pool[t] > 0}}
  BY DEF TxIds
<1>4. TxIds(left) = TxIds(pool) \ TxIds(txs)
  BY <1>2, <1>3
<1> QED
  BY <1>4 DEF left

\* The chain is an append-only ledger and the pool gives a transaction up only
\* to a block that records its ID, whatever blocks and IDs are made up.
LEMMA AnyRefinement == OpenSpec => ImplementsLedger
<1>1. Init => L!Init
  <2> SUFFICES ASSUME Init PROVE L!Init
    OBVIOUS
  <2>1. TxIds(NoTx) = {}
    BY DEF TxIds, NoTx
  <2>2. DOMAIN chain = 1 .. 1 /\ chain[1].txs = NoTx /\ pending = NoTx
    BY GenesisType, BlockchainAssumption DEF Init
  <2>3. LedgerLog = <<{}>>
    BY <2>1, <2>2 DEF LedgerLog
  <2> QED
    BY <2>1, <2>2, <2>3 DEF L!Init
<1>2. TypeOK /\ [AnyCall]_vars => [L!Next]_(L!vars)
  <2> SUFFICES ASSUME TypeOK, [AnyCall]_vars PROVE [L!Next]_(L!vars)
    OBVIOUS
  <2>1. ASSUME NEW b \in Block, AddBlock(b) PROVE L!Next
    <3>1. TxIds(b.txs) \in SUBSET TxId
      BY DEF TxIds, Tx
    <3>2. TxIds(pending)' = TxIds(pending) \ TxIds(b.txs)
      <4>1. pending \in TxBag /\ b.txs \in TxBag /\ pending' = ClearProcessed(pending, b.txs)
        BY <2>1 DEF TypeOK, Block, AddBlock
      <4> QED
        BY <4>1, ClearProcessedIds
    <3>3. LedgerLog' = Append(LedgerLog, TxIds(b.txs))
      <4> DEFINE N == Len(chain)
      <4>1. /\ N \in Nat /\ DOMAIN chain = 1 .. N /\ DOMAIN chain' = 1 .. N + 1
            /\ \A k \in 1 .. N : chain'[k] = chain[k]
            /\ chain'[N + 1] = b
        BY <2>1, AddBlockStep
      <4> HIDE DEF N
      <4> DEFINE S == SUBSET TxId
                 T(k) == TxIds(chain[k].txs)
      <4>2. \A k \in 1 .. N : T(k) \in S
        BY DEF TxIds, Tx
      <4>3. LedgerLog = [k \in 1 .. N |-> T(k)]
        BY <4>1 DEF LedgerLog
      <4>4. LedgerLog \in Seq(S)
        BY <4>1, <4>2, <4>3, SeqDef
      <4>5. Len(LedgerLog) = N
        BY <4>1, <4>3, <4>4, LenProperties
      <4>6. LedgerLog' = [k \in 1 .. N + 1 |-> TxIds(chain'[k].txs)]
        BY <4>1 DEF LedgerLog
      <4>7. \A k \in 1 .. N + 1 : TxIds(chain'[k].txs) \in S
        BY DEF TxIds, Tx
      <4>8. LedgerLog' \in Seq(S) /\ Len(LedgerLog') = N + 1
        <5>1. LedgerLog' \in [1 .. N + 1 -> S] /\ N + 1 \in Nat
          BY <4>1, <4>6, <4>7
        <5>2. LedgerLog' \in Seq(S)
          BY <5>1, SeqDef
        <5> QED
          BY <5>1, <5>2, LenProperties
      <4>9. /\ Append(LedgerLog, TxIds(b.txs)) \in Seq(S)
            /\ Len(Append(LedgerLog, TxIds(b.txs))) = N + 1
            /\ \A k \in 1 .. N : Append(LedgerLog, TxIds(b.txs))[k] = LedgerLog[k]
            /\ Append(LedgerLog, TxIds(b.txs))[N + 1] = TxIds(b.txs)
        BY <3>1, <4>4, <4>5, AppendProperties
      <4>10. \A k \in 1 .. N + 1 : LedgerLog'[k] = Append(LedgerLog, TxIds(b.txs))[k]
        BY <4>1, <4>3, <4>6, <4>9
      <4> QED
        BY <4>8, <4>9, <4>10, SeqEqual
    <3> QED
      BY <3>1, <3>2, <3>3 DEF L!Next, L!Record
  <2>2. ASSUME NEW tx \in Tx, AddTransaction(tx) PROVE L!Next
    <3>1. tx.id \in TxId
      BY DEF Tx
    <3>2. TxIds(pending)' = TxIds(pending) \cup {tx.id}
      BY <2>2 DEF AddTransaction, TypeOK, TxBag, TxIds
    <3>3. LedgerLog' = LedgerLog
      BY <2>2 DEF AddTransaction, LedgerLog
    <3> QED
      BY <3>1, <3>2, <3>3 DEF L!Next, L!Accept
  <2>3. CASE UNCHANGED <<chain, pending>> /\ mutex' \in {mutex, "stuck"}
    BY <2>3 DEF L!vars, LedgerLog
  <2> QED
    BY <2>1, <2>2, <2>3, StepCases
<1> QED
  BY <1>1, <1>2, AnyTypeCorrect, PTL DEF OpenSpec, ImplementsLedger, L!Spec

----------------------------------------------------------------------------
(* The same of the callers of module Blockchain *)

\* The chain stays a non-empty sequence of blocks and the pool a count of
\* transactions.
THEOREM TypeCorrect == Spec => []TypeOK
BY CallersAreAny, AnyTypeCorrect

\* Whatever blocks arrive in whatever order, index-0 blocks with any hash, list
\* and predecessor included, the hash of a block on the chain pins the blocks of
\* its segment after the first.
THEOREM HistoryIsPinned == Spec => []HashPinsHistory
BY CallersAreAny, AnyHistoryIsPinned

\* No transaction that Verify refuses is ever in the pool, or on the chain above
\* index 0.
THEOREM Verified == Spec => []OnlyVerifiedTransactions
BY CallersAreAny, AnyVerified

\* ValidateChain refuses the chain exactly for a later index-0 block that has a
\* wrong hash or names another predecessor.
THEOREM ChainValidity == Spec => []OnlyIndexZeroInvalidates
BY CallersAreAny, AnyChainValidity

\* On a chain of one segment every block is found by its hash and its index.
THEOREM EveryBlockIsFound == Spec => []LookupsFindEveryBlock
BY CallersAreAny, AnyBlockIsFound

\* The chain is an append-only ledger and the pool gives a transaction up only
\* to a block that records its ID.
THEOREM Refinement == Spec => ImplementsLedger
BY CallersAreAny, AnyRefinement
=============================================================================
