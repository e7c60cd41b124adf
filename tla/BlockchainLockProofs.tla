------------------------ MODULE BlockchainLockProofs ------------------------
(***************************************************************************)
(* Proofs about BlockchainLock, for every finite set of goroutines, every  *)
(* set of methods they call and all bounds: the read-write lock keeps the  *)
(* writers apart and away from the readers, and therefore every method of  *)
(* Blockchain takes effect in one step.                                    *)
(***************************************************************************)
EXTENDS BlockchainLock, SequenceTheorems, FiniteSetTheorems, TLAPS

Places == {"idle", "lock", "drain", "AddBlock", "AddTransaction", "CreateBlock",
           "append", "clear", "unlock", "rlock", "blocked", "reading"}

\* Past Lock, and past the last reader too.
Inside == {"AddBlock", "AddTransaction", "CreateBlock", "append", "clear", "unlock"}
Holding == Inside \cup {"drain"}

\* The calls, and the calls that write.
AddCall == [method : {"AddBlock"}, block : BlockArgs]
TxCall == [method : {"AddTransaction"}, tx : TxArgs]
Creating == [method |-> "CreateBlock"]
Reading == [method |-> "GetLatestBlock"]
Writing == AddCall \cup TxCall \cup {Creating}
AnyCall == Writing \cup {Reading, NoCall}

Types ==
    /\ chain \in Seq(Block) /\ chain # <<>>
    /\ pending \in TxBag
    /\ writer \in Thread \cup {NoThread}
    /\ readers \subseteq Thread
    /\ call \in [Thread -> AnyCall]
    /\ pc \in [Thread -> Places]
    /\ seen \in [Thread -> Seq(Block)]

\* What a goroutine does belongs to its call.
PlaceFitsCall ==
    \A t \in Thread :
        /\ pc[t] \in {"lock", "drain"} => call[t] \in Writing
        /\ pc[t] \in {"AddBlock", "append", "clear"} => call[t] \in AddCall
        /\ pc[t] = "AddTransaction" => call[t] \in TxCall
        /\ pc[t] = "CreateBlock" => call[t] = Creating

\* One goroutine past Lock, no reader beside it; a CreateBlock that waits for
\* its own lock still is the writer.
Exclusive ==
    \A t \in Thread :
        /\ pc[t] \in Holding => writer = t
        /\ pc[t] \in Inside => readers = {}
        /\ call[t] = Creating /\ pc[t] \in {"rlock", "blocked"} => writer = t

\* A block that was validated is still valid when it is appended.
StillValid == \A t \in Thread : pc[t] = "append" => ValidateBlock(chain, call[t].block)

\* The bound on the chain counts the calls that have not appended yet ...
Appending == {t \in AddingBlocks : pc[t] \notin {"clear", "unlock"}}
Room == Len(chain) + Cardinality(Appending) <= MaxHeight \/ Appending = {}

\* ... and so does the bound on copies.
Waiting(tx) == {t \in Adding(tx) : pc[t] # "unlock"}
Bounded == \A tx \in Tx : pending[tx] + Cardinality(Waiting(tx)) <= MaxCopies

Mutual == Types /\ PlaceFitsCall /\ Exclusive /\ ReadersSeeOneChain
Inv == Mutual /\ StillValid /\ Room /\ Bounded

----------------------------------------------------------------------------
(* Data *)

LEMMA NewBlockType ==
    ASSUME NEW i \in Nat, NEW t \in TxBag, NEW p \in Hash, NEW c \in Node
    PROVE  NewBlock(i, t, p, c) \in Block
<1>1. [index |-> i, txs |-> t, creator |-> c] \in Content
  BY DEF Content
<1>2. Append(p, [index |-> i, txs |-> t, creator |-> c]) \in Hash
  BY <1>1, AppendProperties DEF Hash
<1> QED
  BY <1>1, <1>2 DEF NewBlock, Block, Sig

LEMMA GenesisType ==
    NewGenesisBlock(Self) \in Block /\ NewGenesisBlock(Self).index = 0
<1>1. NoTx \in TxBag
  BY DEF NoTx, TxBag
<1>2. <<>> \in Hash
  BY EmptySeq DEF Hash
<1>3. NewGenesisBlock(Self) \in Block
  BY <1>1, <1>2, NewBlockType, BlockchainLockAssumption DEF NewGenesisBlock
<1> QED
  BY <1>3 DEF NewGenesisBlock, NewBlock

LEMMA ClearProcessedType ==
    ASSUME NEW pool \in TxBag, NEW txs
    PROVE  /\ ClearProcessed(pool, txs) \in TxBag
           /\ \A tx \in Tx : ClearProcessed(pool, txs)[tx] <= pool[tx]
BY DEF ClearProcessed, TxBag

\* The kinds of call are told apart by the method.
LEMMA CallKinds ==
    /\ \A c \in AddCall : c.method = "AddBlock" /\ c.block \in BlockArgs /\ c.block \in Block
    /\ \A c \in TxCall : c.method = "AddTransaction" /\ c.tx \in TxArgs /\ c.tx \in Tx /\ c # Creating
    /\ Creating.method = "CreateBlock" /\ Reading.method = "GetLatestBlock"
    /\ NoCall.method = "none"
    /\ \A c \in AddCall : c # Creating
    /\ NoCall # Creating /\ Reading # Creating
BY BlockchainLockAssumption DEF AddCall, TxCall, Creating, Reading, NoCall

LEMMA CallOfMethod ==
    ASSUME NEW c \in AnyCall
    PROVE  /\ c.method = "CreateBlock" => c = Creating
           /\ c.method = "AddTransaction" => c \in TxCall
           /\ c.method = "AddBlock" => c \in AddCall
BY CallKinds DEF AnyCall, Writing

----------------------------------------------------------------------------
(* Mutual exclusion *)

\* A call that starts writes, within the bounds, or is GetLatestBlock.
LEMMA BeginCases ==
    ASSUME NEW t \in Thread, BeginAny(t)
    PROVE  \/ \E c \in Writing :
                /\ Begin(t, c, "lock")
                /\ c.method = "AddBlock" => Len(chain) + Cardinality(AddingBlocks) < MaxHeight
                /\ \A a \in Tx : c = [method |-> "AddTransaction", tx |-> a]
                                    => pending[a] + Cardinality(Adding(a)) < MaxCopies
           \/ Begin(t, Reading, "rlock")
<1>1. ASSUME NEW b \in BlockArgs, Len(chain) + Cardinality(AddingBlocks) < MaxHeight,
             Begin(t, [method |-> "AddBlock", block |-> b], "lock")
      PROVE  \E c \in Writing :
                /\ Begin(t, c, "lock")
                /\ c.method = "AddBlock" => Len(chain) + Cardinality(AddingBlocks) < MaxHeight
                /\ \A a \in Tx : c = [method |-> "AddTransaction", tx |-> a]
                                    => pending[a] + Cardinality(Adding(a)) < MaxCopies
  <2> DEFINE c == [method |-> "AddBlock", block |-> b]
  <2>1. c \in AddCall
    BY DEF AddCall
  <2>2. c \in Writing /\ \A a \in Tx : c # [method |-> "AddTransaction", tx |-> a]
    <3>1. c.method = "AddBlock" /\ \A a \in Tx : [method |-> "AddTransaction", tx |-> a].method = "AddTransaction"
      OBVIOUS
    <3> HIDE DEF c
    <3> QED
      BY <2>1, <3>1 DEF Writing
  <2>3. Begin(t, c, "lock")
    BY <1>1
  <2> HIDE DEF c
  <2> QED
    BY <1>1, <2>2, <2>3
<1>2. ASSUME NEW tx \in TxArgs, pending[tx] + Cardinality(Adding(tx)) < MaxCopies,
             Begin(t, [method |-> "AddTransaction", tx |-> tx], "lock")
      PROVE  \E c \in Writing :
                /\ Begin(t, c, "lock")
                /\ c.method = "AddBlock" => Len(chain) + Cardinality(AddingBlocks) < MaxHeight
                /\ \A a \in Tx : c = [method |-> "AddTransaction", tx |-> a]
                                    => pending[a] + Cardinality(Adding(a)) < MaxCopies
  <2> DEFINE c == [method |-> "AddTransaction", tx |-> tx]
  <2>1. c \in TxCall /\ \A a \in Tx : c = [method |-> "AddTransaction", tx |-> a] => a = tx
    BY BlockchainLockAssumption DEF TxCall
  <2>2. c \in Writing /\ c.method # "AddBlock"
    BY <2>1, CallKinds DEF Writing
  <2>3. Begin(t, c, "lock")
    BY <1>2
  <2> HIDE DEF c
  <2> QED
    BY <1>2, <2>1, <2>2, <2>3
<1>3. CASE Begin(t, [method |-> "CreateBlock"], "lock")
  <2>1. Begin(t, Creating, "lock") /\ Creating \in Writing /\ Creating.method # "AddBlock"
    BY <1>3, CallKinds DEF Writing, Creating
  <2>2. \A a \in Tx : Creating # [method |-> "AddTransaction", tx |-> a]
    BY CallKinds DEF TxCall
  <2> QED
    BY <2>1, <2>2
<1>4. CASE Begin(t, [method |-> "GetLatestBlock"], "rlock")
  BY <1>4 DEF Reading
<1> QED
  BY <1>1, <1>2, <1>3, <1>4 DEF BeginAny

LEMMA MutualBegin ==
    ASSUME Mutual, NEW t \in Thread, BeginAny(t)
    PROVE  Mutual'
<1>1. Types /\ PlaceFitsCall /\ Exclusive /\ ReadersSeeOneChain
  BY DEF Mutual
<1>2. PICK c \in AnyCall, x \in {"lock", "rlock"} :
         Begin(t, c, x) /\ (x = "lock" => c \in Writing) /\ (x = "rlock" => c # Creating)
  BY BeginCases, CallKinds DEF AnyCall
<1>3. /\ pc[t] = "idle"
      /\ call' = [call EXCEPT ![t] = c] /\ pc' = [pc EXCEPT ![t] = x]
      /\ UNCHANGED <<chain, pending, writer, readers, seen>>
  BY <1>2 DEF Begin
<1>4. \A u \in Thread : /\ pc'[u] = IF u = t THEN x ELSE pc[u]
                        /\ call'[u] = IF u = t THEN c ELSE call[u]
  BY <1>1, <1>3 DEF Types
<1>5. Types'
  BY <1>1, <1>2, <1>3 DEF Types, Places
<1>6. PlaceFitsCall'
  BY <1>1, <1>2, <1>4 DEF PlaceFitsCall
<1>7. Exclusive'
  BY <1>1, <1>2, <1>3, <1>4 DEF Exclusive, Holding, Inside
<1>8. ReadersSeeOneChain'
  BY <1>1, <1>3 DEF ReadersSeeOneChain
<1> QED
  BY <1>5, <1>6, <1>7, <1>8 DEF Mutual

LEMMA MutualLock ==
    ASSUME Mutual, NEW t \in Thread, Lock(t) \/ Drain(t) \/ RUnlock(t)
    PROVE  Mutual'
<1>1. Types /\ PlaceFitsCall /\ Exclusive /\ ReadersSeeOneChain
  BY DEF Mutual
<1>0. NoThread \notin Thread
  BY BlockchainLockAssumption
<1>2. CASE Lock(t)
  <2>1. \A u \in Thread : pc'[u] = IF u = t THEN "drain" ELSE pc[u]
    BY <1>1, <1>2 DEF Types, Lock
  <2>2. Types'
    BY <1>1, <1>2 DEF Types, Lock, Places
  <2>3. PlaceFitsCall'
    BY <1>1, <1>2, <2>1 DEF PlaceFitsCall, Lock
  <2>4. Exclusive'
    BY <1>0, <1>1, <1>2, <2>1 DEF Exclusive, Lock, Holding, Inside
  <2>5. ReadersSeeOneChain'
    BY <1>1, <1>2 DEF ReadersSeeOneChain, Lock
  <2> QED
    BY <2>2, <2>3, <2>4, <2>5 DEF Mutual
<1>3. CASE Drain(t)
  <2>1. \A u \in Thread : pc'[u] = IF u = t THEN call[t].method ELSE pc[u]
    BY <1>1, <1>3 DEF Types, Drain
  <2>2. call[t] \in Writing
    BY <1>1, <1>3 DEF PlaceFitsCall, Drain
  <2>3. /\ call[t].method \in {"AddBlock", "AddTransaction", "CreateBlock"}
        /\ call[t].method = "AddBlock" => call[t] \in AddCall
        /\ call[t].method = "AddTransaction" => call[t] \in TxCall
        /\ call[t].method = "CreateBlock" => call[t] = Creating
    BY <2>2, CallKinds DEF Writing
  <2>4. Types'
    BY <1>1, <1>3, <2>3 DEF Types, Drain, Places
  <2>5. PlaceFitsCall'
    BY <1>1, <1>3, <2>1, <2>3 DEF PlaceFitsCall, Drain
  <2>6. Exclusive'
    BY <1>1, <1>3, <2>1, <2>3 DEF Exclusive, Drain, Holding, Inside
  <2>7. ReadersSeeOneChain'
    BY <1>1, <1>3 DEF ReadersSeeOneChain, Drain
  <2> QED
    BY <2>4, <2>5, <2>6, <2>7 DEF Mutual
<1>4. CASE RUnlock(t)
  <2>1. \A u \in Thread : /\ pc'[u] = IF u = t THEN "idle" ELSE pc[u]
                          /\ call'[u] = IF u = t THEN NoCall ELSE call[u]
                          /\ seen'[u] = IF u = t THEN <<>> ELSE seen[u]
    BY <1>1, <1>4 DEF Types, RUnlock
  <2>2. <<>> \in Seq(Block)
    BY EmptySeq
  <2>3. Types'
    BY <1>1, <1>4, <2>2 DEF Types, RUnlock, Places, AnyCall
  <2>4. PlaceFitsCall'
    BY <1>1, <1>4, <2>1 DEF PlaceFitsCall, RUnlock
  <2>5. Exclusive'
    BY <1>1, <1>4, <2>1 DEF Exclusive, RUnlock, Holding, Inside
  <2>6. ReadersSeeOneChain'
    BY <1>1, <1>4, <2>1 DEF ReadersSeeOneChain, RUnlock, Types
  <2> QED
    BY <2>3, <2>4, <2>5, <2>6 DEF Mutual
<1> QED
  BY <1>2, <1>3, <1>4

\* Unlock lets every reader in that was kept out.
LEMMA MutualUnlock ==
    ASSUME Mutual, NEW t \in Thread, Unlock(t)
    PROVE  Mutual'
<1>1. Types /\ PlaceFitsCall /\ Exclusive /\ ReadersSeeOneChain
  BY DEF Mutual
<1>2. writer = t /\ readers = {}
  BY <1>1 DEF Exclusive, Unlock, Holding, Inside
<1>3. \A u \in Thread : /\ pc'[u] = IF u = t THEN "idle"
                                    ELSE IF pc[u] = "blocked" THEN "reading" ELSE pc[u]
                        /\ call'[u] = IF u = t THEN NoCall ELSE call[u]
                        /\ seen'[u] = IF pc[u] = "blocked" THEN chain ELSE seen[u]
  BY <1>1 DEF Types, Unlock, Blocked
<1>4. Types'
  <2>1. /\ pc' = [u \in Thread |-> pc'[u]] /\ seen' = [u \in Thread |-> seen'[u]]
        /\ call' = [call EXCEPT ![t] = NoCall]
    BY DEF Unlock
  <2>2. \A u \in Thread : pc'[u] \in Places /\ seen'[u] \in Seq(Block)
    BY <1>1, <1>3 DEF Types, Places
  <2>3. pc' \in [Thread -> Places] /\ seen' \in [Thread -> Seq(Block)]
    BY <2>1, <2>2
  <2>4. call' \in [Thread -> AnyCall]
    BY <1>1, <2>1 DEF Types, AnyCall
  <2>5. readers' \subseteq Thread /\ writer' = NoThread
    BY <1>1 DEF Types, Unlock, Blocked
  <2>6. chain' = chain /\ pending' = pending
    BY DEF Unlock
  <2> QED
    BY <1>1, <2>3, <2>4, <2>5, <2>6 DEF Types
<1>5. PlaceFitsCall'
  BY <1>1, <1>3 DEF PlaceFitsCall
<1>6. Exclusive'
  <2>1. \A u \in Thread : u # t => pc[u] \notin Holding
                                   /\ ~(call[u] = Creating /\ pc[u] \in {"rlock", "blocked"})
    BY <1>1, <1>2 DEF Exclusive
  <2> QED
    BY <1>3, <2>1, CallKinds DEF Exclusive, Holding, Inside
<1>7. ReadersSeeOneChain'
  <2>1. readers' = {u \in Thread : pc[u] = "blocked"} /\ chain' = chain
    BY <1>2 DEF Unlock, Blocked
  <2> QED
    BY <1>3, <2>1 DEF ReadersSeeOneChain
<1> QED
  BY <1>4, <1>5, <1>6, <1>7 DEF Mutual

LEMMA MutualRLock ==
    ASSUME Mutual, NEW t \in Thread, RLock(t)
    PROVE  Mutual'
<1>0. NoThread \notin Thread
  BY BlockchainLockAssumption
<1>1. Types /\ PlaceFitsCall /\ Exclusive /\ ReadersSeeOneChain
  BY DEF Mutual
<1>2. CASE writer = NoThread
  <2>1. /\ pc[t] = "rlock" /\ readers' = readers \cup {t}
        /\ seen' = [seen EXCEPT ![t] = chain] /\ pc' = [pc EXCEPT ![t] = "reading"]
        /\ UNCHANGED <<chain, pending, writer, call>>
    BY <1>2 DEF RLock
  <2>2. \A u \in Thread : /\ pc'[u] = IF u = t THEN "reading" ELSE pc[u]
                          /\ seen'[u] = IF u = t THEN chain ELSE seen[u]
    BY <1>1, <2>1 DEF Types
  <2>3. \A u \in Thread : pc[u] \notin Holding
    BY <1>0, <1>1, <1>2 DEF Exclusive
  <2>4. Types'
    BY <1>1, <2>1 DEF Types, Places
  <2>5. PlaceFitsCall'
    BY <1>1, <2>1, <2>2 DEF PlaceFitsCall
  <2>6. Exclusive'
    BY <1>1, <2>1, <2>2, <2>3 DEF Exclusive, Holding, Inside
  <2>7. ReadersSeeOneChain'
    BY <1>1, <2>1, <2>2 DEF ReadersSeeOneChain, Types
  <2> QED
    BY <2>4, <2>5, <2>6, <2>7 DEF Mutual
<1>3. CASE writer # NoThread
  <2>1. /\ pc[t] = "rlock" /\ pc' = [pc EXCEPT ![t] = "blocked"]
        /\ UNCHANGED <<chain, pending, writer, call, readers, seen>>
    BY <1>3 DEF RLock
  <2>2. \A u \in Thread : pc'[u] = IF u = t THEN "blocked" ELSE pc[u]
    BY <1>1, <2>1 DEF Types
  <2>3. Types'
    BY <1>1, <2>1 DEF Types, Places
  <2>4. PlaceFitsCall'
    BY <1>1, <2>1, <2>2 DEF PlaceFitsCall
  <2>5. Exclusive'
    BY <1>1, <2>1, <2>2 DEF Exclusive, Holding, Inside
  <2>6. ReadersSeeOneChain'
    BY <1>1, <2>1 DEF ReadersSeeOneChain
  <2> QED
    BY <2>3, <2>4, <2>5, <2>6 DEF Mutual
<1> QED
  BY <1>2, <1>3

\* Between Lock and Unlock the chain may change, because nobody reads it.
LEMMA MutualBody ==
    ASSUME Mutual, NEW t \in Thread,
           \/ Validate(t) \/ AppendBlock(t) \/ ClearProcessedTransactions(t)
           \/ AppendTransaction(t) \/ CallGetLatestBlock(t)
    PROVE  Mutual'
<1>1. Types /\ PlaceFitsCall /\ Exclusive /\ ReadersSeeOneChain
  BY DEF Mutual
<1>2. /\ pc[t] \in Inside /\ UNCHANGED <<writer, readers, call, seen>>
  BY DEF Validate, AppendBlock, ClearProcessedTransactions, AppendTransaction,
         CallGetLatestBlock, Inside
<1>3. readers = {} /\ writer = t
  BY <1>1, <1>2 DEF Exclusive, Holding
<1>4. PICK x \in (Inside \ {"CreateBlock"}) \cup {"rlock"} :
         /\ pc' = [pc EXCEPT ![t] = x]
         /\ x \in {"AddBlock", "append", "clear"} => call[t] \in AddCall
         /\ x \in {"unlock", "rlock", "append", "clear"}
  <2>1. CASE Validate(t)
    BY <1>1, <2>1 DEF Validate, Inside, PlaceFitsCall
  <2>2. CASE AppendBlock(t)
    BY <1>1, <2>2 DEF AppendBlock, Inside, PlaceFitsCall
  <2>3. CASE ClearProcessedTransactions(t) \/ AppendTransaction(t) \/ CallGetLatestBlock(t)
    BY <2>3 DEF ClearProcessedTransactions, AppendTransaction, CallGetLatestBlock, Inside
  <2> QED
    BY <2>1, <2>2, <2>3
<1>5. \A u \in Thread : pc'[u] = IF u = t THEN x ELSE pc[u]
  BY <1>1, <1>4 DEF Types
<1>6. chain' \in Seq(Block) /\ chain' # <<>>
  <2>1. CASE AppendBlock(t)
    <3>1. call[t].block \in Block
      BY <1>1, <2>1, CallKinds DEF AppendBlock, PlaceFitsCall
    <3> QED
      BY <1>1, <2>1, <3>1, AppendProperties DEF AppendBlock, Types
  <2>2. CASE chain' = chain
    BY <1>1, <2>2 DEF Types
  <2> QED
    BY <2>1, <2>2 DEF Validate, ClearProcessedTransactions, AppendTransaction, CallGetLatestBlock
<1>7. pending' \in TxBag
  <2>1. CASE ClearProcessedTransactions(t)
    BY <1>1, <2>1, ClearProcessedType DEF ClearProcessedTransactions, Types
  <2>2. CASE AppendTransaction(t)
    <3>1. call[t].tx \in Tx
      BY <1>1, <2>2, CallKinds DEF AppendTransaction, PlaceFitsCall
    <3> QED
      BY <1>1, <2>2, <3>1 DEF AppendTransaction, Types, TxBag
  <2>3. CASE pending' = pending
    BY <1>1, <2>3 DEF Types
  <2> QED
    BY <2>1, <2>2, <2>3 DEF Validate, AppendBlock, CallGetLatestBlock
<1>8. Types'
  <2>1. pc' \in [Thread -> Places]
    BY <1>1, <1>4 DEF Types, Places
  <2> QED
    BY <1>1, <1>2, <1>6, <1>7, <2>1 DEF Types
<1>9. PlaceFitsCall'
  BY <1>1, <1>2, <1>4, <1>5 DEF PlaceFitsCall
<1>10. Exclusive'
  BY <1>1, <1>2, <1>3, <1>4, <1>5 DEF Exclusive, Holding, Inside
<1>11. ReadersSeeOneChain'
  BY <1>2, <1>3 DEF ReadersSeeOneChain
<1> QED
  BY <1>8, <1>9, <1>10, <1>11 DEF Mutual

LEMMA MutualStep ==
    ASSUME Mutual, [Next]_vars
    PROVE  Mutual'
<1>1. CASE Next
  <2>1. PICK t \in Thread : BeginAny(t) \/ Run(t)
    BY <1>1 DEF Next
  <2> QED
    BY <2>1, MutualBegin, MutualLock, MutualUnlock, MutualRLock, MutualBody DEF Run
<1>2. CASE UNCHANGED vars
  BY <1>2 DEF vars, Mutual, Types, PlaceFitsCall, Exclusive, ReadersSeeOneChain
<1> QED
  BY <1>1, <1>2

LEMMA MutualInit ==
    ASSUME Init
    PROVE  Mutual
<1>1. chain \in Seq(Block) /\ chain # <<>> /\ <<>> \in Seq(Block)
  BY GenesisType, EmptySeq DEF Init
<1>2. pending \in TxBag
  BY DEF Init, NoTx, TxBag
<1>3. Types
  BY <1>1, <1>2 DEF Init, Types, Places, AnyCall
<1>4. PlaceFitsCall /\ Exclusive /\ ReadersSeeOneChain
  BY DEF Init, PlaceFitsCall, Exclusive, Holding, Inside, ReadersSeeOneChain
<1> QED
  BY <1>3, <1>4 DEF Mutual

THEOREM MutualExclusion == Spec => []Mutual
<1> QED
  BY MutualInit, MutualStep, PTL DEF Spec

\* The chain, the pool, the lock and every place keep their types.
THEOREM TypeCorrect == Spec => []TypeOK
<1>1. Mutual => TypeOK
  BY DEF Mutual, Types, TypeOK, Places
<1> QED
  BY <1>1, MutualExclusion, PTL

\* What a reader looks at does not change under it, however many goroutines
\* read and write.
THEOREM ReadersAreSafe == Spec => []ReadersSeeOneChain
<1>1. Mutual => ReadersSeeOneChain
  BY DEF Mutual
<1> QED
  BY <1>1, MutualExclusion, PTL

----------------------------------------------------------------------------
(* Who waits, and for whom *)

\* Who stands in Stuck is a CreateBlock that is the writer.
LEMMA StuckWriter ==
    ASSUME Mutual, NEW t \in Thread,
           call[t].method = "CreateBlock", pc[t] \in {"CreateBlock", "rlock", "blocked"}
    PROVE  call[t] = Creating /\ writer = t
<1>1. call[t] = Creating
  BY CallOfMethod DEF Mutual, Types
<1> QED
  BY <1>1 DEF Mutual, Exclusive, Holding, Inside

\* It gets as far as its own read lock, and nobody else passes Lock.
LEMMA StuckStep ==
    ASSUME Mutual, [Next]_vars, Stuck
    PROVE  Stuck' /\ UNCHANGED <<chain, pending>>
<1>0. NoThread \notin Thread
  BY BlockchainLockAssumption
<1>1. PICK t \in Thread : call[t].method = "CreateBlock" /\ pc[t] \in {"CreateBlock", "rlock", "blocked"}
  BY DEF Stuck
<1>2. call[t] = Creating /\ writer = t
  BY <1>1, StuckWriter
<1>3. Types /\ PlaceFitsCall /\ Exclusive
  BY DEF Mutual
<1>4. \A u \in Thread : u # t => pc[u] \notin Holding
  BY <1>2, <1>3 DEF Exclusive
<1>5. CASE UNCHANGED vars
  BY <1>5 DEF vars, Stuck
<1>6. ASSUME NEW u \in Thread, u # t, BeginAny(u) \/ Run(u)
      PROVE  pc'[t] = pc[t] /\ call'[t] = call[t] /\ UNCHANGED <<chain, pending>>
  <2>1. CASE BeginAny(u)
    <3>1. PICK c \in AnyCall, x \in {"lock", "rlock"} : Begin(u, c, x)
      BY <1>3, <2>1, BeginCases DEF AnyCall
    <3> QED
      BY <1>3, <1>6, <3>1 DEF Begin, Types
  <2>2. pc[u] \notin {"drain", "AddBlock", "AddTransaction", "CreateBlock", "append", "clear", "unlock"}
    BY <1>4, <1>6 DEF Holding, Inside
  <2>3. CASE Lock(u) \/ RLock(u)
    BY <1>0, <1>2, <1>3, <1>6, <2>3 DEF Lock, RLock, Types
  <2>4. CASE RUnlock(u)
    BY <1>3, <1>6, <2>4 DEF RUnlock, Types
  <2>5. CASE \/ Drain(u) \/ Unlock(u) \/ Validate(u) \/ AppendBlock(u)
             \/ ClearProcessedTransactions(u) \/ AppendTransaction(u) \/ CallGetLatestBlock(u)
    BY <2>2, <2>5 DEF Drain, Unlock, Validate, AppendBlock, ClearProcessedTransactions,
                      AppendTransaction, CallGetLatestBlock
  <2> QED
    BY <1>6, <2>1, <2>3, <2>4, <2>5 DEF Run
<1>7. CASE BeginAny(t) \/ Run(t)
  <2>1. ~BeginAny(t)
    <3>1. SUFFICES ASSUME NEW c, NEW x PROVE ~Begin(t, c, x)
      BY DEF BeginAny
    <3> QED
      BY <1>1 DEF Begin
  <2>2. CASE RLock(t)
    <3>1. pc' = [pc EXCEPT ![t] = "blocked"] /\ UNCHANGED <<chain, pending, call>>
      BY <1>0, <1>2, <2>2 DEF RLock
    <3>2. pc'[t] = "blocked" /\ call'[t].method = "CreateBlock"
      BY <1>1, <1>3, <3>1 DEF Types
    <3> QED
      BY <3>1, <3>2 DEF Stuck
  <2>3. CASE CallGetLatestBlock(t)
    <3>1. pc' = [pc EXCEPT ![t] = "rlock"] /\ UNCHANGED <<chain, pending, call>>
      BY <2>3 DEF CallGetLatestBlock
    <3>2. pc'[t] = "rlock" /\ call'[t].method = "CreateBlock"
      BY <1>1, <1>3, <3>1 DEF Types
    <3> QED
      BY <3>1, <3>2 DEF Stuck
  <2>4. CASE \/ Lock(t) \/ Drain(t) \/ Unlock(t) \/ RUnlock(t) \/ Validate(t)
             \/ AppendBlock(t) \/ ClearProcessedTransactions(t) \/ AppendTransaction(t)
    BY <1>1, <2>4 DEF Lock, Drain, Unlock, RUnlock, Validate, AppendBlock,
                      ClearProcessedTransactions, AppendTransaction
  <2> QED
    BY <1>7, <2>1, <2>2, <2>3, <2>4 DEF Run
<1> QED
  <2>1. CASE \E u \in Thread : u # t /\ (BeginAny(u) \/ Run(u))
    BY <1>1, <1>6, <2>1 DEF Stuck
  <2> QED
    BY <1>5, <1>7, <2>1 DEF Next

\* The lock is taken by somebody who uses it; readers that wait have somebody
\* to wait for.
Served ==
    /\ writer # NoThread => pc[writer] \in Holding \/ Stuck
    /\ \A t \in readers : pc[t] = "reading"
    /\ \A t \in Thread : pc[t] = "blocked" => writer # NoThread

LEMMA ServedStep ==
    ASSUME Mutual, Served, [Next]_vars
    PROVE  Served'
<1>0. NoThread \notin Thread
  BY BlockchainLockAssumption
<1>1. Types /\ PlaceFitsCall /\ Exclusive
  BY DEF Mutual
<1>2. CASE UNCHANGED vars
  BY <1>2 DEF vars, Served, Stuck
<1>3. ASSUME NEW t \in Thread, BeginAny(t) PROVE Served'
  <2>1. PICK c \in AnyCall, x \in {"lock", "rlock"} : Begin(t, c, x)
    BY <1>1, <1>3, BeginCases DEF AnyCall
  <2>2. \A u \in Thread : pc'[u] = IF u = t THEN x ELSE pc[u]
    BY <1>1, <2>1 DEF Begin, Types
  <2>3. writer' = writer /\ readers' = readers /\ pc[t] = "idle"
    BY <2>1 DEF Begin
  <2>4. Stuck => Stuck'
    BY <1>3, StuckStep DEF Next
  <2>5. writer # NoThread => writer \in Thread
    BY <1>1 DEF Types
  <2>6. readers \subseteq Thread
    BY <1>1 DEF Types
  <2> QED
    BY <2>2, <2>3, <2>4, <2>5, <2>6 DEF Served, Holding, Inside
<1>4. ASSUME NEW t \in Thread, Run(t) PROVE Served'
  <2>1. Stuck => Stuck'
    BY <1>4, StuckStep DEF Next
  <2>2. writer # NoThread => writer \in Thread
    BY <1>1 DEF Types
  <2>3. readers \subseteq Thread
    BY <1>1 DEF Types
  <2>4. CASE Lock(t)
    <3>1. \A u \in Thread : pc'[u] = IF u = t THEN "drain" ELSE pc[u]
      BY <1>1, <2>4 DEF Lock, Types
    <3> QED
      BY <1>0, <2>3, <2>4, <3>1 DEF Lock, Served, Holding
  <2>5. CASE RUnlock(t)
    <3>1. \A u \in Thread : pc'[u] = IF u = t THEN "idle" ELSE pc[u]
      BY <1>1, <2>5 DEF RUnlock, Types
    <3> QED
      BY <2>1, <2>2, <2>3, <2>5, <3>1 DEF RUnlock, Served, Holding, Inside
  <2>6. CASE RLock(t)
    <3>1. /\ writer' = writer
          /\ readers' = IF writer = NoThread THEN readers \cup {t} ELSE readers
          /\ \A u \in Thread : pc'[u] = IF u = t
                 THEN (IF writer = NoThread THEN "reading" ELSE "blocked") ELSE pc[u]
      BY <1>1, <2>6 DEF RLock, Types
    <3>2. pc[t] = "rlock"
      BY <2>6 DEF RLock
    <3> QED
      BY <2>1, <2>2, <2>3, <3>1, <3>2 DEF Served, Holding, Inside
  <2>7. CASE Unlock(t)
    <3>1. writer' = NoThread /\ readers' = readers \cup Blocked
          /\ \A u \in Thread : pc'[u] = IF u = t THEN "idle"
                 ELSE IF u \in Blocked THEN "reading" ELSE pc[u]
      BY <1>1, <2>7 DEF Unlock, Types
    <3>2. pc[t] = "unlock" /\ readers = {}
      BY <1>1, <2>7 DEF Unlock, Exclusive, Inside
    <3> QED
      BY <3>1, <3>2 DEF Served, Blocked
  <2>8. CASE \/ Drain(t) \/ Validate(t) \/ AppendBlock(t) \/ ClearProcessedTransactions(t)
             \/ AppendTransaction(t)
    <3>1. writer' = writer /\ readers' = readers /\ pc[t] \in Holding
      BY <2>8 DEF Drain, Validate, AppendBlock, ClearProcessedTransactions, AppendTransaction,
                  Holding, Inside
    <3>2. writer = t /\ readers = {}
      BY <1>1, <2>8, <3>1 DEF Exclusive, Drain, Validate, AppendBlock, ClearProcessedTransactions,
                  AppendTransaction, Inside
    <3>3. pc'[t] \in Holding
      <4>1. CASE Drain(t)
        <5>1. call[t].method \in {"AddBlock", "AddTransaction", "CreateBlock"}
          BY <1>1, <4>1, CallKinds DEF Drain, PlaceFitsCall, Writing
        <5> QED
          BY <1>1, <4>1, <5>1 DEF Drain, Types, Holding, Inside
      <4> QED
        BY <1>1, <2>8, <4>1 DEF Types, Validate, AppendBlock, ClearProcessedTransactions,
                  AppendTransaction, Holding, Inside
    <3> QED
      BY <1>0, <3>1, <3>2, <3>3 DEF Served
  <2>9. CASE CallGetLatestBlock(t)
    <3>1. writer' = writer /\ readers' = readers /\ writer = t /\ readers = {} /\ call'[t] = call[t]
      BY <1>1, <2>9 DEF CallGetLatestBlock, Exclusive, Holding, Inside
    <3>2. call[t] = Creating /\ pc'[t] = "rlock"
      BY <1>1, <2>9 DEF CallGetLatestBlock, PlaceFitsCall, Types
    <3>3. Stuck'
      BY <3>1, <3>2 DEF Stuck, Creating
    <3> QED
      BY <1>0, <3>1, <3>3 DEF Served
  <2> QED
    BY <1>4, <2>4, <2>5, <2>6, <2>7, <2>8, <2>9 DEF Run
<1> QED
  BY <1>2, <1>3, <1>4 DEF Next

\* A CreateBlock that got the lock waits for itself for good, and from then on
\* no block and no transaction is added, whoever calls.
THEOREM CreateBlockStopsNode == Spec => [][Stuck => Stuck' /\ UNCHANGED <<chain, pending>>]_vars
<1>1. Mutual /\ [Next]_vars => [Stuck => Stuck' /\ UNCHANGED <<chain, pending>>]_vars
  BY StuckStep
<1> QED
  BY <1>1, MutualExclusion, PTL DEF Spec

\* Where a goroutine has a step to take: the guards of Run.
CanGoOn(t) ==
    \/ pc[t] = "lock" /\ writer = NoThread
    \/ pc[t] = "drain" /\ readers = {}
    \/ pc[t] \notin {"idle", "lock", "drain", "blocked"}

\* Nobody waits in a circle but behind a CreateBlock: as long as a call is under
\* way, some goroutine can take its next step.
SomeoneGoesOn == (\E t \in Thread : pc[t] # "idle") => Stuck \/ \E t \in Thread : CanGoOn(t)
THEOREM NoCircularWait == Spec => []SomeoneGoesOn
<1>1. Init => Mutual /\ Served
  BY MutualInit DEF Init, Served
<1>2. Mutual /\ Served /\ [Next]_vars => (Mutual /\ Served)'
  BY MutualStep, ServedStep
<1>3. ASSUME Mutual, Served, ~Stuck, NEW t \in Thread, pc[t] # "idle"
      PROVE  \E u \in Thread : CanGoOn(u)
  <2>1. writer # NoThread => writer \in Thread /\ pc[writer] \in Holding
    BY <1>3 DEF Mutual, Types, Served
  <2>2. \A u \in readers : u \in Thread /\ pc[u] = "reading"
    BY <1>3 DEF Mutual, Types, Served
  <2>3. CASE writer # NoThread /\ CanGoOn(writer)
    BY <2>1, <2>3
  <2>4. CASE writer # NoThread /\ ~CanGoOn(writer)
    <3>1. readers # {}
      BY <2>1, <2>4 DEF CanGoOn, Holding, Inside
    <3> QED
      BY <2>2, <3>1 DEF CanGoOn
  <2>5. CASE writer = NoThread
    <3>1. pc[t] # "blocked" /\ pc[t] \notin Holding
      BY <1>3, <2>5, BlockchainLockAssumption DEF Served, Mutual, Exclusive
    <3> QED
      BY <1>3, <2>5, <3>1 DEF CanGoOn, Holding
  <2> QED
    BY <2>3, <2>4, <2>5
<1>4. Mutual /\ Served => SomeoneGoesOn
  BY <1>3 DEF SomeoneGoesOn
<1> QED
  BY <1>1, <1>2, <1>4, PTL DEF Spec

----------------------------------------------------------------------------
(* Chain and bounds *)

LEMMA InvInit ==
    ASSUME Init
    PROVE  Inv
<1>1. Mutual /\ StillValid
  BY MutualInit DEF Init, StillValid
<1>2. Room
  <2>1. \A t \in Thread : call[t].method # "AddBlock"
    BY CallKinds DEF Init
  <2> QED
    BY <2>1 DEF Room, Appending, AddingBlocks
<1>3. Bounded
  <2> SUFFICES ASSUME NEW tx \in Tx PROVE pending[tx] + Cardinality(Waiting(tx)) <= MaxCopies
    BY DEF Bounded
  <2>1. pending[tx] = 0
    BY DEF Init, NoTx
  <2>2. \A t \in Thread : call[t] = NoCall
    BY DEF Init
  <2>3. Adding(tx) = {}
    BY <2>2, CallKinds DEF Adding
  <2>4. Cardinality(Waiting(tx)) = 0
    BY <2>3, FS_EmptySet DEF Waiting
  <2> QED
    BY <2>1, <2>4, BlockchainLockAssumption
<1> QED
  BY <1>1, <1>2, <1>3 DEF Inv

\* The goroutines that wait to append a transaction can be counted.
LEMMA WaitingIsFinite ==
    ASSUME NEW tx
    PROVE  /\ IsFiniteSet(Adding(tx)) /\ Cardinality(Adding(tx)) \in Nat
           /\ IsFiniteSet(Waiting(tx)) /\ Cardinality(Waiting(tx)) \in Nat
           /\ Cardinality(Waiting(tx)) <= Cardinality(Adding(tx))
<1>1. Adding(tx) \subseteq Thread /\ Waiting(tx) \subseteq Adding(tx)
  BY DEF Adding, Waiting
<1> QED
  BY <1>1, FS_Subset, FS_CardinalityType, BlockchainLockAssumption

\* As long as nobody starts to wait and the pool does not grow ...
LEMMA BoundedKept ==
    ASSUME Types, Types', Bounded,
           \A tx \in Tx : Waiting(tx)' \subseteq Waiting(tx) /\ pending'[tx] <= pending[tx]
    PROVE  Bounded'
<1> SUFFICES ASSUME NEW tx \in Tx PROVE pending'[tx] + Cardinality(Waiting(tx)') <= MaxCopies
  BY DEF Bounded
<1>1. Cardinality(Waiting(tx)') <= Cardinality(Waiting(tx)) /\ Cardinality(Waiting(tx)') \in Nat
  BY WaitingIsFinite, FS_Subset, FS_CardinalityType
<1>2. pending[tx] \in Nat /\ pending'[tx] \in Nat
  BY DEF Types, TxBag
<1>3. pending[tx] + Cardinality(Waiting(tx)) <= MaxCopies
  BY DEF Bounded
<1> QED
  BY <1>1, <1>2, <1>3, WaitingIsFinite, BlockchainLockAssumption

\* ... and a transaction that a goroutine appends was counted while it waited.
LEMMA BoundedAppend ==
    ASSUME Inv, NEW t \in Thread, AppendTransaction(t)
    PROVE  Bounded'
<1>1. Types /\ Bounded /\ Types'
  BY MutualBody DEF Inv, Mutual
<1>2. PICK a \in Tx : call[t] = [method |-> "AddTransaction", tx |-> a]
  BY BlockchainLockAssumption DEF Inv, Mutual, PlaceFitsCall, AppendTransaction, TxCall
<1>3. /\ call' = call /\ pc[t] = "AddTransaction"
      /\ \A u \in Thread : pc'[u] = IF u = t THEN "unlock" ELSE pc[u]
  BY <1>1 DEF AppendTransaction, Types
<1>4. \A tx \in Tx : pending[tx] \in Nat /\ pending'[tx] \in Nat
  BY <1>1 DEF Types, TxBag
<1>5. \A tx \in Tx : pending'[tx] <= IF tx = a THEN pending[a] + 1 ELSE pending[tx]
  <2>1. pending' = [pending EXCEPT ![a] = @ + 1] \/ pending' = pending
    BY <1>2 DEF AppendTransaction
  <2>2. \A tx \in Tx : pending'[tx] = pending[tx]
                       \/ (tx = a /\ pending'[tx] = pending[a] + 1)
    BY <1>1, <2>1 DEF Types, TxBag
  <2> QED
    BY <1>4, <2>2
<1>6. ASSUME NEW tx \in Tx, tx # a
      PROVE  pending'[tx] + Cardinality(Waiting(tx)') <= MaxCopies
  <2>1. Waiting(tx)' \subseteq Waiting(tx)
    BY <1>3 DEF Waiting, Adding
  <2>2. Cardinality(Waiting(tx)') <= Cardinality(Waiting(tx)) /\ Cardinality(Waiting(tx)') \in Nat
    BY <2>1, WaitingIsFinite, FS_Subset, FS_CardinalityType
  <2>3. pending[tx] + Cardinality(Waiting(tx)) <= MaxCopies
    BY <1>1 DEF Bounded
  <2>4. pending'[tx] <= pending[tx]
    BY <1>5, <1>6
  <2> QED
    BY <1>4, <2>2, <2>3, <2>4, WaitingIsFinite, BlockchainLockAssumption
<1>7. pending'[a] + Cardinality(Waiting(a)') <= MaxCopies
  <2>1. Waiting(a)' = Waiting(a) \ {t} /\ t \in Waiting(a)
    BY <1>2, <1>3 DEF Waiting, Adding
  <2>2. Cardinality(Waiting(a)') = Cardinality(Waiting(a)) - 1
    BY <2>1, WaitingIsFinite, FS_RemoveElement
  <2>3. pending[a] + Cardinality(Waiting(a)) <= MaxCopies
    BY <1>1 DEF Bounded
  <2>4. pending'[a] <= pending[a] + 1
    BY <1>5
  <2> QED
    BY <1>4, <2>2, <2>3, <2>4, WaitingIsFinite, BlockchainLockAssumption
<1> QED
  BY <1>6, <1>7 DEF Bounded

\* A call to AddTransaction starts only if one more copy is within the bound.
LEMMA BoundedBegin ==
    ASSUME Inv, NEW t \in Thread, BeginAny(t)
    PROVE  Bounded'
<1>1. Types /\ Bounded /\ Types'
  BY MutualBegin DEF Inv, Mutual
<1>2. PICK c \in AnyCall, x \in {"lock", "rlock"} :
         /\ pc[t] = "idle" /\ pending' = pending
         /\ call' = [call EXCEPT ![t] = c] /\ pc' = [pc EXCEPT ![t] = x]
         /\ \A a \in Tx : c = [method |-> "AddTransaction", tx |-> a]
                             => pending[a] + Cardinality(Adding(a)) < MaxCopies
  <2>1. \A a \in Tx : Reading # [method |-> "AddTransaction", tx |-> a]
    BY CallKinds DEF TxCall
  <2> QED
    BY <2>1, BeginCases DEF Begin, AnyCall
<1>3. \A u \in Thread : call'[u] = IF u = t THEN c ELSE call[u]
  BY <1>1, <1>2 DEF Types
<1>4. \A u \in Thread : pc'[u] = IF u = t THEN x ELSE pc[u]
  BY <1>1, <1>2 DEF Types
<1> SUFFICES ASSUME NEW tx \in Tx PROVE pending'[tx] + Cardinality(Waiting(tx)') <= MaxCopies
  BY DEF Bounded
<1>5. pending[tx] \in Nat /\ pending'[tx] = pending[tx]
  BY <1>1, <1>2 DEF Types, TxBag
<1>6. CASE c = [method |-> "AddTransaction", tx |-> tx]
  <2>1. Waiting(tx)' \subseteq Adding(tx) \cup {t}
    BY <1>3 DEF Waiting, Adding
  <2>2. /\ IsFiniteSet(Adding(tx) \cup {t})
        /\ Cardinality(Adding(tx) \cup {t}) <= Cardinality(Adding(tx)) + 1
    <3>1. IsFiniteSet(Adding(tx)) /\ Cardinality(Adding(tx)) \in Nat
      BY WaitingIsFinite
    <3>2. /\ IsFiniteSet(Adding(tx) \cup {t})
          /\ \/ Cardinality(Adding(tx) \cup {t}) = Cardinality(Adding(tx))
             \/ Cardinality(Adding(tx) \cup {t}) = Cardinality(Adding(tx)) + 1
      BY <3>1, FS_AddElement
    <3> QED
      BY <3>1, <3>2
  <2>3. /\ IsFiniteSet(Waiting(tx)')
        /\ Cardinality(Waiting(tx)') <= Cardinality(Adding(tx) \cup {t})
    BY <2>1, <2>2, FS_Subset
  <2>4. pending[tx] + Cardinality(Adding(tx)) < MaxCopies
    BY <1>2, <1>6
  <2>5. Cardinality(Waiting(tx)') \in Nat /\ Cardinality(Adding(tx) \cup {t}) \in Nat
    BY <2>2, <2>3, FS_CardinalityType
  <2> QED
    BY <1>5, <2>2, <2>3, <2>4, <2>5, WaitingIsFinite, BlockchainLockAssumption
<1>7. CASE c # [method |-> "AddTransaction", tx |-> tx]
  <2>1. Waiting(tx)' \subseteq Waiting(tx)
    BY <1>3, <1>4, <1>7 DEF Waiting, Adding
  <2>2. Cardinality(Waiting(tx)') <= Cardinality(Waiting(tx)) /\ Cardinality(Waiting(tx)') \in Nat
    BY <2>1, WaitingIsFinite, FS_Subset, FS_CardinalityType
  <2>3. pending[tx] + Cardinality(Waiting(tx)) <= MaxCopies
    BY <1>1 DEF Bounded
  <2> QED
    BY <1>5, <2>2, <2>3, WaitingIsFinite, BlockchainLockAssumption
<1> QED
  BY <1>6, <1>7

LEMMA BoundedStep ==
    ASSUME Inv, [Next]_vars
    PROVE  Bounded'
<1>1. Types /\ Types' /\ Bounded
  BY MutualStep DEF Inv, Mutual
<1>2. CASE UNCHANGED vars
  BY <1>1, <1>2 DEF vars, Bounded, Waiting, Adding
<1>3. ASSUME NEW t \in Thread,
             \/ Lock(t) \/ Drain(t) \/ Unlock(t) \/ RLock(t) \/ RUnlock(t)
             \/ Validate(t) \/ AppendBlock(t) \/ ClearProcessedTransactions(t)
             \/ CallGetLatestBlock(t)
      PROVE  Bounded'
  <2>1. \A tx \in Tx : pending'[tx] <= pending[tx]
    <3>1. CASE ClearProcessedTransactions(t)
      BY <1>1, <3>1, ClearProcessedType DEF ClearProcessedTransactions, Types
    <3>2. CASE pending' = pending
      BY <1>1, <3>2 DEF Types, TxBag
    <3>3. CASE Lock(t) \/ Drain(t) \/ Unlock(t) \/ RLock(t) \/ RUnlock(t)
      BY <3>2, <3>3 DEF Lock, Drain, Unlock, RLock, RUnlock
    <3>4. CASE Validate(t) \/ AppendBlock(t) \/ CallGetLatestBlock(t)
      BY <3>2, <3>4 DEF Validate, AppendBlock, CallGetLatestBlock
    <3> QED
      BY <1>3, <3>1, <3>3, <3>4
  <2>2. \A u \in Thread : /\ call'[u] \in {call[u], NoCall}
                          /\ pc[u] = "unlock" => pc'[u] = "unlock" \/ call'[u] = NoCall
    <3>1. CASE Lock(t) \/ Drain(t)
      BY <1>1, <3>1 DEF Lock, Drain, Types
    <3>2. CASE Unlock(t) \/ RUnlock(t)
      BY <1>1, <3>2 DEF Unlock, RUnlock, Blocked, Types
    <3>3. CASE RLock(t)
      BY <1>1, <3>3 DEF RLock, Types
    <3>4. CASE \/ Validate(t) \/ AppendBlock(t) \/ ClearProcessedTransactions(t)
               \/ CallGetLatestBlock(t)
      BY <1>1, <3>4 DEF Validate, AppendBlock, ClearProcessedTransactions,
                        CallGetLatestBlock, Types
    <3> QED
      BY <1>3, <3>1, <3>2, <3>3, <3>4
  <2>3. \A tx : NoCall # [method |-> "AddTransaction", tx |-> tx]
    BY DEF NoCall
  <2>4. \A tx \in Tx : Waiting(tx)' \subseteq Waiting(tx)
    BY <2>2, <2>3 DEF Waiting, Adding
  <2> QED
    BY <1>1, <2>1, <2>4, BoundedKept
<1>4. CASE Next
  <2>1. PICK t \in Thread : BeginAny(t) \/ Run(t)
    BY <1>4 DEF Next
  <2> QED
    BY <1>3, <2>1, BoundedBegin, BoundedAppend DEF Run
<1> QED
  BY <1>2, <1>4

\* The goroutines that wait to append a block can be counted.
LEMMA AppendingIsFinite ==
    /\ IsFiniteSet(AddingBlocks) /\ Cardinality(AddingBlocks) \in Nat
    /\ IsFiniteSet(Appending) /\ Cardinality(Appending) \in Nat
    /\ Cardinality(Appending) <= Cardinality(AddingBlocks)
<1>1. AddingBlocks \subseteq Thread /\ Appending \subseteq AddingBlocks
  BY DEF AddingBlocks, Appending
<1> QED
  BY <1>1, FS_Subset, FS_CardinalityType, BlockchainLockAssumption

\* What AppendBlock finds: the lock, room, and a block that is valid.
LEMMA AppendFinds ==
    ASSUME Inv, NEW t \in Thread, AppendBlock(t)
    PROVE  /\ writer = t /\ call[t] \in AddCall
           /\ call[t].block \in BlockArgs
           /\ ValidateBlock(chain, call[t].block)
           /\ t \in Appending /\ Len(chain) < MaxHeight
<1>1. pc[t] = "append"
  BY DEF AppendBlock
<1>2. writer = t /\ call[t] \in AddCall
  BY <1>1 DEF Inv, Mutual, PlaceFitsCall, Exclusive, Holding, Inside
<1>3. call[t].block \in BlockArgs /\ t \in Appending
  BY <1>1, <1>2, CallKinds DEF Appending, AddingBlocks
<1>4. ValidateBlock(chain, call[t].block)
  BY <1>1 DEF Inv, StillValid
<1>5. Len(chain) \in Nat
  BY LenProperties DEF Inv, Mutual, Types
<1>6. Cardinality(Appending) \in Nat /\ Cardinality(Appending) # 0
  BY <1>3, AppendingIsFinite, FS_EmptySet
<1>7. Len(chain) + Cardinality(Appending) <= MaxHeight
  BY <1>3 DEF Inv, Room
<1> QED
  BY <1>2, <1>3, <1>4, <1>5, <1>6, <1>7, BlockchainLockAssumption

\* A call to AddBlock starts only if one more block is within the bound, and it
\* was counted while it waited.
LEMMA RoomStep ==
    ASSUME Inv, [Next]_vars
    PROVE  Room'
<1>0. Types /\ Types'
  BY MutualStep DEF Inv, Mutual
<1>1. /\ Len(chain) \in Nat /\ MaxHeight \in Nat
      /\ Room
  BY <1>0, LenProperties, BlockchainLockAssumption DEF Types, Inv
<1>2. ASSUME Appending' \subseteq Appending, chain' = chain PROVE Room'
  <2>1. Cardinality(Appending') <= Cardinality(Appending) /\ Cardinality(Appending') \in Nat
    BY <1>2, AppendingIsFinite, FS_Subset, FS_CardinalityType
  <2> QED
    BY <1>1, <1>2, <2>1, AppendingIsFinite DEF Room
<1>3. CASE UNCHANGED vars
  <2>1. Appending' = Appending /\ chain' = chain
    BY <1>3 DEF vars, Appending, AddingBlocks
  <2> QED
    BY <1>2, <2>1
<1>4. ASSUME NEW t \in Thread, BeginAny(t) PROVE Room'
  <2>1. PICK c \in AnyCall, x \in {"lock", "rlock"} :
           /\ pc[t] = "idle" /\ chain' = chain
           /\ call' = [call EXCEPT ![t] = c] /\ pc' = [pc EXCEPT ![t] = x]
           /\ c.method = "AddBlock" => Len(chain) + Cardinality(AddingBlocks) < MaxHeight
    BY <1>4, BeginCases, CallKinds DEF Begin, AnyCall
  <2>2. \A u \in Thread : /\ call'[u] = IF u = t THEN c ELSE call[u]
                          /\ pc'[u] = IF u = t THEN x ELSE pc[u]
    BY <1>0, <2>1 DEF Types
  <2>3. CASE c.method # "AddBlock"
    <3>1. Appending' \subseteq Appending
      BY <2>2, <2>3 DEF Appending, AddingBlocks
    <3> QED
      BY <1>2, <2>1, <3>1
  <2>4. CASE c.method = "AddBlock"
    <3>1. Appending' \subseteq AddingBlocks \cup {t}
      BY <2>2 DEF Appending, AddingBlocks
    <3>2. /\ IsFiniteSet(AddingBlocks \cup {t})
          /\ Cardinality(AddingBlocks \cup {t}) <= Cardinality(AddingBlocks) + 1
      <4>1. IsFiniteSet(AddingBlocks) /\ Cardinality(AddingBlocks) \in Nat
        BY AppendingIsFinite
      <4>2. /\ IsFiniteSet(AddingBlocks \cup {t})
            /\ \/ Cardinality(AddingBlocks \cup {t}) = Cardinality(AddingBlocks)
               \/ Cardinality(AddingBlocks \cup {t}) = Cardinality(AddingBlocks) + 1
        BY <4>1, FS_AddElement
      <4> QED
        BY <4>1, <4>2
    <3>3. /\ Cardinality(Appending') <= Cardinality(AddingBlocks \cup {t})
          /\ Cardinality(Appending') \in Nat /\ Cardinality(AddingBlocks \cup {t}) \in Nat
      BY <3>1, <3>2, FS_Subset, FS_CardinalityType
    <3> QED
      BY <1>1, <2>1, <2>4, <3>2, <3>3, AppendingIsFinite DEF Room
  <2> QED
    BY <2>3, <2>4
<1>5. ASSUME NEW t \in Thread, AppendBlock(t) PROVE Room'
  <2>1. t \in Appending /\ call[t].block \in Block
    BY <1>5, AppendFinds, BlockchainLockAssumption
  <2>2. /\ call' = call /\ chain' = Append(chain, call[t].block)
        /\ \A u \in Thread : pc'[u] = IF u = t THEN "clear" ELSE pc[u]
    BY <1>0, <1>5 DEF AppendBlock, Types
  <2>3. Len(chain') = Len(chain) + 1
    BY <1>0, <2>1, <2>2, AppendProperties DEF Types
  <2>4. Appending' = Appending \ {t}
    BY <2>2 DEF Appending, AddingBlocks
  <2>5. Cardinality(Appending') = Cardinality(Appending) - 1
    BY <2>1, <2>4, AppendingIsFinite, FS_RemoveElement
  <2> QED
    BY <1>1, <2>1, <2>3, <2>5, AppendingIsFinite DEF Room
<1>6. ASSUME NEW t \in Thread,
             \/ Lock(t) \/ Drain(t) \/ Unlock(t) \/ RLock(t) \/ RUnlock(t)
             \/ Validate(t) \/ ClearProcessedTransactions(t) \/ AppendTransaction(t)
             \/ CallGetLatestBlock(t)
      PROVE  Room'
  <2>1. /\ chain' = chain
        /\ \A u \in Thread :
              /\ call'[u] \in {call[u], NoCall}
              /\ pc[u] \in {"clear", "unlock"} => pc'[u] \in {"clear", "unlock"} \/ call'[u] = NoCall
    <3>1. CASE Lock(t) \/ Drain(t)
      BY <1>0, <3>1 DEF Lock, Drain, Types
    <3>2. CASE Unlock(t) \/ RUnlock(t)
      BY <1>0, <3>2 DEF Unlock, RUnlock, Blocked, Types
    <3>3. CASE RLock(t)
      BY <1>0, <3>3 DEF RLock, Types
    <3>4. CASE \/ Validate(t) \/ ClearProcessedTransactions(t) \/ AppendTransaction(t)
               \/ CallGetLatestBlock(t)
      BY <1>0, <3>4 DEF Validate, ClearProcessedTransactions, AppendTransaction,
                        CallGetLatestBlock, Types
    <3> QED
      BY <1>6, <3>1, <3>2, <3>3, <3>4
  <2>2. Appending' \subseteq Appending
    BY <2>1, CallKinds DEF Appending, AddingBlocks
  <2> QED
    BY <1>2, <2>1, <2>2
<1> QED
  BY <1>3, <1>4, <1>5, <1>6 DEF Next, Run

\* Only Validate leads to AppendBlock, and from there on nobody else writes.
LEMMA StillValidStep ==
    ASSUME Inv, [Next]_vars
    PROVE  StillValid'
<1> DEFINE Kept == \A u \in Thread : pc'[u] = "append" =>
                       chain' = chain /\ pc[u] = "append" /\ call'[u] = call[u]
<1>0. Types /\ Exclusive /\ PlaceFitsCall
  BY DEF Inv, Mutual
<1>1. CASE Kept
  BY <1>1 DEF Inv, StillValid
<1>2. CASE UNCHANGED vars
  BY <1>2 DEF vars, Inv, StillValid
<1>3. ASSUME NEW t \in Thread, Validate(t) PROVE StillValid'
  <2>1. /\ pc[t] = "AddBlock" /\ UNCHANGED <<chain, call>>
        /\ \A u \in Thread : u # t => pc'[u] = pc[u]
        /\ pc'[t] = "append" => ValidateBlock(chain, call[t].block)
    BY <1>0, <1>3 DEF Validate, Types
  <2> QED
    BY <2>1 DEF Inv, StillValid
<1>4. ASSUME NEW t \in Thread, AppendBlock(t) PROVE StillValid'
  <2>1. pc[t] = "append" /\ \A u \in Thread : pc'[u] = IF u = t THEN "clear" ELSE pc[u]
    BY <1>0, <1>4 DEF AppendBlock, Types
  <2>2. \A u \in Thread : pc[u] = "append" => u = t
    BY <1>0, <2>1 DEF Exclusive, Holding, Inside
  <2> QED
    BY <2>1, <2>2 DEF StillValid
<1>5. ASSUME NEW t \in Thread, BeginAny(t) PROVE Kept
  <2>1. PICK c \in AnyCall, x \in {"lock", "rlock"} : Begin(t, c, x)
    BY <1>0, <1>5, BeginCases DEF AnyCall
  <2> QED
    BY <1>0, <2>1 DEF Begin, Types
<1>6. ASSUME NEW t \in Thread, Lock(t) \/ RLock(t) \/ RUnlock(t) PROVE Kept
  BY <1>0, <1>6 DEF Lock, RLock, RUnlock, Types
<1>7. ASSUME NEW t \in Thread, Drain(t) PROVE Kept
  <2>1. call[t].method # "append"
    BY <1>0, <1>7, CallKinds DEF Drain, PlaceFitsCall, Writing
  <2> QED
    BY <1>0, <1>7, <2>1 DEF Drain, Types
<1>8. ASSUME NEW t \in Thread, Unlock(t) PROVE Kept
  BY <1>0, <1>8 DEF Unlock, Blocked, Types
<1>9. ASSUME NEW t \in Thread,
             ClearProcessedTransactions(t) \/ AppendTransaction(t) \/ CallGetLatestBlock(t)
      PROVE  Kept
  BY <1>0, <1>9 DEF ClearProcessedTransactions, AppendTransaction, CallGetLatestBlock, Types
<1> HIDE DEF Kept
<1> QED
  BY <1>1, <1>2, <1>3, <1>4, <1>5, <1>6, <1>7, <1>8, <1>9 DEF Next, Run

\* Beside mutual exclusion, what a writer validated stays valid until it is done.
THEOREM Invariant == Spec => []Inv
<1>1. Inv /\ [Next]_vars => Inv'
  BY MutualStep, StillValidStep, RoomStep, BoundedStep DEF Inv
<1> QED
  BY <1>1, InvInit, PTL DEF Spec

----------------------------------------------------------------------------
(* Refinement *)

\* The operators of Block are the same behind the instance.
LEMMA SameBlocks ==
    /\ B!NoTx = NoTx /\ B!Tx = Tx /\ B!Sig = Sig
    /\ \A n : B!NewGenesisBlock(n) = NewGenesisBlock(n)
    /\ \A i, txs, h, n : B!NewBlock(i, txs, h, n) = NewBlock(i, txs, h, n)
    /\ \A tx : B!TxVerify(tx) = TxVerify(tx)
<1>1. B!NoTx = NoTx /\ B!Tx = Tx /\ B!Sig = Sig
  BY DEF B!NoTx, NoTx, B!Tx, Tx, B!Sig, Sig
<1>2. \A i, txs, h, n : B!NewBlock(i, txs, h, n) = NewBlock(i, txs, h, n)
  BY DEF B!NewBlock, NewBlock
<1>3. \A n : B!NewGenesisBlock(n) = NewGenesisBlock(n)
  BY <1>1, <1>2 DEF B!NewGenesisBlock, NewGenesisBlock
<1>4. \A tx : B!TxVerify(tx) = TxVerify(tx)
  BY DEF B!TxVerify, TxVerify
<1> QED
  BY <1>1, <1>2, <1>3, <1>4

LEMMA SameChecks ==
    /\ \A ch : B!LatestBlock(ch) = LatestBlock(ch)
    /\ \A p, b : B!Extends(p, b) = Extends(p, b)
    /\ \A ch, b : B!ValidateBlock(ch, b) = ValidateBlock(ch, b)
    /\ \A pool, txs : B!ClearProcessed(pool, txs) = ClearProcessed(pool, txs)
<1>1. \A ch : B!LatestBlock(ch) = LatestBlock(ch)
  BY DEF B!LatestBlock, LatestBlock
<1>2. \A b : B!CalculateHash(b) = CalculateHash(b)
  BY DEF B!CalculateHash, CalculateHash, B!ContentOf, ContentOf
<1>3. \A b : B!VerifyBlock(b) = VerifyBlock(b)
  BY DEF B!VerifyBlock, VerifyBlock
<1>4. \A p, b : B!Extends(p, b) = Extends(p, b)
  BY <1>2, <1>3, SameBlocks DEF B!Extends, Extends
<1>5. \A ch, b : B!ValidateBlock(ch, b) = ValidateBlock(ch, b)
  BY <1>1, <1>4 DEF B!ValidateBlock, ValidateBlock
<1>6. \A txs : B!TxIds(txs) = TxIds(txs)
  BY SameBlocks DEF B!TxIds, TxIds
<1>7. \A pool, txs : B!ClearProcessed(pool, txs) = ClearProcessed(pool, txs)
  BY <1>6, SameBlocks DEF B!ClearProcessed, ClearProcessed
<1> QED
  BY <1>1, <1>4, <1>5, <1>7

LEMMA RefineInit ==
    ASSUME Init
    PROVE  B!Init
<1>1. \A t \in Thread : pc[t] = "idle"
  BY DEF Init
<1>2. Clearing = {}
  BY <1>1 DEF Clearing
<1>3. AtomicPending = [tx \in Tx |-> pending[tx]]
  BY <1>2 DEF AtomicPending
<1>4. AtomicPending = NoTx
  BY <1>3 DEF Init, NoTx
<1>5. ~Stuck
  BY <1>1 DEF Stuck
<1> QED
  BY <1>4, <1>5, SameBlocks DEF Init, B!Init

\* A writer that does not hang means that nobody does ...
LEMMA NotStuck ==
    ASSUME Inv, NEW t \in Thread, pc[t] \in Holding, pc[t] # "CreateBlock"
    PROVE  ~Stuck
<1>1. Types /\ Exclusive
  BY DEF Inv, Mutual
<1>2. ASSUME NEW u \in Thread, call[u].method = "CreateBlock",
             pc[u] \in {"CreateBlock", "rlock", "blocked"}
      PROVE  FALSE
  <2>1. call[u] = Creating
    BY <1>1, <1>2, CallOfMethod DEF Types
  <2>2. writer = u
    BY <1>1, <1>2, <2>1 DEF Exclusive, Holding, Inside
  <2>3. writer = t
    BY <1>1 DEF Exclusive
  <2> QED
    BY <1>2, <2>2, <2>3 DEF Holding, Inside
<1> QED
  BY <1>2 DEF Stuck

\* ... and the pool is what it is unless a writer is clearing it.
LEMMA NobodyClears ==
    ASSUME Inv, NEW t \in Thread, pc[t] \in Holding, pc[t] # "clear"
    PROVE  Clearing = {} /\ AtomicPending = pending
<1>1. Types /\ Exclusive
  BY DEF Inv, Mutual
<1>2. Clearing = {}
  BY <1>1 DEF Exclusive, Clearing, Holding, Inside
<1>3. AtomicPending = [tx \in Tx |-> pending[tx]]
  BY <1>2 DEF AtomicPending
<1>4. pending = [tx \in Tx |-> pending[tx]]
  BY <1>1 DEF Types, TxBag
<1> QED
  BY <1>2, <1>3, <1>4

\* A step between two takings of effect is not seen.
LEMMA Unseen ==
    ASSUME UNCHANGED <<chain, pending>>, Clearing' = Clearing,
           \A u \in Clearing : call'[u] = call[u],
           Stuck' <=> Stuck
    PROVE  UNCHANGED B!vars
<1>1. AtomicPending' = AtomicPending
  BY DEF AtomicPending
<1> QED
  BY <1>1 DEF B!vars

LEMMA BeginIsUnseen ==
    ASSUME Inv, NEW t \in Thread, BeginAny(t)
    PROVE  UNCHANGED B!vars
<1>1. Types
  BY DEF Inv, Mutual
<1>2. PICK c \in AnyCall, x \in {"lock", "rlock"} :
         Begin(t, c, x) /\ (x = "rlock" => c = Reading)
  BY <1>1, BeginCases DEF AnyCall
<1>3. /\ pc[t] = "idle" /\ UNCHANGED <<chain, pending>>
      /\ \A u \in Thread : u # t => pc'[u] = pc[u] /\ call'[u] = call[u]
      /\ pc'[t] = x /\ call'[t] = c
  BY <1>1, <1>2 DEF Begin, Types
<1>4. Clearing' = Clearing /\ \A u \in Clearing : call'[u] = call[u]
  BY <1>2, <1>3 DEF Clearing
<1>5. Stuck' <=> Stuck
  BY <1>2, <1>3, CallKinds DEF Stuck
<1> QED
  BY <1>3, <1>4, <1>5, Unseen

LEMMA LockIsUnseen ==
    ASSUME Inv, NEW t \in Thread,
           Lock(t) \/ Unlock(t) \/ RLock(t) \/ RUnlock(t) \/ Validate(t) \/ CallGetLatestBlock(t)
    PROVE  UNCHANGED B!vars
<1>1. Types /\ Exclusive /\ PlaceFitsCall
  BY DEF Inv, Mutual
<1>0. NoThread \notin Thread
  BY BlockchainLockAssumption
<1>2. CASE Lock(t)
  <2>1. /\ pc[t] = "lock" /\ UNCHANGED <<chain, pending, call>>
        /\ \A u \in Thread : u # t => pc'[u] = pc[u]
        /\ pc'[t] = "drain"
    BY <1>1, <1>2 DEF Lock, Types
  <2>2. Clearing' = Clearing /\ (Stuck' <=> Stuck)
    BY <2>1 DEF Clearing, Stuck
  <2> QED
    BY <2>1, <2>2, Unseen DEF Clearing
<1>3. CASE Unlock(t)
  <2>1. /\ pc[t] = "unlock" /\ UNCHANGED <<chain, pending>>
        /\ \A u \in Thread : u # t => call'[u] = call[u]
                                      /\ pc'[u] = IF pc[u] = "blocked" THEN "reading" ELSE pc[u]
        /\ pc'[t] = "idle"
    BY <1>1, <1>3 DEF Unlock, Types, Blocked
  <2>2. ~Stuck
    BY <2>1, NotStuck DEF Holding, Inside
  <2>3. \A u \in Thread : u # t => /\ pc'[u] \in {"CreateBlock", "rlock", "blocked"}
                                        => pc[u] \in {"CreateBlock", "rlock", "blocked"}
                                   /\ pc'[u] = "clear" <=> pc[u] = "clear"
    BY <2>1
  <2>4. Clearing' = Clearing /\ ~Stuck'
    BY <2>1, <2>2, <2>3 DEF Clearing, Stuck
  <2> QED
    BY <2>1, <2>2, <2>4, Unseen DEF Clearing
<1>4. CASE RLock(t)
  <2>1. /\ pc[t] = "rlock" /\ UNCHANGED <<chain, pending, call>>
        /\ \A u \in Thread : u # t => pc'[u] = pc[u]
        /\ pc'[t] = IF writer = NoThread THEN "reading" ELSE "blocked"
    BY <1>1, <1>4 DEF RLock, Types
  <2>2. pc'[t] = "reading" => call[t].method # "CreateBlock"
    <3>1. call[t].method = "CreateBlock" => call[t] = Creating
      BY <1>1, CallOfMethod DEF Types
    <3> QED
      BY <1>0, <1>1, <2>1, <3>1 DEF Exclusive
  <2>3. Clearing' = Clearing
    BY <2>1 DEF Clearing
  <2>4. Stuck' <=> Stuck
    BY <2>1, <2>2 DEF Stuck
  <2> QED
    BY <2>1, <2>3, <2>4, Unseen
<1>5. CASE RUnlock(t)
  <2>1. /\ pc[t] = "reading" /\ UNCHANGED <<chain, pending>>
        /\ \A u \in Thread : u # t => pc'[u] = pc[u] /\ call'[u] = call[u]
        /\ pc'[t] = "idle"
    BY <1>1, <1>5 DEF RUnlock, Types
  <2>2. Clearing' = Clearing /\ (Stuck' <=> Stuck)
    BY <2>1 DEF Clearing, Stuck
  <2> QED
    BY <2>1, <2>2, Unseen DEF Clearing
<1>6. CASE Validate(t)
  <2>1. /\ pc[t] = "AddBlock" /\ UNCHANGED <<chain, pending, call>>
        /\ \A u \in Thread : u # t => pc'[u] = pc[u]
        /\ pc'[t] \in {"append", "unlock"}
    BY <1>1, <1>6 DEF Validate, Types
  <2>2. Clearing' = Clearing
    BY <2>1 DEF Clearing
  <2>3. call[t].method # "CreateBlock"
    BY <1>1, <2>1, CallKinds DEF PlaceFitsCall
  <2>4. Stuck' <=> Stuck
    BY <2>1, <2>3 DEF Stuck
  <2> QED
    BY <2>1, <2>2, <2>4, Unseen
<1>7. CASE CallGetLatestBlock(t)
  <2>1. /\ pc[t] = "CreateBlock" /\ UNCHANGED <<chain, pending, call>>
        /\ \A u \in Thread : u # t => pc'[u] = pc[u]
        /\ pc'[t] = "rlock"
    BY <1>1, <1>7 DEF CallGetLatestBlock, Types
  <2>2. Clearing' = Clearing /\ (Stuck' <=> Stuck)
    BY <2>1 DEF Clearing, Stuck
  <2> QED
    BY <2>1, <2>2, Unseen
<1> QED
  BY <1>2, <1>3, <1>4, <1>5, <1>6, <1>7

\* CreateBlock takes effect, for good, when the last reader leaves.
LEMMA DrainRefines ==
    ASSUME Inv, NEW t \in Thread, Drain(t)
    PROVE  B!CreateBlock \/ UNCHANGED B!vars
<1>1. Types /\ Exclusive /\ PlaceFitsCall
  BY DEF Inv, Mutual
<1>2. /\ pc[t] = "drain" /\ UNCHANGED <<chain, pending, call>>
      /\ \A u \in Thread : u # t => pc'[u] = pc[u]
      /\ pc'[t] = call[t].method
  BY <1>1 DEF Drain, Types
<1>3. ~Stuck
  BY <1>2, NotStuck DEF Holding
<1>4. call[t].method \in {"AddBlock", "AddTransaction", "CreateBlock"}
  BY <1>1, <1>2, CallKinds DEF PlaceFitsCall, Writing
<1>5. Clearing' = Clearing
  BY <1>2, <1>4 DEF Clearing
<1>6. CASE call[t].method = "CreateBlock"
  <2>1. Stuck'
    BY <1>2, <1>6 DEF Stuck
  <2>2. AtomicPending' = AtomicPending
    BY <1>2, <1>5 DEF AtomicPending
  <2> QED
    BY <1>2, <1>3, <2>1, <2>2 DEF B!CreateBlock
<1>7. CASE call[t].method # "CreateBlock"
  <2>1. ~Stuck'
    BY <1>2, <1>3, <1>7 DEF Stuck
  <2> QED
    BY <1>2, <1>3, <1>5, <2>1, Unseen
<1> QED
  BY <1>6, <1>7

\* AddBlock takes effect when the block is appended: from then on the pool counts
\* as cleared, although the loop that clears it is still to run.
LEMMA AppendRefines ==
    ASSUME Inv, NEW t \in Thread, AppendBlock(t)
    PROVE  B!Next
<1> DEFINE b == call[t].block
<1>1. Types /\ Exclusive /\ PlaceFitsCall
  BY DEF Inv, Mutual
<1>2. /\ pc[t] = "append" /\ chain' = Append(chain, b) /\ UNCHANGED <<pending, call>>
      /\ \A u \in Thread : pc'[u] = IF u = t THEN "clear" ELSE pc[u]
  BY <1>1 DEF AppendBlock, Types
<1>3. /\ b \in BlockArgs /\ ValidateBlock(chain, b)
      /\ Len(chain) < MaxHeight /\ call[t] \in AddCall
  BY AppendFinds
<1> HIDE DEF b
<1>4. ~Stuck /\ Clearing = {} /\ AtomicPending = pending
  BY <1>2, NotStuck, NobodyClears DEF Holding, Inside
<1>5. Clearing' = {t}
  BY <1>2, <1>4 DEF Clearing
<1>6. call[t].method # "CreateBlock"
  BY <1>3, CallKinds
<1>7. ~Stuck'
  BY <1>2, <1>4, <1>6 DEF Stuck
<1>8. AtomicPending' = ClearProcessed(AtomicPending, b.txs)
  <2>1. AtomicPending' = [tx \in Tx |-> IF tx.id \in TxIds(b.txs) THEN 0 ELSE pending[tx]]
    BY <1>2, <1>5 DEF AtomicPending, b
  <2> QED
    BY <1>4, <2>1 DEF ClearProcessed
<1>9. B!AddBlock(b)
  <2>1. B!ValidateBlock(chain, b)
    BY <1>3, SameChecks
  <2>2. AtomicPending' = B!ClearProcessed(AtomicPending, b.txs)
    BY <1>8, SameChecks
  <2> QED
    BY <1>2, <1>3, <1>4, <1>7, <2>1, <2>2 DEF B!AddBlock
<1> QED
  BY <1>3, <1>9 DEF B!Next

\* The clearing loop itself is not seen.
LEMMA ClearIsUnseen ==
    ASSUME Inv, NEW t \in Thread, ClearProcessedTransactions(t)
    PROVE  UNCHANGED B!vars
<1>1. Types /\ Exclusive /\ PlaceFitsCall
  BY DEF Inv, Mutual
<1>2. /\ pc[t] = "clear" /\ UNCHANGED <<chain, call>>
      /\ pending' = ClearProcessed(pending, call[t].block.txs)
      /\ \A u \in Thread : pc'[u] = IF u = t THEN "unlock" ELSE pc[u]
  BY <1>1 DEF ClearProcessedTransactions, Types
<1>3. ~Stuck
  BY <1>2, NotStuck DEF Holding, Inside
<1>4. ~Stuck'
  BY <1>2, <1>3 DEF Stuck
<1>5. Clearing = {t} /\ Clearing' = {}
  BY <1>1, <1>2 DEF Clearing, Exclusive, Holding, Inside
<1>6. AtomicPending = ClearProcessed(pending, call[t].block.txs)
  BY <1>5 DEF AtomicPending, ClearProcessed
<1>7. AtomicPending' = pending'
  <2>1. AtomicPending' = [tx \in Tx |-> pending'[tx]]
    BY <1>5 DEF AtomicPending
  <2>2. pending' = [tx \in Tx |-> pending'[tx]]
    BY <1>2 DEF ClearProcessed
  <2> QED
    BY <2>1, <2>2
<1>8. AtomicPending' = AtomicPending
  BY <1>2, <1>6, <1>7
<1> QED
  BY <1>2, <1>3, <1>4, <1>8 DEF B!vars

LEMMA AppendTransactionRefines ==
    ASSUME Inv, NEW t \in Thread, AppendTransaction(t)
    PROVE  B!Next \/ UNCHANGED B!vars
<1>1. Types /\ Exclusive /\ PlaceFitsCall
  BY DEF Inv, Mutual
<1>2. /\ pc[t] = "AddTransaction" /\ UNCHANGED <<chain, call>>
      /\ \A u \in Thread : pc'[u] = IF u = t THEN "unlock" ELSE pc[u]
  BY <1>1 DEF AppendTransaction, Types
<1>3. PICK a \in TxArgs : a \in Tx /\ call[t] = [method |-> "AddTransaction", tx |-> a]
  BY <1>1, <1>2, BlockchainLockAssumption DEF PlaceFitsCall, TxCall
<1>4. ~Stuck /\ Clearing = {} /\ AtomicPending = pending
  BY <1>2, NotStuck, NobodyClears DEF Holding, Inside
<1>5. Clearing' = {}
  BY <1>2, <1>4 DEF Clearing
<1>6. ~Stuck'
  BY <1>2, <1>4 DEF Stuck
<1>7. pending' \in TxBag
  BY MutualBody DEF Inv, Mutual, Types
<1>8. AtomicPending' = pending'
  <2>1. AtomicPending' = [tx \in Tx |-> pending'[tx]]
    BY <1>5 DEF AtomicPending
  <2>2. pending' = [tx \in Tx |-> pending'[tx]]
    BY <1>7 DEF TxBag
  <2> QED
    BY <2>1, <2>2
<1>9. pending[a] < MaxCopies
  <2>1. t \in Waiting(a)
    BY <1>2, <1>3 DEF Waiting, Adding
  <2>2. Cardinality(Waiting(a)) # 0
    BY <2>1, WaitingIsFinite, FS_EmptySet
  <2>3. pending[a] + Cardinality(Waiting(a)) <= MaxCopies /\ pending[a] \in Nat
    BY <1>1, <1>3 DEF Inv, Bounded, Types, TxBag
  <2> QED
    BY <2>2, <2>3, WaitingIsFinite, BlockchainLockAssumption
<1>10. CASE TxVerify(a)
  <2>1. pending' = [pending EXCEPT ![a] = @ + 1]
    BY <1>3, <1>10 DEF AppendTransaction
  <2>2. B!AddTransaction(a)
    BY <1>2, <1>4, <1>6, <1>8, <1>9, <1>10, <2>1, SameBlocks DEF B!AddTransaction
  <2> QED
    BY <2>2, SameBlocks DEF B!Next
<1>11. CASE ~TxVerify(a)
  <2>1. pending' = pending
    BY <1>3, <1>11 DEF AppendTransaction
  <2> QED
    BY <1>2, <1>4, <1>6, <1>8, <2>1 DEF B!vars
<1> QED
  BY <1>10, <1>11

\* The methods of Blockchain are atomic, for every finite set of goroutines,
\* whatever methods they call: AddBlock, AddTransaction and CreateBlock under
\* the lock implement the one-step actions of Blockchain.
THEOREM Atomicity == Spec => ImplementsBlockchain
<1>1. Inv /\ [Next]_vars => [B!Next]_(B!vars)
  <2> SUFFICES ASSUME Inv, [Next]_vars PROVE B!Next \/ UNCHANGED B!vars
    OBVIOUS
  <2>1. ASSUME NEW t \in Thread, BeginAny(t) \/ Run(t)
        PROVE  B!Next \/ UNCHANGED B!vars
    BY <2>1, BeginIsUnseen, LockIsUnseen, DrainRefines, AppendRefines, ClearIsUnseen,
       AppendTransactionRefines DEF Run, B!Next
  <2>2. ASSUME UNCHANGED vars PROVE UNCHANGED B!vars
    <3>1. UNCHANGED <<chain, pending>> /\ Clearing' = Clearing /\ (Stuck' <=> Stuck)
          /\ call' = call
      BY <2>2 DEF vars, Clearing, Stuck
    <3> QED
      BY <3>1, Unseen
  <2> QED
    BY <2>1, <2>2 DEF Next
<1> QED
  BY <1>1, RefineInit, Invariant, PTL DEF Spec, ImplementsBlockchain, B!Spec

-----------------------------------------------------------------------------
(***************************************************************************)
(* What is proved of Blockchain, whose actions are atomic, holds of the    *)
(* goroutines: BP is BlockchainProofs under the same refinement mapping as *)
(* B, and the lemmas say that the definitions of both are the same.        *)
(***************************************************************************)
BP == INSTANCE BlockchainProofs WITH
        pending <- AtomicPending,
        mutex <- IF Stuck THEN "stuck" ELSE "free"

LEMMA LedgerAssumptions == BP!BlockchainAssumption /\ BP!BodyAssumption
<1>1. BP!Block = Block /\ BP!Tx = Tx
  BY DEF BP!Block, BP!TxBag, BP!Hash, BP!Content, BP!Tx, BP!Sig, Block, TxBag, Hash, Content, Tx, Sig
<1>2. BP!BlockchainAssumption
  BY <1>1, BlockchainLockAssumption
<1>3. SystemBody \subseteq Body /\ Body \subseteq TxId
  BY BodyAssumption
<1> QED
  BY <1>2, <1>3

LEMMA SameVars == B!vars = BP!vars
BY DEF B!vars, BP!vars

LEMMA SameInit == B!Init => BP!Init
BY DEF B!Init, BP!Init, B!NewGenesisBlock, BP!NewGenesisBlock, B!NewBlock, BP!NewBlock, B!NoTx, BP!NoTx, B!Tx, BP!Tx, B!Sig, BP!Sig

LEMMA SameAdd == \A b : B!AddBlock(b) <=> BP!AddBlock(b)
BY DEF B!AddBlock, BP!AddBlock, B!ValidateBlock, BP!ValidateBlock, B!Extends, BP!Extends, B!LatestBlock, BP!LatestBlock,
  B!CalculateHash, BP!CalculateHash, B!ContentOf, BP!ContentOf, B!VerifyBlock, BP!VerifyBlock, B!TxVerify, BP!TxVerify,
  B!ClearProcessed, BP!ClearProcessed, B!TxIds, BP!TxIds, B!Tx, BP!Tx, B!Sig, BP!Sig

LEMMA SameNext == B!Next => BP!Next
BY SameAdd DEF B!Next, BP!Next, B!AddTransaction, BP!AddTransaction, B!CreateBlock, BP!CreateBlock,
  B!TxVerify, BP!TxVerify

LEMMA SameSpec == ImplementsBlockchain => BP!Spec
<1>1. B!Next => BP!Next
  BY SameNext
<1>2. UNCHANGED B!vars => UNCHANGED BP!vars
  BY DEF B!vars, BP!vars
<1> QED
  BY <1>1, <1>2, SameInit, PTL DEF ImplementsBlockchain, B!Spec, BP!Spec

\* Goroutines in the methods of Blockchain, however they interleave, promise
\* what the ledger does: the chain only grows, by verified records in order,
\* and what waits leaves only by being recorded.
THEOREM MethodsKeepLedger == Spec => BP!ImplementsLedger
<1>1. BP!Spec => BP!ImplementsLedger
  BY BP!Refinement, LedgerAssumptions, Zenon
<1> QED
  BY <1>1, Atomicity, SameSpec, PTL

\* At every moment, also between the append of a block and the clearing of the
\* pool, and whatever blocks the goroutines add: hashes pin their segments, what
\* is stored above index 0 was verified, only a later index-0 block makes
\* ValidateChain refuse the chain, and while there is none every block is found
\* by its hash and by its index.
THEOREM MethodsKeepChain ==
    Spec => [](/\ BP!HashPinsHistory
               /\ BP!OnlyVerifiedTransactions
               /\ BP!OnlyIndexZeroInvalidates
               /\ BP!LookupsFindEveryBlock)
<1>1. BP!Spec => []BP!HashPinsHistory
  BY BP!HistoryIsPinned, LedgerAssumptions, Zenon
<1>2. BP!Spec => []BP!OnlyVerifiedTransactions
  BY BP!Verified, LedgerAssumptions, Zenon
<1>3. BP!Spec => []BP!OnlyIndexZeroInvalidates
  BY BP!ChainValidity, LedgerAssumptions, Zenon
<1>4. BP!Spec => []BP!LookupsFindEveryBlock
  BY BP!EveryBlockIsFound, LedgerAssumptions, Zenon
<1> QED
  BY <1>1, <1>2, <1>3, <1>4, Atomicity, SameSpec, PTL
=============================================================================
