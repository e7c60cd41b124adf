--------------------------- MODULE BlockchainLock ---------------------------
(***************************************************************************)
(* The methods of Blockchain (blockchain/blockchain.go) as the goroutines  *)
(* that call them run them: Mutex is a sync.RWMutex, a write is several    *)
(* steps between Lock and Unlock, a read is an interval between RLock and  *)
(* RUnlock.  The callers are the P2P reader goroutines, the HTTP handlers  *)
(* and the consensus goroutines.                                           *)
(*                                                                         *)
(* sync.RWMutex: a writer that asked keeps new readers out; the readers it *)
(* kept out enter together when it unlocks, before the next writer; no     *)
(* goroutine may take the mutex twice.                                     *)
(*                                                                         *)
(* That every method is one action of Blockchain is the property           *)
(* ImplementsBlockchain.                                                   *)
(***************************************************************************)
EXTENDS Block, FiniteSets

CONSTANTS
    Self,       \* this node
    BlockArgs,  \* the blocks AddBlock is called with, made up or not
    TxArgs,     \* the transactions AddTransaction is called with
    Thread,     \* goroutines
    NoThread,
    Methods,    \* the methods that are called
    MaxHeight,  \* bound: length of the chain
    MaxCopies   \* bound: copies of one transaction in the pool

ASSUME BlockchainLockAssumption ==
    /\ Self \in Node
    /\ BlockArgs \subseteq Block
    /\ TxArgs \subseteq Tx
    /\ IsFiniteSet(Thread) /\ NoThread \notin Thread
    /\ Methods \subseteq {"AddBlock", "AddTransaction", "CreateBlock", "GetLatestBlock"}
    /\ MaxHeight \in Nat
    /\ MaxCopies \in Nat

VARIABLES
    chain,    \* Blockchain.Chain
    pending,  \* Blockchain.PendingTransactions
    writer,   \* the goroutine that has asked for or holds the write lock
    readers,  \* the goroutines that hold a read lock
    call,     \* what each goroutine calls, and with what
    pc,       \* where it is in the method
    seen      \* the chain as it was when a goroutine got its read lock

vars == <<chain, pending, writer, readers, call, pc, seen>>

NoCall == [method |-> "none"]

\* NewBlockchain(Self)
Init ==
    /\ chain = <<NewGenesisBlock(Self)>>
    /\ pending = NoTx
    /\ writer = NoThread
    /\ readers = {}
    /\ call = [t \in Thread |-> NoCall]
    /\ pc = [t \in Thread |-> "idle"]
    /\ seen = [t \in Thread |-> <<>>]

----------------------------------------------------------------------------
(* Callers *)

\* A call starts.
Begin(t, c, lock) ==
    /\ pc[t] = "idle"
    /\ c.method \in Methods
    /\ call' = [call EXCEPT ![t] = c]
    /\ pc' = [pc EXCEPT ![t] = lock]
    /\ UNCHANGED <<chain, pending, writer, readers, seen>>

Adding(tx) == {t \in Thread : call[t] = [method |-> "AddTransaction", tx |-> tx]}
AddingBlocks == {t \in Thread : call[t].method = "AddBlock"}

BeginAny(t) ==
    \/ \E b \in BlockArgs :
          /\ Len(chain) + Cardinality(AddingBlocks) < MaxHeight
          /\ Begin(t, [method |-> "AddBlock", block |-> b], "lock")
    \/ \E tx \in TxArgs :
          /\ pending[tx] + Cardinality(Adding(tx)) < MaxCopies
          /\ Begin(t, [method |-> "AddTransaction", tx |-> tx], "lock")
    \/ Begin(t, [method |-> "CreateBlock"], "lock")
    \/ Begin(t, [method |-> "GetLatestBlock"], "rlock")

----------------------------------------------------------------------------
(* sync.RWMutex *)

\* Mutations: no lock against the other writers; a reader that goes in beside a
\* writer.
LockAnyway(t) ==
    /\ pc[t] = "lock"
    /\ writer' = t
    /\ pc' = [pc EXCEPT ![t] = "drain"]
    /\ UNCHANGED <<chain, pending, readers, call, seen>>
RLockAnyway(t) ==
    /\ pc[t] = "rlock"
    /\ readers' = readers \cup {t}
    /\ seen' = [seen EXCEPT ![t] = chain]
    /\ pc' = [pc EXCEPT ![t] = "reading"]
    /\ UNCHANGED <<chain, pending, writer, call>>

\* Lock: the other writers first, then the readers that are in.
Lock(t) ==
    /\ pc[t] = "lock"
    /\ writer = NoThread
    /\ writer' = t
    /\ pc' = [pc EXCEPT ![t] = "drain"]
    /\ UNCHANGED <<chain, pending, readers, call, seen>>

Drain(t) ==
    /\ pc[t] = "drain"
    /\ readers = {}
    /\ pc' = [pc EXCEPT ![t] = call[t].method]
    /\ UNCHANGED <<chain, pending, writer, readers, call, seen>>

Blocked == {t \in Thread : pc[t] = "blocked"}

\* Unlock, and the return of the method.
Unlock(t) ==
    /\ pc[t] = "unlock"
    /\ writer' = NoThread
    /\ readers' = readers \cup Blocked
    /\ seen' = [u \in Thread |-> IF u \in Blocked THEN chain ELSE seen[u]]
    /\ pc' = [u \in Thread |-> IF u = t THEN "idle"
                               ELSE IF u \in Blocked THEN "reading" ELSE pc[u]]
    /\ call' = [call EXCEPT ![t] = NoCall]
    /\ UNCHANGED <<chain, pending>>

RLock(t) ==
    /\ pc[t] = "rlock"
    /\ IF writer = NoThread
         THEN /\ readers' = readers \cup {t}
              /\ seen' = [seen EXCEPT ![t] = chain]
              /\ pc' = [pc EXCEPT ![t] = "reading"]
         ELSE /\ pc' = [pc EXCEPT ![t] = "blocked"]
              /\ UNCHANGED <<readers, seen>>
    /\ UNCHANGED <<chain, pending, writer, call>>

\* RUnlock, and the return of the method.
RUnlock(t) ==
    /\ pc[t] = "reading"
    /\ readers' = readers \ {t}
    /\ pc' = [pc EXCEPT ![t] = "idle"]
    /\ call' = [call EXCEPT ![t] = NoCall]
    /\ seen' = [seen EXCEPT ![t] = <<>>]
    /\ UNCHANGED <<chain, pending, writer>>

----------------------------------------------------------------------------
(* Between Lock and Unlock *)

\* Mutation: an invalid block returns without Unlock.
ValidateAndLeave(t) ==
    /\ pc[t] = "AddBlock"
    /\ pc' = [pc EXCEPT ![t] = IF ValidateBlock(chain, call[t].block)
                               THEN "append" ELSE "idle"]
    /\ UNCHANGED <<chain, pending, writer, readers, call, seen>>

Validate(t) ==
    /\ pc[t] = "AddBlock"
    /\ pc' = [pc EXCEPT ![t] = IF ValidateBlock(chain, call[t].block)
                               THEN "append" ELSE "unlock"]
    /\ UNCHANGED <<chain, pending, writer, readers, call, seen>>

AppendBlock(t) ==
    /\ pc[t] = "append"
    /\ chain' = Append(chain, call[t].block)
    /\ pc' = [pc EXCEPT ![t] = "clear"]
    /\ UNCHANGED <<pending, writer, readers, call, seen>>

ClearProcessedTransactions(t) ==
    /\ pc[t] = "clear"
    /\ pending' = ClearProcessed(pending, call[t].block.txs)
    /\ pc' = [pc EXCEPT ![t] = "unlock"]
    /\ UNCHANGED <<chain, writer, readers, call, seen>>

AppendTransaction(t) ==
    /\ pc[t] = "AddTransaction"
    /\ pending' = IF TxVerify(call[t].tx) THEN [pending EXCEPT ![call[t].tx] = @ + 1]
                  ELSE pending
    /\ pc' = [pc EXCEPT ![t] = "unlock"]
    /\ UNCHANGED <<chain, writer, readers, call, seen>>

\* CreateBlock holds the write lock and calls GetLatestBlock.
CallGetLatestBlock(t) ==
    /\ pc[t] = "CreateBlock"
    /\ pc' = [pc EXCEPT ![t] = "rlock"]
    /\ UNCHANGED <<chain, pending, writer, readers, call, seen>>

----------------------------------------------------------------------------

Run(t) ==
    \/ Lock(t) \/ Drain(t) \/ Unlock(t) \/ RLock(t) \/ RUnlock(t)
    \/ Validate(t) \/ AppendBlock(t) \/ ClearProcessedTransactions(t)
    \/ AppendTransaction(t) \/ CallGetLatestBlock(t)

Next == \E t \in Thread : BeginAny(t) \/ Run(t)

\* A goroutine inside a method goes on as long as it can; a sync.Mutex that is
\* freed again and again is given to every goroutine that waits for it in the
\* end.  Nobody has to call anything.
Fairness == \A t \in Thread : WF_vars(Run(t)) /\ SF_vars(Lock(t))

Spec == Init /\ [][Next]_vars /\ Fairness

----------------------------------------------------------------------------
(* Properties *)

TypeOK ==
    /\ chain \in Seq(Block) /\ pending \in TxBag
    /\ writer \in Thread \cup {NoThread} /\ readers \subseteq Thread
    /\ \A t \in Thread :
         pc[t] \in {"idle", "lock", "drain", "AddBlock", "AddTransaction", "CreateBlock",
                    "append", "clear", "unlock", "rlock", "blocked", "reading"}

\* What a reader looks at does not change under it, from RLock to RUnlock: a
\* lookup or ValidateChain is a look at one chain.
ReadersSeeOneChain == \A t \in readers : seen[t] = chain

\* AddBlock, AddTransaction and CreateBlock are atomic: they take effect in one
\* step, AddBlock when the block is appended, CreateBlock when it gets the lock.
Clearing == {t \in Thread : pc[t] = "clear"}
AtomicPending ==
    [tx \in Tx |-> IF \E t \in Clearing : tx.id \in TxIds(call[t].block.txs)
                   THEN 0 ELSE pending[tx]]
\* CreateBlock has the lock, and calls GetLatestBlock.
Stuck == \E t \in Thread : call[t].method = "CreateBlock" /\ pc[t] \in {"CreateBlock", "rlock", "blocked"}
B == INSTANCE Blockchain WITH
        pending <- AtomicPending,
        mutex <- IF Stuck THEN "stuck" ELSE "free"
ImplementsBlockchain == B!Spec

\* Every call returns, whatever the others call and however often ...
CallsReturn == \A t \in Thread : pc[t] # "idle" ~> pc[t] = "idle"

\* ... until a CreateBlock gets the lock.
CallsReturnUnlessStuck == \A t \in Thread : pc[t] # "idle" ~> pc[t] = "idle" \/ Stuck
=============================================================================
