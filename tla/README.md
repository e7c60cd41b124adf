# block-chat: specifications, model checking and proofs

TLA+ modules for block-chat, a small Go blockchain with a Raft consensus
service, a peer-to-peer network, an HTTP API and contracts for messages, users
and social relations. The modules translate the source under `src/`; TLC checks
them on small instances and TLAPS proves the main invariants for every value of
the constants. `PROJECT.json` lists the runs, the source lines every definition
stands for, the hazards of the code and the theorems.

## The state of the source

The repository does not build as it stands, and the modules model the evident
text of each function rather than a binary:

- `blockchain/blockchain.go` has stray lines after its last function (207-209);
- `network/network.go` is cut off at its end. Its `sendMessage` and `readMessage`
  (276-340), its handler registration (372-415) and its `handleConnection` (460)
  come again, in a newer form, in `network/p2p.go`, where `handleConnection`
  lacks its closing brace; the newer form is the one modelled;
- `contracts/contract.go` is cut off too, and its message and social parts are
  repeated in `message_contract.go` and `social_contract.go`; the newer files
  are the ones modelled;
- `consensus/consensus.go` builds requests and drops them (`data` is never
  used), and `cmd/main.go` parses a `peers` flag it does not use.

Parts of the code are not reached from `cmd/main.go`: nothing calls
`ProposeBlock`, `ExecuteContract` or the consensus handlers, and the P2P
handlers of vote and log messages answer on their own, without the consensus
object. The modules take these functions by their contract with their caller:
any call with arguments the types allow, in any order.

## Inventory

| Component | State | Operations | Interacts by |
|---|---|---|---|
| Blocks, transactions (`blockchain/block.go`, `transaction.go`) | none | `NewBlock`, `CalculateHash`, `SignBlock`, `VerifyBlock`, `NewTransaction`, `Sign`, `Verify` | called by the chain, the API and the consensus |
| Blockchain (`blockchain/blockchain.go`) | `Chain`, `PendingTransactions`, `Mutex` | `AddBlock`, `AddTransaction`, `CreateBlock`, `GetLatestBlock`, `ValidateBlock`, `ValidateChain`, lookups | shared by P2P readers, HTTP handlers and consensus goroutines |
| Raft service (`consensus/consensus.go`) | `state`, `currentTerm`, `votedFor`, `leader`, `peers`, timers, `quit` | `electionLoop`, `startElection`, `becomeLeader`, `sendHeartbeats`, `sendAppendEntries`, `ProposeBlock`, `handleRequestVote`, `handleAppendEntries`, `Start`, `Stop` | one loop goroutine, one goroutine per request, handlers in callers' goroutines |
| P2P peer table (`network/network.go`, `p2p.go`) | `peers`; of a peer `IsActive`, `LastSeen`, `Conn` | `acceptConnections`, `handleConnection`, `connectToPeer`, read loops, `heartbeat`, `AddPeer`, `RemovePeer`, `Stop` | one goroutine per connection and per dial, one heartbeat, one mutex |
| P2P sending (`p2p.go`, `network.go`) | what a connection holds, the mutex | `sendMessage`, `readMessage`, `Broadcast`, `SendToPeer`, `discoverNodes` | callers, heartbeat and readers write to the same connections |
| P2P handlers (`p2p.go`) | none | `NEW_BLOCK`, `NEW_TX`, `REQUEST_VOTE`, `APPEND_ENTRIES`, `PING`, `PONG`, `DISCOVER`, `NODE_INFO` | run by the readers; call the blockchain |
| HTTP API (`api/api.go`) | none | handlers of blocks, transactions, pending pool, node information | reads and calls the blockchain, the consensus service and the network |
| Contracts (`contracts/`) | maps of messages, users, followers, followings, friends | `Validate`, `Execute`, queries; `ContractManager.ExecuteContract` | nothing calls them |
| Keys (`blockchain/crypto.go`) | key files | `Sign`, `Verify`, key generation | called by blocks and transactions |
| Configuration, start-up (`config/`, `cmd/`) | a JSON file, the wiring | load, save, start, stop | - |

What is hard in this code, and what correctness means for each part:

- **Blockchain.** Blocks and transactions arrive in any order, late, twice,
  from a fork or altered. The chain has to stay a hash chain of verified
  transactions, and no accepted transaction may be lost. The methods run in
  many goroutines under one RWMutex: each has to be atomic and to return.
- **Raft service.** Handlers change `state`, `currentTerm` and the timers while
  `startElection`, `sendAppendEntries` and `ProposeBlock` are between two
  critical sections. A term must not go back, a vote must be given once in a
  term, requests must not claim more than their sender has, an acknowledged
  block must be on a majority, a leader must have won its term.
- **Election loop.** The handlers replace timers a `select` waits on, and
  `Stop` runs beside an election. Silence has to start an election, a leader
  has to go on beating, `Stop` has to end the loop.
- **Social contract.** Four operations keep three maps of slices: followers and
  followings must mirror each other, friendship must be mutual, a name must be
  listed once.
- **Peer table.** Accepts, dials, readers, the heartbeat and removals change one
  peer's `Conn` and `IsActive` in any order, and a reader that ends clears what
  another goroutine has just set. An active peer must have a connection, no
  connection may stay open unattended, a peer without goroutines must be dialled
  again, and the reader of a closed connection must end.
- **Sending.** A message is two writes; callers that hold the mutex shared, the
  heartbeat that holds it alone and readers that answer without it write to the
  same connection, which blocks when it is full. Messages must not be mixed up,
  and nobody may wait longer than the remote ends take to read.
- **Handlers and POST.** A batch of log entries is added call by call, with other
  readers in between: success must mean that the whole batch is stored. A posted
  transaction is stamped anew after the client signed it, and a signature is
  written as text and read back: what enters the pool has to be what verifies.
- **Messages and users.** A message is stored twice and read from one list: both
  parties must see one conversation. A transaction may be executed again: a
  registration must survive it.

## Modules

`Block` holds the data and pure functions of blocks, transactions and chains.
A hash is the sequence of the contents it commits to, so equality of hashes is
equality of histories; a signature is the verdict `Verify` reaches on it; a list
of transactions is a bag. Nothing in the properties depends on order in a list
or on the digits of a hash. A transaction's ID is apart from its content: the
code makes it the hash of the content and compares the two nowhere, so that a
forged ID passes every check.

`Blockchain` is one node's chain and pool, one action per method (`AddBlock`,
`AddTransaction`, `CreateBlock`); the calls come from `NEW_BLOCK`, `NEW_TX` and
`APPEND_ENTRIES`, from the API and from `ProposeBlock`. A refused call changes
nothing. The constants `BlockArgs` and `TxArgs` are what the callers hand over:
any blocks and transactions, blocks of index 0 with any hash, predecessor and
list included, which `ValidateBlock` lets in unseen (`blockchain.go:96`).
`Ledger` is what the object promises: a log that only grows, and a set of
waiting IDs left only by being recorded. `ImplementsLedger` is the refinement.

`BlockchainLock` runs the same methods as steps of goroutines around the
RWMutex, with Go's rules for it: a waiting writer keeps new readers out, the
readers it kept out go in when it unlocks, no goroutine takes the mutex twice.
`ImplementsBlockchain` is the refinement into `Blockchain`: `AddBlock` takes
effect when the block is appended (`AtomicPending` already leaves out what is
about to be cleared), `CreateBlock` when it gets the lock it never returns.
So the chain of refinements is goroutines -> methods -> ledger.

`Raft` is the consensus objects of a cluster. Each critical section is one
action; functions that leave the mutex are split there (`StartElection`,
`CountVote`, `EndElection`; `SendHeartbeats`, `ReadTerm`, `SendRequest`;
`ProposeBlock`, `ProposeAdd`, `ProposeSend`, `ProposeReturn`). The votes are
coin flips, as the code simulates them. The requests are built and handed to no
one: `Wired` adds the transport the comments ask for, a set from which requests
are delivered late, often, in any order or never. A node has one proposal under
way at a time, and sends it to its peers one after the other, as the loop in
`ProposeBlock` does. `armed` is the part of the election timer elections depend
on.

`ElectionLoop` is one node's loop with its timers as Go 1.20 has them: a
`select` keeps the channels it entered with, `Stop` leaves an expiry in the
channel. Nothing makes the heartbeat ticker before a node is leader, and the
`select` reads its channel: with `NilPanics` TRUE, the code as built, the loop
panics at its first `select`. FALSE is the least repair, a `select` without the
heartbeat branch while there is no ticker; it adds no timer, and shows what the
panic hides. `Raft` and `ElectionLoop` describe the same object from two sides
and are not composed: in `Raft` any armed timer may fire at any time, which
allows everything the loop does.

`SocialContract` is the three maps of slices under
`ContractManager.ExecuteContract`; `SocialGraph` is the relation and the
symmetric relation it promises.

`Contracts` composes the `ContractManager` and the three contracts `main.go`
registers: the user contract, `SocialContract` and `MessageContract`, which it
extends and whose actions it wraps (`PublicKeys` names the users all three
share). `ExecuteContract` looks the contract up
by type, validates and executes; a refused transaction changes nothing, and any
transaction may be executed again, and the ID of a transaction may be empty,
which nothing checks. `Mailbox` is what the message contract
promises, a conversation of every two users that only grows; `ImplementsMailbox`
maps the two copies of the lists to it. The username stands for a profile's
avatar and bio, a message is its ID and its parties.

`PeerTable` is the peers of one `P2PServer`, their `Peer` objects (one that was
removed may still be in use) and the connections with the goroutines that work
on them. Code between `Lock` and `Unlock` is one step; the handshake, the
response, the deferred `Close`, a dial and the end of a reader are steps of
their own. The remote ends connect, introduce themselves, send, fall silent and
fail as they like. `LastSeen` is told apart as fresh, older than 5 and older
than 30 minutes, which is what the heartbeat asks. A use of a nil `Conn` ends
the process: `panicked` disables every action.

`PeerIO` is the senders of one `P2PServer`: length and data as two writes, the
RWMutex step by step as in `BlockchainLock`, connections that hold `Capacity`
writes, and remote ends that read, or do not. It takes the peers as given and
active; `PeerTable` takes it that the mutex is given back. The two are not
composed: `CallsReturnIfRemotesRead` discharges what `PeerTable` assumes, as
long as remote ends read or go away.

`Handlers` composes `Blockchain` with the readers that run `NEW_BLOCK`, `NEW_TX`,
`REQUEST_VOTE` and `APPEND_ENTRIES`, the last one a loop of `AddBlock` calls over
any list of the blocks in `BlockArgs`, with other goroutines in between, and with `POST /transactions`, which stamps what
the client signed. `SignatureText` is the text of a signature: two numbers
without leading zero bytes, cut in the middle when they are read back. Bytes and
width are constants; ECDSA verifies exactly the data the numbers were made for.

The `MC*` modules give the constants of the runs their values. Definitions
named after a mistake (`AddBlock` that skips a check, a vote that is forgotten)
are mutations: each stands beside the definition it distorts, and replacing the
one by the other makes the property it is paired with in `PROJECT.json` fail.

## Runs

| Run | Instance | Shows |
|---|---|---|
| `chain` | `MCBlockchain.cfg`: 2 nodes, 2 contents, chain of 4; foreign and made-up index-0 blocks, forged IDs, blocks that fail one check each | a hash pins its segment, only verified transactions above index 0, `ValidateChain` is false through index-0 blocks only, lookups find every block of a single segment, refinement of `Ledger` |
| `lock` | `MCBlockchainLock.cfg`: 3 goroutines, all methods, chain of 4, one made-up index-0 block | readers see one chain, methods are atomic, every call returns unless a `CreateBlock` got the lock |
| `raft_elections` | `MCRaft_elections.cfg`: 3 nodes, 2 terms, 3 appends | terms and votes are Raft's, `leader` names a node that ran |
| `raft_log` | `MCRaft_log.cfg`: 2 nodes, 2 terms, one proposed block each, one genesis block | requests are honest, chains only grow |
| `loop` | `MCElectionLoop.cfg`: all calls, 4 of them, the repaired `select` | whoever is in office has the timer of it, a node that has led starts elections, a leader beats, `Stop` ends the loop |
| `contracts` | `MCContracts.cfg`: 2 users, one message ID and the empty one, lists of 3, two names, 2 times | the social maps are consistent and implement `SocialGraph`, both parties see one conversation, messages implement `Mailbox`, a registration is for good |
| `peers` | `MCPeerTable.cfg`: one remote node, two connections, one dial at a time | an active peer has a connection, no open connection is unattended, a neglected peer is dialled, readers of closed connections end |
| `io` | `MCPeerIO.cfg`: one peer, two callers, heartbeat, reader, `Stop`; a connection of two writes | pings and broadcasts are kept apart, every call returns while the remote end reads |
| `handlers` | `MCHandlers.cfg`: two readers, chain of 4, batches of up to two of three blocks, 2 seconds, numbers of two bytes | a batch answered with success is stored in its order, a posted transaction is kept exactly if it is fresh and full |

Why the bounds are enough. A chain of four blocks holds two segments of two, so
that a second index-0 block, a block on it and a fork of the first segment all
occur, and a made-up block under the hash of another with a block on either.
Three goroutines are a writer, a waiting writer and a reader, all
that tells the states of the RWMutex apart; a chain of four has room for a stale
`AddBlock` behind two that succeed. Two terms and three nodes are a
deposed leader, a new one and a voter; three appends are a heartbeat round and
a late request. Four handler calls replace the timer of a waiting select, of a
running election and of a leader, and step a node down in between. Lists of three
messages hold one to oneself, which is stored twice, and one of another user.
Two users are the two sides of every operation of the contracts, a request to
oneself included; an operation touches no third user, and the theorems about
them hold for any number. Two connections are the one a peer has and the one that replaces it; the
instance with a second `Peer` object, one in the table and one removed and still
in use, has 1,125,608 states and satisfies the invariants too, which are proved,
like the types, for any number. A connection of two writes holds one message and blocks the
next; two callers share the lock while the heartbeat waits for it. Two readers
are a batch under way and a block that comes between its entries, and the
made-up block is what lets both in; numbers of two
bytes are short, full or shifted. The limits `MaxHeight`, `MaxCopies`, `MaxTerm`,
`MaxAppends`, `MaxCalls`, `MaxList`, `MaxClock`, `MaxTime`, `MaxDials` and
`Capacity` are guards of the modules and bound nothing else. `raft_elections` and
`handlers` use the symmetry of nodes and of readers; they check invariants and
one step property, which symmetry preserves.

Deadlock is not checked: in every module the environment may stop calling, a
bounded counter may be used up, and `CreateBlock` really blocks.

### Counterexamples

Three runs state what the README or a comment of the source says and the code
does not do; TLC finds the violation, and `PROJECT.json` quotes the line.

- `raft_won_term` (`LeaderWonItsTerm`): a candidate deposed while it counts
  becomes leader of a term it did not run in.
- `raft_replication` (`CommittedByMajority`): `ProposeBlock` acknowledges a block
  no other node has, and none ever will.
- `loop_as_built` (`LoopSurvives`): the first `select` reads the channel of a
  ticker that does not exist yet.

All that is said about elections other than `loop_as_built` lies behind it: it
describes what the code does if the missing ticker does not end the process.
What needs requests delivered (`raft_won_term`, `raft_replication`) also takes
the transport the comments ask for.

More configurations are kept to be run by hand; TLC refutes each statement. A
`*_counterexamples.cfg` holds several, one active, the others in comments.

| Configuration | Statement | What TLC shows |
|---|---|---|
| `MCBlockchain_counterexamples.cfg` | `ChainIsValid` | a second index-0 block passes `ValidateBlock`, and `ValidateChain` is false for good (`blockchain.go:96`) |
| | `ValidWithOneGenesis` | a made-up index-0 block that names the tip passes `ValidateChain` too |
| | `ChainIsVerified` | the list of an index-0 block is never verified |
| | `OnlyTheRecordedLeave` | a block that holds another transaction under the same ID clears the pending one (`blockchain.go:190`) |
| | `PendingIsUnprocessed` | a `NEW_TX` after the block that records it enters the pool again (`blockchain.go:68`) |
| `MCBlockchainLock_createblock.cfg` | `CallsReturn` | `CreateBlock` asks for the read lock under its own write lock (`blockchain.go:77`) |
| `MCRaft_counterexamples.cfg` | `OneLeaderPerTerm` | coin flips elect two leaders of a term (`consensus.go:244`) |
| | `LeaderKnowsItself` | a leader that gets a request of its own term stays leader and names the sender (`consensus.go:437`) |
| | `OnlyLeadersSend` | a heartbeat of a node deposed after the check, in the new term (`consensus.go:337`) |
| `MCElectionLoop_refused.cfg` | `SilenceStartsElection` | a deposed leader that refuses its vote has no timer (`consensus.go:286`) |
| `MCElectionLoop_stale.cfg` | `SilenceStartsElection` | a replaced timer leaves the loop of a node that has not led deaf: it has no ticker that would wake it (`consensus.go:155`) |
| `MCElectionLoop_lonely.cfg` | `FirstNodeLeads` | a node without peers never leads (`consensus.go:258`, `README.md:77` of the source) |
| `MCElectionLoop_afterstop.cfg` | `NoOfficeAfterStop` | an election in progress when `Stop` is called still makes a leader (`consensus.go:265`) |
| `MCPeerTable_counterexamples.cfg` | `NeverPanics` | an answer is written to a `Conn` another goroutine cleared (`p2p.go:147`) |
| | `ReadPeerIsActive` | the reader of an old connection marks a peer inactive that has a new one (`p2p.go:161`) |
| | `LoopKeepsConn` | the deferred `Close` takes the message loop's connection (`p2p.go:82`) |
| | `StopClosesAll` | a dial that ends after `Stop` leaves its connection open (`network.go:426`) |
| `MCPeerIO_counterexamples.cfg` | `FramesAreWhole` | two senders that share the lock, or a reader that answers, mix two messages (`p2p.go:47`) |
| | `StopReturns` | a remote end that stops reading blocks `Stop` (`network.go:186`) |
| `MCContracts_counterexamples.cfg` | `IdsAreUnique` | a message executed again is stored again under its ID (`contract.go:50`) |
| | `BySenderIsSent` | `GetMessagesBySender` gives received messages too |
| | `StoredWithId` | a message without an ID whose transaction has none is stored without one (`message_contract.go:66`) |
| `MCHandlers_counterexamples.cfg` | `CreatedMeansPending` | 201 is answered for a transaction that was dropped (`api.go:213`) |
| | `SuccessMeansTogether` | another reader's block lies between two entries of a batch answered with success (`p2p.go:332`) |
| | `FailureMeansUnchanged` | a refused batch leaves its first entry on the chain (`p2p.go:332`) |
| | `OneVotePerTerm` | the network's vote handler votes for every candidate (`p2p.go:301`) |

### Fairness

`BlockchainLock`: weak fairness of a goroutine's next step, because the Go
scheduler runs every runnable goroutine; strong fairness of `Lock`, because a
`sync.Mutex` in starvation mode hands itself to its longest waiter, and a mutex
freed again and again is not withheld from one of them. Nobody has to call.

`ElectionLoop`: weak fairness of expiry (time passes) and of the loop's own
steps; strong fairness of the branches of the `select`, which chooses among
ready channels at random, so that a branch ready again and again is taken. No
vote has to be won, no handler to be called.

`PeerTable`: weak fairness of the heartbeat's tick, of time, of a dial under way
(which may fail) and of what the two goroutines of a connection can do on their
own: respond, return, store the connection, handle a message, notice that it is
closed. Nobody has to connect, send or answer.

`PeerIO`: strong fairness of each goroutine's next step, because the waiters of
a mutex and of a full connection queue: whoever can go on again and again does.
No remote end has to read; `CallsReturnIfRemotesRead` assumes it where it is
needed, and `StopReturns` shows that it is needed.

`Blockchain`, `Raft`, `SocialContract`, `Contracts` and `Handlers` state no
liveness and no fairness.

## Proofs

TLAPS checks every step of the eight `*Proofs` modules, for all values of the
constants that satisfy the modules' named assumptions.

`BlockchainProofs`, under `BodyAssumption` and `BlockchainAssumption`:

What is proved asks nothing of the callers. `OpenSpec` lets them hand any
transaction to `AddTransaction` and any block to `AddBlock`, whatever its index,
predecessor, hash, list and signature. `CallersAreAny` shows that `Spec`
implements `OpenSpec`, and all that follows is proved of `OpenSpec` first, so
that it can be used for other callers.

- `TypeCorrect`: `TypeOK`, inductive as it stands.
- `HistoryIsPinned`: `HashPinsHistory` is inductive with `TypeOK`. A block above
  index 0 extends the latest one and appends its content to a hash that pins the
  segment; a block of index 0 starts a segment of its own, under whatever hash.
- `Verified`: `OnlyVerifiedTransactions`, inductive with `TypeOK`; the list of
  every block of index above 0 is checked.
- `ChainValidity`: `OnlyIndexZeroInvalidates`. The strengthening is `Segments`: a
  block above the first is of index 0, or it is well hashed and names the block
  before it. `ValidateChain` can fail at the former and at nothing else.
- `EveryBlockIsFound`: `LookupsFindEveryBlock`. While there is one segment
  index and position agree (`HeightIsIndex`), so no index occurs twice, and the
  length of a hash, which `HashPinsHistory` gives, tells hashes apart.
- `Refinement`: `ImplementsLedger`. `AddBlock` is `Record`, `AddTransaction` is
  `Accept` or a stutter, `CreateBlock` a stutter.

`ContractsProofs`, under `PublicKeysAssumption`, `MessageAssumption` and
`ContractsAssumption`. Of the social contract: `Consistent` proves the
conjunction of types, mirror, symmetry and single entries, which is inductive
only as a whole (an `UNFOLLOW` that removes all entries keeps the mirror because
there is at most one on either side); `TypeCorrect`, `Mirrored`, `Mutual` and
`ListedOnce` follow.

`Refinement` adds `ImplementsSocialGraph`: each operation of the contract is
the operation of the same meaning on the relations. For friendships this needs
the symmetry: without it `ADD_FRIEND` could meet a pair that is a friendship
from the other side only, and `REMOVE_FRIEND` leave half of one.

Of the manager and the other contracts:

- `ManagerRunsSocial`: a behaviour of the composed system is one of
  `SocialContract`, so its invariants and its refinement hold behind the manager
  (`ManagerKeepsConsistent`, `ManagerRefinesGraph`).
- `ManagerInvariant`: types and `Readable`, that any two users select the same
  messages from each other's lists and that everyone holds an even number of
  messages to himself. Neither is implied by the other: a message to oneself is
  stored twice in one list, and halving the list gives the conversation back
  only while no copy stands alone. `ManagerTypeCorrect` and `OneConversation`
  (`ConversationsAgree`) follow.
- `RegisteredOnce`: `RegisteredForGood`, a step property: a
  registration that is executed again changes the profile and keeps its time, and
  no other transaction touches it.
- `MailboxRefinement`: `ImplementsMailbox`. A `SEND_MESSAGE` adds one message to
  the conversation of its two parties and leaves every other alone.

`GetMessagesBetweenUsers` goes through a list, so these rest on lemmas about
`Select`, the recursive function that does: it returns the elements that pass
the test, in order (`Selection`), it is determined by that
(`SelectionUnique`), and what it returns for a list with one element more is
known (`SelectAppend`). They are proved by the smallest counterexample
(`LeastNumber`), since the induction rules take an operator as a parameter.

`RaftProofs`, under `RaftAssumption`, for clusters of any size, any peer lists,
any genesis blocks, with and without transport:

- `TypeCorrect`: `TypeOK` is inductive together with `Begun` (no chain is empty,
  no proposal under way is without its block), without which `prevLogIndex`
  would not be a number.
- `VoteOncePerTerm`, `CandidatesVote`, `VotesAnswer`: each inductive with types.
  `HandlerEffect` reduces both handlers to two cases, a request that overtakes
  the node's term and one that keeps up with it.
- `LeadersRan`: `RanInv`. Whoever is leader, counts votes, proposes, is inside
  `sendAppendEntries` or has a request on its way asked for votes, in no later
  term than it uses; terms and the set of requests only grow.
- `HonestRequests`: `HonestInv` adds that a term read by `sendAppendEntries` is
  not above its node's; `TermsGrow` and `ChainsGrow` do the rest.
- `ChainsAppend`: `LogsOnlyGrow`, since nothing but `AddBlock` writes a chain.
- `NothingIsReplicated`: why the run `raft_replication` fails. The strengthening
  is `OwnInv`. An entry under way is on its sender's chain already (`ProposeAdd`
  comes before the calls), so the position its request names is the entry's own
  or a later one; a chain that ends there is longer than the one the entry
  extends, and `AddBlock` refuses it.
- `AckedAtProposerOnly`: an acknowledged block is on the chain of the node that
  was asked, for good (`KeptInv`), and on no other, since beyond its genesis block
  a chain holds its node's own blocks only. So `CommittedByMajority`, which `raft_replication`
  refutes for two nodes, fails with every block acknowledged in a cluster of two
  or more.
- `NoOfficeWithoutPeers`: a node without peers never leads and nothing is proposed
  there.

`BlockchainLockProofs`, under `BlockchainLockAssumption`, which asks for finitely
many goroutines because the bound on copies counts them:

- `MutualExclusion`: types, the place of every goroutine in the method it called,
  one writer past `Lock` and no reader beside it (`Exclusive`), and
  `ReadersSeeOneChain`, inductive together; `TypeCorrect` and `ReadersAreSafe`
  follow.
- `Invariant` adds `StillValid` (a block that was validated is still valid when
  it is appended, since nobody else has written), `Room` and `Bounded` (the chain
  and the pool together with the calls on their way stay below their bounds).
- `Atomicity`: `ImplementsBlockchain`. The append of a validated block is
  `AddBlock`, with the transactions it clears taken out already, the append of a
  transaction is `AddTransaction`, the entry of `CreateBlock` is `CreateBlock`;
  every other step is a stutter.
- `MethodsKeepLedger`, `MethodsKeepChain`: what `BlockchainProofs` proves of the
  one-step methods, carried through `Atomicity`. The goroutines implement the
  ledger, and what `HistoryIsPinned`, `Verified`, `ChainValidity` and
  `EveryBlockIsFound` say holds between any two of their steps, in the middle of
  `AddBlock` too, whatever blocks they add.
- `CreateBlockStopsNode`: once a `CreateBlock` has the lock (`Stuck`) that stays
  so, and chain and pool never change again.
- `NoCircularWait`: otherwise, while a call is under way, some goroutine can take
  its next step. The strengthening is `Served`: a taken lock has a holder that
  is past it, who reads is reading, who is kept out has a writer to wait for.

`ElectionLoopProofs`, without assumptions on the calls:

- `TypeCorrect`: `TypeOK`.
- `AsBuiltNeverRuns`: with `NilPanics`, what the run `loop_as_built` shows is
  all that happens: the loop gets to its first `select`, and no node becomes a
  candidate.
- `OfficesHaveTimers`: until `Stop` a leader has a running ticker and a candidate
  an election timer, the state behind `LeaderBeats` and `VeteranStartsElection`.
- `RefusalStopsTimer`: a node that is not leader loses its timer in one way only,
  by stepping down for a vote it refuses (`SilenceStartsElection` is refuted by
  that way).

`PeerTableProofs`, under `PeerTableAssumption`: `Kept` proves types,
`ActivePeerHasConn` and `OpenConnIsServed` together. They need each other
through types only: whoever makes a peer active stores a connection in the same
section, whoever takes the connection away makes the peer inactive, and the last
goroutine of a connection closes it.

`PeerIOProofs`, under `PeerIOAssumption`:

- `TypeCorrect`: types with the discipline of the mutex (`OnlyCallersShare`,
  `Locked`): a caller that sends holds the lock shared, the heartbeat that sends
  holds it alone.
- `PingsApart`: `LockKeepsPingsApart`. The strengthening is `LastIsUnderWay`: if
  the last write in a connection is a length, its sender still is at this
  connection with the data. A new write therefore follows data, a length of the
  same sender, or that of a reader or of a caller that shares the lock with it,
  never a ping behind a caller's length or the other way round.
  `ClosedIsEmpty` covers writes to a closed connection, which are refused.
- `NoCircularWait`: while a call is under way, some goroutine can take its next
  step or waits for a remote end, from the same kind of `Served` as above. That
  `CallsReturnIfRemotesRead` needs nothing but its hypothesis and fairness is
  not an accident of one peer and two callers.

In both modules `CanGoOn` spells out the guards of `Run`; TLC finds it equal to
`ENABLED Run(t)` in every state of the two instances.

`HandlersProofs`, under `HandlersAssumption` (beside types: what a transaction
says, and not when, makes it a system transaction) and `TextAssumption`:

- `RoundTrip`: `Verify` reads back what `Sign` wrote exactly if neither number
  starts with a zero byte.
- `SuccessIsTrue`: `SuccessMeansStored`, of any blocks in any batch. `Placed`
  carries where the entries dealt with so far lie: each was appended behind all
  that were there, and the chain only grows, so places stay and stay in order.
  That they lie one after the other does not follow (`SuccessMeansTogether` is
  refuted).
- `FreshOnly`: `PooledIfFresh`, from `RoundTrip` and the stamp.
- `HandlersAreCallers`: every step of the handlers and of `POST` is an `AddBlock`,
  an `AddTransaction` or leaves the chain alone, so the composed system
  implements `OpenSpec`, whatever blocks and lists it is sent.
  `HandlersKeepChain` and `HandlersKeepLedger` follow from `BlockchainProofs`.

What stays with TLC:

- liveness, which the prover does not do under fairness:
  `CallsReturnUnlessStuck`, `VeteranStartsElection`, `LeaderBeats`, `StopEndsLoop`,
  `NeglectedPeerIsDialled`, `ReaderOfClosedConnEnds`, `CallsReturnIfRemotesRead`;
- that `CanGoOn` is `ENABLED Run`, for the same reason;
- `LeaderWonItsTerm` and the other refuted statements.

## Not modelled

- The API's `GET` handlers change no state. Those that call locked methods of
  `Blockchain` are the readers of `BlockchainLock`; `handleBlocks`,
  `handleTransactions` and `handlePendingTransactions` read slices without the
  mutex, and a torn slice header lies below the state of the modules.
  `handleNodeInfo` reads `IsLeader` and `GetLeader` one after the other; the two
  disagree in single states already (`LeaderKnowsItself`).
- Torn reads of `LastSeen`, which some readers write without the mutex: its
  write is one step of `PeerTable`.
- What two nodes do to each other: `connectToPeer` sends no `NODE_INFO` and
  `handleConnection` refuses a connection that does not start with one, so two
  nodes of this code never register one another. The remote ends of `PeerTable`
  and `PeerIO` therefore do as they like. For the same reason no module lets
  several `Blockchain` objects exchange blocks: `Blockchain` and `Handlers` take
  any block and transaction that could exist.
- A peer whose `LastSeen` is kept fresh by the reader of an older connection is
  not neglected in the sense of `NeglectedPeerIsDialled`.
- The responses of `DISCOVER` and the node lists: what a remote node is told
  changes nothing here.
- `config/`: reads and writes a file, nothing calls it.
- `cmd/main.go`: straight-line wiring, present as constants and sets
  (`HasPeers`, `OwnGenesis`, `Self`, `ContractType`).
- ECDSA and SHA-256: taken as ideal. Key files and `GenerateKeyPair`: I/O and a
  library.

## Plan

Done: the modules, runs and proofs above. What is left, in order:

1. `PeerTable` and `PeerIO` composed, so that the readers that take part in a
   deadlock are those a peer has, with two peers.
2. A network of nodes with several `Blockchain` objects, if the handshake of the
   two sides is made to match.
3. `Handlers` on `BlockchainLock` instead of `Blockchain`: readers that step
   through the mutex while they loop over entries. `Atomicity` gives it for one
   call at a time already.
