-------------------------------- MODULE Raft --------------------------------
(***************************************************************************)
(* consensus/consensus.go: the RaftConsensus objects of a cluster.         *)
(*                                                                         *)
(* What holds rc.mutex is one action.  What does not is split where the    *)
(* code lets go of it: startElection before and after the votes, a         *)
(* heartbeat between the leader check, the read of the term and the        *)
(* request, ProposeBlock between IsLeader, AddBlock and the requests.      *)
(*                                                                         *)
(* The votes of an election are coin flips (the code simulates them), and  *)
(* sendAppendEntries answers true whatever happens to the request.  The    *)
(* requests that startElection and sendAppendEntries build are handed to   *)
(* no one: Wired tells whether there is the transport their comments ask   *)
(* for, which gives a request to its handler late, twice, out of order or  *)
(* never.  Timers are here only as far as a stopped one starts no          *)
(* election; ElectionLoop models them.                                     *)
(*                                                                         *)
(* A chain is the sequence of the creators of its blocks, which stands for *)
(* the hash of its last block; a block is valid on the chain it names.     *)
(***************************************************************************)
EXTENDS Naturals, Sequences, FiniteSets

CONSTANTS
    Node,       \* node identities
    None,       \* the empty node ID ""
    Peers,      \* rc.peers of every node
    Genesis,    \* the genesis block of every node
    Wired,      \* does anything carry requests to the handlers?
    MaxTerm,    \* bound: terms
    MaxHeight,  \* bound: blocks on a chain
    MaxAppends  \* bound: heartbeats stop at so many calls of sendAppendEntries

ASSUME RaftAssumption ==
    /\ None \notin Node
    /\ Peers \in [Node -> SUBSET Node]
    /\ \A n \in Node : n \notin Peers[n] /\ IsFiniteSet(Peers[n])
    /\ Genesis \in [Node -> Node]
    /\ Wired \in BOOLEAN
    /\ MaxTerm \in Nat
    /\ MaxHeight \in Nat
    /\ MaxAppends \in Nat

VARIABLES
    state,        \* rc.state
    currentTerm,  \* rc.currentTerm
    votedFor,     \* rc.votedFor
    leader,       \* rc.leader
    armed,        \* is rc.electionTimer running or fired, not stopped?
    campaign,     \* the votes startElection counts; NoCampaign outside of it
    chain,        \* rc.blockchain
    proposal,     \* the call of ProposeBlock in progress
    calls,        \* the calls of sendAppendEntries in progress
    requests,     \* the requests built so far
    acked         \* the blocks for which ProposeBlock returned nil

electionVars == <<state, currentTerm, votedFor, leader, armed>>
proposalVars == <<proposal, acked>>
vars == <<electionVars, campaign, chain, proposalVars, calls, requests>>

Chain == Seq(Node)
BlockOn == [prev : Chain, by : Node]    \* a block and the chain it extends
Entries == {e \in Seq(BlockOn) : Len(e) <= 1}
Height(ch) == Len(ch) - 1               \* Index of the latest block

\* Mutation: a block on an older one replaces what follows that.
AddBlockOverConflict(ch, b) == Append(b.prev, b.by)

AddBlock(ch, b) == IF b.prev = ch THEN Append(ch, b.by) ELSE ch

NoCampaign == [votes |-> 0, replies |-> 0]
NoProposal == [pc |-> "idle", block |-> <<>>, todo |-> {}]

VoteRequest == [type : {"vote"}, from : Node, term : Nat, last : Nat]
AppendRequest == [type : {"append"}, from : Node, to : Node, term : Nat,
                  prevLogIndex : Nat, entries : Entries]
Request == VoteRequest \cup AppendRequest

\* A goroutine inside sendAppendEntries; term is None until it is read.
Call == [from : Node, to : Node, entries : Entries, term : Nat \cup {None}]
NewCall(n, p, e) == [from |-> n, to |-> p, entries |-> e, term |-> None]

\* More than half of n and its peers.
Majority(n, count) == count > (Cardinality(Peers[n]) + 1) \div 2

----------------------------------------------------------------------------

\* NewRaftConsensus and Start
Init ==
    /\ state = [n \in Node |-> "Follower"]
    /\ currentTerm = [n \in Node |-> 0]
    /\ votedFor = [n \in Node |-> None]
    /\ leader = [n \in Node |-> None]
    /\ armed = [n \in Node |-> TRUE]
    /\ campaign = [n \in Node |-> NoCampaign]
    /\ chain = [n \in Node |-> <<Genesis[n]>>]
    /\ proposal = [n \in Node |-> NoProposal]
    /\ calls = {}
    /\ requests = {}
    /\ acked = {}

----------------------------------------------------------------------------
(* Elections *)

\* startElection up to the votes.  LastLogTerm is the index too, so one field
\* stands for both.
StartElection(n) ==
    /\ campaign[n] = NoCampaign
    /\ armed[n]
    /\ currentTerm[n] < MaxTerm
    /\ state' = [state EXCEPT ![n] = "Candidate"]
    /\ currentTerm' = [currentTerm EXCEPT ![n] = @ + 1]
    /\ votedFor' = [votedFor EXCEPT ![n] = n]
    /\ campaign' = [campaign EXCEPT ![n] = [votes |-> 1, replies |-> 0]]
    /\ requests' = IF Peers[n] = {} THEN requests
                   ELSE requests \cup {[type |-> "vote", from |-> n,
                            term |-> currentTerm[n] + 1, last |-> Height(chain[n])]}
    /\ UNCHANGED <<leader, armed, chain, proposalVars, calls>>

\* becomeLeader, as it is: neither the state nor the term is looked at again,
\* and a timer that expired before it was stopped still starts an election.  The
\* heartbeat becomeLeader starts is a SendHeartbeats.
BecomeLeader(n) ==
    /\ state' = [state EXCEPT ![n] = "Leader"]
    /\ leader' = [leader EXCEPT ![n] = n]
    /\ \E expired \in BOOLEAN : armed' = [armed EXCEPT ![n] = expired /\ @]

\* One more reply from voteCh; the majority ends the election.
CountVote(n, granted) ==
    LET votes == campaign[n].votes + (IF granted THEN 1 ELSE 0)
        won == granted /\ Majority(n, votes)
    IN  /\ campaign[n] # NoCampaign
        /\ campaign[n].replies < Cardinality(Peers[n])
        /\ IF won
             THEN BecomeLeader(n) /\ campaign' = [campaign EXCEPT ![n] = NoCampaign]
             ELSE /\ campaign' = [campaign EXCEPT
                        ![n] = [votes |-> votes, replies |-> @.replies + 1]]
                  /\ UNCHANGED <<state, leader, armed>>
        /\ UNCHANGED <<currentTerm, votedFor, chain, proposalVars, calls, requests>>

\* All replies are in, or the 100ms are over.
EndElection(n) ==
    /\ campaign[n] # NoCampaign
    /\ campaign' = [campaign EXCEPT ![n] = NoCampaign]
    /\ UNCHANGED <<electionVars, chain, proposalVars, calls, requests>>

----------------------------------------------------------------------------
(* Heartbeats and proposals *)

\* Mutations: heartbeats of a node that is not a leader; a request built before
\* the term is read.
SendHeartbeatsAnyway(n) ==
    /\ calls' = calls \cup {NewCall(n, p, <<>>) : p \in Peers[n]}
    /\ Cardinality(calls') + Cardinality({m \in requests : m.type = "append"}) <= MaxAppends
    /\ UNCHANGED <<electionVars, campaign, chain, proposalVars, requests>>
SendRequestEarly(c) ==
    /\ c \in calls
    /\ calls' = calls \ {c}
    /\ requests' = requests \cup
         {[type |-> "append", from |-> c.from, to |-> c.to, term |-> c.term,
           prevLogIndex |-> Height(chain[c.from]), entries |-> c.entries]}
    /\ UNCHANGED <<electionVars, campaign, chain, proposalVars>>

\* sendHeartbeats, from becomeLeader or from the ticker branch of the loop: the
\* check, and one goroutine per peer.
SendHeartbeats(n) ==
    /\ state[n] = "Leader"
    /\ calls' = calls \cup {NewCall(n, p, <<>>) : p \in Peers[n]}
    /\ Cardinality(calls') + Cardinality({m \in requests : m.type = "append"}) <= MaxAppends
    /\ UNCHANGED <<electionVars, campaign, chain, proposalVars, requests>>

\* sendAppendEntries reads the term ...
ReadTerm(c) ==
    /\ c \in calls /\ c.term = None
    /\ calls' = (calls \ {c}) \cup {[c EXCEPT !.term = currentTerm[c.from]]}
    /\ UNCHANGED <<electionVars, campaign, chain, proposalVars, requests>>

\* ... lets go of the mutex, reads the latest block and builds the request.
SendRequest(c) ==
    /\ c \in calls /\ c.term # None
    /\ calls' = calls \ {c}
    /\ requests' = requests \cup
         {[type |-> "append", from |-> c.from, to |-> c.to, term |-> c.term,
           prevLogIndex |-> Height(chain[c.from]), entries |-> c.entries]}
    /\ UNCHANGED <<electionVars, campaign, chain, proposalVars>>

\* ProposeBlock: IsLeader.  The caller built its block on the chain it saw.
ProposeBlock(n) ==
    /\ proposal[n] = NoProposal
    /\ Height(chain[n]) < MaxHeight
    /\ state[n] = "Leader"
    /\ proposal' = [proposal EXCEPT ![n] =
            [pc |-> "add", block |-> <<[prev |-> chain[n], by |-> n]>>, todo |-> {}]]
    /\ UNCHANGED <<electionVars, campaign, chain, calls, requests, acked>>

\* ProposeBlock: AddBlock; an error ends the call.
ProposeAdd(n) ==
    LET b == proposal[n].block[1]
    IN  /\ proposal[n].pc = "add"
        /\ chain' = [chain EXCEPT ![n] = AddBlock(@, b)]
        /\ proposal' = [proposal EXCEPT ![n] =
                IF chain'[n] = chain[n] THEN NoProposal
                ELSE [@ EXCEPT !.pc = "send", !.todo = Peers[n]]]
        /\ UNCHANGED <<electionVars, campaign, calls, requests, acked>>

\* The sendAppendEntries that n's ProposeBlock waits for.
Sending(n) == {c \in calls : c.from = n /\ c.entries # <<>>}

ProposeSend(n) ==
    /\ proposal[n].pc = "send"
    /\ Sending(n) = {}
    /\ \E p \in proposal[n].todo :
         /\ calls' = calls \cup {NewCall(n, p, proposal[n].block)}
         /\ proposal' = [proposal EXCEPT ![n].todo = @ \ {p}]
    /\ UNCHANGED <<electionVars, campaign, chain, requests, acked>>

\* Every peer counts as a success.
ProposeReturn(n) ==
    /\ proposal[n].pc = "send"
    /\ proposal[n].todo = {} /\ Sending(n) = {}
    /\ acked' = IF Majority(n, 1 + Cardinality(Peers[n]))
                THEN acked \cup {proposal[n].block[1]} ELSE acked
    /\ proposal' = [proposal EXCEPT ![n] = NoProposal]
    /\ UNCHANGED <<electionVars, campaign, chain, calls, requests>>

----------------------------------------------------------------------------
(* Handlers *)

\* Mutations: a vote forgotten in its own term, or kept in the next; a term that
\* goes back; a candidate that sees a higher term and stays one.
StepsDownEqual(n, m) == m.term >= currentTerm[n]
VotedForKept(n, m) == votedFor[n]
SeeAnyTerm(n, m) ==
    /\ Wired
    /\ currentTerm' = [currentTerm EXCEPT ![n] = m.term]
    /\ state' = [state EXCEPT ![n] = IF m.term > currentTerm[n] THEN "Follower" ELSE @]
SeeTermOnly(n, m) ==
    /\ Wired
    /\ m.term >= currentTerm[n]
    /\ currentTerm' = [currentTerm EXCEPT ![n] = m.term]
    /\ UNCHANGED state

\* A request of a higher term makes a follower that has voted for nobody.
StepsDown(n, m) == m.term > currentTerm[n]
VotedFor(n, m) == IF StepsDown(n, m) THEN None ELSE votedFor[n]
SeeTerm(n, m) ==
    /\ Wired
    /\ m.term >= currentTerm[n]
    /\ currentTerm' = [currentTerm EXCEPT ![n] = m.term]
    /\ state' = [state EXCEPT ![n] = IF StepsDown(n, m) THEN "Follower" ELSE @]

\* handleRequestVote.  A refusal for an older term changes nothing.
Grants(n, m) == VotedFor(n, m) \in {None, m.from} /\ m.last >= Height(chain[n])
HandleRequestVote(n, m) ==
    /\ m.type = "vote"
    /\ n \in Peers[m.from]
    /\ SeeTerm(n, m)
    /\ votedFor' = [votedFor EXCEPT ![n] = IF Grants(n, m) THEN m.from ELSE VotedFor(n, m)]
    /\ armed' = [armed EXCEPT ![n] = @ \/ Grants(n, m)]
    /\ UNCHANGED <<leader, campaign, chain, proposalVars, calls, requests>>

\* handleAppendEntries.  A request of the node's own term leaves its state as it
\* is, and the leader and the timer change before the log is compared.
Fits(n, m) == Height(chain[n]) = m.prevLogIndex
HandleAppendEntries(n, m) ==
    /\ m.type = "append"
    /\ n = m.to
    /\ SeeTerm(n, m)
    /\ votedFor' = [votedFor EXCEPT ![n] = VotedFor(n, m)]
    /\ leader' = [leader EXCEPT ![n] = m.from]
    /\ armed' = [armed EXCEPT ![n] = TRUE]
    /\ chain' = IF Fits(n, m) /\ m.entries # <<>>
                THEN [chain EXCEPT ![n] = AddBlock(@, m.entries[1])]
                ELSE chain
    /\ UNCHANGED <<campaign, proposalVars, calls, requests>>

----------------------------------------------------------------------------

Next ==
    \/ \E n \in Node :
         \/ StartElection(n) \/ EndElection(n) \/ SendHeartbeats(n)
         \/ ProposeBlock(n) \/ ProposeAdd(n) \/ ProposeSend(n) \/ ProposeReturn(n)
         \/ \E granted \in BOOLEAN : CountVote(n, granted)
         \/ \E m \in requests : HandleRequestVote(n, m) \/ HandleAppendEntries(n, m)
    \/ \E c \in calls : ReadTerm(c) \/ SendRequest(c)

Spec == Init /\ [][Next]_vars

----------------------------------------------------------------------------
(* Properties *)

TypeOK ==
    /\ state \in [Node -> {"Follower", "Candidate", "Leader"}]
    /\ currentTerm \in [Node -> Nat]
    /\ votedFor \in [Node -> Node \cup {None}]
    /\ leader \in [Node -> Node \cup {None}]
    /\ armed \in [Node -> BOOLEAN]
    /\ campaign \in [Node -> [votes : Nat, replies : Nat]]
    /\ chain \in [Node -> Chain]
    /\ proposal \in [Node -> [pc : {"idle", "add", "send"}, block : Entries, todo : SUBSET Node]]
    /\ calls \subseteq Call
    /\ requests \subseteq Request
    /\ acked \subseteq BlockOn

\* A node's term never goes back, and a vote it gave stands until the term is
\* over, whatever requests arrive late, twice or out of order.
VotesAreFinal ==
    [][\A n \in Node :
          \/ currentTerm'[n] > currentTerm[n]
          \/ /\ currentTerm'[n] = currentTerm[n]
             /\ votedFor[n] # None => votedFor'[n] = votedFor[n]]_vars

\* Who is still a candidate has not given its vote away, in the election it
\* counts votes for or after it.
CandidateVotedForItself == \A n \in Node : state[n] = "Candidate" => votedFor[n] = n

\* A vote is an answer: the candidate asked for it in the voter's term.
VotesAnswerRequests ==
    \A n \in Node : votedFor[n] \notin {None, n} =>
        \E m \in requests : /\ m.type = "vote" /\ m.from = votedFor[n]
                            /\ m.term = currentTerm[n]

\* However late a request is delivered, its sender has reached the term and
\* the log position the request claims, and never falls behind them.
RequestsAreHonest ==
    \A m \in requests :
        /\ m.term <= currentTerm[m.from]
        /\ m.type = "vote" => m.last <= Height(chain[m.from])
        /\ m.type = "append" => m.prevLogIndex <= Height(chain[m.from])

\* A node whose leader is known to others once ran for office: GetLeader never
\* names a node that only its own AppendEntries made a leader.
LeaderRanForOffice ==
    \A n \in Node : leader[n] # None =>
        \E m \in requests : /\ m.type = "vote" /\ m.from = leader[n]
                            /\ m.term <= currentTerm[n]

\* A chain only grows, at its end: no proposal that fails halfway and no late
\* request of another leader takes a block back or replaces one.
Grows(n) == /\ Len(chain'[n]) >= Len(chain[n])
            /\ \A i \in 1 .. Len(chain[n]) : chain'[n][i] = chain[n][i]
LogsOnlyGrow == [][\A n \in Node : Grows(n)]_vars

----------------------------------------------------------------------------
(* What the documentation and the comments promise, and the code does not do *)

\* Raft elects one leader per term.
OneLeaderPerTerm ==
    \A m, n \in Node :
        state[m] = "Leader" /\ state[n] = "Leader" /\ currentTerm[m] = currentTerm[n] => m = n

\* A leader leads a term it won: it voted for itself in it.
LeaderWonItsTerm == \A n \in Node : state[n] = "Leader" => votedFor[n] = n

\* IsLeader and GetLeader tell the same.
LeaderKnowsItself == \A n \in Node : state[n] = "Leader" => leader[n] = n

\* Only a leader sends AppendEntries.
OnlyLeadersSend ==
    [][\A m \in requests' \ requests : m.type = "append" => state[m.from] = "Leader"]_vars

\* The leader replicates its blocks: one that ProposeBlock reports as committed
\* is on a majority of the chains.
Holds(n, b) == \E k \in DOMAIN chain[n] :
                  SubSeq(chain[n], 1, k) = Append(b.prev, b.by)
CommittedByMajority ==
    \A b \in acked :
        2 * Cardinality({n \in Node : Holds(n, b)}) > Cardinality(Node)
=============================================================================
