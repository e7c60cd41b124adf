----------------------------- MODULE RaftProofs -----------------------------
(***************************************************************************)
(* Proofs about Raft, for every cluster, every assignment of peers and     *)
(* genesis blocks, with and without a transport, and all bounds.           *)
(***************************************************************************)
EXTENDS Raft, FiniteSetTheorems, SequenceTheorems, TLAPS

----------------------------------------------------------------------------
(* Types *)

\* Chains have their genesis block, and a proposal under way its block.
Begun ==
    /\ \A n \in Node : chain[n] # <<>>
    /\ \A n \in Node : proposal[n].pc # "idle" => proposal[n].block # <<>>
TInv == TypeOK /\ Begun

LEMMA HeightType == ASSUME NEW ch \in Chain, ch # <<>> PROVE Height(ch) \in Nat
  BY DEF Height, Chain

LEMMA AddBlockType ==
    ASSUME NEW ch \in Chain, ch # <<>>, NEW b \in BlockOn
    PROVE  AddBlock(ch, b) \in Chain /\ AddBlock(ch, b) # <<>>
<1>1. Append(ch, b.by) \in Chain /\ Append(ch, b.by) # <<>>
  BY DEF Chain, BlockOn
<1> QED
  BY <1>1 DEF AddBlock

LEMMA NewCallType ==
    ASSUME NEW n \in Node, NEW p \in Node, NEW e \in Entries
    PROVE  NewCall(n, p, e) \in Call
  BY DEF NewCall, Call

LEMMA EntriesType == /\ <<>> \in Entries
                     /\ \A b \in BlockOn : <<b>> \in Entries
                     /\ \A e \in Entries : e # <<>> => e[1] \in BlockOn
<1>1. <<>> \in Seq(BlockOn) /\ Len(<<>>) = 0
  OBVIOUS
<1>2. ASSUME NEW b \in BlockOn PROVE <<b>> \in Seq(BlockOn) /\ Len(<<b>>) = 1
  OBVIOUS
<1>3. ASSUME NEW e \in Entries, e # <<>> PROVE e[1] \in BlockOn
  BY <1>3 DEF Entries
<1> QED
  BY <1>1, <1>2, <1>3 DEF Entries

LEMMA RequestType ==
    ASSUME NEW m \in Request
    PROVE  /\ m.type \in {"vote", "append"} /\ m.from \in Node /\ m.term \in Nat
           /\ m.type = "vote" => m \in VoteRequest
           /\ m.type = "append" => m \in AppendRequest
  BY DEF Request, VoteRequest, AppendRequest

\* What a delivered request does to the term and the state.
LEMMA SeeTermType ==
    ASSUME TypeOK, NEW n \in Node, NEW m \in Request, SeeTerm(n, m)
    PROVE  /\ currentTerm' \in [Node -> Nat]
           /\ state' \in [Node -> {"Follower", "Candidate", "Leader"}]
           /\ VotedFor(n, m) \in Node \cup {None}
  BY RequestType DEF TypeOK, SeeTerm, VotedFor

\* TypeOK needs Begun: an empty chain has no height, and the block of a proposal
\* is taken for granted by the steps that send it.
LEMMA TypeStep == TInv /\ [Next]_vars => TInv'
<1> SUFFICES ASSUME TInv, [Next]_vars PROVE TInv'
  OBVIOUS
<1> USE DEF TInv
<1>1. ASSUME NEW n \in Node, StartElection(n) PROVE TInv'
  <2> DEFINE m == [type |-> "vote", from |-> n,
                   term |-> currentTerm[n] + 1, last |-> Height(chain[n])]
  <2>1. currentTerm[n] + 1 \in Nat /\ Height(chain[n]) \in Nat
    BY HeightType DEF TypeOK, Begun
  <2>2. m \in Request
    BY <2>1 DEF Request, VoteRequest
  <2>3. requests' \subseteq requests \cup {m}
    BY <1>1 DEF StartElection
  <2> HIDE DEF m
  <2>4. requests' \subseteq Request
    BY <2>2, <2>3 DEF TypeOK
  <2>5. UNCHANGED <<leader, armed, chain, proposal, acked, calls>>
    BY <1>1 DEF StartElection, proposalVars
  <2>6. /\ state' \in [Node -> {"Follower", "Candidate", "Leader"}]
        /\ currentTerm' \in [Node -> Nat]
        /\ votedFor' \in [Node -> Node \cup {None}]
        /\ campaign' \in [Node -> [votes : Nat, replies : Nat]]
    BY <1>1, <2>1 DEF StartElection, TypeOK
  <2> QED
    BY <2>4, <2>5, <2>6 DEF TypeOK, Begun
<1>2. ASSUME NEW n \in Node, NEW granted \in BOOLEAN, CountVote(n, granted) PROVE TInv'
  <2>1. UNCHANGED <<currentTerm, votedFor, chain, proposal, acked, calls, requests>>
    BY <1>2 DEF CountVote, proposalVars
  <2>2. BecomeLeader(n) \/ UNCHANGED <<state, leader, armed>>
    BY <1>2 DEF CountVote
  <2>3. /\ state' \in [Node -> {"Follower", "Candidate", "Leader"}]
        /\ leader' \in [Node -> Node \cup {None}]
    <3>1. \/ /\ state' = [state EXCEPT ![n] = "Leader"]
             /\ leader' = [leader EXCEPT ![n] = n]
          \/ state' = state /\ leader' = leader
      BY <2>2, Zenon DEF BecomeLeader
    <3>2. /\ state \in [Node -> {"Follower", "Candidate", "Leader"}]
          /\ leader \in [Node -> Node \cup {None}]
      BY DEF TypeOK
    <3> QED
      BY <3>1, <3>2
  <2>4. armed' \in [Node -> BOOLEAN]
    <3>1. ASSUME NEW b \in BOOLEAN PROVE [armed EXCEPT ![n] = b] \in [Node -> BOOLEAN]
      BY DEF TypeOK
    <3>2. \A expired \in BOOLEAN : (expired /\ armed[n]) \in BOOLEAN
      OBVIOUS
    <3> QED
      BY <2>2, <3>1, <3>2, Zenon DEF BecomeLeader, TypeOK
  <2>5. campaign' \in [Node -> [votes : Nat, replies : Nat]]
    <3> DEFINE votes == campaign[n].votes + (IF granted THEN 1 ELSE 0)
    <3>1. votes \in Nat /\ campaign[n].replies + 1 \in Nat
      BY DEF TypeOK
    <3>2. \/ campaign' = [campaign EXCEPT ![n] = NoCampaign]
          \/ campaign' = [campaign EXCEPT ![n] =
                 [votes |-> votes, replies |-> campaign[n].replies + 1]]
      BY <1>2 DEF CountVote
    <3>3. /\ NoCampaign \in [votes : Nat, replies : Nat]
          /\ [votes |-> votes, replies |-> campaign[n].replies + 1] \in [votes : Nat, replies : Nat]
      BY <3>1 DEF NoCampaign
    <3>4. ASSUME NEW r \in [votes : Nat, replies : Nat]
          PROVE  [campaign EXCEPT ![n] = r] \in [Node -> [votes : Nat, replies : Nat]]
      BY DEF TypeOK
    <3> HIDE DEF votes
    <3> QED
      BY <3>2, <3>3, <3>4, Zenon
  <2> QED
    BY <2>1, <2>3, <2>4, <2>5 DEF TypeOK, Begun
<1>3. ASSUME NEW n \in Node, EndElection(n) PROVE TInv'
  BY <1>3 DEF EndElection, NoCampaign, electionVars, proposalVars, TypeOK, Begun
<1>4. ASSUME NEW n \in Node, SendHeartbeats(n) PROVE TInv'
  <2>1. calls' \subseteq Call
    BY <1>4, NewCallType, EntriesType, RaftAssumption DEF SendHeartbeats, TypeOK
  <2> QED
    BY <1>4, <2>1 DEF SendHeartbeats, electionVars, proposalVars, TypeOK, Begun
<1>5. ASSUME NEW c \in calls, ReadTerm(c) PROVE TInv'
  <2>1. [c EXCEPT !.term = currentTerm[c.from]] \in Call
    BY DEF Call, TypeOK
  <2> QED
    BY <1>5, <2>1 DEF ReadTerm, electionVars, proposalVars, TypeOK, Begun
<1>6. ASSUME NEW c \in calls, SendRequest(c) PROVE TInv'
  <2> DEFINE m == [type |-> "append", from |-> c.from, to |-> c.to, term |-> c.term,
                   prevLogIndex |-> Height(chain[c.from]), entries |-> c.entries]
  <2>1. c \in Call /\ c.term # None
    BY <1>6 DEF SendRequest, TypeOK
  <2>2. Height(chain[c.from]) \in Nat
    BY <2>1, HeightType DEF Call, TypeOK, Begun
  <2>3. m \in Request
    BY <2>1, <2>2 DEF Call, Request, AppendRequest
  <2> QED
    BY <1>6, <2>3 DEF SendRequest, electionVars, proposalVars, TypeOK, Begun
<1>7. ASSUME NEW n \in Node, ProposeBlock(n) PROVE TInv'
  <2> DEFINE b == [prev |-> chain[n], by |-> n]
  <2>1. b \in BlockOn
    BY DEF BlockOn, TypeOK
  <2>2. <<b>> \in Entries /\ <<b>> # <<>>
    BY <2>1, EntriesType
  <2>3. proposal' = [proposal EXCEPT ![n] = [pc |-> "add", block |-> <<b>>, todo |-> {}]]
    BY <1>7 DEF ProposeBlock
  <2> HIDE DEF b
  <2>4. /\ proposal' \in [Node -> [pc : {"idle", "add", "send"}, block : Entries, todo : SUBSET Node]]
        /\ \A k \in Node : proposal'[k].pc # "idle" => proposal'[k].block # <<>>
    BY <2>2, <2>3 DEF TypeOK, Begun
  <2> QED
    BY <1>7, <2>4 DEF ProposeBlock, electionVars, TypeOK, Begun
<1>8. ASSUME NEW n \in Node, ProposeAdd(n) PROVE TInv'
  <2> DEFINE b == proposal[n].block[1]
  <2>1. proposal[n].block # <<>> /\ proposal[n].block \in Entries /\ b \in BlockOn
    BY <1>8, EntriesType DEF ProposeAdd, TypeOK, Begun
  <2>2. chain' = [chain EXCEPT ![n] = AddBlock(chain[n], b)]
    BY <1>8 DEF ProposeAdd
  <2>3. AddBlock(chain[n], b) \in Chain /\ AddBlock(chain[n], b) # <<>>
    BY <2>1, AddBlockType DEF TypeOK, Begun
  <2> HIDE DEF b
  <2>4. chain' \in [Node -> Chain] /\ \A k \in Node : chain'[k] # <<>>
    BY <2>2, <2>3 DEF TypeOK, Begun
  <2>5. proposal' \in [Node -> [pc : {"idle", "add", "send"}, block : Entries, todo : SUBSET Node]]
    BY <1>8, EntriesType, RaftAssumption DEF ProposeAdd, NoProposal, TypeOK
  <2>6. \A k \in Node : proposal'[k].pc # "idle" => proposal'[k].block # <<>>
    BY <1>8, <2>1 DEF ProposeAdd, NoProposal, TypeOK, Begun
  <2> QED
    BY <1>8, <2>4, <2>5, <2>6 DEF ProposeAdd, electionVars, TypeOK, Begun
<1>9. ASSUME NEW n \in Node, ProposeSend(n) PROVE TInv'
  <2>1. PICK p \in proposal[n].todo :
           /\ calls' = calls \cup {NewCall(n, p, proposal[n].block)}
           /\ proposal' = [proposal EXCEPT ![n].todo = @ \ {p}]
    BY <1>9 DEF ProposeSend
  <2>2. NewCall(n, p, proposal[n].block) \in Call
    BY NewCallType DEF TypeOK
  <2> DEFINE r == [proposal[n] EXCEPT !.todo = @ \ {p}]
  <2>3. /\ r \in [pc : {"idle", "add", "send"}, block : Entries, todo : SUBSET Node]
        /\ r.pc = proposal[n].pc /\ r.block = proposal[n].block
    BY DEF TypeOK
  <2>4. proposal' = [proposal EXCEPT ![n] = r]
    BY <2>1 DEF TypeOK
  <2> HIDE DEF r
  <2>5. /\ proposal' \in [Node -> [pc : {"idle", "add", "send"}, block : Entries, todo : SUBSET Node]]
        /\ \A k \in Node : proposal'[k].pc # "idle" => proposal'[k].block # <<>>
    BY <2>3, <2>4 DEF TypeOK, Begun
  <2>6. calls' \subseteq Call
    BY <2>1, <2>2 DEF TypeOK
  <2> QED
    BY <1>9, <2>5, <2>6 DEF ProposeSend, electionVars, TypeOK, Begun
<1>10. ASSUME NEW n \in Node, ProposeReturn(n) PROVE TInv'
  <2>1. proposal[n].block[1] \in BlockOn
    BY <1>10, EntriesType DEF ProposeReturn, TypeOK, Begun
  <2>2. acked' \subseteq BlockOn
    BY <1>10, <2>1 DEF ProposeReturn, TypeOK
  <2> QED
    BY <1>10, <2>2, EntriesType DEF ProposeReturn, NoProposal, electionVars, TypeOK, Begun
<1>11. ASSUME NEW n \in Node, NEW m \in requests, HandleRequestVote(n, m) PROVE TInv'
  <2>1. m \in Request /\ SeeTerm(n, m)
    BY <1>11 DEF HandleRequestVote, TypeOK
  <2>2. votedFor' \in [Node -> Node \cup {None}]
    BY <1>11, <2>1, SeeTermType, RequestType DEF HandleRequestVote, TypeOK
  <2> QED
    BY <1>11, <2>1, <2>2, SeeTermType DEF HandleRequestVote, proposalVars, TypeOK, Begun
<1>12. ASSUME NEW n \in Node, NEW m \in requests, HandleAppendEntries(n, m) PROVE TInv'
  <2>1. m \in Request /\ SeeTerm(n, m) /\ m.type = "append"
    BY <1>12 DEF HandleAppendEntries, TypeOK
  <2>2. /\ votedFor' \in [Node -> Node \cup {None}]
        /\ leader' \in [Node -> Node \cup {None}]
        /\ armed' \in [Node -> BOOLEAN]
    BY <1>12, <2>1, SeeTermType, RequestType DEF HandleAppendEntries, TypeOK
  <2>3. chain' \in [Node -> Chain] /\ \A k \in Node : chain'[k] # <<>>
    <3>1. CASE Fits(n, m) /\ m.entries # <<>>
      <4>1. m.entries[1] \in BlockOn
        BY <2>1, <3>1, RequestType, EntriesType DEF AppendRequest
      <4>2. AddBlock(chain[n], m.entries[1]) \in Chain /\ AddBlock(chain[n], m.entries[1]) # <<>>
        BY <4>1, AddBlockType DEF TypeOK, Begun
      <4>3. chain' = [chain EXCEPT ![n] = AddBlock(chain[n], m.entries[1])]
        BY <1>12, <3>1 DEF HandleAppendEntries
      <4> QED
        BY <4>2, <4>3 DEF TypeOK, Begun
    <3>2. CASE ~(Fits(n, m) /\ m.entries # <<>>)
      BY <1>12, <3>2 DEF HandleAppendEntries, TypeOK, Begun
    <3> QED
      BY <3>1, <3>2
  <2> QED
    BY <1>12, <2>1, <2>2, <2>3, SeeTermType DEF HandleAppendEntries, proposalVars, TypeOK, Begun
<1>13. CASE UNCHANGED vars
  BY <1>13 DEF vars, electionVars, proposalVars, TypeOK, Begun
<1> QED
  BY <1>1, <1>2, <1>3, <1>4, <1>5, <1>6, <1>7, <1>8, <1>9, <1>10, <1>11, <1>12, <1>13
  DEF Next

LEMMA TypeInit == Init => TInv
<1> SUFFICES ASSUME Init PROVE TInv
  OBVIOUS
<1>1. /\ chain \in [Node -> Chain] /\ \A n \in Node : chain[n] # <<>>
      /\ proposal \in [Node -> [pc : {"idle", "add", "send"}, block : Entries, todo : SUBSET Node]]
  BY RaftAssumption, EntriesType DEF Init, Chain, NoProposal
<1> QED
  BY <1>1 DEF Init, TInv, TypeOK, Begun, NoCampaign, NoProposal

\* What RaftConsensus keeps has the types of its fields, and every request
\* names a term and a log position.
THEOREM TypeCorrect == Spec => []TypeOK
<1>1. Spec => []TInv
  BY TypeInit, TypeStep, PTL DEF Spec
<1> QED
  BY <1>1, PTL DEF TInv

----------------------------------------------------------------------------
(* Terms and votes *)

\* The actions that change neither terms nor votes nor states.
LEMMA TermsKept ==
    ASSUME \/ \E n \in Node : \/ EndElection(n) \/ SendHeartbeats(n) \/ ProposeBlock(n)
                              \/ ProposeAdd(n) \/ ProposeSend(n) \/ ProposeReturn(n)
           \/ \E c \in calls : ReadTerm(c) \/ SendRequest(c)
           \/ UNCHANGED vars
    PROVE  UNCHANGED <<state, currentTerm, votedFor, leader>>
  BY DEF EndElection, SendHeartbeats, ProposeBlock, ProposeAdd, ProposeSend, ProposeReturn,
         ReadTerm, SendRequest, vars, electionVars

\* A step that changes terms, votes or states is one of four.
LEMMA ElectionCases ==
    ASSUME [Next]_vars
    PROVE  \/ \E n \in Node : StartElection(n)
           \/ \E n \in Node, granted \in BOOLEAN : CountVote(n, granted)
           \/ \E n \in Node, m \in requests : HandleRequestVote(n, m)
           \/ \E n \in Node, m \in requests : HandleAppendEntries(n, m)
           \/ UNCHANGED <<state, currentTerm, votedFor, leader>>
  BY TermsKept DEF Next

\* The effect of a delivered request on the term, the state and the vote: a new
\* term, or the old one with a vote given where there was none.
Overtakes(n, m) ==
    /\ m.term > currentTerm[n]
    /\ state' = [state EXCEPT ![n] = "Follower"]
    /\ \/ votedFor' = [votedFor EXCEPT ![n] = None]
       \/ m.type = "vote" /\ votedFor' = [votedFor EXCEPT ![n] = m.from]
KeepsUp(n, m) ==
    /\ m.term = currentTerm[n]
    /\ state' = state
    /\ \/ votedFor' = votedFor
       \/ /\ m.type = "vote" /\ votedFor[n] \in {None, m.from}
          /\ votedFor' = [votedFor EXCEPT ![n] = m.from]

LEMMA HandlerEffect ==
    ASSUME TypeOK, NEW n \in Node, NEW m \in requests,
           HandleRequestVote(n, m) \/ HandleAppendEntries(n, m)
    PROVE  /\ m.term \in Nat /\ m.from \in Node
           /\ currentTerm' = [currentTerm EXCEPT ![n] = m.term]
           /\ Overtakes(n, m) \/ KeepsUp(n, m)
<1>1. m \in Request /\ m.term \in Nat /\ m.from \in Node
  BY RequestType DEF TypeOK
<1>2. SeeTerm(n, m)
  BY DEF HandleRequestVote, HandleAppendEntries
<1>3. /\ m.term >= currentTerm[n] /\ currentTerm[n] \in Nat
      /\ currentTerm' = [currentTerm EXCEPT ![n] = m.term]
  BY <1>2 DEF SeeTerm, TypeOK
<1>4. \/ votedFor' = [votedFor EXCEPT ![n] = VotedFor(n, m)]
      \/ /\ m.type = "vote" /\ VotedFor(n, m) \in {None, m.from}
         /\ votedFor' = [votedFor EXCEPT ![n] = m.from]
  BY DEF HandleRequestVote, HandleAppendEntries, Grants
<1>5. CASE m.term > currentTerm[n]
  <2>1. VotedFor(n, m) = None /\ state' = [state EXCEPT ![n] = "Follower"]
    BY <1>2, <1>5 DEF SeeTerm, VotedFor, StepsDown
  <2> QED
    BY <1>1, <1>3, <1>4, <1>5, <2>1 DEF Overtakes
<1>6. CASE ~(m.term > currentTerm[n])
  <2>1. VotedFor(n, m) = votedFor[n] /\ state' = [state EXCEPT ![n] = state[n]]
    BY <1>2, <1>6 DEF SeeTerm, VotedFor, StepsDown
  <2>2. state' = state /\ [votedFor EXCEPT ![n] = votedFor[n]] = votedFor
    BY <2>1 DEF TypeOK
  <2>3. m.term = currentTerm[n]
    BY <1>1, <1>3, <1>6
  <2> QED
    BY <1>1, <1>3, <1>4, <2>1, <2>2, <2>3 DEF KeepsUp
<1> QED
  BY <1>5, <1>6

\* However requests arrive, no node's term goes back, and the vote of a term
\* is not given again.
THEOREM VoteOncePerTerm == Spec => VotesAreFinal
<1>1. ASSUME TInv, [Next]_vars, NEW n \in Node
      PROVE  \/ currentTerm'[n] > currentTerm[n]
             \/ /\ currentTerm'[n] = currentTerm[n]
                /\ votedFor[n] # None => votedFor'[n] = votedFor[n]
  <2>1. currentTerm[n] \in Nat
    BY <1>1 DEF TInv, TypeOK
  <2>2. ASSUME NEW k \in Node, StartElection(k)
        PROVE  /\ currentTerm'[n] = IF n = k THEN currentTerm[n] + 1 ELSE currentTerm[n]
               /\ n # k => votedFor'[n] = votedFor[n]
    BY <1>1, <2>2 DEF StartElection, TInv, TypeOK
  <2>3. ASSUME NEW k \in Node, NEW granted \in BOOLEAN, CountVote(k, granted)
        PROVE  UNCHANGED <<currentTerm, votedFor>>
    BY <2>3 DEF CountVote
  <2>4. ASSUME NEW k \in Node, NEW m \in requests,
               HandleRequestVote(k, m) \/ HandleAppendEntries(k, m)
        PROVE  \/ currentTerm'[n] > currentTerm[n]
               \/ /\ currentTerm'[n] = currentTerm[n]
                  /\ votedFor[n] # None => votedFor'[n] = votedFor[n]
    <3>1. /\ m.term \in Nat /\ m.from \in Node
          /\ currentTerm' = [currentTerm EXCEPT ![k] = m.term]
          /\ Overtakes(k, m) \/ KeepsUp(k, m)
      BY <1>1, <2>4, HandlerEffect DEF TInv
    <3>2. CASE n # k
      BY <1>1, <3>1, <3>2 DEF Overtakes, KeepsUp, TInv, TypeOK
    <3>3. CASE n = k /\ Overtakes(k, m)
      BY <1>1, <3>1, <3>3 DEF Overtakes, TInv, TypeOK
    <3>4. CASE n = k /\ KeepsUp(k, m)
      BY <1>1, <3>1, <3>4 DEF KeepsUp, TInv, TypeOK
    <3> QED
      BY <3>1, <3>2, <3>3, <3>4
  <2> QED
    BY <1>1, <2>1, <2>2, <2>3, <2>4, ElectionCases
<1>2. TInv /\ [Next]_vars =>
        [\A n \in Node :
          \/ currentTerm'[n] > currentTerm[n]
          \/ /\ currentTerm'[n] = currentTerm[n]
             /\ votedFor[n] # None => votedFor'[n] = votedFor[n]]_vars
  BY <1>1
<1> QED
  BY <1>2, TypeInit, TypeStep, PTL DEF Spec, VotesAreFinal

\* Who still is a candidate never gave its vote away.
THEOREM CandidatesVote == Spec => []CandidateVotedForItself
<1>1. Init => CandidateVotedForItself
  BY DEF Init, CandidateVotedForItself
<1>2. ASSUME TInv, CandidateVotedForItself, [Next]_vars PROVE CandidateVotedForItself'
  <2> SUFFICES ASSUME NEW n \in Node, state'[n] = "Candidate" PROVE votedFor'[n] = n
    BY DEF CandidateVotedForItself
  <2>1. state[n] = "Candidate" => votedFor[n] = n /\ n # None
    BY <1>2, RaftAssumption DEF CandidateVotedForItself
  <2>2. CASE \E k \in Node : StartElection(k)
    BY <1>2, <2>1, <2>2 DEF StartElection, TInv, TypeOK
  <2>3. CASE \E k \in Node, granted \in BOOLEAN : CountVote(k, granted)
    BY <1>2, <2>1, <2>3 DEF CountVote, BecomeLeader, TInv, TypeOK
  <2>4. ASSUME NEW k \in Node, NEW m \in requests,
               HandleRequestVote(k, m) \/ HandleAppendEntries(k, m)
        PROVE  votedFor'[n] = n
    <3>1. Overtakes(k, m) \/ KeepsUp(k, m)
      BY <1>2, <2>4, HandlerEffect DEF TInv
    <3>2. CASE Overtakes(k, m)
      BY <1>2, <2>1, <3>2 DEF Overtakes, TInv, TypeOK
    <3>3. CASE KeepsUp(k, m)
      BY <1>2, <2>1, <3>3 DEF KeepsUp, TInv, TypeOK
    <3> QED
      BY <3>1, <3>2, <3>3
  <2>5. CASE UNCHANGED <<state, currentTerm, votedFor, leader>>
    BY <2>1, <2>5
  <2> QED
    BY <1>2, <2>2, <2>3, <2>4, <2>5, ElectionCases
<1> QED
  BY <1>1, <1>2, TypeInit, TypeStep, PTL DEF Spec

\* Requests are never withdrawn.
LEMMA RequestsStay == [Next]_vars => requests \subseteq requests'
  BY DEF Next, StartElection, CountVote, EndElection, SendHeartbeats, ReadTerm, SendRequest,
         ProposeBlock, ProposeAdd, ProposeSend, ProposeReturn, HandleRequestVote,
         HandleAppendEntries, vars, electionVars, proposalVars

\* A vote answers a request of the voter's term.
THEOREM VotesAnswer == Spec => []VotesAnswerRequests
<1>1. Init => VotesAnswerRequests
  BY DEF Init, VotesAnswerRequests
<1>2. ASSUME TInv, VotesAnswerRequests, [Next]_vars PROVE VotesAnswerRequests'
  <2> SUFFICES ASSUME NEW n \in Node, votedFor'[n] \notin {None, n}
               PROVE  \E m \in requests' : /\ m.type = "vote" /\ m.from = votedFor'[n]
                                           /\ m.term = currentTerm'[n]
    BY DEF VotesAnswerRequests
  <2>1. CASE votedFor'[n] = votedFor[n] /\ currentTerm'[n] = currentTerm[n]
    BY <1>2, <2>1, RequestsStay DEF VotesAnswerRequests
  <2>2. ASSUME NEW k \in Node, StartElection(k)
        PROVE  votedFor'[n] = votedFor[n] /\ currentTerm'[n] = currentTerm[n]
    BY <1>2, <2>2 DEF StartElection, TInv, TypeOK
  <2>3. ASSUME NEW k \in Node, NEW granted \in BOOLEAN, CountVote(k, granted)
        PROVE  votedFor'[n] = votedFor[n] /\ currentTerm'[n] = currentTerm[n]
    BY <2>3 DEF CountVote
  <2>4. ASSUME NEW k \in Node, NEW m \in requests,
               HandleRequestVote(k, m) \/ HandleAppendEntries(k, m)
        PROVE  \/ votedFor'[n] = votedFor[n] /\ currentTerm'[n] = currentTerm[n]
               \/ m.type = "vote" /\ m.from = votedFor'[n] /\ m.term = currentTerm'[n]
    BY <1>2, <2>4, HandlerEffect DEF Overtakes, KeepsUp, TInv, TypeOK
  <2>5. CASE \E k \in Node, m \in requests : HandleRequestVote(k, m) \/ HandleAppendEntries(k, m)
    BY <1>2, <2>1, <2>4, <2>5, RequestsStay
  <2>6. CASE UNCHANGED <<state, currentTerm, votedFor, leader>>
    BY <2>1, <2>6
  <2> QED
    BY <1>2, <2>1, <2>2, <2>3, <2>5, <2>6, ElectionCases
<1> QED
  BY <1>1, <1>2, TypeInit, TypeStep, PTL DEF Spec

----------------------------------------------------------------------------
(* The log *)

\* No block gets from one chain to another, against what the leader is for:
\* sendAppendEntries names the block it carries as the one before it.
OnlyOwnBlocks ==
    \A n \in Node : \A i \in 2 .. Len(chain[n]) : chain[n][i] = n

\* What an entry under way says of its sender's chain: it is on it already.
\* The position its request names comes at or after the entry's own.
Behind(e, len) == e # <<>> => Len(e[1].prev) < len
OwnInv ==
    /\ OnlyOwnBlocks
    /\ \A n \in Node : proposal[n].pc = "add" => proposal[n].block[1].by = n
    /\ \A n \in Node : proposal[n].pc = "send" => Behind(proposal[n].block, Len(chain[n]))
    /\ \A c \in calls : Behind(c.entries, Len(chain[c.from]))
    /\ \A m \in requests : m.type = "append" => Behind(m.entries, m.prevLogIndex + 1)

\* No log takes an entry: a chain that ends where the request says it does is
\* longer than the one the entry extends.
LEMMA NothingFits ==
    ASSUME TInv, OwnInv, NEW n \in Node, NEW m \in requests, HandleAppendEntries(n, m)
    PROVE  chain' = chain
<1>1. m.type = "append" /\ m \in AppendRequest
  BY RequestType DEF HandleAppendEntries, TInv, TypeOK
<1>2. CASE Fits(n, m) /\ m.entries # <<>>
  <2>1. m.entries[1] \in BlockOn
    BY <1>1, <1>2, EntriesType DEF AppendRequest
  <2>2. Len(m.entries[1].prev) < m.prevLogIndex + 1
    BY <1>1, <1>2 DEF OwnInv, Behind
  <2>3. m.prevLogIndex = Len(chain[n]) - 1 /\ Len(chain[n]) \in Nat
    BY <1>2 DEF Fits, Height, TInv, TypeOK, Chain
  <2>4. m.entries[1].prev # chain[n]
    BY <2>1, <2>2, <2>3 DEF BlockOn, Chain
  <2>5. chain' = [chain EXCEPT ![n] = AddBlock(chain[n], m.entries[1])]
    BY <1>2 DEF HandleAppendEntries
  <2> QED
    BY <2>4, <2>5 DEF AddBlock, TInv, TypeOK
<1>3. CASE ~(Fits(n, m) /\ m.entries # <<>>)
  BY <1>3 DEF HandleAppendEntries
<1> QED
  BY <1>2, <1>3

\* The one step that changes a chain.
LEMMA ProposeAddStep ==
    ASSUME TInv, OwnInv, NEW n \in Node, ProposeAdd(n)
    PROVE  \/ chain' = chain /\ proposal' = [proposal EXCEPT ![n] = NoProposal]
           \/ /\ chain' = [chain EXCEPT ![n] = Append(chain[n], n)]
              /\ proposal[n].block[1].prev = chain[n]
              /\ proposal' = [proposal EXCEPT ![n] =
                    [proposal[n] EXCEPT !.pc = "send", !.todo = Peers[n]]]
<1> DEFINE b == proposal[n].block[1]
<1>1. b \in BlockOn /\ b.by = n
  BY EntriesType DEF ProposeAdd, OwnInv, TInv, TypeOK, Begun
<1>2. /\ chain' = [chain EXCEPT ![n] = AddBlock(chain[n], b)]
      /\ proposal' = [proposal EXCEPT ![n] =
                IF chain'[n] = chain[n] THEN NoProposal
                ELSE [proposal[n] EXCEPT !.pc = "send", !.todo = Peers[n]]]
  BY DEF ProposeAdd
<1> HIDE DEF b
<1>3. CASE b.prev = chain[n]
  <2>1. chain' = [chain EXCEPT ![n] = Append(chain[n], n)]
    BY <1>1, <1>2, <1>3 DEF AddBlock
  <2>2. chain[n] \in Seq(Node)
    BY DEF TInv, TypeOK, Chain
  <2>3. Len(Append(chain[n], n)) = Len(chain[n]) + 1 /\ Len(chain[n]) \in Nat
    BY <2>2
  <2>4. chain'[n] # chain[n]
    BY <2>1, <2>3 DEF TInv, TypeOK
  <2> QED
    BY <1>2, <1>3, <2>1, <2>4 DEF b
<1>4. CASE b.prev # chain[n]
  <2>1. chain' = chain
    BY <1>2, <1>4 DEF AddBlock, TInv, TypeOK
  <2> QED
    BY <1>2, <2>1
<1> QED
  BY <1>3, <1>4

\* Chains only grow, at their end.
LEMMA ChainsGrow ==
    ASSUME TInv, OwnInv, [Next]_vars
    PROVE  \A n \in Node : Grows(n)
<1>1. \A n \in Node : chain[n] \in Seq(Node) /\ Len(chain[n]) \in Nat
  BY DEF TInv, TypeOK, Chain
<1>2. CASE chain' = chain
  BY <1>1, <1>2 DEF Grows
<1>3. ASSUME NEW k \in Node, ProposeAdd(k) PROVE \A n \in Node : Grows(n)
  <2>1. CASE chain' = [chain EXCEPT ![k] = Append(chain[k], k)]
    BY <1>1, <2>1 DEF TInv, TypeOK, Grows
  <2> QED
    BY <1>2, <1>3, <2>1, ProposeAddStep
<1>4. ASSUME ~ \E k \in Node : ProposeAdd(k) PROVE chain' = chain
  <2>1. CASE \E k \in Node, m \in requests : HandleAppendEntries(k, m)
    BY <2>1, NothingFits
  <2>2. CASE ~ \E k \in Node, m \in requests : HandleAppendEntries(k, m)
    BY <1>4, <2>2 DEF Next, StartElection, CountVote, EndElection, SendHeartbeats, ReadTerm,
         SendRequest, ProposeBlock, ProposeSend, ProposeReturn, HandleRequestVote, vars
  <2> QED
    BY <2>1, <2>2
<1> QED
  BY <1>2, <1>3, <1>4

LEMMA LengthsGrow ==
    ASSUME TInv, OwnInv, [Next]_vars
    PROVE  \A n \in Node : /\ Len(chain[n]) \in Nat /\ Len(chain'[n]) \in Nat
                          /\ Len(chain[n]) <= Len(chain'[n])
<1> SUFFICES ASSUME NEW n \in Node
             PROVE  /\ Len(chain[n]) \in Nat /\ Len(chain'[n]) \in Nat
                    /\ Len(chain[n]) <= Len(chain'[n])
  OBVIOUS
<1>1. chain[n] \in Seq(Node)
  BY DEF TInv, TypeOK, Chain
<1>2. chain'[n] \in Seq(Node)
  BY TypeStep DEF TInv, TypeOK, Chain
<1>3. Len(chain'[n]) >= Len(chain[n])
  BY ChainsGrow DEF Grows
<1> QED
  BY <1>1, <1>2, <1>3

\* A step that adds neither a proposal, nor a call, nor a request keeps OwnInv.
LEMMA OwnKept ==
    ASSUME TInv, OwnInv, UNCHANGED <<chain, proposal>>, calls' \subseteq calls,
           \A m \in requests' : m.type = "append" => m \in requests
    PROVE  OwnInv'
  BY DEF OwnInv, OnlyOwnBlocks, Behind

LEMMA BehindMore ==
    ASSUME NEW e \in Entries, NEW i \in Nat, NEW j \in Nat, i <= j, Behind(e, i)
    PROVE  Behind(e, j)
<1> SUFFICES ASSUME e # <<>> PROVE Len(e[1].prev) < j
  BY DEF Behind
<1>1. Len(e[1].prev) \in Nat
  BY EntriesType DEF BlockOn, Chain
<1> QED
  BY <1>1 DEF Behind

LEMMA OwnStep == TInv /\ OwnInv /\ [Next]_vars => OwnInv'
<1> SUFFICES ASSUME TInv, OwnInv, [Next]_vars PROVE OwnInv'
  OBVIOUS
<1>0. \A n \in Node : chain[n] \in Seq(Node) /\ Len(chain[n]) \in Nat
  BY DEF TInv, TypeOK, Chain
<1>1. ASSUME NEW n \in Node, StartElection(n) PROVE OwnInv'
  <2>1. \A m \in requests' : m.type = "append" => m \in requests
    BY <1>1 DEF StartElection
  <2> QED
    BY <1>1, <2>1, OwnKept DEF StartElection, proposalVars
<1>2. ASSUME NEW n \in Node, NEW granted \in BOOLEAN, CountVote(n, granted) PROVE OwnInv'
  BY <1>2, OwnKept DEF CountVote, proposalVars
<1>3. ASSUME NEW n \in Node, EndElection(n) PROVE OwnInv'
  BY <1>3, OwnKept DEF EndElection, proposalVars
<1>4. ASSUME NEW n \in Node, SendHeartbeats(n) PROVE OwnInv'
  <2>1. UNCHANGED <<chain, proposal, requests>>
    BY <1>4 DEF SendHeartbeats, proposalVars
  <2>2. \A c \in calls' : c \in calls \/ c.entries = <<>>
    BY <1>4 DEF SendHeartbeats, NewCall
  <2> QED
    BY <2>1, <2>2 DEF OwnInv, OnlyOwnBlocks, Behind
<1>5. ASSUME NEW c \in calls, ReadTerm(c) PROVE OwnInv'
  <2>1. UNCHANGED <<chain, proposal, requests>>
    BY <1>5 DEF ReadTerm, proposalVars
  <2>2. /\ [c EXCEPT !.term = currentTerm[c.from]].entries = c.entries
        /\ [c EXCEPT !.term = currentTerm[c.from]].from = c.from
    BY DEF TInv, TypeOK, Call
  <2>3. \A d \in calls' : \E o \in calls : d.entries = o.entries /\ d.from = o.from
    BY <1>5, <2>2 DEF ReadTerm
  <2>4. \A d \in calls' : Behind(d.entries, Len(chain[d.from]))
    BY <2>3 DEF OwnInv
  <2> QED
    BY <2>1, <2>4 DEF OwnInv, OnlyOwnBlocks
<1>6. ASSUME NEW c \in calls, SendRequest(c) PROVE OwnInv'
  <2> DEFINE r == [type |-> "append", from |-> c.from, to |-> c.to, term |-> c.term,
                   prevLogIndex |-> Height(chain[c.from]), entries |-> c.entries]
  <2>1. /\ UNCHANGED <<chain, proposal>> /\ calls' \subseteq calls
        /\ requests' = requests \cup {r}
    BY <1>6 DEF SendRequest, proposalVars
  <2>2. c.from \in Node /\ r.prevLogIndex + 1 = Len(chain[c.from]) /\ r.entries = c.entries
    BY <1>0 DEF TInv, TypeOK, Call, Height
  <2>3. Behind(r.entries, r.prevLogIndex + 1)
    BY <2>2 DEF OwnInv
  <2> HIDE DEF r
  <2> QED
    BY <2>1, <2>3 DEF OwnInv, OnlyOwnBlocks
<1>7. ASSUME NEW n \in Node, ProposeBlock(n) PROVE OwnInv'
  <2> DEFINE b == [prev |-> chain[n], by |-> n]
  <2>1. /\ UNCHANGED <<chain, calls, requests>>
        /\ proposal' = [proposal EXCEPT ![n] = [pc |-> "add", block |-> <<b>>, todo |-> {}]]
    BY <1>7 DEF ProposeBlock
  <2>2. <<b>>[1].by = n
    OBVIOUS
  <2> HIDE DEF b
  <2> QED
    BY <2>1, <2>2 DEF OwnInv, OnlyOwnBlocks, TInv, TypeOK
<1>8. ASSUME NEW n \in Node, ProposeAdd(n) PROVE OwnInv'
  <2>1. UNCHANGED <<calls, requests>>
    BY <1>8 DEF ProposeAdd
  <2>2. \A c \in calls : c.entries \in Entries /\ c.from \in Node
    BY DEF TInv, TypeOK, Call
  <2>3. \A k \in Node : Len(chain'[k]) \in Nat /\ Len(chain'[k]) >= Len(chain[k])
    BY LengthsGrow
  <2>4. \A c \in calls' : Behind(c.entries, Len(chain'[c.from]))
    BY <1>0, <2>1, <2>2, <2>3, BehindMore DEF OwnInv
  <2>5. CASE chain' = chain /\ proposal' = [proposal EXCEPT ![n] = NoProposal]
    BY <2>1, <2>5 DEF OwnInv, OnlyOwnBlocks, NoProposal, TInv, TypeOK
  <2>6. CASE /\ chain' = [chain EXCEPT ![n] = Append(chain[n], n)]
             /\ proposal[n].block[1].prev = chain[n]
             /\ proposal' = [proposal EXCEPT ![n] =
                    [proposal[n] EXCEPT !.pc = "send", !.todo = Peers[n]]]
    <3>1. /\ chain'[n] = Append(chain[n], n) /\ Len(chain'[n]) = Len(chain[n]) + 1
          /\ \A k \in Node \ {n} : chain'[k] = chain[k]
      BY <1>0, <2>6 DEF TInv, TypeOK
    <3>2. OnlyOwnBlocks'
      BY <1>0, <3>1 DEF OwnInv, OnlyOwnBlocks
    <3>3. /\ proposal'[n].pc = "send" /\ proposal'[n].block = proposal[n].block
          /\ \A k \in Node \ {n} : proposal'[k] = proposal[k]
      BY <2>6 DEF TInv, TypeOK
    <3>4. Behind(proposal'[n].block, Len(chain'[n]))
      BY <1>0, <2>6, <3>1, <3>3 DEF Behind
    <3> QED
      BY <2>1, <2>4, <3>1, <3>2, <3>3, <3>4 DEF OwnInv
  <2> QED
    BY <1>8, <2>5, <2>6, ProposeAddStep
<1>9. ASSUME NEW n \in Node, ProposeSend(n) PROVE OwnInv'
  <2>1. UNCHANGED <<chain, requests>>
    BY <1>9 DEF ProposeSend
  <2>2. PICK p \in proposal[n].todo :
           /\ calls' = calls \cup {NewCall(n, p, proposal[n].block)}
           /\ proposal' = [proposal EXCEPT ![n].todo = @ \ {p}]
    BY <1>9 DEF ProposeSend
  <2>3. \A k \in Node : proposal'[k].pc = proposal[k].pc /\ proposal'[k].block = proposal[k].block
    BY <2>2 DEF TInv, TypeOK
  <2>4. Behind(proposal[n].block, Len(chain[n]))
    BY <1>9 DEF ProposeSend, OwnInv
  <2>5. \A c \in calls' : Behind(c.entries, Len(chain[c.from]))
    BY <2>2, <2>4 DEF OwnInv, NewCall
  <2> QED
    BY <2>1, <2>3, <2>5 DEF OwnInv, OnlyOwnBlocks
<1>10. ASSUME NEW n \in Node, ProposeReturn(n) PROVE OwnInv'
  BY <1>10 DEF ProposeReturn, NoProposal, OwnInv, OnlyOwnBlocks, TInv, TypeOK
<1>11. ASSUME NEW n \in Node, NEW m \in requests, HandleRequestVote(n, m) PROVE OwnInv'
  BY <1>11, OwnKept DEF HandleRequestVote, proposalVars
<1>12. ASSUME NEW n \in Node, NEW m \in requests, HandleAppendEntries(n, m) PROVE OwnInv'
  BY <1>12, OwnKept, NothingFits DEF HandleAppendEntries, proposalVars
<1>13. CASE UNCHANGED vars
  BY <1>13, OwnKept DEF vars, proposalVars
<1> QED
  BY <1>1, <1>2, <1>3, <1>4, <1>5, <1>6, <1>7, <1>8, <1>9, <1>10, <1>11, <1>12, <1>13
  DEF Next

LEMMA OwnInvariant == Spec => [](TInv /\ OwnInv)
<1>1. Init => OwnInv
  BY DEF Init, OwnInv, OnlyOwnBlocks, NoProposal
<1> QED
  BY <1>1, TypeInit, TypeStep, OwnStep, PTL DEF Spec

\* Why the leader does not replicate: no block gets from one node's chain to
\* another's, in a cluster of any size and with the most obliging transport.
THEOREM NothingIsReplicated == Spec => []OnlyOwnBlocks
<1>1. OwnInv => OnlyOwnBlocks
  BY DEF OwnInv
<1> QED
  BY <1>1, OwnInvariant, PTL

\* A chain only grows, at its end: no proposal and no request of another node
\* takes a block back or replaces one.
THEOREM ChainsAppend == Spec => LogsOnlyGrow
<1>1. TInv /\ OwnInv /\ [Next]_vars => [\A n \in Node : Grows(n)]_vars
  BY ChainsGrow
<1> QED
  BY <1>1, OwnInvariant, PTL DEF Spec, LogsOnlyGrow

----------------------------------------------------------------------------
(* Acknowledged blocks *)

\* A block that ProposeBlock added, and what it was added to, are on the chain of
\* the node it was called at.
Kept(chains, b) ==
    /\ b.by \in Node /\ b.prev # <<>>
    /\ Len(b.prev) < Len(chains[b.by])
    /\ \A i \in 1 .. Len(b.prev) : chains[b.by][i] = b.prev[i]
KeptInv ==
    /\ \A b \in acked : Kept(chain, b)
    /\ \A n \in Node : proposal[n].pc = "add" => proposal[n].block[1].prev # <<>>
    /\ \A n \in Node : proposal[n].pc = "send" => Kept(chain, proposal[n].block[1])

LEMMA KeptOn ==
    ASSUME TInv, OwnInv, [Next]_vars, NEW b \in BlockOn, Kept(chain, b)
    PROVE  Kept(chain', b)
<1>0. b.by \in Node /\ b.prev \in Seq(Node)
  BY DEF BlockOn, Chain
<1>1. Len(b.prev) \in Nat /\ Len(chain[b.by]) \in Nat /\ Len(chain'[b.by]) \in Nat
  <2>1. chain[b.by] \in Seq(Node)
    BY <1>0 DEF Chain, TInv, TypeOK
  <2>2. chain'[b.by] \in Seq(Node)
    BY <1>0, TypeStep DEF Chain, TInv, TypeOK
  <2> QED
    BY <1>0, <2>1, <2>2
<1>2. Grows(b.by)
  BY ChainsGrow DEF Kept
<1> QED
  BY <1>1, <1>2 DEF Kept, Grows

\* What a step leaves of the proposals under way.
LEMMA ProposalOrigin ==
    ASSUME TInv, OwnInv, [Next]_vars, NEW n \in Node
    PROVE  \/ /\ proposal'[n].pc = proposal[n].pc
              /\ proposal'[n].block = proposal[n].block
           \/ proposal'[n].pc = "idle"
           \/ ProposeBlock(n)
           \/ ProposeAdd(n) /\ chain'[n] = Append(chain[n], n)
                 /\ proposal[n].block[1].prev = chain[n]
                 /\ proposal'[n].block = proposal[n].block /\ proposal'[n].pc = "send"
<1>1. CASE UNCHANGED proposal
  BY <1>1
<1>2. ASSUME NEW k \in Node, ProposeBlock(k) PROVE k = n \/ proposal'[n] = proposal[n]
  BY <1>2 DEF ProposeBlock, TInv, TypeOK
<1>3. ASSUME NEW k \in Node, ProposeSend(k)
      PROVE  proposal'[n].pc = proposal[n].pc /\ proposal'[n].block = proposal[n].block
  BY <1>3 DEF ProposeSend, TInv, TypeOK
<1>4. ASSUME NEW k \in Node, ProposeReturn(k)
      PROVE  proposal'[n] = proposal[n] \/ proposal'[n].pc = "idle"
  BY <1>4 DEF ProposeReturn, NoProposal, TInv, TypeOK
<1>5. ASSUME NEW k \in Node, k # n, ProposeAdd(k) PROVE proposal'[n] = proposal[n]
  BY <1>5 DEF ProposeAdd, TInv, TypeOK
<1>6. ASSUME ProposeAdd(n)
      PROVE  \/ proposal'[n].pc = "idle"
             \/ /\ chain'[n] = Append(chain[n], n)
                /\ proposal[n].block[1].prev = chain[n]
                /\ proposal'[n].block = proposal[n].block /\ proposal'[n].pc = "send"
  <2>1. CASE proposal' = [proposal EXCEPT ![n] = NoProposal]
    BY <2>1 DEF NoProposal, TInv, TypeOK
  <2>2. CASE /\ chain' = [chain EXCEPT ![n] = Append(chain[n], n)]
             /\ proposal[n].block[1].prev = chain[n]
             /\ proposal' = [proposal EXCEPT ![n] =
                    [proposal[n] EXCEPT !.pc = "send", !.todo = Peers[n]]]
    BY <2>2 DEF TInv, TypeOK
  <2> QED
    BY <1>6, <2>1, <2>2, ProposeAddStep
<1>7. CASE /\ ~ UNCHANGED proposal
           /\ ~ \E k \in Node : \/ ProposeBlock(k) \/ ProposeAdd(k)
                                 \/ ProposeSend(k) \/ ProposeReturn(k)
  BY <1>7 DEF Next, StartElection, CountVote, EndElection, SendHeartbeats, ReadTerm,
       SendRequest, HandleRequestVote, HandleAppendEntries, vars, proposalVars
<1> QED
  BY <1>1, <1>2, <1>3, <1>4, <1>5, <1>6, <1>7

LEMMA KeptStep == TInv /\ OwnInv /\ KeptInv /\ [Next]_vars => KeptInv'
<1> SUFFICES ASSUME TInv, OwnInv, KeptInv, [Next]_vars PROVE KeptInv'
  OBVIOUS
<1>1. \A n \in Node : proposal[n].pc # "idle" => proposal[n].block[1] \in BlockOn
  BY EntriesType DEF TInv, TypeOK, Begun
<1>2. \A n \in Node : proposal[n].pc = "send" => Kept(chain', proposal[n].block[1])
  BY <1>1, KeptOn DEF KeptInv
<1>3. \A b \in acked' : Kept(chain', b)
  <2>1. ASSUME NEW b \in acked PROVE Kept(chain', b)
    BY KeptOn DEF KeptInv, TInv, TypeOK
  <2>2. ASSUME NEW n \in Node, ProposeReturn(n) PROVE \A b \in acked' : Kept(chain', b)
    BY <1>2, <2>1, <2>2 DEF ProposeReturn
  <2>3. CASE ~ \E n \in Node : ProposeReturn(n)
    <3>1. acked' = acked
      BY <2>3 DEF Next, StartElection, CountVote, EndElection, SendHeartbeats, ReadTerm,
           SendRequest, ProposeBlock, ProposeAdd, ProposeSend, HandleRequestVote,
           HandleAppendEntries, vars, proposalVars
    <3> QED
      BY <2>1, <3>1
  <2> QED
    BY <2>2, <2>3
<1>4. ASSUME NEW n \in Node, ProposeBlock(n)
      PROVE  proposal'[n].pc = "add" /\ proposal'[n].block[1].prev # <<>>
  <2> DEFINE b == [prev |-> chain[n], by |-> n]
  <2>1. proposal'[n] = [pc |-> "add", block |-> <<b>>, todo |-> {}]
    BY <1>4 DEF ProposeBlock, TInv, TypeOK
  <2>2. <<b>>[1] = b /\ b.prev = chain[n]
    OBVIOUS
  <2> HIDE DEF b
  <2> QED
    BY <2>1, <2>2 DEF TInv, Begun
<1>5. ASSUME NEW n \in Node, ProposeAdd(n), chain'[n] = Append(chain[n], n),
             proposal[n].block[1].prev = chain[n]
      PROVE  Kept(chain', proposal[n].block[1])
  <2>1. proposal[n].block[1].by = n
    BY <1>5 DEF ProposeAdd, OwnInv
  <2>2. chain[n] \in Seq(Node) /\ chain[n] # <<>>
    BY DEF TInv, TypeOK, Chain, Begun
  <2> QED
    BY <1>5, <2>1, <2>2 DEF Kept
<1>6. ASSUME NEW n \in Node
      PROVE  /\ proposal'[n].pc = "add" => proposal'[n].block[1].prev # <<>>
             /\ proposal'[n].pc = "send" => Kept(chain', proposal'[n].block[1])
  <2>1. CASE proposal'[n].pc = proposal[n].pc /\ proposal'[n].block = proposal[n].block
    BY <1>2, <2>1 DEF KeptInv
  <2>2. CASE ProposeBlock(n)
    BY <1>4, <2>2
  <2>3. CASE ProposeAdd(n) /\ chain'[n] = Append(chain[n], n)
                 /\ proposal[n].block[1].prev = chain[n]
                 /\ proposal'[n].block = proposal[n].block /\ proposal'[n].pc = "send"
    BY <1>5, <2>3
  <2> QED
    BY <2>1, <2>2, <2>3, ProposalOrigin
<1> QED
  BY <1>3, <1>6 DEF KeptInv

\* A block for which ProposeBlock returned nil is on the chain of the node that
\* was asked, for good, and on no other chain ever: in a cluster of any size the
\* acknowledgement says nothing about a majority.
AckedStaysWithProposer == \A b \in acked : \A n \in Node : Holds(n, b) <=> n = b.by
THEOREM AckedAtProposerOnly == Spec => []AckedStaysWithProposer
<1>1. Init => KeptInv
  BY DEF Init, KeptInv, NoProposal
<1>2. ASSUME TInv, OwnInv, KeptInv, NEW b \in acked, NEW n \in Node
      PROVE  Holds(n, b) <=> n = b.by
  <2>1. b.prev \in Seq(Node) /\ b.by \in Node /\ Kept(chain, b) /\ b.prev # <<>>
    BY <1>2 DEF TInv, TypeOK, KeptInv, BlockOn, Chain, Kept
  <2>2. chain[n] \in Seq(Node)
    BY <1>2 DEF TInv, TypeOK, Chain
  <2> DEFINE k == Len(b.prev) + 1
             whole == Append(b.prev, b.by)
  <2>3. /\ k \in Nat /\ k >= 2 /\ Len(whole) = k
        /\ whole[k] = b.by /\ whole \in Seq(Node)
        /\ \A i \in 1 .. k - 1 : whole[i] = b.prev[i]
    BY <2>1
  <2>4. ASSUME n = b.by PROVE Holds(n, b)
    <3>1. k \in 1 .. Len(chain[n])
      BY <2>1, <2>2, <2>3, <2>4 DEF Kept
    <3>2. chain[n][k] = b.by
      BY <1>2, <2>3, <2>4, <3>1 DEF OwnInv, OnlyOwnBlocks
    <3>3. \A i \in 1 .. k : chain[n][i] = whole[i]
      <4>1. \A i \in 1 .. k - 1 : chain[n][i] = whole[i]
        BY <2>1, <2>3, <2>4 DEF Kept
      <4> QED
        BY <2>3, <3>2, <4>1
    <3> DEFINE start == SubSeq(chain[n], 1, k)
    <3>4. start \in Seq(Node) /\ Len(start) = k /\ \A i \in 1 .. k : start[i] = chain[n][i]
      BY <2>2, <2>3, <3>1
    <3>5. start = whole
      <4> HIDE DEF start, whole, k
      <4> QED
        BY <2>3, <3>3, <3>4, SeqEqual
    <3>6. SubSeq(chain[n], 1, k) = Append(b.prev, b.by) /\ k \in DOMAIN chain[n]
      BY <2>2, <3>1, <3>5
    <3> QED
      BY <3>6, Zenon DEF Holds
  <2>5. ASSUME Holds(n, b) PROVE n = b.by
    <3>1. PICK j \in DOMAIN chain[n] : SubSeq(chain[n], 1, j) = whole
      BY <2>5 DEF Holds
    <3>2. j \in 1 .. Len(chain[n])
      BY <2>2, <3>1
    <3>3. Len(SubSeq(chain[n], 1, j)) = j /\ SubSeq(chain[n], 1, j)[j] = chain[n][j]
      BY <2>2, <3>2
    <3>4. j = k /\ chain[n][k] = b.by
      BY <2>3, <3>1, <3>3
    <3> QED
      BY <1>2, <2>3, <3>2, <3>4 DEF OwnInv, OnlyOwnBlocks
  <2> QED
    BY <2>4, <2>5
<1>3. TInv /\ OwnInv /\ KeptInv => AckedStaysWithProposer
  BY <1>2 DEF AckedStaysWithProposer
<1> QED
  BY <1>1, <1>3, KeptStep, OwnInvariant, PTL DEF Spec

----------------------------------------------------------------------------
(* Requests *)

\* A term read by sendAppendEntries was its node's.
HonestInv ==
    /\ RequestsAreHonest
    /\ \A c \in calls : c.term # None => c.term <= currentTerm[c.from]

LEMMA TermsGrow ==
    ASSUME TInv, [Next]_vars, NEW n \in Node
    PROVE  currentTerm[n] \in Nat /\ currentTerm'[n] \in Nat /\ currentTerm[n] <= currentTerm'[n]
<1>1. currentTerm[n] \in Nat /\ currentTerm'[n] \in Nat
  BY TypeStep DEF TInv, TypeOK
<1>2. ASSUME NEW k \in Node, StartElection(k) PROVE currentTerm[n] <= currentTerm'[n]
  BY <1>1, <1>2 DEF StartElection, TInv, TypeOK
<1>3. ASSUME NEW k \in Node, NEW granted \in BOOLEAN, CountVote(k, granted)
      PROVE  currentTerm[n] <= currentTerm'[n]
  BY <1>1, <1>3 DEF CountVote
<1>4. ASSUME NEW k \in Node, NEW m \in requests,
             HandleRequestVote(k, m) \/ HandleAppendEntries(k, m)
      PROVE  currentTerm[n] <= currentTerm'[n]
  <2>1. /\ m.term \in Nat
        /\ currentTerm' = [currentTerm EXCEPT ![k] = m.term]
        /\ Overtakes(k, m) \/ KeepsUp(k, m)
    BY <1>4, HandlerEffect DEF TInv
  <2>2. currentTerm[k] <= m.term
    BY <2>1 DEF Overtakes, KeepsUp, TInv, TypeOK
  <2> QED
    BY <1>1, <2>1, <2>2 DEF TInv, TypeOK
<1> QED
  BY <1>1, <1>2, <1>3, <1>4, ElectionCases

\* Where the calls and the requests after a step come from.
NewVote(m) == \E n \in Node :
    /\ currentTerm' = [currentTerm EXCEPT ![n] = currentTerm[n] + 1]
    /\ m = [type |-> "vote", from |-> n, term |-> currentTerm[n] + 1, last |-> Height(chain[n])]
FromCall(m) == \E c \in calls :
    /\ c.term # None
    /\ m = [type |-> "append", from |-> c.from, to |-> c.to, term |-> c.term,
            prevLogIndex |-> Height(chain[c.from]), entries |-> c.entries]
LEMMA RequestOrigin ==
    ASSUME [Next]_vars, NEW m \in requests'
    PROVE  m \in requests \/ NewVote(m) \/ FromCall(m)
<1>1. CASE \E n \in Node : StartElection(n)
  BY <1>1 DEF StartElection, NewVote
<1>2. CASE \E c \in calls : SendRequest(c)
  BY <1>2 DEF SendRequest, FromCall
<1>3. CASE /\ ~ \E n \in Node : StartElection(n)
           /\ ~ \E c \in calls : SendRequest(c)
  BY <1>1, <1>3 DEF Next, CountVote, EndElection, SendHeartbeats, ReadTerm, ProposeBlock,
       ProposeAdd, ProposeSend, ProposeReturn, HandleRequestVote, HandleAppendEntries,
       vars, proposalVars
<1> QED
  BY <1>1, <1>2, <1>3

CallStarts(c) == c.from \in Node /\ c.term = None /\
                 (state[c.from] = "Leader" \/ proposal[c.from].pc = "send")
CallReads(c) == \E o \in calls :
    o.term = None /\ c.from = o.from /\ c.term = currentTerm[o.from]
LEMMA CallOrigin ==
    ASSUME TInv, [Next]_vars, NEW c \in calls'
    PROVE  c \in calls \/ CallStarts(c) \/ CallReads(c)
<1>1. CASE \E n \in Node : SendHeartbeats(n)
  BY <1>1 DEF SendHeartbeats, NewCall, CallStarts
<1>2. CASE \E n \in Node : ProposeSend(n)
  BY <1>2 DEF ProposeSend, NewCall, CallStarts
<1>3. ASSUME NEW o \in calls, ReadTerm(o) PROVE c \in calls \/ CallReads(c)
  <2>1. /\ [o EXCEPT !.term = currentTerm[o.from]].from = o.from
        /\ [o EXCEPT !.term = currentTerm[o.from]].term = currentTerm[o.from]
    BY DEF TInv, TypeOK, Call
  <2> QED
    BY <1>3, <2>1 DEF ReadTerm, CallReads
<1>4. CASE /\ ~ \E n \in Node : SendHeartbeats(n) \/ ProposeSend(n)
           /\ ~ \E o \in calls : ReadTerm(o)
  BY <1>4 DEF Next, StartElection, CountVote, EndElection, SendRequest, ProposeBlock,
       ProposeAdd, ProposeReturn, HandleRequestVote, HandleAppendEntries, vars
<1> QED
  BY <1>1, <1>2, <1>3, <1>4

\* A request that is delivered late finds its sender at its term and log
\* position or beyond: terms and chains of a node never go back.
THEOREM HonestRequests == Spec => []RequestsAreHonest
<1>1. Init => HonestInv
  BY DEF Init, HonestInv, RequestsAreHonest
<1>2. ASSUME TInv, OwnInv, HonestInv, [Next]_vars PROVE HonestInv'
  <2>1. \A n \in Node : /\ currentTerm[n] \in Nat /\ currentTerm'[n] \in Nat
                        /\ currentTerm[n] <= currentTerm'[n]
    BY <1>2, TermsGrow
  <2>2. \A n \in Node : /\ Height(chain[n]) \in Nat /\ Height(chain'[n]) \in Nat
                        /\ Height(chain[n]) <= Height(chain'[n])
    <3>1. \A n \in Node : /\ Len(chain[n]) \in Nat /\ Len(chain'[n]) \in Nat
                          /\ Len(chain[n]) <= Len(chain'[n])
      BY <1>2, LengthsGrow
    <3>2. \A n \in Node : Height(chain[n]) \in Nat /\ Height(chain'[n]) \in Nat
      BY <1>2, TypeStep, HeightType DEF TInv, TypeOK, Begun
    <3> QED
      BY <3>1, <3>2 DEF Height
  <2>3. ASSUME NEW m \in requests'
        PROVE  /\ m.term <= currentTerm'[m.from]
               /\ m.type = "vote" => m.last <= Height(chain'[m.from])
               /\ m.type = "append" => m.prevLogIndex <= Height(chain'[m.from])
    <3>1. CASE m \in requests
      <4>1. /\ m.from \in Node /\ m.term \in Nat
            /\ m.type = "vote" => m.last \in Nat
            /\ m.type = "append" => m.prevLogIndex \in Nat
        BY <1>2, <3>1, RequestType DEF TInv, TypeOK, VoteRequest, AppendRequest
      <4> QED
        BY <1>2, <2>1, <2>2, <3>1, <4>1 DEF HonestInv, RequestsAreHonest
    <3>2. CASE NewVote(m)
      <4>1. PICK n \in Node :
              /\ currentTerm' = [currentTerm EXCEPT ![n] = currentTerm[n] + 1]
              /\ m = [type |-> "vote", from |-> n, term |-> currentTerm[n] + 1,
                      last |-> Height(chain[n])]
        BY <3>2 DEF NewVote
      <4>2. currentTerm'[n] = currentTerm[n] + 1
        BY <1>2, <4>1 DEF TInv, TypeOK
      <4> QED
        BY <2>1, <2>2, <4>1, <4>2
    <3>3. CASE FromCall(m)
      <4>1. PICK c \in calls :
              /\ c.term # None
              /\ m = [type |-> "append", from |-> c.from, to |-> c.to, term |-> c.term,
                      prevLogIndex |-> Height(chain[c.from]), entries |-> c.entries]
        BY <3>3 DEF FromCall
      <4>2. c.from \in Node /\ c.term \in Nat /\ c.term <= currentTerm[c.from]
        BY <1>2, <4>1 DEF HonestInv, TInv, TypeOK, Call
      <4> QED
        BY <2>1, <2>2, <4>1, <4>2
    <3> QED
      BY <1>2, <3>1, <3>2, <3>3, RequestOrigin
  <2>4. ASSUME NEW c \in calls', c.term # None PROVE c.term <= currentTerm'[c.from]
    <3>1. CASE c \in calls
      <4>1. c.from \in Node /\ c.term \in Nat
        BY <1>2, <2>4, <3>1 DEF TInv, TypeOK, Call
      <4> QED
        BY <1>2, <2>1, <2>4, <3>1, <4>1 DEF HonestInv
    <3>2. CASE CallReads(c)
      BY <1>2, <2>1, <3>2 DEF CallReads, TInv, TypeOK, Call
    <3> QED
      BY <1>2, <2>4, <3>1, <3>2, CallOrigin DEF CallStarts
  <2> QED
    BY <2>3, <2>4 DEF HonestInv, RequestsAreHonest
<1>3. HonestInv => RequestsAreHonest
  BY DEF HonestInv
<1> QED
  BY <1>1, <1>2, <1>3, OwnInvariant, PTL DEF Spec

----------------------------------------------------------------------------
(* Offices *)

\* n asked for votes in a term up to t.
Ran(n, t) == \E m \in requests : m.type = "vote" /\ m.from = n /\ m.term <= t
RanInv ==
    /\ LeaderRanForOffice
    /\ \A n \in Node : campaign[n] # NoCampaign /\ Peers[n] # {} => Ran(n, currentTerm[n])
    /\ \A n \in Node : state[n] = "Leader" => Ran(n, currentTerm[n])
    /\ \A n \in Node : proposal[n].pc # "idle" => Ran(n, currentTerm[n])
    /\ \A c \in calls : Ran(c.from, IF c.term = None THEN currentTerm[c.from] ELSE c.term)
    /\ \A m \in requests : m.type = "append" => Ran(m.from, m.term)

LEMMA RanOn ==
    ASSUME TInv, [Next]_vars, NEW n, NEW s \in Nat, NEW t \in Nat, s <= t, Ran(n, s)
    PROVE  Ran(n, t)'
<1>1. PICK m \in requests : m.type = "vote" /\ m.from = n /\ m.term <= s
  BY DEF Ran
<1>2. m.term \in Nat /\ m \in requests'
  BY RequestType, RequestsStay DEF TInv, TypeOK
<1> QED
  BY <1>1, <1>2 DEF Ran

Won(n) == campaign[n] # NoCampaign /\ Peers[n] # {}

LEMMA CountVoteWins ==
    ASSUME TInv, NEW k \in Node, NEW granted \in BOOLEAN, CountVote(k, granted)
    PROVE  /\ campaign[k] # NoCampaign /\ Won(k)
           /\ \/ UNCHANGED <<state, leader>>
              \/ /\ state' = [state EXCEPT ![k] = "Leader"]
                 /\ leader' = [leader EXCEPT ![k] = k]
           /\ \A n \in Node : campaign'[n] # NoCampaign => campaign[n] # NoCampaign
           /\ UNCHANGED <<currentTerm, proposal, requests>>
<1>1. Peers[k] # {}
  <2>1. campaign[k].replies \in Nat /\ campaign[k].replies < Cardinality(Peers[k])
    BY DEF CountVote, TInv, TypeOK
  <2> QED
    BY <2>1, FS_EmptySet
<1>2. \A n \in Node : campaign'[n] # NoCampaign => campaign[n] # NoCampaign
  BY DEF CountVote, TInv, TypeOK
<1> QED
  BY <1>1, <1>2, Zenon DEF CountVote, BecomeLeader, Won, proposalVars

\* Where an office, a campaign or a proposal after a step comes from.
LEMMA OfficeOrigin ==
    ASSUME TInv, [Next]_vars, NEW n \in Node
    PROVE  /\ \/ leader'[n] = leader[n]
              \/ leader'[n] = n /\ Won(n)
              \/ \E m \in requests : /\ m.type = "append" /\ m.term = currentTerm'[n]
                                     /\ leader'[n] = m.from
           /\ state'[n] = "Leader" => state[n] = "Leader" \/ Won(n)
           /\ campaign'[n] # NoCampaign => campaign[n] # NoCampaign \/ StartElection(n)
           /\ proposal'[n].pc # "idle" => proposal[n].pc # "idle" \/ state[n] = "Leader"
<1> DEFINE Goal ==
           /\ \/ leader'[n] = leader[n]
              \/ leader'[n] = n /\ Won(n)
              \/ \E m \in requests : /\ m.type = "append" /\ m.term = currentTerm'[n]
                                     /\ leader'[n] = m.from
           /\ state'[n] = "Leader" => state[n] = "Leader" \/ Won(n)
           /\ campaign'[n] # NoCampaign => campaign[n] # NoCampaign \/ StartElection(n)
           /\ proposal'[n].pc # "idle" => proposal[n].pc # "idle" \/ state[n] = "Leader"
<1>1. ASSUME NEW k \in Node, StartElection(k) PROVE Goal
  BY <1>1 DEF StartElection, proposalVars, TInv, TypeOK
<1>2. ASSUME NEW k \in Node, NEW granted \in BOOLEAN, CountVote(k, granted) PROVE Goal
  BY <1>2, CountVoteWins DEF TInv, TypeOK
<1>3. ASSUME NEW k \in Node,
             EndElection(k) \/ SendHeartbeats(k) \/ ProposeBlock(k) \/ ProposeAdd(k)
             \/ ProposeSend(k) \/ ProposeReturn(k)
      PROVE  Goal
  <2>1. UNCHANGED <<state, leader>>
    BY <1>3, TermsKept
  <2>2. campaign'[n] # NoCampaign => campaign[n] # NoCampaign
    BY <1>3 DEF EndElection, SendHeartbeats, ProposeBlock, ProposeAdd, ProposeSend,
         ProposeReturn, TInv, TypeOK
  <2>3. proposal'[n].pc # "idle" => proposal[n].pc # "idle" \/ state[n] = "Leader"
    BY <1>3 DEF EndElection, SendHeartbeats, ProposeBlock, ProposeAdd, ProposeSend,
         ProposeReturn, NoProposal, proposalVars, TInv, TypeOK
  <2> QED
    BY <2>1, <2>2, <2>3
<1>4. ASSUME NEW c \in calls, ReadTerm(c) \/ SendRequest(c) PROVE Goal
  BY <1>4 DEF ReadTerm, SendRequest, electionVars, proposalVars
<1>5. ASSUME NEW k \in Node, NEW m \in requests, HandleRequestVote(k, m) PROVE Goal
  <2>1. UNCHANGED <<leader, campaign, proposal>>
    BY <1>5 DEF HandleRequestVote, proposalVars
  <2>2. state'[n] = "Leader" => state[n] = "Leader"
    BY <1>5, HandlerEffect DEF Overtakes, KeepsUp, TInv, TypeOK
  <2> QED
    BY <2>1, <2>2
<1>6. ASSUME NEW k \in Node, NEW m \in requests, HandleAppendEntries(k, m) PROVE Goal
  <2>1. UNCHANGED <<campaign, proposal>> /\ m.type = "append"
    BY <1>6 DEF HandleAppendEntries, proposalVars
  <2>2. state'[n] = "Leader" => state[n] = "Leader"
    BY <1>6, HandlerEffect DEF Overtakes, KeepsUp, TInv, TypeOK
  <2>3. currentTerm' = [currentTerm EXCEPT ![k] = m.term]
    BY <1>6, HandlerEffect DEF TInv
  <2>4. \/ leader'[n] = leader[n]
        \/ m.term = currentTerm'[n] /\ leader'[n] = m.from
    BY <1>6, <2>3 DEF HandleAppendEntries, TInv, TypeOK
  <2> QED
    BY <2>1, <2>2, <2>4
<1>7. CASE UNCHANGED vars
  BY <1>7 DEF vars, electionVars, proposalVars
<1> QED
  BY <1>1, <1>2, <1>3, <1>4, <1>5, <1>6, <1>7 DEF Next

LEMMA RanStep == TInv /\ RanInv /\ [Next]_vars => RanInv'
<1> SUFFICES ASSUME TInv, RanInv, [Next]_vars PROVE RanInv'
  OBVIOUS
<1>1. \A n \in Node : /\ currentTerm[n] \in Nat /\ currentTerm'[n] \in Nat
                      /\ currentTerm[n] <= currentTerm'[n]
  BY TermsGrow
<1>2. ASSUME NEW n \in Node, Ran(n, currentTerm[n]) PROVE Ran(n, currentTerm[n])'
  BY <1>1, <1>2, RanOn
<1>3. ASSUME NEW n \in Node, Won(n) PROVE Ran(n, currentTerm[n])'
  BY <1>2, <1>3 DEF RanInv, Won
<1>4. ASSUME NEW m \in requests, m.type = "append" PROVE Ran(m.from, m.term)'
  <2>1. m.term \in Nat /\ m.term <= m.term
    BY RequestType DEF TInv, TypeOK
  <2> QED
    BY <1>4, <2>1, RanOn DEF RanInv
<1>5. LeaderRanForOffice'
  <2> SUFFICES ASSUME NEW n \in Node, leader'[n] # None PROVE Ran(leader[n], currentTerm[n])'
    BY DEF LeaderRanForOffice, Ran
  <2>1. CASE leader'[n] = leader[n]
    <3>1. Ran(leader[n], currentTerm[n])
      BY <2>1 DEF RanInv, LeaderRanForOffice, Ran
    <3> QED
      BY <1>1, <2>1, <3>1, RanOn
  <2>2. CASE leader'[n] = n /\ Won(n)
    BY <1>3, <2>2
  <2>3. CASE \E m \in requests : /\ m.type = "append" /\ m.term = currentTerm'[n]
                                 /\ leader'[n] = m.from
    BY <1>4, <2>3
  <2> QED
    BY <2>1, <2>2, <2>3, OfficeOrigin
<1>6. ASSUME NEW n \in Node, campaign'[n] # NoCampaign, Peers[n] # {}
      PROVE  Ran(n, currentTerm[n])'
  <2>1. CASE campaign[n] # NoCampaign
    BY <1>3, <1>6, <2>1 DEF Won
  <2>2. CASE StartElection(n)
    <3> DEFINE m == [type |-> "vote", from |-> n, term |-> currentTerm[n] + 1,
                     last |-> Height(chain[n])]
    <3>1. m \in requests' /\ currentTerm'[n] = currentTerm[n] + 1
      BY <1>6, <2>2 DEF StartElection, TInv, TypeOK
    <3>2. m.type = "vote" /\ m.from = n /\ m.term <= currentTerm'[n]
      BY <1>1, <3>1
    <3> HIDE DEF m
    <3> QED
      BY <3>1, <3>2 DEF Ran
  <2> QED
    BY <1>6, <2>1, <2>2, OfficeOrigin
<1>7. ASSUME NEW n \in Node, state'[n] = "Leader" PROVE Ran(n, currentTerm[n])'
  BY <1>2, <1>3, <1>7, OfficeOrigin DEF RanInv
<1>8. ASSUME NEW n \in Node, proposal'[n].pc # "idle" PROVE Ran(n, currentTerm[n])'
  BY <1>2, <1>8, OfficeOrigin DEF RanInv
<1>9. ASSUME NEW c \in calls'
      PROVE  Ran(c.from, IF c.term = None THEN currentTerm[c.from] ELSE c.term)'
  <2>1. CASE c \in calls
    <3>1. /\ c.from \in Node /\ c.term \in Nat \cup {None}
          /\ Ran(c.from, IF c.term = None THEN currentTerm[c.from] ELSE c.term)
      BY <2>1 DEF RanInv, TInv, TypeOK, Call
    <3>2. CASE c.term = None
      BY <1>2, <3>1, <3>2
    <3>3. CASE c.term # None
      <4>1. c.term \in Nat /\ c.term <= c.term /\ Ran(c.from, c.term)
        BY <3>1, <3>3
      <4>2. Ran(c.from, c.term)'
        BY <4>1, RanOn
      <4> QED
        BY <3>3, <4>2
    <3> QED
      BY <3>2, <3>3
  <2>2. CASE CallStarts(c)
    BY <1>2, <2>2 DEF CallStarts, RanInv
  <2>3. CASE CallReads(c)
    <3>1. PICK o \in calls : o.term = None /\ c.from = o.from /\ c.term = currentTerm[o.from]
      BY <2>3 DEF CallReads
    <3>2. c.from \in Node /\ Ran(c.from, currentTerm[c.from])
      BY <3>1 DEF RanInv, TInv, TypeOK, Call
    <3>3. currentTerm[c.from] \in Nat /\ currentTerm[c.from] <= currentTerm[c.from]
      BY <1>1, <3>2
    <3>4. Ran(c.from, c.term)'
      <4>1. PICK t \in Nat : t = currentTerm[c.from]
        BY <3>3
      <4>2. Ran(c.from, t)'
        BY <3>2, <4>1, RanOn
      <4> QED
        BY <3>1, <4>1, <4>2
    <3> QED
      BY <1>2, <3>2, <3>4
  <2> QED
    BY <2>1, <2>2, <2>3, CallOrigin
<1>10. ASSUME NEW m \in requests', m.type = "append" PROVE Ran(m.from, m.term)'
  <2>1. CASE FromCall(m)
    <3>1. PICK c \in calls : c.term # None /\ m.from = c.from /\ m.term = c.term
      BY <2>1 DEF FromCall
    <3>2. m.term \in Nat /\ m.term <= m.term /\ Ran(m.from, m.term)
      BY <3>1 DEF RanInv, TInv, TypeOK, Call
    <3> QED
      BY <3>2, RanOn
  <2> QED
    BY <1>4, <1>10, <2>1, RequestOrigin DEF NewVote
<1> QED
  BY <1>5, <1>6, <1>7, <1>8, <1>9, <1>10 DEF RanInv

\* GetLeader names a node that asked for votes, in no later term, whatever
\* heartbeats are late, and also if its sender was deposed while it sent.
THEOREM LeadersRan == Spec => []LeaderRanForOffice
<1>1. Init => RanInv
  BY DEF Init, RanInv, LeaderRanForOffice, NoProposal
<1>2. RanInv => LeaderRanForOffice
  BY DEF RanInv
<1> QED
  BY <1>1, <1>2, TypeInit, TypeStep, RanStep, PTL DEF Spec

\* A node that has no peers never leads, and no call of ProposeBlock gets past
\* its check there, however often it runs for office: its vote for itself is
\* compared with the majority only when a reply comes in.
LonelyNeverLead ==
    \A n \in Node : Peers[n] = {} => state[n] # "Leader" /\ proposal[n].pc = "idle"
THEOREM NoOfficeWithoutPeers == Spec => []LonelyNeverLead
<1>1. Init => LonelyNeverLead
  BY DEF Init, LonelyNeverLead, NoProposal
<1>2. TInv /\ LonelyNeverLead /\ [Next]_vars => LonelyNeverLead'
  <2> SUFFICES ASSUME TInv, LonelyNeverLead, [Next]_vars, NEW n \in Node, Peers[n] = {}
               PROVE  state'[n] # "Leader" /\ proposal'[n].pc = "idle"
    BY DEF LonelyNeverLead
  <2>1. state[n] # "Leader" /\ proposal[n].pc = "idle" /\ ~Won(n)
    BY DEF LonelyNeverLead, Won
  <2>2. /\ state'[n] = "Leader" => state[n] = "Leader" \/ Won(n)
        /\ proposal'[n].pc # "idle" => proposal[n].pc # "idle" \/ state[n] = "Leader"
    BY OfficeOrigin
  <2> QED
    BY <2>1, <2>2
<1> QED
  BY <1>1, <1>2, TypeInit, TypeStep, PTL DEF Spec
=============================================================================
