------------------------------ MODULE Handlers ------------------------------
(***************************************************************************)
(* How blocks and transactions reach the Blockchain of a node: the         *)
(* message handlers of network/p2p.go, run by the reader goroutine of each *)
(* connection, and POST /transactions of api/api.go.                       *)
(*                                                                         *)
(* AddBlock and AddTransaction are the actions of module Blockchain; the   *)
(* APPEND_ENTRIES handler is a loop of AddBlock calls with other           *)
(* goroutines in between.  CreateBlock is not called by any of them.       *)
(* Whatever decodes as a block or a transaction is handed on: messages     *)
(* hold any of BlockArgs and TxArgs.                                       *)
(***************************************************************************)
EXTENDS Blockchain, SignatureText

CONSTANTS
    Reader,      \* reader goroutines
    What,        \* what a transaction says, beside its timestamp
    Pairs,       \* the pairs of numbers ECDSA makes
    MaxEntries,  \* bound: entries of a request
    MaxTime,     \* bound: the seconds that are told apart
    MaxTerm      \* bound: terms of a vote request

ASSUME HandlersAssumption ==
    /\ MaxEntries \in Nat /\ MaxTime \in Nat /\ MaxTerm \in Nat
    /\ Body = [what : What, time : 0 .. MaxTime]
    \* what a transaction says, and not when, makes it a TxSystem transaction
    /\ \A body \in SystemBody, t \in 0 .. MaxTime : [body EXCEPT !.time = t] \in SystemBody
    /\ Pairs \subseteq Number \X Number

VARIABLES
    now,     \* time.Now().Unix()
    call,    \* what each reader handles, or handled last
    posted   \* what the last step, if it was a POST, did with its transaction

hvars == <<chain, pending, mutex, now, call, posted>>

\* The entries of an APPEND_ENTRIES request, the one that is added next and the
\* answer; the candidate and the term a REQUEST_VOTE got a vote for.
Idle == [entries |-> <<>>, next |-> 1, answer |-> "none", vote |-> <<>>]
NoPost == [fresh |-> FALSE, pooled |-> FALSE]

HInit ==
    /\ Init
    /\ now = 0
    /\ call = [r \in Reader |-> Idle]
    /\ posted = NoPost

Handling(r) == call[r].entries # <<>> /\ call[r].answer = "none"

----------------------------------------------------------------------------
(* Messages *)

\* NEW_BLOCK: nobody hears of an error.
HandleNewBlock(r) ==
    /\ ~Handling(r)
    /\ \E b \in BlockArgs : AddBlock(b)
    /\ call' = [call EXCEPT ![r] = Idle]
    /\ posted' = NoPost
    /\ UNCHANGED now

\* NEW_TX
HandleNewTx(r) ==
    /\ ~Handling(r)
    /\ \E tx \in TxArgs : AddTransaction(tx)
    /\ call' = [call EXCEPT ![r] = Idle]
    /\ posted' = NoPost
    /\ UNCHANGED now

\* APPEND_ENTRIES with any blocks in any order, also ones that have nothing to
\* do with each other; the term and prevLogIndex are not looked at.
Entries == UNION {[1 .. n -> BlockArgs] : n \in 1 .. MaxEntries}
HandleAppendEntries(r) ==
    /\ ~Handling(r)
    /\ \E e \in Entries : call' = [call EXCEPT ![r] = [Idle EXCEPT !.entries = e]]
    /\ posted' = NoPost
    /\ UNCHANGED <<vars, now>>

\* Without entries it is a heartbeat, and accepted.
HandleHeartbeat(r) ==
    /\ ~Handling(r)
    /\ call' = [call EXCEPT ![r] = [Idle EXCEPT !.answer = "success"]]
    /\ posted' = NoPost
    /\ UNCHANGED <<vars, now>>

Entry(r) == call[r].entries[call[r].next]
LastEntry(r) == call[r].next = Len(call[r].entries)

\* One AddBlock of the loop.  After the last one the answer is Success.
AddEntry(r) ==
    /\ Handling(r)
    /\ AddBlock(Entry(r))
    /\ call' = [call EXCEPT ![r].next = @ + 1,
                            ![r].answer = IF LastEntry(r) THEN "success" ELSE "none"]
    /\ posted' = NoPost
    /\ UNCHANGED now

\* Mutation: the loop goes on after an error.
SkipEntry(r) ==
    /\ Handling(r)
    /\ ~ValidateBlock(chain, Entry(r))
    /\ call' = [call EXCEPT ![r].next = @ + 1,
                            ![r].answer = IF LastEntry(r) THEN "success" ELSE "none"]
    /\ posted' = NoPost
    /\ UNCHANGED <<vars, now>>

\* The first error ends the loop; the entries before it stay on the chain.
RefuseEntry(r) ==
    /\ Handling(r)
    /\ ~ValidateBlock(chain, Entry(r))
    /\ call' = [call EXCEPT ![r].answer = "failure"]
    /\ posted' = NoPost
    /\ UNCHANGED <<vars, now>>

\* REQUEST_VOTE: every candidate of a term above 0 gets a vote.
HandleRequestVote(r) ==
    /\ ~Handling(r)
    /\ \E n \in Node, term \in 1 .. MaxTerm : call' = [call EXCEPT ![r] = [Idle EXCEPT !.vote = <<n, term>>]]
    /\ posted' = NoPost
    /\ UNCHANGED <<vars, now>>

----------------------------------------------------------------------------
(* POST /transactions *)

\* Verify on the stamped transaction: the text has to give the numbers back,
\* and the numbers to be made for what the transaction says now.
Verdict(signed, stamped, pair) ==
    IF ReadsBack(Sign(pair), pair) /\ signed = stamped THEN "ok" ELSE "bad"

\* The handler sets the time of its own clock, and the ID to the new hash.
Stamp(body) == [body EXCEPT !.time = now]

\* The client signed body, which is no TxSystem transaction, with the numbers of
\* pair; the answer is 201, whatever AddTransaction does.
Post(body, pair) ==
    LET tx == [id |-> Stamp(body), body |-> Stamp(body), sig |-> Verdict(body, Stamp(body), pair)]
    IN  /\ IF TxVerify(tx) THEN AddTransaction(tx) ELSE UNCHANGED vars
        /\ posted' = [fresh |-> body.time = now /\ FullWidth(pair),
                      pooled |-> pending'[tx] > pending[tx]]
        /\ UNCHANGED <<now, call>>

TimePasses ==
    /\ now < MaxTime
    /\ now' = now + 1
    /\ posted' = NoPost
    /\ UNCHANGED <<vars, call>>

----------------------------------------------------------------------------

HNext ==
    \/ \E r \in Reader :
         \/ HandleNewBlock(r) \/ HandleNewTx(r) \/ HandleRequestVote(r)
         \/ HandleAppendEntries(r) \/ HandleHeartbeat(r) \/ AddEntry(r) \/ RefuseEntry(r)
    \/ \E body \in Body \ SystemBody, pair \in Pairs : Post(body, pair)
    \/ TimePasses

HSpec == HInit /\ [][HNext]_hvars

----------------------------------------------------------------------------
(* Properties *)

\* The entries lie on the chain in their order, with other blocks in between.
InOrder(e, ch) ==
    \E at \in [DOMAIN e -> DOMAIN ch] :
        /\ \A i, j \in DOMAIN e : i < j => at[i] < at[j]
        /\ \A i \in DOMAIN e : ch[at[i]] = e[i]

\* Success is answered to a request whose entries are all on the chain in their
\* order, whatever the entries are and whatever other goroutines added between
\* two of them.
SuccessMeansStored ==
    \A r \in Reader : call[r].answer = "success" => InOrder(call[r].entries, chain)

\* What a client signed enters the pool if it was signed in the second of its
\* arrival and both numbers fill their bytes, and not otherwise.
PooledIfFresh == posted.pooled <=> posted.fresh

\* A POST that is answered 201 is in the pool.
CreatedMeansPending == [][\A body \in Body \ SystemBody, pair \in Pairs :
    Post(body, pair) => pending' # pending]_hvars

\* The entries of a request that is answered success lie one after the other.
SuccessMeansTogether ==
    \A r \in Reader : call[r].answer = "success" =>
        \E k \in 0 .. Len(chain) - Len(call[r].entries) :
            \A i \in DOMAIN call[r].entries : chain[k + i] = call[r].entries[i]

\* A request that is refused added nothing.
FailureMeansUnchanged == \A r \in Reader : call[r].answer = "failure" => call[r].next = 1

\* No two candidates get a vote in one term.
OneVotePerTerm ==
    \A q, r \in Reader :
        call[q].vote # <<>> /\ call[r].vote # <<>> /\ call[q].vote[2] = call[r].vote[2]
            => call[q].vote[1] = call[r].vote[1]
=============================================================================
