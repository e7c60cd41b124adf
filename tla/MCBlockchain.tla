---------------------------- MODULE MCBlockchain ----------------------------
(* Small instance of Blockchain: two nodes, a signed content and a system    *)
(* one; a transaction that takes the other's ID, one that Verify refuses;    *)
(* and blocks on everything there is to build on, with every check of        *)
(* ValidateBlock failing alone.                                              *)
EXTENDS Blockchain

Follow == [id |-> "follow", body |-> "follow", sig |-> "ok"]
Forged == [id |-> "notice", body |-> "follow", sig |-> "ok"]
Bad == [id |-> "follow", body |-> "follow", sig |-> "bad"]
Notice == [id |-> "notice", body |-> "notice", sig |-> "none"]
MCTxArgs == {Follow, Forged, Bad, Notice}

One(tx) == [NoTx EXCEPT ![tx] = 1]

\* A block as somebody hands it over: with the list and the signature it has now,
\* which need not be those it was hashed with.
Offer(b, txs, sig) == [b EXCEPT !.txs = txs, !.sig = sig]

Own == NewGenesisBlock(Self)
First(n) == [NewBlock(1, One(Follow), Own.hash, n) EXCEPT !.sig = "ok"]

\* Index-0 blocks: genesis blocks, and made-up ones that name nothing, the own
\* genesis block or a later block, well hashed, altered, or under the hash of
\* another block.
MadeUp == {Offer(NewBlock(0, hashed, prev, "n2"), One(Bad), "none") :
              hashed \in {NoTx, One(Bad)}, prev \in {<<>>, Own.hash, First("n2").hash}}
Roots == {NewGenesisBlock(n) : n \in Node} \cup MadeUp
         \cup {[b EXCEPT !.hash = First("n2").hash] : b \in MadeUp}

\* Above index 0: on a block of any index, unsigned, badly signed, altered.
On(h) == {Offer(NewBlock(i, hashed, h, "n2"), txs, sig) :
             i \in 1 .. 2, hashed, txs \in {One(Follow), One(Forged), One(Bad)}, sig \in Sig}

MCBlockArgs == Roots \cup UNION {On(h) : h \in {b.hash : b \in Roots \cup {First("n2")}}}
=============================================================================
