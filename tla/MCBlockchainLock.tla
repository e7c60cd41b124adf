-------------------------- MODULE MCBlockchainLock --------------------------
(* Small instance of BlockchainLock: a block on this node's genesis block,   *)
(* one on that, and a made-up index-0 block that names the first, holds a    *)
(* transaction Verify refuses, and stands under the ID of a good one.        *)
EXTENDS BlockchainLock

One(tx) == [NoTx EXCEPT ![tx] = 1]
Follow == [id |-> "follow", body |-> "follow", sig |-> "ok"]
Bad == [id |-> "follow", body |-> "follow", sig |-> "bad"]
Good == {Follow}
GoodAndBad == {Follow, Bad}

Own == NewGenesisBlock(Self)
First == [NewBlock(1, NoTx, Own.hash, Self) EXCEPT !.sig = "ok"]
Second == [NewBlock(2, One(Follow), First.hash, Self) EXCEPT !.sig = "ok"]
MadeUp == NewBlock(0, One(Bad), First.hash, Self)
MCBlockArgs == {First, Second, MadeUp}
=============================================================================
