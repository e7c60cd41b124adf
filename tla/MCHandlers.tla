----------------------------- MODULE MCHandlers -----------------------------
(* Small instance of Handlers: two readers, one signed content in two        *)
(* seconds, numbers of two bytes; a block on this node's genesis block, one  *)
(* on that, and a made-up index-0 block under the hash of the first.         *)
EXTENDS Handlers, TLC

MCBody == [what : What, time : 0 .. MaxTime]
MCPairs == {<<<<1, 0>>, <<1, 1>>>>, <<<<0, 1>>, <<1, 0>>>>, <<<<1, 1>>, <<0, 1>>>>}
Said(t) == [what |-> "follow", time |-> t]
Follow == [id |-> Said(0), body |-> Said(0), sig |-> "ok"]
Bad == [id |-> Said(0), body |-> Said(0), sig |-> "bad"]
MCTxArgs == {Follow, Bad}

One(tx) == [NoTx EXCEPT ![tx] = 1]
First == [NewBlock(1, NoTx, NewGenesisBlock(Self).hash, Self) EXCEPT !.sig = "ok"]
Second == [NewBlock(2, One(Follow), First.hash, Self) EXCEPT !.sig = "ok"]
MadeUp == [NewBlock(0, One(Bad), <<>>, "n2") EXCEPT !.hash = First.hash]
MCBlockArgs == {First, Second, MadeUp}
ReaderSymmetry == Permutations(Reader)
=============================================================================
