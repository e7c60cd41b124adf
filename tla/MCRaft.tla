------------------------------- MODULE MCRaft -------------------------------
(* Small clusters of Raft: everybody a peer of everybody, one genesis block  *)
(* for all, or one each as blockchain.NewBlockchain makes them.              *)
EXTENDS Raft, TLC

FullMesh == [n \in Node |-> Node \ {n}]
OneGenesis == [n \in Node |-> CHOOSE g \in Node : TRUE]
OwnGenesis == [n \in Node |-> n]
Symmetry == Permutations(Node)
=============================================================================
