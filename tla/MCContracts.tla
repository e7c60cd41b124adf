----------------------------- MODULE MCContracts -----------------------------
(* Small instance of Contracts: two users who write to each other and to      *)
(* themselves, with message IDs of their own or the transactions'.            *)
EXTENDS Contracts
=============================================================================
