----------------------------- MODULE MCPeerTable -----------------------------
(* Small instance of PeerTable: one remote node, whose Peer object may leave  *)
(* the table and stay in use, and two connections at a time.                  *)
EXTENDS PeerTable
=============================================================================
