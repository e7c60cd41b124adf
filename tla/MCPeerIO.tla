------------------------------- MODULE MCPeerIO -------------------------------
(* Small instance of PeerIO: one peer, whose connection holds one message,    *)
(* and two goroutines that send to it beside the heartbeat and its reader.    *)
EXTENDS PeerIO
=============================================================================
