--------------------------- MODULE MCElectionLoop ---------------------------
(* Instances of ElectionLoop: every call there is, or one kind of call alone. *)
EXTENDS ElectionLoop

AllCalls == {"append", "grant", "refuse", "stop"}
=============================================================================
