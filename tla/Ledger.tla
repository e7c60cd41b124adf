------------------------------- MODULE Ledger -------------------------------
(***************************************************************************)
(* What a node promises about the transactions it takes in: a log of       *)
(* entries, each the set of transaction IDs one block records, that only   *)
(* grows; and a set of waiting IDs, which an ID leaves only in the step    *)
(* that records it.                                                        *)
(***************************************************************************)
EXTENDS Naturals, Sequences

CONSTANT Id

VARIABLES log, waiting

vars == <<log, waiting>>

\* The log starts with the genesis block, which records nothing.
Init == log = <<{}>> /\ waiting = {}

Accept(id) ==
    /\ waiting' = waiting \cup {id}
    /\ UNCHANGED log

Record(ids) ==
    /\ log' = Append(log, ids)
    /\ waiting' = waiting \ ids

Next ==
    \/ \E id \in Id : Accept(id)
    \/ \E ids \in SUBSET Id : Record(ids)

Spec == Init /\ [][Next]_vars
=============================================================================
