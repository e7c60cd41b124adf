------------------------------ MODULE Mailbox ------------------------------
(***************************************************************************)
(* What the message contract promises: a conversation of every two users,  *)
(* and of every user with himself, that only grows, one message at a time. *)
(***************************************************************************)
EXTENDS Sequences

CONSTANTS User, Message

VARIABLE conversation  \* for each set of one or two users, their messages

Pair == {{u, v} : u, v \in User}

Init == conversation = [p \in Pair |-> <<>>]

Say(m) == conversation' = [conversation EXCEPT ![{m.sender, m.receiver}] = Append(@, m)]

Next == \E m \in Message : Say(m)

Spec == Init /\ [][Next]_conversation
=============================================================================
