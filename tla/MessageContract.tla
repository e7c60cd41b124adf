--------------------------- MODULE MessageContract ---------------------------
(***************************************************************************)
(* contracts/message_contract.go: the messages two users exchange, stored  *)
(* once in the list of each.  ContractManager (module Contracts) validates *)
(* a MESSAGE transaction and executes it.  Content and times are not told  *)
(* apart: the lists are in the order of execution, and no time is compared *)
(* anywhere.                                                               *)
(***************************************************************************)
EXTENDS Naturals, Sequences, PublicKeys

CONSTANTS
    MsgId,   \* IDs of messages and of transactions
    NoId,    \* the ID ""
    MaxList  \* bound: messages in a list

ASSUME MessageAssumption == NoId \notin MsgId /\ MaxList \in Nat

VARIABLE messages  \* mc.messages

Message == [id : MsgId \cup {NoId}, sender : User, receiver : User]

\* A MESSAGE transaction: its ID, which nothing checks and which may be empty, its
\* parties and whether its signature verifies, and the message in its data, which
\* anyone may have written.
MessageTx ==
    [id : MsgId \cup {NoId}, sender : User, receiver : User \cup {Nobody}, verified : BOOLEAN,
     msg : [id : MsgId \cup {NoId}, sender : User \cup {Nobody},
            receiver : User \cup {Nobody}, typed : BOOLEAN]]

InitMessages == messages = [u \in User |-> <<>>]

----------------------------------------------------------------------------

\* Validate: a signature, two parties, one of the four types.
ValidateMessage(tx) ==
    /\ tx.verified
    /\ tx.msg.sender # Nobody /\ tx.msg.receiver # Nobody
    /\ tx.msg.typed

\* Mutations: the receiver's list comes first and the sender's is forgotten; the
\* newest message comes first with the receiver.
storeReceived(ms, m) == [ms EXCEPT ![m.receiver] = Append(@, m)]
storeNewestFirst(ms, m) ==
    LET sent == [ms EXCEPT ![m.sender] = Append(@, m)]
    IN  [sent EXCEPT ![m.receiver] = <<m>> \o @]

\* storeMessage: a message to oneself is in the list twice.
storeMessage(ms, m) ==
    LET sent == [ms EXCEPT ![m.sender] = Append(@, m)]
    IN  [sent EXCEPT ![m.receiver] = Append(@, m)]

\* The message as it is stored: without an ID it gets the transaction's, which may
\* be empty too.
Stamped(tx) ==
    [id |-> IF tx.msg.id = NoId THEN tx.id ELSE tx.msg.id,
     sender |-> tx.msg.sender, receiver |-> tx.msg.receiver]

ExecuteMessage(tx) ==
    /\ tx.msg.sender = tx.sender
    /\ tx.msg.receiver = tx.receiver
    /\ Len(messages[tx.sender]) < MaxList /\ Len(messages[tx.receiver]) < MaxList
    /\ messages' = storeMessage(messages, Stamped(tx))

----------------------------------------------------------------------------

\* Both give the whole list.
GetMessagesBySender(u) == messages[u]
GetMessagesByReceiver(u) == messages[u]

\* The loop that appends what it is looking for: SelectSeq, for a set.
Select(list, wanted) ==
    LET selected[i \in 0 .. Len(list)] ==
            IF i = 0 THEN <<>>
            ELSE IF list[i] \in wanted THEN Append(selected[i-1], list[i])
            ELSE selected[i-1]
    IN  selected[Len(list)]

Involving(u) == {m \in Message : m.sender = u \/ m.receiver = u}

GetMessagesBetweenUsers(u, v) == Select(messages[u], Involving(v))

----------------------------------------------------------------------------
(* Properties *)

\* Two users see one conversation: the same messages in the same order,
\* whichever of them asks, although it is kept twice and read from one list.
ConversationsAgree ==
    \A u, v \in User : GetMessagesBetweenUsers(u, v) = GetMessagesBetweenUsers(v, u)

\* The lists implement one conversation of every two users.  Of a conversation
\* with oneself every other entry is one message.
WithOneself(u) == Select(messages[u], {m \in Message : m.sender = u /\ m.receiver = u})
Conversation ==
    [p \in {{u, v} : u, v \in User} |->
        LET u == CHOOSE x \in p : TRUE
            v == CHOOSE x \in p : p = {u, x}
        IN  IF u # v THEN GetMessagesBetweenUsers(u, v)
            ELSE [i \in 1 .. Len(WithOneself(u)) \div 2 |-> WithOneself(u)[2 * i]]]
Box == INSTANCE Mailbox WITH conversation <- Conversation
ImplementsMailbox == Box!Spec

\* GetMessagesBySender gives what the user sent.
BySenderIsSent ==
    \A u \in User : \A i \in DOMAIN GetMessagesBySender(u) :
        GetMessagesBySender(u)[i].sender = u

\* No message is stored without an ID: an author who leaves it to the contract
\* gets the transaction's.
StoredWithId == \A u \in User : \A i \in DOMAIN messages[u] : messages[u][i].id # NoId

\* A message ID names one message, of those between two people.
IdsAreUnique ==
    \A u \in User : \A i, j \in DOMAIN messages[u] :
        LET m == messages[u][i]
        IN  m.sender # m.receiver /\ m.id = messages[u][j].id => i = j
=============================================================================
