------------------------------ MODULE Contracts ------------------------------
(***************************************************************************)
(* contracts/contract.go: the ContractManager with the three contracts     *)
(* main.go registers, and the user contract.  The message contract is      *)
(* module MessageContract, the social contract module SocialContract.      *)
(*                                                                         *)
(* ExecuteContract looks the contract of a transaction's type up, lets it  *)
(* validate the transaction and execute it.  A transaction that is refused *)
(* changes nothing.  Nothing records what was executed: every transaction  *)
(* may come again, at any time.                                            *)
(***************************************************************************)
EXTENDS MessageContract, SocialContract

CONSTANTS
    Name,     \* user names
    NoName,   \* the user name ""
    MaxClock  \* bound: the times that are told apart

ASSUME ContractsAssumption == NoName \notin Name /\ MaxClock \in Nat

VARIABLES
    users,  \* uc.users
    clock   \* time.Now()

cvars == <<users, messages, vars, clock>>

\* The profile of a user; the username stands for the avatar and the bio too.
Profile == [username : Name, createdAt : 0 .. MaxClock]
NoUser == [username |-> NoName, createdAt |-> 0]

\* A USER transaction: who sent it, whether its signature verifies, and the
\* profile in its data.
UserTx == [sender : User, verified : BOOLEAN,
           user : [publicKey : User \cup {Nobody}, username : Name \cup {NoName},
                   createdAt : 0 .. MaxClock]]

\* RegisterContract, three times in main.go: SYSTEM transactions have none.
ContractType == {"USER", "MESSAGE", "SOCIAL"}

CInit ==
    /\ users = [u \in User |-> NoUser]
    /\ InitMessages
    /\ Init
    /\ clock = 0

----------------------------------------------------------------------------
(* UserContract *)

\* Mutation: the name may be missing.
ValidateUserKey(tx) == tx.verified /\ tx.user.publicKey # Nobody

ValidateUser(tx) ==
    /\ tx.verified
    /\ tx.user.publicKey # Nobody /\ tx.user.username # NoName

Registered(u) == users[u] # NoUser

\* Mutation: the profile in the transaction replaces the one that is there.
ReplaceUser(tx) ==
    /\ tx.user.publicKey = tx.sender
    /\ users' = [users EXCEPT ![tx.sender] =
          [username |-> tx.user.username,
           createdAt |-> IF Registered(tx.sender) THEN tx.user.createdAt ELSE clock]]

\* An update keeps CreatedAt; a new user gets the time of the execution.
ExecuteUser(tx) ==
    /\ tx.user.publicKey = tx.sender
    /\ users' = [users EXCEPT ![tx.sender] =
          [username |-> tx.user.username,
           createdAt |-> IF Registered(tx.sender) THEN @.createdAt ELSE clock]]

----------------------------------------------------------------------------
(* ContractManager *)

ExecuteContract(type, tx) ==
    /\ type \in ContractType
    /\ \/ /\ type = "USER"
          /\ ValidateUser(tx) /\ ExecuteUser(tx)
          /\ UNCHANGED <<messages, vars>>
       \/ /\ type = "MESSAGE"
          /\ ValidateMessage(tx) /\ ExecuteMessage(tx)
          /\ UNCHANGED <<users, vars>>
       \/ /\ type = "SOCIAL"
          /\ ExecuteSocial(tx)
          /\ UNCHANGED <<users, messages>>
    /\ UNCHANGED clock

TimePasses ==
    /\ clock < MaxClock
    /\ clock' = clock + 1
    /\ UNCHANGED <<users, messages, vars>>

CNext ==
    \/ \E tx \in UserTx : ExecuteContract("USER", tx)
    \/ \E tx \in MessageTx : ExecuteContract("MESSAGE", tx)
    \/ \E tx \in Tx : ExecuteContract("SOCIAL", tx)
    \/ TimePasses

CSpec == CInit /\ [][CNext]_cvars

----------------------------------------------------------------------------
(* Properties *)

\* Whatever transactions come, whoever is registered has a name and every message
\* has two parties; the rest are types.
CTypeOK ==
    /\ users \in [User -> Profile \cup {NoUser}]
    /\ messages \in [User -> Seq(Message)]
    /\ TypeOK
    /\ clock \in 0 .. MaxClock

\* Whatever is executed, and however often, a user once registered stays so,
\* with the time of the first registration.
RegisteredForGood ==
    [][\A u \in User : Registered(u) => /\ users'[u] # NoUser
                                        /\ users'[u].createdAt = users[u].createdAt]_users

=============================================================================
