--------------------------- MODULE SocialContract ---------------------------
(***************************************************************************)
(* contracts/social_contract.go, called through                            *)
(* ContractManager.ExecuteContract (contracts/contract.go), which          *)
(* validates a transaction and then executes it.                           *)
(*                                                                         *)
(* A map of slices is the number of times each user is in each slice; the  *)
(* order in a slice is not kept.                                           *)
(***************************************************************************)
EXTENDS Naturals, PublicKeys

VARIABLES
    following,  \* following[a][b]: how often b is in sc.following[a]
    followers,  \* followers[b][a]: how often a is in sc.followers[b]
    friends     \* friends[a][b]: how often b is in sc.friends[a]

vars == <<following, followers, friends>>

Action == {"FOLLOW", "UNFOLLOW", "ADD_FRIEND", "REMOVE_FRIEND"}

\* A SOCIAL transaction: who sent it, to whom, whether its signature verifies,
\* and the relation in its data, which anyone may have written.
Tx == [sender : User, receiver : User \cup {Nobody}, verified : BOOLEAN,
       action : Action \cup {"other"}, from : User \cup {Nobody}, to : User \cup {Nobody}]

Slices == [User -> [User -> Nat]]
Empty == [a \in User |-> [b \in User |-> 0]]

Init == following = Empty /\ followers = Empty /\ friends = Empty

----------------------------------------------------------------------------

\* append, and removeFromSlice, which takes every occurrence out.
Insert(s, a, b) == [s EXCEPT ![a][b] = @ + 1]
Remove(s, a, b) == [s EXCEPT ![a][b] = 0]

\* Mutation: anybody may be related to oneself.
ValidateNames(tx) == tx.verified /\ tx.from # Nobody /\ tx.to # Nobody

Validate(tx) ==
    /\ tx.verified
    /\ tx.from # Nobody /\ tx.to # Nobody
    /\ tx.from # tx.to

\* The checks Execute starts with.
Matches(tx) == tx.from = tx.sender /\ tx.to = tx.receiver

\* Mutation: the other map is forgotten.
unfollowOneSided(a, b) ==
    /\ following[a][b] > 0
    /\ following' = Remove(following, a, b)
    /\ UNCHANGED <<followers, friends>>

follow(a, b) ==
    /\ following[a][b] = 0
    /\ following' = Insert(following, a, b)
    /\ followers' = Insert(followers, b, a)
    /\ UNCHANGED friends

unfollow(a, b) ==
    /\ following[a][b] > 0
    /\ following' = Remove(following, a, b)
    /\ followers' = Remove(followers, b, a)
    /\ UNCHANGED friends

\* Mutations: no look at what is there; a friend of one side only.
ConnectAgain(g, a, b) ==
    [following |-> Insert(g.following, a, b), followers |-> Insert(g.followers, b, a)]
removeFriendOneSided(a, b) ==
    /\ friends[a][b] > 0
    /\ friends' = Remove(friends, a, b)
    /\ UNCHANGED <<following, followers>>

\* The follow relation addFriend sets up one way, unless it is there.
Connect(g, a, b) ==
    IF g.following[a][b] > 0 THEN g
    ELSE [following |-> Insert(g.following, a, b), followers |-> Insert(g.followers, b, a)]

addFriend(a, b) ==
    LET g == Connect(Connect([following |-> following, followers |-> followers], a, b), b, a)
    IN  /\ friends[a][b] = 0
        /\ friends' = Insert(Insert(friends, a, b), b, a)
        /\ following' = g.following
        /\ followers' = g.followers

removeFriend(a, b) ==
    /\ friends[a][b] > 0
    /\ friends' = Remove(Remove(friends, a, b), b, a)
    /\ UNCHANGED <<following, followers>>

Execute(tx) ==
    /\ Matches(tx)
    /\ \/ tx.action = "FOLLOW" /\ follow(tx.from, tx.to)
       \/ tx.action = "UNFOLLOW" /\ unfollow(tx.from, tx.to)
       \/ tx.action = "ADD_FRIEND" /\ addFriend(tx.from, tx.to)
       \/ tx.action = "REMOVE_FRIEND" /\ removeFriend(tx.from, tx.to)

ExecuteSocial(tx) == Validate(tx) /\ Execute(tx)

Next == \E tx \in Tx : ExecuteSocial(tx)

Spec == Init /\ [][Next]_vars

----------------------------------------------------------------------------
(* Properties *)

TypeOK == following \in Slices /\ followers \in Slices /\ friends \in Slices

\* GetFollowers and GetFollowing never disagree: the two maps are updated by
\* four operations in different ways, and stay each other's mirror.
FollowersMirrorFollowing == \A a, b \in User : following[a][b] = followers[b][a]

\* Friendship is mutual, whichever side adds or removes it.
FriendsAreMutual == \A a, b \in User : friends[a][b] = friends[b][a]

\* No list names a user twice, so one removal is a removal: addFriend must not
\* add a follower that is one already.
NobodyListedTwice ==
    \A a, b \in User : following[a][b] <= 1 /\ followers[a][b] <= 1 /\ friends[a][b] <= 1

\* The three maps implement one relation and one symmetric relation.
Follows == {p \in User \X User : following[p[1]][p[2]] > 0}
Friendships == {{p[1], p[2]} : p \in {q \in User \X User : friends[q[1]][q[2]] > 0}}
G == INSTANCE SocialGraph WITH follows <- Follows, friendships <- Friendships
ImplementsSocialGraph == G!Spec
=============================================================================
