--------------------------- MODULE ContractsProofs ---------------------------
(***************************************************************************)
(* Proofs about the contracts, for every set of users, message IDs and     *)
(* names and every bound: first SocialContract by itself, then the three   *)
(* contracts behind the ContractManager.                                   *)
(***************************************************************************)
EXTENDS Contracts, SequenceTheorems, WellFoundedInduction, TLAPS

----------------------------------------------------------------------------
(* The social contract *)

\* Inserting and removing one entry.
LEMMA InsertAt ==
    ASSUME NEW s \in Slices, NEW a \in User, NEW b \in User
    PROVE  /\ Insert(s, a, b) \in Slices
           /\ \A c, d \in User :
                Insert(s, a, b)[c][d] = IF c = a /\ d = b THEN s[c][d] + 1 ELSE s[c][d]
<1>1. ASSUME NEW c \in User PROVE s[c] \in [User -> Nat]
  BY DEF Slices
<1>2. Insert(s, a, b) = [c \in User |-> IF c = a THEN [s[a] EXCEPT ![b] = @ + 1] ELSE s[c]]
  BY DEF Insert, Slices
<1>3. [s[a] EXCEPT ![b] = @ + 1] = [d \in User |-> IF d = b THEN s[a][d] + 1 ELSE s[a][d]]
  BY <1>1
<1> QED
  BY <1>1, <1>2, <1>3 DEF Slices

LEMMA RemoveAt ==
    ASSUME NEW s \in Slices, NEW a \in User, NEW b \in User
    PROVE  /\ Remove(s, a, b) \in Slices
           /\ \A c, d \in User :
                Remove(s, a, b)[c][d] = IF c = a /\ d = b THEN 0 ELSE s[c][d]
<1>1. ASSUME NEW c \in User PROVE s[c] \in [User -> Nat]
  BY DEF Slices
<1>2. Remove(s, a, b) = [c \in User |-> IF c = a THEN [s[a] EXCEPT ![b] = 0] ELSE s[c]]
  BY DEF Remove, Slices
<1>3. [s[a] EXCEPT ![b] = 0] = [d \in User |-> IF d = b THEN 0 ELSE s[a][d]]
  BY <1>1
<1> QED
  BY <1>1, <1>2, <1>3 DEF Slices

----------------------------------------------------------------------------

Inv == TypeOK /\ FollowersMirrorFollowing /\ FriendsAreMutual /\ NobodyListedTwice

\* The entries are numbers, and 0 or 1.
LEMMA Entries ==
    ASSUME Inv, NEW c \in User, NEW d \in User
    PROVE  /\ following[c][d] \in {0, 1} /\ followers[c][d] \in {0, 1}
           /\ friends[c][d] \in {0, 1}
           /\ followers[d][c] = following[c][d] /\ friends[d][c] = friends[c][d]
<1>1. following[c][d] \in Nat /\ followers[c][d] \in Nat /\ friends[c][d] \in Nat
  BY DEF Inv, TypeOK, Slices
<1>2. following[c][d] <= 1 /\ followers[c][d] <= 1 /\ friends[c][d] <= 1
  BY DEF Inv, NobodyListedTwice
<1>3. followers[d][c] = following[c][d] /\ friends[d][c] = friends[c][d]
  BY DEF Inv, FollowersMirrorFollowing, FriendsAreMutual
<1> QED
  BY <1>1, <1>2, <1>3

\* What is left to show once the entries after a step are known.
LEMMA InvAfter ==
    ASSUME following' \in Slices, followers' \in Slices, friends' \in Slices,
           \A c, d \in User : following'[c][d] \in {0, 1} /\ friends'[c][d] \in {0, 1},
           \A c, d \in User : followers'[d][c] = following'[c][d],
           \A c, d \in User : friends'[d][c] = friends'[c][d]
    PROVE  Inv'
<1>1. TypeOK'
  BY DEF TypeOK
<1>2. FollowersMirrorFollowing'
  BY DEF FollowersMirrorFollowing
<1>3. FriendsAreMutual'
  BY DEF FriendsAreMutual
<1>4. NobodyListedTwice'
  <2>1. ASSUME NEW c \in User, NEW d \in User
        PROVE  following'[c][d] <= 1 /\ followers'[c][d] <= 1 /\ friends'[c][d] <= 1
    <3>1. following'[c][d] \in {0, 1} /\ following'[d][c] \in {0, 1} /\ friends'[c][d] \in {0, 1}
      OBVIOUS
    <3>2. followers'[c][d] = following'[d][c]
      OBVIOUS
    <3> QED
      BY <3>1, <3>2
  <2> QED
    BY <2>1 DEF NobodyListedTwice
<1> QED
  BY <1>1, <1>2, <1>3, <1>4 DEF Inv

----------------------------------------------------------------------------

LEMMA FollowStep ==
    ASSUME Inv, NEW a \in User, NEW b \in User, follow(a, b)
    PROVE  Inv'
<1>1. following \in Slices /\ followers \in Slices /\ friends \in Slices
  BY DEF Inv, TypeOK
<1>2. /\ following[a][b] = 0 /\ friends' = friends
      /\ following' = Insert(following, a, b) /\ followers' = Insert(followers, b, a)
  BY DEF follow
<1>3. following' \in Slices /\ followers' \in Slices
  BY <1>1, <1>2, InsertAt
<1>4. ASSUME NEW c \in User, NEW d \in User
      PROVE  /\ following'[c][d] \in {0, 1} /\ friends'[c][d] \in {0, 1}
             /\ followers'[d][c] = following'[c][d] /\ friends'[d][c] = friends'[c][d]
  <2>1. Insert(following, a, b)[c][d]
          = IF c = a /\ d = b THEN following[c][d] + 1 ELSE following[c][d]
    BY <1>1, InsertAt
  <2>2. Insert(followers, b, a)[d][c]
          = IF d = b /\ c = a THEN followers[d][c] + 1 ELSE followers[d][c]
    BY <1>1, InsertAt
  <2> QED
    BY <1>2, <2>1, <2>2, Entries
<1> QED
  BY <1>1, <1>2, <1>3, <1>4, InvAfter

LEMMA UnfollowStep ==
    ASSUME Inv, NEW a \in User, NEW b \in User, unfollow(a, b)
    PROVE  Inv'
<1>1. following \in Slices /\ followers \in Slices /\ friends \in Slices
  BY DEF Inv, TypeOK
<1>2. /\ friends' = friends
      /\ following' = Remove(following, a, b) /\ followers' = Remove(followers, b, a)
  BY DEF unfollow
<1>3. following' \in Slices /\ followers' \in Slices
  BY <1>1, <1>2, RemoveAt
<1>4. ASSUME NEW c \in User, NEW d \in User
      PROVE  /\ following'[c][d] \in {0, 1} /\ friends'[c][d] \in {0, 1}
             /\ followers'[d][c] = following'[c][d] /\ friends'[d][c] = friends'[c][d]
  <2>1. Remove(following, a, b)[c][d] = IF c = a /\ d = b THEN 0 ELSE following[c][d]
    BY <1>1, RemoveAt
  <2>2. Remove(followers, b, a)[d][c] = IF d = b /\ c = a THEN 0 ELSE followers[d][c]
    BY <1>1, RemoveAt
  <2> QED
    BY <1>2, <2>1, <2>2, Entries
<1> QED
  BY <1>1, <1>2, <1>3, <1>4, InvAfter

----------------------------------------------------------------------------

\* Two slices maps that mirror each other, no user listed twice.
Mirror(f, g) ==
    /\ f \in Slices /\ g \in Slices
    /\ \A c, d \in User : f[c][d] \in {0, 1} /\ g[d][c] = f[c][d]

\* addFriend's follow relation, one way: the maps stay each other's mirror
\* whether or not the relation was there.
LEMMA ConnectAt ==
    ASSUME NEW f, NEW g, Mirror(f, g), NEW a \in User, NEW b \in User
    PROVE  \E f1, g1 : /\ Connect([following |-> f, followers |-> g], a, b)
                              = [following |-> f1, followers |-> g1]
                       /\ Mirror(f1, g1)
<1>1. CASE f[a][b] > 0
  <2>1. Connect([following |-> f, followers |-> g], a, b) = [following |-> f, followers |-> g]
    BY <1>1 DEF Connect
  <2> QED
    BY <2>1
<1>2. CASE ~(f[a][b] > 0)
  <2>1. f[a][b] = 0 /\ f \in Slices /\ g \in Slices
    BY <1>2 DEF Mirror
  <2>2. Connect([following |-> f, followers |-> g], a, b)
          = [following |-> Insert(f, a, b), followers |-> Insert(g, b, a)]
    BY <1>2 DEF Connect
  <2>3. Insert(f, a, b) \in Slices /\ Insert(g, b, a) \in Slices
    BY <2>1, InsertAt
  <2>4. ASSUME NEW c \in User, NEW d \in User
        PROVE  /\ Insert(f, a, b)[c][d] \in {0, 1}
               /\ Insert(g, b, a)[d][c] = Insert(f, a, b)[c][d]
    <3>1. Insert(f, a, b)[c][d] = IF c = a /\ d = b THEN f[c][d] + 1 ELSE f[c][d]
      BY <2>1, InsertAt
    <3>2. Insert(g, b, a)[d][c] = IF d = b /\ c = a THEN g[d][c] + 1 ELSE g[d][c]
      BY <2>1, InsertAt
    <3>3. f[c][d] \in {0, 1} /\ g[d][c] = f[c][d]
      BY DEF Mirror
    <3> QED
      BY <2>1, <3>1, <3>2, <3>3
  <2>5. Mirror(Insert(f, a, b), Insert(g, b, a))
    BY <2>3, <2>4 DEF Mirror
  <2> QED
    BY <2>2, <2>5
<1> QED
  BY <1>1, <1>2

LEMMA AddFriendStep ==
    ASSUME Inv, NEW a \in User, NEW b \in User, a # b, addFriend(a, b)
    PROVE  Inv'
<1>1. friends \in Slices /\ Mirror(following, followers)
  BY Entries DEF Inv, TypeOK, Mirror
<1>2. PICK f1, g1 : /\ Connect([following |-> following, followers |-> followers], a, b)
                           = [following |-> f1, followers |-> g1]
                    /\ Mirror(f1, g1)
  <2>1. PICK f, g : f = following /\ g = followers
    OBVIOUS
  <2>2. \E f1, g1 : /\ Connect([following |-> f, followers |-> g], a, b)
                          = [following |-> f1, followers |-> g1]
                    /\ Mirror(f1, g1)
    BY <1>1, <2>1, ConnectAt
  <2> QED
    BY <2>1, <2>2
<1>3. PICK f2, g2 : /\ Connect([following |-> f1, followers |-> g1], b, a)
                           = [following |-> f2, followers |-> g2]
                    /\ Mirror(f2, g2)
  BY <1>2, ConnectAt
<1>4. following' = f2 /\ followers' = g2
  <2>1. LET g == Connect(Connect([following |-> following, followers |-> followers], a, b), b, a)
        IN  following' = g.following /\ followers' = g.followers
    BY DEF addFriend
  <2>2. /\ [following |-> f2, followers |-> g2].following = f2
        /\ [following |-> f2, followers |-> g2].followers = g2
    OBVIOUS
  <2> QED
    BY <1>2, <1>3, <2>1, <2>2
<1>5. friends[a][b] = 0 /\ friends' = Insert(Insert(friends, a, b), b, a)
  BY DEF addFriend
<1>6. Insert(friends, a, b) \in Slices
  BY <1>1, InsertAt
<1>7. friends' \in Slices
  BY <1>5, <1>6, InsertAt
<1>8. ASSUME NEW c \in User, NEW d \in User
      PROVE  friends'[c][d] = IF (c = a /\ d = b) \/ (c = b /\ d = a) THEN 1 ELSE friends[c][d]
  <2>1. Insert(friends, a, b)[c][d] = IF c = a /\ d = b THEN friends[c][d] + 1 ELSE friends[c][d]
    BY <1>1, InsertAt
  <2>2. Insert(Insert(friends, a, b), b, a)[c][d]
          = IF c = b /\ d = a THEN Insert(friends, a, b)[c][d] + 1 ELSE Insert(friends, a, b)[c][d]
    BY <1>6, InsertAt
  <2>3. friends[b][a] = 0
    BY <1>5, Entries
  <2> QED
    BY <1>5, <2>1, <2>2, <2>3
<1>9. ASSUME NEW c \in User, NEW d \in User
      PROVE  friends'[c][d] \in {0, 1} /\ friends'[d][c] = friends'[c][d]
  <2>1. friends[c][d] \in {0, 1} /\ friends[d][c] = friends[c][d]
    BY Entries
  <2>2. friends'[c][d] = IF (c = a /\ d = b) \/ (c = b /\ d = a) THEN 1 ELSE friends[c][d]
    BY <1>8
  <2>3. friends'[d][c] = IF (d = a /\ c = b) \/ (d = b /\ c = a) THEN 1 ELSE friends[d][c]
    BY <1>8
  <2> QED
    BY <2>1, <2>2, <2>3
<1> QED
  BY <1>3, <1>4, <1>7, <1>9, InvAfter DEF Mirror

LEMMA RemoveFriendStep ==
    ASSUME Inv, NEW a \in User, NEW b \in User, removeFriend(a, b)
    PROVE  Inv'
<1>1. following \in Slices /\ followers \in Slices /\ friends \in Slices
  BY DEF Inv, TypeOK
<1>2. /\ following' = following /\ followers' = followers
      /\ friends' = Remove(Remove(friends, a, b), b, a)
  BY DEF removeFriend
<1>3. Remove(friends, a, b) \in Slices
  BY <1>1, RemoveAt
<1>4. friends' \in Slices
  BY <1>2, <1>3, RemoveAt
<1>5. ASSUME NEW c \in User, NEW d \in User
      PROVE  friends'[c][d] = IF (c = a /\ d = b) \/ (c = b /\ d = a) THEN 0 ELSE friends[c][d]
  <2>1. Remove(friends, a, b)[c][d] = IF c = a /\ d = b THEN 0 ELSE friends[c][d]
    BY <1>1, RemoveAt
  <2>2. Remove(Remove(friends, a, b), b, a)[c][d]
          = IF c = b /\ d = a THEN 0 ELSE Remove(friends, a, b)[c][d]
    BY <1>3, RemoveAt
  <2> QED
    BY <1>2, <2>1, <2>2
<1>6. ASSUME NEW c \in User, NEW d \in User
      PROVE  /\ following'[c][d] \in {0, 1} /\ friends'[c][d] \in {0, 1}
             /\ followers'[d][c] = following'[c][d] /\ friends'[d][c] = friends'[c][d]
  <2>1. friends'[c][d] = IF (c = a /\ d = b) \/ (c = b /\ d = a) THEN 0 ELSE friends[c][d]
    BY <1>5
  <2>2. friends'[d][c] = IF (d = a /\ c = b) \/ (d = b /\ c = a) THEN 0 ELSE friends[d][c]
    BY <1>5
  <2> QED
    BY <1>2, <2>1, <2>2, Entries
<1> QED
  BY <1>1, <1>2, <1>4, <1>6, InvAfter

\* Every step is one of the four operations on two different users.
LEMMA StepCases ==
    ASSUME Next
    PROVE  \E a, b \in User :
             a # b /\ (follow(a, b) \/ unfollow(a, b) \/ addFriend(a, b) \/ removeFriend(a, b))
<1>1. PICK tx \in Tx : ExecuteSocial(tx)
  BY DEF Next
<1>2. tx.from \in User /\ tx.to \in User /\ tx.from # tx.to
  BY <1>1 DEF ExecuteSocial, Validate, Tx
<1> QED
  BY <1>1, <1>2 DEF ExecuteSocial, Execute

----------------------------------------------------------------------------

\* Types, and the three facts that keep the maps consistent, are one inductive
\* invariant: removeFromSlice and append keep the mirror only together.
THEOREM Consistent == Spec => []Inv
<1>1. Init => Inv
  BY DEF Init, Inv, TypeOK, FollowersMirrorFollowing, FriendsAreMutual, NobodyListedTwice,
         Empty, Slices
<1>2. Inv /\ [Next]_vars => Inv'
  <2>1. ASSUME Inv, Next PROVE Inv'
    <3>1. PICK a \in User, b \in User :
             a # b /\ (follow(a, b) \/ unfollow(a, b) \/ addFriend(a, b) \/ removeFriend(a, b))
      BY <2>1, StepCases
    <3> QED
      BY <2>1, <3>1, FollowStep, UnfollowStep, AddFriendStep, RemoveFriendStep
  <2>2. ASSUME Inv, UNCHANGED vars PROVE Inv'
    BY <2>2 DEF vars, Inv, TypeOK, FollowersMirrorFollowing, FriendsAreMutual, NobodyListedTwice
  <2> QED
    BY <2>1, <2>2
<1> QED
  BY <1>1, <1>2, PTL DEF Spec

\* The slices of the contract's maps hold users only, for every set of users.
THEOREM TypeCorrect == Spec => []TypeOK
<1>1. Inv => TypeOK
  BY DEF Inv
<1> QED
  BY <1>1, Consistent, PTL

\* GetFollowers and GetFollowing never disagree.
THEOREM Mirrored == Spec => []FollowersMirrorFollowing
<1>1. Inv => FollowersMirrorFollowing
  BY DEF Inv
<1> QED
  BY <1>1, Consistent, PTL

\* Friendship is mutual.
THEOREM Mutual == Spec => []FriendsAreMutual
<1>1. Inv => FriendsAreMutual
  BY DEF Inv
<1> QED
  BY <1>1, Consistent, PTL

\* No list names a user twice.
THEOREM ListedOnce == Spec => []NobodyListedTwice
<1>1. Inv => NobodyListedTwice
  BY DEF Inv
<1> QED
  BY <1>1, Consistent, PTL

----------------------------------------------------------------------------
(* The relations the maps implement *)

LEMMA FriendshipAt ==
    ASSUME NEW x
    PROVE  x \in Friendships <=> \E c, d \in User : friends[c][d] > 0 /\ x = {c, d}
<1>1. ASSUME NEW c \in User, NEW d \in User, friends[c][d] > 0 PROVE {c, d} \in Friendships
  <2>1. <<c, d>> \in {q \in User \X User : friends[q[1]][q[2]] > 0}
    BY <1>1
  <2> QED
    BY <2>1 DEF Friendships
<1>2. ASSUME x \in Friendships PROVE \E c, d \in User : friends[c][d] > 0 /\ x = {c, d}
  BY <1>2 DEF Friendships
<1> QED
  BY <1>1, <1>2

\* A relation follows from the entries of its map.
LEMMA FollowsAfter ==
    ASSUME NEW S \in SUBSET (User \X User),
           \A c, d \in User : following'[c][d] > 0 <=> <<c, d>> \in S
    PROVE  Follows' = S
  BY DEF Follows

LEMMA FriendshipsAfter ==
    ASSUME NEW a \in User, NEW b \in User, NEW add \in BOOLEAN,
           \A c, d \in User : friends'[c][d] > 0 <=>
                IF (c = a /\ d = b) \/ (c = b /\ d = a) THEN add ELSE friends[c][d] > 0
    PROVE  Friendships' = IF add THEN Friendships \cup {{a, b}} ELSE Friendships \ {{a, b}}
<1>1. ASSUME NEW x
      PROVE  x \in Friendships' <=> \E c, d \in User : friends'[c][d] > 0 /\ x = {c, d}
  <2>1. ASSUME NEW c \in User, NEW d \in User, friends'[c][d] > 0 PROVE {c, d} \in Friendships'
    <3>1. <<c, d>> \in {q \in User \X User : friends'[q[1]][q[2]] > 0}
      BY <2>1
    <3> QED
      BY <3>1 DEF Friendships
  <2>2. ASSUME x \in Friendships' PROVE \E c, d \in User : friends'[c][d] > 0 /\ x = {c, d}
    BY <2>2 DEF Friendships
  <2> QED
    BY <2>1, <2>2
<1>2. \A c, d \in User : {c, d} = {a, b} <=> (c = a /\ d = b) \/ (c = b /\ d = a)
  OBVIOUS
<1>3. CASE add
  <2>1. ASSUME NEW x PROVE x \in Friendships' <=> x \in Friendships \/ x = {a, b}
    BY <1>1, <1>2, <1>3, FriendshipAt
  <2> QED
    BY <1>3, <2>1
<1>4. CASE ~add
  <2>1. ASSUME NEW x PROVE x \in Friendships' <=> x \in Friendships /\ x # {a, b}
    BY <1>1, <1>2, <1>4, FriendshipAt
  <2> QED
    BY <1>4, <2>1
<1> QED
  BY <1>3, <1>4

LEMMA FollowRefines ==
    ASSUME Inv, NEW a \in User, NEW b \in User, follow(a, b)
    PROVE  G!Follow(a, b)
<1>0. following \in Slices
  BY DEF Inv, TypeOK
<1>1. /\ following[a][b] = 0
      /\ following' = Insert(following, a, b)
  BY DEF follow
<1>2. Friendships' = Friendships
  BY DEF follow, Friendships
<1>3. ASSUME NEW c \in User, NEW d \in User
      PROVE  following'[c][d] > 0 <=> <<c, d>> \in Follows \cup {<<a, b>>}
  <2>1. Insert(following, a, b)[c][d]
          = IF c = a /\ d = b THEN following[c][d] + 1 ELSE following[c][d]
    BY <1>0, InsertAt
  <2>2. <<c, d>> \in Follows <=> following[c][d] > 0
    BY DEF Follows
  <2>3. following'[c][d] > 0 <=> following[c][d] > 0 \/ (c = a /\ d = b)
    BY <1>1, <2>1, Entries
  <2>4. <<c, d>> \in {<<a, b>>} <=> c = a /\ d = b
    OBVIOUS
  <2> QED
    BY <2>2, <2>3, <2>4
<1>4. Follows \cup {<<a, b>>} \in SUBSET (User \X User)
  BY DEF Follows
<1>5. Follows' = Follows \cup {<<a, b>>}
  <2>1. PICK S \in SUBSET (User \X User) : S = Follows \cup {<<a, b>>}
    BY <1>4
  <2> QED
    BY <1>3, <2>1, FollowsAfter
<1>6. <<a, b>> \notin Follows
  BY <1>1 DEF Follows
<1> QED
  BY <1>2, <1>5, <1>6 DEF G!Follow

LEMMA UnfollowRefines ==
    ASSUME Inv, NEW a \in User, NEW b \in User, unfollow(a, b)
    PROVE  G!Unfollow(a, b)
<1>0. following \in Slices
  BY DEF Inv, TypeOK
<1>1. /\ following[a][b] > 0
      /\ following' = Remove(following, a, b)
  BY DEF unfollow
<1>2. Friendships' = Friendships
  BY DEF unfollow, Friendships
<1>3. ASSUME NEW c \in User, NEW d \in User
      PROVE  following'[c][d] > 0 <=> <<c, d>> \in Follows \ {<<a, b>>}
  <2>1. Remove(following, a, b)[c][d] = IF c = a /\ d = b THEN 0 ELSE following[c][d]
    BY <1>0, RemoveAt
  <2>2. <<c, d>> \in Follows <=> following[c][d] > 0
    BY DEF Follows
  <2>3. following'[c][d] > 0 <=> following[c][d] > 0 /\ ~(c = a /\ d = b)
    BY <1>1, <2>1, Entries
  <2>4. <<c, d>> \in {<<a, b>>} <=> c = a /\ d = b
    OBVIOUS
  <2> QED
    BY <2>2, <2>3, <2>4
<1>4. Follows' = Follows \ {<<a, b>>}
  <2>1. PICK S \in SUBSET (User \X User) : S = Follows \ {<<a, b>>}
    BY DEF Follows
  <2> QED
    BY <1>3, <2>1, FollowsAfter
<1>5. <<a, b>> \in Follows
  BY <1>1 DEF Follows
<1> QED
  BY <1>2, <1>4, <1>5 DEF G!Unfollow

\* What addFriend's Connect leaves in the map of followings.
LEMMA ConnectFollowing ==
    ASSUME NEW f \in Slices, NEW g \in Slices, NEW a \in User, NEW b \in User
    PROVE  LET r == Connect([following |-> f, followers |-> g], a, b)
           IN  /\ r = [following |-> r.following, followers |-> r.followers]
               /\ r.following \in Slices /\ r.followers \in Slices
               /\ \A c, d \in User : r.following[c][d] > 0 <=> f[c][d] > 0 \/ (c = a /\ d = b)
<1> DEFINE r == Connect([following |-> f, followers |-> g], a, b)
<1>1. CASE f[a][b] > 0
  <2>1. r = [following |-> f, followers |-> g]
    BY <1>1 DEF Connect
  <2> HIDE DEF r
  <2>2. r.following = f /\ r.followers = g
    BY <2>1
  <2> QED
    BY <1>1, <2>1, <2>2 DEF r
<1>2. CASE ~(f[a][b] > 0)
  <2> DEFINE f1 == Insert(f, a, b)
             g1 == Insert(g, b, a)
  <2>1. r = [following |-> f1, followers |-> g1]
    BY <1>2 DEF Connect
  <2>2. f1 \in Slices /\ g1 \in Slices
    BY InsertAt
  <2>3. ASSUME NEW c \in User, NEW d \in User
        PROVE  f1[c][d] > 0 <=> f[c][d] > 0 \/ (c = a /\ d = b)
    <3>1. f1[c][d] = IF c = a /\ d = b THEN f[c][d] + 1 ELSE f[c][d]
      BY InsertAt
    <3>2. f[c][d] \in Nat
      BY DEF Slices
    <3> HIDE DEF f1
    <3> QED
      BY <3>1, <3>2
  <2> HIDE DEF r, f1, g1
  <2>4. r.following = f1 /\ r.followers = g1
    BY <2>1
  <2> QED
    BY <2>1, <2>2, <2>3, <2>4 DEF r
<1> QED
  BY <1>1, <1>2

LEMMA BefriendRefines ==
    ASSUME Inv, NEW a \in User, NEW b \in User, a # b, addFriend(a, b)
    PROVE  G!Befriend(a, b)
<1>1. following \in Slices /\ followers \in Slices /\ friends \in Slices
  BY DEF Inv, TypeOK
<1> DEFINE r1 == Connect([following |-> following, followers |-> followers], a, b)
           r2 == Connect(r1, b, a)
<1>2. following' = r2.following /\ friends[a][b] = 0
      /\ friends' = Insert(Insert(friends, a, b), b, a)
  BY DEF addFriend
<1>3. /\ r1 = [following |-> r1.following, followers |-> r1.followers]
      /\ r1.following \in Slices /\ r1.followers \in Slices
      /\ \A c, d \in User :
            r1.following[c][d] > 0 <=> following[c][d] > 0 \/ (c = a /\ d = b)
  <2>1. PICK f \in Slices, g \in Slices : f = following /\ g = followers
    BY <1>1
  <2> QED
    BY <2>1, ConnectFollowing
<1>4. \A c, d \in User :
          r2.following[c][d] > 0 <=> r1.following[c][d] > 0 \/ (c = b /\ d = a)
  <2>1. PICK f \in Slices, g \in Slices : f = r1.following /\ g = r1.followers
    BY <1>3
  <2>2. r1 = [following |-> f, followers |-> g]
    BY <1>3, <2>1
  <2> DEFINE r == Connect([following |-> f, followers |-> g], b, a)
  <2>3. f \in Slices /\ g \in Slices
    BY <2>1
  <2>4. /\ r = [following |-> r.following, followers |-> r.followers]
        /\ r.following \in Slices /\ r.followers \in Slices
        /\ \A c, d \in User : r.following[c][d] > 0 <=> f[c][d] > 0 \/ (c = b /\ d = a)
    BY <2>3, ConnectFollowing
  <2> HIDE DEF r1
  <2>5. r = r2
    BY <2>2
  <2> HIDE DEF r, r2
  <2> QED
    BY <2>1, <2>4, <2>5
<1> HIDE DEF r1, r2
<1>5. ASSUME NEW c \in User, NEW d \in User
      PROVE  following'[c][d] > 0 <=> <<c, d>> \in Follows \cup {<<a, b>>, <<b, a>>}
  <2>1. following'[c][d] > 0 <=>
            following[c][d] > 0 \/ (c = a /\ d = b) \/ (c = b /\ d = a)
    BY <1>2, <1>3, <1>4
  <2>2. <<c, d>> \in Follows <=> following[c][d] > 0
    BY DEF Follows
  <2>3. <<c, d>> \in {<<a, b>>, <<b, a>>} <=> (c = a /\ d = b) \/ (c = b /\ d = a)
    OBVIOUS
  <2> QED
    BY <2>1, <2>2, <2>3
<1>6. Follows' = Follows \cup {<<a, b>>, <<b, a>>}
  <2>0. Follows \cup {<<a, b>>, <<b, a>>} \in SUBSET (User \X User)
    BY DEF Follows
  <2>1. PICK S \in SUBSET (User \X User) : S = Follows \cup {<<a, b>>, <<b, a>>}
    BY <2>0
  <2> QED
    BY <1>5, <2>1, FollowsAfter
<1>7. ASSUME NEW c \in User, NEW d \in User
      PROVE  friends'[c][d] > 0 <=>
                IF (c = a /\ d = b) \/ (c = b /\ d = a) THEN TRUE ELSE friends[c][d] > 0
  <2>1. Insert(friends, a, b) \in Slices
    BY <1>1, InsertAt
  <2>2. Insert(friends, a, b)[c][d] = IF c = a /\ d = b THEN friends[c][d] + 1 ELSE friends[c][d]
    BY <1>1, InsertAt
  <2>3. Insert(Insert(friends, a, b), b, a)[c][d]
          = IF c = b /\ d = a THEN Insert(friends, a, b)[c][d] + 1 ELSE Insert(friends, a, b)[c][d]
    BY <2>1, InsertAt
  <2>4. friends[c][d] \in {0, 1}
    BY Entries
  <2> QED
    BY <1>2, <2>2, <2>3, <2>4
<1>8. Friendships' = Friendships \cup {{a, b}}
  BY <1>7, FriendshipsAfter
<1>9. {a, b} \notin Friendships
  <2>1. friends[b][a] = 0 /\ friends[a][b] = 0
    BY <1>2, Entries
  <2>2. ASSUME NEW c \in User, NEW d \in User, friends[c][d] > 0 PROVE {c, d} # {a, b}
    <3>1. ~(c = a /\ d = b) /\ ~(c = b /\ d = a)
      BY <2>1, <2>2
    <3> QED
      BY <3>1
  <2> QED
    BY <2>2, FriendshipAt
<1> QED
  BY <1>6, <1>8, <1>9 DEF G!Befriend

LEMMA UnfriendRefines ==
    ASSUME Inv, NEW a \in User, NEW b \in User, removeFriend(a, b)
    PROVE  G!Unfriend(a, b)
<1>1. /\ friends \in Slices /\ friends[a][b] > 0
      /\ friends' = Remove(Remove(friends, a, b), b, a)
  BY DEF removeFriend, Inv, TypeOK
<1>2. Follows' = Follows
  BY DEF removeFriend, Follows
<1>3. ASSUME NEW c \in User, NEW d \in User
      PROVE  friends'[c][d] > 0 <=>
                IF (c = a /\ d = b) \/ (c = b /\ d = a) THEN FALSE ELSE friends[c][d] > 0
  <2>1. Remove(friends, a, b) \in Slices
    BY <1>1, RemoveAt
  <2>2. Remove(friends, a, b)[c][d] = IF c = a /\ d = b THEN 0 ELSE friends[c][d]
    BY <1>1, RemoveAt
  <2>3. Remove(Remove(friends, a, b), b, a)[c][d]
          = IF c = b /\ d = a THEN 0 ELSE Remove(friends, a, b)[c][d]
    BY <2>1, RemoveAt
  <2> QED
    BY <1>1, <2>2, <2>3
<1>4. Friendships' = Friendships \ {{a, b}}
  BY <1>3, FriendshipsAfter
<1>5. {a, b} \in Friendships
  BY <1>1, FriendshipAt
<1> QED
  BY <1>2, <1>4, <1>5 DEF G!Unfriend

\* The maps of slices implement one relation and one symmetric relation, for
\* every set of users and whatever transactions are executed.
THEOREM Refinement == Spec => ImplementsSocialGraph
<1>1. Init => G!Init
  <2> SUFFICES ASSUME Init PROVE G!Init
    OBVIOUS
  <2>1. \A c, d \in User : following[c][d] = 0 /\ friends[c][d] = 0
    BY DEF Init, Empty
  <2>2. Follows = {}
    BY <2>1 DEF Follows
  <2>3. Friendships = {}
    BY <2>1, FriendshipAt
  <2> QED
    BY <2>2, <2>3 DEF G!Init
<1>2. Inv /\ [Next]_vars => [G!Next]_(G!vars)
  <2>1. ASSUME Inv, Next PROVE G!Next
    <3>1. PICK a \in User, b \in User :
             a # b /\ (follow(a, b) \/ unfollow(a, b) \/ addFriend(a, b) \/ removeFriend(a, b))
      BY <2>1, StepCases
    <3>2. G!Follow(a, b) \/ G!Unfollow(a, b) \/ G!Befriend(a, b) \/ G!Unfriend(a, b)
      BY <2>1, <3>1, FollowRefines, UnfollowRefines, BefriendRefines, UnfriendRefines
    <3> QED
      BY <3>1, <3>2 DEF G!Next
  <2>2. ASSUME UNCHANGED vars PROVE UNCHANGED G!vars
    BY <2>2 DEF vars, G!vars, Follows, Friendships
  <2> QED
    BY <2>1, <2>2
<1> QED
  BY <1>1, <1>2, Consistent, PTL DEF Spec, ImplementsSocialGraph, G!Spec

----------------------------------------------------------------------------
(* What a loop selects of a list *)

\* A set of numbers that is not empty has a least one.
LEMMA LeastNumber ==
    ASSUME NEW B \in SUBSET Nat, B # {}
    PROVE  \E m \in B : \A k \in B : ~(k < m)
<1>1. \E m \in B : \A k \in B : ~(<<k, m>> \in OpToRel(<, Nat))
  BY WFMin, NatLessThanWellFounded, Zenon
<1> QED
  BY <1>1 DEF OpToRel

\* f[i] is what is selected of the first i entries of s.
Selection(f, s, T) ==
    f = [i \in 0 .. Len(s) |->
            IF i = 0 THEN <<>>
            ELSE IF s[i] \in T THEN Append(f[i-1], s[i])
            ELSE f[i-1]]

LEMMA SelectIs ==
    ASSUME NEW s, NEW T
    PROVE  Select(s, T) = (CHOOSE f : Selection(f, s, T))[Len(s)]
BY DEF Select, Selection

LEMMA SelectionAt ==
    ASSUME NEW S, NEW s \in Seq(S), NEW T, NEW f, Selection(f, s, T)
    PROVE  /\ f[0] = <<>>
           /\ \A i \in 1 .. Len(s) :
                 f[i] = IF s[i] \in T THEN Append(f[i-1], s[i]) ELSE f[i-1]
<1> DEFINE N == Len(s)
           E(i) == IF i = 0 THEN <<>>
                   ELSE IF s[i] \in T THEN Append(f[i-1], s[i])
                   ELSE f[i-1]
<1>0. N \in Nat
  OBVIOUS
<1>1. f = [i \in 0 .. N |-> E(i)]
  BY Zenon DEF Selection
<1> HIDE DEF N, E
<1>2. \A i \in 0 .. N : f[i] = E(i)
  BY <1>1, Zenon
<1>3. f[0] = E(0)
  BY <1>0, <1>2
<1>4. ASSUME NEW i \in 1 .. N PROVE f[i] = E(i) /\ i # 0
  BY <1>0, <1>2
<1> QED
  BY <1>3, <1>4 DEF E, N

LEMMA SelectionUnique ==
    ASSUME NEW S, NEW s \in Seq(S), NEW T, NEW f, NEW g,
           Selection(f, s, T), Selection(g, s, T)
    PROVE  f = g
<1> DEFINE B == {i \in 0 .. Len(s) : f[i] # g[i]}
<1>1. f = [i \in 0 .. Len(s) |-> f[i]] /\ g = [i \in 0 .. Len(s) |-> g[i]]
  BY DEF Selection
<1>2. ASSUME B # {} PROVE FALSE
  <2>0. B \in SUBSET Nat
    OBVIOUS
  <2> HIDE DEF B
  <2>1. PICK m \in B : \A k \in B : ~(k < m)
    BY <1>2, <2>0, LeastNumber
  <2>2. m \in 0 .. Len(s) /\ f[m] # g[m]
    BY <2>1 DEF B
  <2>3. m \in 1 .. Len(s) /\ m - 1 \in 0 .. Len(s) /\ m - 1 < m
    BY <2>2, SelectionAt
  <2>4. f[m-1] = g[m-1]
    BY <2>1, <2>3 DEF B
  <2> QED
    BY <2>2, <2>3, <2>4, SelectionAt
<1> QED
  BY <1>1, <1>2

LEMMA SelectionOfAppend ==
    ASSUME NEW S, NEW s \in Seq(S), NEW e \in S, NEW T, NEW f, Selection(f, s, T)
    PROVE  LET last == IF e \in T THEN Append(f[Len(s)], e) ELSE f[Len(s)]
           IN  Selection([i \in 0 .. Len(s) + 1 |-> IF i <= Len(s) THEN f[i] ELSE last],
                         Append(s, e), T)
<1> DEFINE last == IF e \in T THEN Append(f[Len(s)], e) ELSE f[Len(s)]
           n == Len(s)
           t == Append(s, e)
           g == [i \in 0 .. n + 1 |-> IF i <= n THEN f[i] ELSE last]
           h == [i \in 0 .. Len(t) |->
                    IF i = 0 THEN <<>>
                    ELSE IF t[i] \in T THEN Append(g[i-1], t[i])
                    ELSE g[i-1]]
<1>1. n \in Nat /\ Len(t) = n + 1 /\ t[n + 1] = e /\ \A i \in 1 .. n : t[i] = s[i]
  OBVIOUS
<1>2. f[0] = <<>> /\ \A i \in 1 .. n : f[i] = IF s[i] \in T THEN Append(f[i-1], s[i]) ELSE f[i-1]
  BY SelectionAt
<1>3. last = IF e \in T THEN Append(f[n], e) ELSE f[n]
  OBVIOUS
<1> HIDE DEF n, t, last
<1>4. ASSUME NEW i \in 0 .. n + 1 PROVE g[i] = h[i]
  <2>1. CASE i = 0
    BY <1>1, <1>2, <2>1
  <2>2. CASE i \in 1 .. n
    <3>1. g[i] = f[i] /\ g[i-1] = f[i-1] /\ t[i] = s[i]
      BY <1>1, <2>2
    <3> QED
      BY <1>1, <1>2, <2>2, <3>1
  <2>3. CASE i = n + 1
    <3>1. g[i] = last /\ g[i-1] = f[n] /\ t[i] = e
      BY <1>1, <2>3
    <3> QED
      BY <1>1, <1>3, <2>3, <3>1
  <2> QED
    BY <1>1, <2>1, <2>2, <2>3
<1>5. g = h
  BY <1>1, <1>4
<1> QED
  BY <1>5 DEF Selection, n, t, last

LEMMA SelectionExists ==
    ASSUME NEW S, NEW s \in Seq(S), NEW T
    PROVE  \E f : Selection(f, s, T)
<1> DEFINE B == {n \in Nat : \E t \in Seq(S) : Len(t) = n /\ ~ \E f : Selection(f, t, T)}
<1>1. ASSUME B # {} PROVE FALSE
  <2>0. B \in SUBSET Nat
    OBVIOUS
  <2> HIDE DEF B
  <2>1. PICK m \in B : \A k \in B : ~(k < m)
    BY <1>1, <2>0, LeastNumber
  <2>2. PICK t \in Seq(S) : Len(t) = m /\ ~ \E f : Selection(f, t, T)
    BY <2>1 DEF B
  <2>3. m # 0
    <3>1. ASSUME m = 0 PROVE Selection([i \in 0 .. 0 |-> <<>>], t, T)
      BY <2>2, <3>1 DEF Selection
    <3> QED
      BY <2>2, <3>1
  <2> DEFINE r == SubSeq(t, 1, m - 1)
  <2>4. m \in Nat \ {0} /\ m - 1 \in Nat
    BY <2>2, <2>3
  <2>5. r \in Seq(S) /\ Len(r) = m - 1 /\ t[m] \in S /\ t = Append(r, t[m])
    BY <2>2, <2>4
  <2> HIDE DEF r
  <2>6. PICK f : Selection(f, r, T)
    BY <2>1, <2>4, <2>5 DEF B
  <2>7. \E g : Selection(g, Append(r, t[m]), T)
    BY <2>5, <2>6, SelectionOfAppend
  <2> QED
    BY <2>2, <2>5, <2>7
<1> QED
  BY <1>1

LEMMA SelectBy ==
    ASSUME NEW S, NEW s \in Seq(S), NEW T, NEW f, Selection(f, s, T)
    PROVE  Select(s, T) = f[Len(s)]
<1>1. (CHOOSE g : Selection(g, s, T)) = f
  <2>1. Selection((CHOOSE g : Selection(g, s, T)), s, T)
    OBVIOUS
  <2> QED
    BY <2>1, SelectionUnique
<1> QED
  BY <1>1, SelectIs

\* Nothing is selected of nothing.
LEMMA SelectEmpty ==
    ASSUME NEW T
    PROVE  Select(<<>>, T) = <<>>
<1> DEFINE s == <<>>
<1>1. s \in Seq({}) /\ Len(s) = 0
  OBVIOUS
<1> HIDE DEF s
<1>2. PICK f : Selection(f, s, T)
  BY <1>1, SelectionExists
<1>3. f[0] = <<>>
  <2>1. \A S : s \in Seq(S) => f[0] = <<>>
    BY <1>2, SelectionAt, Zenon
  <2> QED
    BY <1>1, <2>1, Zenon
<1>4. Select(s, T) = f[Len(s)]
  BY <1>1, <1>2, SelectBy
<1> QED
  BY <1>1, <1>3, <1>4 DEF s

\* A message added to a list is added to what is selected if it is wanted.
LEMMA SelectAppend ==
    ASSUME NEW S, NEW s \in Seq(S), NEW e \in S, NEW T
    PROVE  Select(Append(s, e), T) = IF e \in T THEN Append(Select(s, T), e) ELSE Select(s, T)
<1>1. PICK f : Selection(f, s, T)
  BY SelectionExists
<1> DEFINE last == IF e \in T THEN Append(f[Len(s)], e) ELSE f[Len(s)]
           g == [i \in 0 .. Len(s) + 1 |-> IF i <= Len(s) THEN f[i] ELSE last]
<1>2. Selection(g, Append(s, e), T)
  BY <1>1, SelectionOfAppend
<1>3. Append(s, e) \in Seq(S) /\ Len(Append(s, e)) = Len(s) + 1 /\ Len(s) \in Nat
  OBVIOUS
<1>4. g[Len(s) + 1] = last
  BY <1>3
<1> HIDE DEF g
<1>5. Select(Append(s, e), T) = last
  BY <1>2, <1>3, <1>4, SelectBy
<1>6. Select(s, T) = f[Len(s)]
  BY <1>1, SelectBy
<1> QED
  BY <1>5, <1>6

\* What is selected are entries of the list.
LEMMA SelectType ==
    ASSUME NEW S, NEW s \in Seq(S), NEW T
    PROVE  Select(s, T) \in Seq(S)
<1>1. PICK f : Selection(f, s, T)
  BY SelectionExists
<1> DEFINE B == {i \in 0 .. Len(s) : f[i] \notin Seq(S)}
<1>2. ASSUME B # {} PROVE FALSE
  <2>0. B \in SUBSET Nat
    OBVIOUS
  <2> HIDE DEF B
  <2>1. PICK m \in B : \A k \in B : ~(k < m)
    BY <1>2, <2>0, LeastNumber
  <2>2. m \in 0 .. Len(s) /\ f[m] \notin Seq(S)
    BY <2>1 DEF B
  <2>3. m \in 1 .. Len(s) /\ m - 1 \in 0 .. Len(s) /\ m - 1 < m
    <3>1. f[0] = <<>> /\ <<>> \in Seq(S) /\ Len(s) \in Nat
      BY <1>1, SelectionAt
    <3>2. m # 0
      <4>1. m = 0 => f[m] = f[0]
        OBVIOUS
      <4> QED
        BY <2>2, <3>1, <4>1, Zenon
    <3> QED
      BY <2>2, <3>1, <3>2
  <2>4. f[m-1] \in Seq(S) /\ s[m] \in S
    BY <2>1, <2>3 DEF B
  <2>5. f[m] = IF s[m] \in T THEN Append(f[m-1], s[m]) ELSE f[m-1]
    BY <1>1, <2>3, SelectionAt
  <2> QED
    BY <2>2, <2>4, <2>5
<1>3. f[Len(s)] \in Seq(S)
  BY <1>2
<1> QED
  BY <1>1, <1>3, SelectBy

----------------------------------------------------------------------------
(* The manager *)

\* The ContractManager does to the social contract's maps what the social
\* contract does: a transaction of another type leaves them alone.
THEOREM ManagerRunsSocial == CSpec => Spec
<1>1. CInit => Init
  BY DEF CInit
<1>2. [CNext]_cvars => [Next]_vars
  <2>1. ASSUME CNext PROVE Next \/ UNCHANGED vars
    BY <2>1 DEF CNext, ExecuteContract, TimePasses, Next
  <2>2. ASSUME UNCHANGED cvars PROVE UNCHANGED vars
    BY <2>2 DEF cvars
  <2> QED
    BY <2>1, <2>2
<1> QED
  BY <1>1, <1>2, PTL DEF CSpec, Spec

\* Behind the manager, too, the two maps of the follow relation mirror each
\* other, friendship is mutual and nobody is listed twice.
THEOREM ManagerKeepsConsistent == CSpec => []Inv
BY ManagerRunsSocial, Consistent, PTL

\* And the maps implement the social graph.
THEOREM ManagerRefinesGraph == CSpec => ImplementsSocialGraph
BY ManagerRunsSocial, Refinement

----------------------------------------------------------------------------
(* Storing a message *)

\* Every list holds messages.
Lists == [User -> Seq(Message)]

\* What a MESSAGE transaction stores is a message between two users.
LEMMA StampedIsMessage ==
    ASSUME NEW tx \in MessageTx, ValidateMessage(tx)
    PROVE  Stamped(tx) \in Message
<1>1. /\ tx.id \in MsgId \cup {NoId} /\ tx.msg.id \in MsgId \cup {NoId}
      /\ tx.msg.sender \in User /\ tx.msg.receiver \in User
  BY DEF MessageTx, ValidateMessage
<1>2. (IF tx.msg.id = NoId THEN tx.id ELSE tx.msg.id) \in MsgId \cup {NoId}
  BY <1>1
<1> QED
  BY <1>1, <1>2 DEF Stamped, Message

\* The lists after a message was stored.
LEMMA StoreAt ==
    ASSUME NEW ms \in Lists, NEW m \in Message, NEW u \in User
    PROVE  /\ storeMessage(ms, m) \in Lists
           /\ m.sender = u /\ m.receiver = u =>
                 storeMessage(ms, m)[u] = Append(Append(ms[u], m), m)
           /\ (m.sender = u) # (m.receiver = u) =>
                 storeMessage(ms, m)[u] = Append(ms[u], m)
           /\ m.sender # u /\ m.receiver # u => storeMessage(ms, m)[u] = ms[u]
<1> DEFINE one == [ms EXCEPT ![m.sender] = Append(@, m)]
           two == [one EXCEPT ![m.receiver] = Append(@, m)]
<1>1. m.sender \in User /\ m.receiver \in User
  BY DEF Message
<1>2. \A v \in User : ms[v] \in Seq(Message) /\ Append(ms[v], m) \in Seq(Message)
  BY DEF Lists
<1>3. one \in Lists /\ \A v \in User : one[v] = IF v = m.sender THEN Append(ms[v], m) ELSE ms[v]
  BY <1>1, <1>2 DEF Lists
<1>4. storeMessage(ms, m) = two
  BY DEF storeMessage
<1> HIDE DEF one, two
<1>5. ASSUME NEW v \in User PROVE one[v] \in Seq(Message) /\ Append(one[v], m) \in Seq(Message)
  <2>1. one[v] \in Seq(Message)
    BY <1>2, <1>3
  <2> QED
    BY <2>1
<1>6. two \in Lists /\ \A v \in User : two[v] = IF v = m.receiver THEN Append(one[v], m) ELSE one[v]
  BY <1>1, <1>3, <1>5 DEF Lists, two
<1> QED
  BY <1>3, <1>4, <1>6

\* A set tells of one message appended, or of one appended twice.
LEMMA SelectTwice ==
    ASSUME NEW s \in Seq(Message), NEW m \in Message, NEW T
    PROVE  Select(Append(Append(s, m), m), T)
              = IF m \in T THEN Append(Append(Select(s, T), m), m) ELSE Select(s, T)
<1>1. Append(s, m) \in Seq(Message)
  OBVIOUS
<1>2. Select(Append(Append(s, m), m), T)
        = IF m \in T THEN Append(Select(Append(s, m), T), m) ELSE Select(Append(s, m), T)
  BY <1>1, SelectAppend
<1>3. Select(Append(s, m), T) = IF m \in T THEN Append(Select(s, T), m) ELSE Select(s, T)
  BY SelectAppend
<1> QED
  BY <1>2, <1>3

\* A stored message joins the conversation of its two parties, once in the list
\* of each, and no other conversation of two.
LEMMA BetweenAfter ==
    ASSUME NEW ms \in Lists, NEW m \in Message, NEW u \in User, NEW v \in User, u # v
    PROVE  Select(storeMessage(ms, m)[u], Involving(v))
              = IF {u, v} = {m.sender, m.receiver}
                THEN Append(Select(ms[u], Involving(v)), m)
                ELSE Select(ms[u], Involving(v))
<1> DEFINE T == Involving(v)
<1>1. m \in T <=> m.sender = v \/ m.receiver = v
  BY DEF Involving
<1>2. ms[u] \in Seq(Message)
  BY DEF Lists
<1> HIDE DEF T
<1>3. CASE m.sender = u /\ m.receiver = u
  <2>1. m \notin T /\ {u, v} # {m.sender, m.receiver}
    BY <1>1, <1>3
  <2>2. storeMessage(ms, m)[u] = Append(Append(ms[u], m), m)
    BY <1>3, StoreAt
  <2> QED
    BY <1>2, <2>1, <2>2, SelectTwice DEF T
<1>4. CASE (m.sender = u) # (m.receiver = u)
  <2>1. m \in T <=> {u, v} = {m.sender, m.receiver}
    BY <1>1, <1>4
  <2>2. storeMessage(ms, m)[u] = Append(ms[u], m)
    BY <1>4, StoreAt
  <2>3. Select(Append(ms[u], m), T) = IF m \in T THEN Append(Select(ms[u], T), m) ELSE Select(ms[u], T)
    BY <1>2, SelectAppend
  <2> QED
    BY <2>1, <2>2, <2>3 DEF T
<1>5. CASE m.sender # u /\ m.receiver # u
  <2>1. {u, v} # {m.sender, m.receiver}
    BY <1>5
  <2>2. storeMessage(ms, m)[u] = ms[u]
    BY <1>5, StoreAt
  <2> QED
    BY <2>1, <2>2
<1> QED
  BY <1>3, <1>4, <1>5

\* A message to oneself is there twice; no other message counts as one.
ToOneself(u) == {m \in Message : m.sender = u /\ m.receiver = u}

LEMMA ToOneselfAfter ==
    ASSUME NEW ms \in Lists, NEW m \in Message, NEW u \in User
    PROVE  Select(storeMessage(ms, m)[u], ToOneself(u))
              = IF {u} = {m.sender, m.receiver}
                THEN Append(Append(Select(ms[u], ToOneself(u)), m), m)
                ELSE Select(ms[u], ToOneself(u))
<1> DEFINE T == ToOneself(u)
<1>1. /\ m \in T <=> m.sender = u /\ m.receiver = u
      /\ m \in T <=> {u} = {m.sender, m.receiver}
  BY DEF ToOneself
<1>2. ms[u] \in Seq(Message)
  BY DEF Lists
<1> HIDE DEF T
<1>3. CASE m.sender = u /\ m.receiver = u
  <2>1. storeMessage(ms, m)[u] = Append(Append(ms[u], m), m)
    BY <1>3, StoreAt
  <2>2. Select(Append(Append(ms[u], m), m), T)
          = IF m \in T THEN Append(Append(Select(ms[u], T), m), m) ELSE Select(ms[u], T)
    BY <1>2, SelectTwice
  <2> QED
    BY <1>1, <1>3, <2>1, <2>2 DEF T
<1>4. CASE (m.sender = u) # (m.receiver = u)
  <2>1. storeMessage(ms, m)[u] = Append(ms[u], m)
    BY <1>4, StoreAt
  <2>2. Select(Append(ms[u], m), T) = IF m \in T THEN Append(Select(ms[u], T), m) ELSE Select(ms[u], T)
    BY <1>2, SelectAppend
  <2> QED
    BY <1>1, <1>4, <2>1, <2>2 DEF T
<1>5. CASE m.sender # u /\ m.receiver # u
  <2>1. storeMessage(ms, m)[u] = ms[u]
    BY <1>5, StoreAt
  <2> QED
    BY <1>1, <1>5, <2>1 DEF T
<1> QED
  BY <1>3, <1>4, <1>5

----------------------------------------------------------------------------
(* Conversations *)

\* The lists are such that two users see one conversation, and of a conversation
\* with oneself every message is there twice.
Readable(ms) ==
    /\ ms \in Lists
    /\ \A u, v \in User : Select(ms[u], Involving(v)) = Select(ms[v], Involving(u))
    /\ \A u \in User : \E k \in Nat : Len(Select(ms[u], ToOneself(u))) = 2 * k

\* The inductive invariant of the contracts.
CInv == CTypeOK /\ Readable(messages)

\* The empty lists are readable.
LEMMA ReadableAtFirst == Readable([u \in User |-> <<>>])
<1> DEFINE ms == [u \in User |-> <<>>]
<1>1. \A u \in User : ms[u] = <<>> /\ <<>> \in Seq(Message)
  OBVIOUS
<1>2. ms \in Lists
  BY DEF Lists
<1> HIDE DEF ms
<1>3. \A u \in User : \A T : Select(ms[u], T) = <<>>
  BY <1>1, SelectEmpty
<1>4. Len(<<>>) = 2 * 0
  OBVIOUS
<1>5. \A u \in User : \E k \in Nat : Len(Select(ms[u], ToOneself(u))) = 2 * k
  BY <1>3, <1>4
<1>6. \A u, v \in User : Select(ms[u], Involving(v)) = Select(ms[v], Involving(u))
  BY <1>3
<1> QED
  BY <1>2, <1>5, <1>6 DEF Readable, ms

\* Storing a message keeps the lists readable: it is appended to both lists, or
\* to neither, of what two users see, and twice to what one sees of himself.
LEMMA ReadableAfter ==
    ASSUME NEW ms, Readable(ms), NEW m \in Message
    PROVE  Readable(storeMessage(ms, m))
<1> DEFINE ns == storeMessage(ms, m)
<1>1. ms \in Lists
  BY DEF Readable
<1>2. ns \in Lists
  <2>1. m.sender \in User
    BY DEF Message
  <2> QED
    BY <1>1, <2>1, StoreAt
<1> HIDE DEF ns
<1>3. ASSUME NEW u \in User, NEW v \in User
      PROVE  Select(ns[u], Involving(v)) = Select(ns[v], Involving(u))
  <2>1. CASE u = v
    BY <2>1
  <2>2. CASE u # v
    <3>1. Select(ms[u], Involving(v)) = Select(ms[v], Involving(u))
      BY DEF Readable
    <3>2. Select(ns[u], Involving(v))
            = IF {u, v} = {m.sender, m.receiver}
              THEN Append(Select(ms[u], Involving(v)), m)
              ELSE Select(ms[u], Involving(v))
      BY <1>1, <2>2, BetweenAfter DEF ns
    <3>3. Select(ns[v], Involving(u))
            = IF {v, u} = {m.sender, m.receiver}
              THEN Append(Select(ms[v], Involving(u)), m)
              ELSE Select(ms[v], Involving(u))
      BY <1>1, <2>2, BetweenAfter DEF ns
    <3>4. {u, v} = {v, u}
      OBVIOUS
    <3> QED
      BY <3>1, <3>2, <3>3, <3>4
  <2> QED
    BY <2>1, <2>2
<1>4. ASSUME NEW u \in User
      PROVE  \E k \in Nat : Len(Select(ns[u], ToOneself(u))) = 2 * k
  <2> DEFINE w == Select(ms[u], ToOneself(u))
  <2>1. ms[u] \in Seq(Message)
    BY <1>1 DEF Lists
  <2>2. w \in Seq(Message)
    BY <2>1, SelectType
  <2>3. PICK k \in Nat : Len(w) = 2 * k
    BY DEF Readable
  <2>4. Select(ns[u], ToOneself(u))
          = IF {u} = {m.sender, m.receiver} THEN Append(Append(w, m), m) ELSE w
    BY <1>1, ToOneselfAfter DEF ns
  <2> HIDE DEF w
  <2>5. Len(Append(Append(w, m), m)) = 2 * (k + 1) /\ k + 1 \in Nat
    BY <2>2, <2>3
  <2>6. CASE {u} = {m.sender, m.receiver}
    <3>1. Select(ns[u], ToOneself(u)) = Append(Append(w, m), m)
      BY <2>4, <2>6
    <3> QED
      BY <2>5, <3>1
  <2>7. CASE {u} # {m.sender, m.receiver}
    <3>1. Select(ns[u], ToOneself(u)) = w
      BY <2>4, <2>7
    <3> QED
      BY <2>3, <3>1
  <2> QED
    BY <2>6, <2>7
<1> QED
  BY <1>2, <1>3, <1>4 DEF Readable, ns

\* Every step of the manager, and what it does to the lists.
LEMMA MessagesStep ==
    ASSUME CNext
    PROVE  \/ messages' = messages
           \/ \E m \in Message : messages' = storeMessage(messages, m)
<1>1. CASE \E tx \in UserTx : ExecuteContract("USER", tx)
  BY <1>1 DEF ExecuteContract
<1>2. CASE \E tx \in MessageTx : ExecuteContract("MESSAGE", tx)
  <2>1. PICK tx \in MessageTx : ExecuteContract("MESSAGE", tx)
    BY <1>2
  <2>2. ValidateMessage(tx) /\ messages' = storeMessage(messages, Stamped(tx))
    BY <2>1 DEF ExecuteContract, ExecuteMessage
  <2> QED
    BY <2>2, StampedIsMessage
<1>3. CASE \E tx \in Tx : ExecuteContract("SOCIAL", tx)
  BY <1>3 DEF ExecuteContract
<1>4. CASE TimePasses
  BY <1>4 DEF TimePasses
<1> QED
  BY <1>1, <1>2, <1>3, <1>4 DEF CNext

\* A user's profile is replaced by one with a creation time, the old one's if
\* there is one.
LEMMA UsersStep ==
    ASSUME CTypeOK, CNext
    PROVE  \/ users' = users
           \/ \E u \in User, name \in Name :
                users' = [users EXCEPT ![u] =
                            [username |-> name,
                             createdAt |-> IF Registered(u) THEN users[u].createdAt ELSE clock]]
<1>1. CASE \E tx \in UserTx : ExecuteContract("USER", tx)
  <2>1. PICK tx \in UserTx : ExecuteContract("USER", tx)
    BY <1>1
  <2>2. ValidateUser(tx) /\ ExecuteUser(tx)
    BY <2>1 DEF ExecuteContract
  <2>3. tx.sender \in User /\ tx.user.username \in Name
    BY <2>2 DEF UserTx, ValidateUser
  <2> QED
    BY <2>2, <2>3 DEF ExecuteUser
<1>2. CASE \E tx \in MessageTx : ExecuteContract("MESSAGE", tx)
  BY <1>2 DEF ExecuteContract
<1>3. CASE \E tx \in Tx : ExecuteContract("SOCIAL", tx)
  BY <1>3 DEF ExecuteContract
<1>4. CASE TimePasses
  BY <1>4 DEF TimePasses
<1> QED
  BY <1>1, <1>2, <1>3, <1>4 DEF CNext

\* The clock counts up to its bound.
LEMMA ClockStep ==
    ASSUME CTypeOK, CNext
    PROVE  clock' \in 0 .. MaxClock
<1>1. clock \in 0 .. MaxClock /\ MaxClock \in Nat
  BY ContractsAssumption DEF CTypeOK
<1>2. clock' = clock \/ (clock < MaxClock /\ clock' = clock + 1)
  BY DEF CNext, ExecuteContract, TimePasses
<1> QED
  BY <1>1, <1>2

\* Types and conversations of a message list follow from Readable.
LEMMA UsersType ==
    ASSUME CTypeOK, CNext
    PROVE  users' \in [User -> Profile \cup {NoUser}]
<1>1. CASE users' = users
  BY <1>1 DEF CTypeOK
<1>2. ASSUME NEW u \in User, NEW name \in Name,
             users' = [users EXCEPT ![u] =
                         [username |-> name,
                          createdAt |-> IF Registered(u) THEN users[u].createdAt ELSE clock]]
      PROVE  users' \in [User -> Profile \cup {NoUser}]
  <2> DEFINE time == IF Registered(u) THEN users[u].createdAt ELSE clock
             new == [username |-> name, createdAt |-> time]
  <2>1. users \in [User -> Profile \cup {NoUser}] /\ clock \in 0 .. MaxClock
    BY DEF CTypeOK
  <2>2. time \in 0 .. MaxClock
    <3>1. ASSUME Registered(u) PROVE users[u] \in Profile
      BY <2>1, <3>1 DEF Registered
    <3> QED
      BY <2>1, <3>1 DEF Profile
  <2> HIDE DEF time
  <2>3. new \in Profile
    BY <2>2 DEF Profile
  <2>4. users' = [users EXCEPT ![u] = new]
    BY <1>2 DEF time
  <2> HIDE DEF new
  <2> QED
    BY <2>1, <2>3, <2>4
<1> QED
  BY <1>1, <1>2, UsersStep

LEMMA CInvAtFirst == CInit => CInv
<1> SUFFICES ASSUME CInit PROVE CInv
  OBVIOUS
<1>1. Init => TypeOK
  BY DEF Init, TypeOK, Empty, Slices
<1>2. messages = [u \in User |-> <<>>]
  BY DEF CInit, InitMessages
<1>3. Readable(messages)
  BY <1>2, ReadableAtFirst
<1>4. messages \in [User -> Seq(Message)]
  BY <1>3 DEF Readable, Lists
<1>5. clock \in 0 .. MaxClock
  BY ContractsAssumption DEF CInit
<1>6. users \in [User -> Profile \cup {NoUser}]
  BY DEF CInit
<1> QED
  BY <1>1, <1>3, <1>4, <1>5, <1>6 DEF CInit, CInv, CTypeOK

LEMMA CInvStep ==
    ASSUME CInv, TypeOK', CNext
    PROVE  CInv'
<1>1. Readable(messages)'
  <2>1. PICK ms : ms = messages /\ Readable(ms)
    BY DEF CInv
  <2>2. CASE messages' = messages
    BY <2>1, <2>2
  <2>3. ASSUME NEW m \in Message, messages' = storeMessage(messages, m)
        PROVE  Readable(messages)'
    <3>1. Readable(storeMessage(ms, m))
      BY <2>1, ReadableAfter
    <3> QED
      BY <2>1, <2>3, <3>1
  <2> QED
    BY <2>2, <2>3, MessagesStep
<1>2. (messages \in [User -> Seq(Message)])'
  BY <1>1 DEF Readable, Lists
<1>3. users' \in [User -> Profile \cup {NoUser}] /\ clock' \in 0 .. MaxClock
  BY UsersType, ClockStep DEF CInv
<1> QED
  BY <1>1, <1>2, <1>3 DEF CInv, CTypeOK

\* Types, and what keeps the two copies of a conversation alike, are one
\* inductive invariant of the manager.
THEOREM ManagerInvariant == CSpec => []CInv
<1>1. CInv /\ TypeOK' /\ [CNext]_cvars => CInv'
  <2>1. ASSUME CInv, UNCHANGED cvars PROVE CInv'
    BY <2>1 DEF cvars, vars, CInv, CTypeOK, TypeOK
  <2> QED
    BY <2>1, CInvStep
<1> QED
  BY <1>1, CInvAtFirst, ManagerRunsSocial, TypeCorrect, PTL DEF CSpec

\* Whatever is executed, whoever is registered has a name, every message has two
\* parties, and the rest that the three contracts store keeps its type.
THEOREM ManagerTypeCorrect == CSpec => []CTypeOK
<1>1. CInv => CTypeOK
  BY DEF CInv
<1> QED
  BY <1>1, ManagerInvariant, PTL

\* Two users read one conversation, whichever of them asks.
THEOREM OneConversation == CSpec => []ConversationsAgree
<1>1. CInv => ConversationsAgree
  BY DEF CInv, Readable, ConversationsAgree, GetMessagesBetweenUsers
<1> QED
  BY <1>1, ManagerInvariant, PTL

\* Whatever is executed, and however often, a user once registered stays so,
\* with the time of the first registration.
THEOREM RegisteredOnce == CSpec => RegisteredForGood
<1> DEFINE Keeps == \A u \in User : Registered(u) => /\ users'[u] # NoUser
                                                     /\ users'[u].createdAt = users[u].createdAt
<1>1. CInv /\ [CNext]_cvars => [Keeps]_users
  <2>1. ASSUME CInv, CNext PROVE Keeps \/ users' = users
    <3>1. users \in [User -> Profile \cup {NoUser}]
      BY <2>1 DEF CInv, CTypeOK
    <3>2. ASSUME NEW w \in User, NEW name \in Name,
                 users' = [users EXCEPT ![w] =
                             [username |-> name,
                              createdAt |-> IF Registered(w) THEN users[w].createdAt ELSE clock]]
          PROVE  Keeps
      <4> DEFINE time == IF Registered(w) THEN users[w].createdAt ELSE clock
                 new == [username |-> name, createdAt |-> time]
      <4>1. new.createdAt = time /\ new # NoUser
        <5>1. new.username = name /\ NoUser.username = NoName /\ name # NoName
          BY ContractsAssumption DEF NoUser
        <5> QED
          BY <5>1
      <4>2. users' = [users EXCEPT ![w] = new]
        BY <3>2
      <4>3. Registered(w) => time = users[w].createdAt
        OBVIOUS
      <4> HIDE DEF new, time
      <4>4. ASSUME NEW u \in User, Registered(u)
            PROVE  users'[u] # NoUser /\ users'[u].createdAt = users[u].createdAt
        <5>1. CASE u = w
          <6>1. users'[u] = new
            BY <3>1, <4>2, <5>1
          <6> QED
            BY <4>1, <4>3, <4>4, <5>1, <6>1
        <5>2. CASE u # w
          <6>1. users'[u] = users[u]
            BY <3>1, <4>2, <5>2
          <6> QED
            BY <4>4, <6>1 DEF Registered
        <5> QED
          BY <5>1, <5>2
      <4> QED
        BY <4>4
    <3> QED
      BY <2>1, <3>2, UsersStep DEF CInv
  <2>2. ASSUME UNCHANGED cvars PROVE users' = users
    BY <2>2 DEF cvars
  <2> QED
    BY <2>1, <2>2
<1> QED
  BY <1>1, ManagerInvariant, PTL DEF CSpec, RegisteredForGood

----------------------------------------------------------------------------
(* The mailbox the message lists implement *)

\* Every other entry.
Halved(w) == [i \in 1 .. Len(w) \div 2 |-> w[2 * i]]

Pairs == {{u, v} : u, v \in User}

\* The conversations in the lists ms.
ConversationIn(ms) ==
    [p \in Pairs |->
        LET u == CHOOSE x \in p : TRUE
            v == CHOOSE x \in p : p = {u, x}
        IN  IF u # v THEN Select(ms[u], Involving(v)) ELSE Halved(Select(ms[u], ToOneself(u)))]

LEMMA ConversationIs ==
    Conversation = ConversationIn(messages) /\ Conversation' = ConversationIn(messages')
BY DEF Conversation, ConversationIn, Pairs, Halved, WithOneself, ToOneself,
       GetMessagesBetweenUsers

\* Whichever of the two users the conversation of a pair is looked up with.
LEMMA ConversationAt ==
    ASSUME NEW ms, Readable(ms), NEW a \in User, NEW b \in User
    PROVE  ConversationIn(ms)[{a, b}]
              = IF a # b THEN Select(ms[a], Involving(b)) ELSE Halved(Select(ms[a], ToOneself(a)))
<1> DEFINE p == {a, b}
           u == CHOOSE x \in p : TRUE
           v == CHOOSE x \in p : p = {u, x}
<1>1. p \in Pairs
  BY DEF Pairs
<1>2. ConversationIn(ms)[p]
        = IF u # v THEN Select(ms[u], Involving(v)) ELSE Halved(Select(ms[u], ToOneself(u)))
  BY <1>1 DEF ConversationIn
<1>3. u \in p
  OBVIOUS
<1>4. v \in p /\ p = {u, v}
  <2>1. \E x \in p : p = {u, x}
    BY <1>3
  <2> QED
    BY <2>1
<1> HIDE DEF u, v
<1>5. (u = a /\ v = b) \/ (u = b /\ v = a)
  BY <1>3, <1>4
<1>6. Select(ms[a], Involving(b)) = Select(ms[b], Involving(a))
  BY DEF Readable
<1> QED
  BY <1>2, <1>5, <1>6

\* A message to oneself, appended twice, is one more message of every other.
LEMMA HalvedAppend ==
    ASSUME NEW w \in Seq(Message), NEW m \in Message, NEW k \in Nat, Len(w) = 2 * k
    PROVE  Halved(Append(Append(w, m), m)) = Append(Halved(w), m)
<1> DEFINE x == Append(Append(w, m), m)
<1>1. /\ x \in Seq(Message) /\ Len(x) = 2 * (k + 1) /\ x[2 * (k + 1)] = m
      /\ \A j \in 1 .. 2 * k : x[j] = w[j]
  OBVIOUS
<1> HIDE DEF x
<1>2. (2 * k) \div 2 = k /\ (2 * (k + 1)) \div 2 = k + 1
  OBVIOUS
<1> DEFINE half == [i \in 1 .. k |-> w[2 * i]]
<1>3. Halved(w) = half
  BY <1>2 DEF Halved
<1>4. Halved(x) = [i \in 1 .. k + 1 |-> x[2 * i]]
  BY <1>1, <1>2 DEF Halved
<1>5. half \in Seq(Message) /\ Len(half) = k
  <2>1. \A i \in 1 .. k : 2 * i \in 1 .. Len(w)
    OBVIOUS
  <2>2. \A i \in 1 .. k : w[2 * i] \in Message
    BY <2>1
  <2> QED
    BY <2>2
<1>6. \A i \in 1 .. k : half[i] = w[2 * i]
  OBVIOUS
<1> HIDE DEF half
<1>7. /\ Append(half, m) = [i \in 1 .. k + 1 |-> Append(half, m)[i]]
      /\ Append(half, m)[k + 1] = m
      /\ \A i \in 1 .. k : Append(half, m)[i] = half[i]
  <2>1. Append(half, m) \in Seq(Message) /\ Len(Append(half, m)) = k + 1
    BY <1>5
  <2>2. Append(half, m) \in [1 .. k + 1 -> Message]
    BY <2>1, LenProperties
  <2>3. Append(half, m) = [i \in 1 .. k + 1 |-> Append(half, m)[i]]
    BY <2>2, Zenon
  <2> QED
    BY <1>5, <2>3
<1>8. ASSUME NEW i \in 1 .. k + 1 PROVE Append(half, m)[i] = x[2 * i]
  <2>0. i = k + 1 \/ i \in 1 .. k
    OBVIOUS
  <2>1. CASE i = k + 1
    BY <1>1, <1>7, <2>1
  <2>2. CASE i \in 1 .. k
    <3>1. 2 * i \in 1 .. 2 * k
      BY <2>2
    <3> QED
      BY <1>1, <1>6, <1>7, <2>2, <3>1
  <2> QED
    BY <2>0, <2>1, <2>2, Zenon
<1>9. Append(half, m) = [i \in 1 .. k + 1 |-> x[2 * i]]
  BY <1>7, <1>8
<1> QED
  BY <1>3, <1>4, <1>9 DEF x

\* A stored message is one more message in the conversation of its parties.
LEMMA StoreSays ==
    ASSUME NEW ms, Readable(ms), NEW m \in Message
    PROVE  ConversationIn(storeMessage(ms, m))
             = [ConversationIn(ms) EXCEPT ![{m.sender, m.receiver}] = Append(@, m)]
<1> DEFINE ns == storeMessage(ms, m)
           old == ConversationIn(ms)
           new == ConversationIn(ns)
           p == {m.sender, m.receiver}
<1>1. Readable(ns) /\ ms \in Lists
  BY ReadableAfter DEF Readable
<1>2. m.sender \in User /\ m.receiver \in User /\ p \in Pairs
  BY DEF Message, Pairs
<1>3. ASSUME NEW a \in User, NEW b \in User
      PROVE  new[{a, b}] = IF {a, b} = p THEN Append(old[{a, b}], m) ELSE old[{a, b}]
  <2>1. CASE a # b
    <3>1. new[{a, b}] = Select(ns[a], Involving(b)) /\ old[{a, b}] = Select(ms[a], Involving(b))
      <4> HIDE DEF ns
      <4> QED
        BY <1>1, <2>1, ConversationAt
    <3> QED
      BY <1>1, <2>1, <3>1, BetweenAfter
  <2>2. CASE a = b
    <3> DEFINE w == Select(ms[a], ToOneself(a))
    <3>1. new[{a, b}] = Halved(Select(ns[a], ToOneself(a))) /\ old[{a, b}] = Halved(w)
      <4> HIDE DEF ns
      <4> QED
        BY <1>1, <2>2, ConversationAt
    <3>2. Select(ns[a], ToOneself(a)) = IF {a} = p THEN Append(Append(w, m), m) ELSE w
      BY <1>1, ToOneselfAfter
    <3>3. w \in Seq(Message) /\ \E k \in Nat : Len(w) = 2 * k
      <4>1. ms[a] \in Seq(Message)
        BY <1>1 DEF Lists
      <4> QED
        BY <4>1, SelectType DEF Readable
    <3> HIDE DEF w, ns, old, new, p
    <3>4. Halved(Append(Append(w, m), m)) = Append(Halved(w), m)
      BY <3>3, HalvedAppend
    <3>5. {a, b} = {a}
      BY <2>2
    <3> QED
      BY <3>1, <3>2, <3>4, <3>5
  <2> QED
    BY <2>1, <2>2
<1>4. new = [q \in Pairs |-> new[q]] /\ old = [q \in Pairs |-> old[q]]
  BY DEF ConversationIn
<1> HIDE DEF ns, old, new, p
<1>5. ASSUME NEW q \in Pairs PROVE new[q] = IF q = p THEN Append(old[q], m) ELSE old[q]
  <2>1. PICK a \in User, b \in User : q = {a, b}
    BY DEF Pairs
  <2> QED
    BY <1>3, <2>1
<1>6. new = [old EXCEPT ![p] = Append(@, m)]
  BY <1>2, <1>4, <1>5
<1> QED
  BY <1>6 DEF ns, old, new, p

\* The lists, in which every message is stored twice, implement one conversation
\* of every two users and of everyone with himself, for every set of users,
\* whatever transactions are executed.
THEOREM MailboxRefinement == CSpec => ImplementsMailbox
<1>1. CInit => Box!Init
  <2> SUFFICES ASSUME CInit PROVE Box!Init
    OBVIOUS
  <2> DEFINE ms == [u \in User |-> <<>>]
  <2>1. messages = ms /\ \A u \in User : ms[u] = <<>>
    BY DEF CInit, InitMessages
  <2>2. Readable(ms)
    BY ReadableAtFirst
  <2> HIDE DEF ms
  <2>3. Halved(<<>>) = <<>>
    BY DEF Halved
  <2>4. ASSUME NEW p \in Pairs PROVE ConversationIn(ms)[p] = <<>>
    <3>1. PICK a \in User, b \in User : p = {a, b}
      BY DEF Pairs
    <3> QED
      BY <2>1, <2>2, <2>3, <3>1, ConversationAt, SelectEmpty
  <2>5. ConversationIn(ms) = [p \in Pairs |-> <<>>]
    BY <2>4 DEF ConversationIn
  <2> QED
    BY <2>1, <2>5, ConversationIs DEF Box!Init, Box!Pair, Pairs
<1>2. CInv /\ [CNext]_cvars => [Box!Next]_Conversation
  <2>1. ASSUME messages' = messages PROVE Conversation' = Conversation
    BY <2>1, ConversationIs
  <2>2. ASSUME CInv, NEW m \in Message, messages' = storeMessage(messages, m)
        PROVE  Box!Next
    <3>1. PICK ms : ms = messages /\ Readable(ms)
      BY <2>2 DEF CInv
    <3>2. ConversationIn(storeMessage(ms, m))
            = [ConversationIn(ms) EXCEPT ![{m.sender, m.receiver}] = Append(@, m)]
      BY <3>1, StoreSays
    <3>3. Conversation' = ConversationIn(storeMessage(ms, m)) /\ Conversation = ConversationIn(ms)
      BY <2>2, <3>1, ConversationIs
    <3>4. Box!Say(m)
      BY <3>2, <3>3 DEF Box!Say
    <3> QED
      BY <3>4 DEF Box!Next
  <2>3. ASSUME UNCHANGED cvars PROVE messages' = messages
    BY <2>3 DEF cvars
  <2> QED
    BY <2>1, <2>2, <2>3, MessagesStep
<1> QED
  BY <1>1, <1>2, ManagerInvariant, PTL DEF CSpec, ImplementsMailbox, Box!Spec
=============================================================================
