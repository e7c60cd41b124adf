---------------------------- MODULE SocialGraph ----------------------------
(***************************************************************************)
(* What the social contract promises: who follows whom, and who is friends *)
(* with whom.  Friendship is a relation between two users, not from one to *)
(* the other; becoming friends makes both follow each other; ending either *)
(* relation leaves the other one alone.                                    *)
(***************************************************************************)
CONSTANT User

VARIABLES
    follows,     \* pairs <<a, b>>: a follows b
    friendships  \* sets {a, b}

vars == <<follows, friendships>>

Init == follows = {} /\ friendships = {}

Follow(a, b) ==
    /\ <<a, b>> \notin follows
    /\ follows' = follows \cup {<<a, b>>}
    /\ UNCHANGED friendships

Unfollow(a, b) ==
    /\ <<a, b>> \in follows
    /\ follows' = follows \ {<<a, b>>}
    /\ UNCHANGED friendships

Befriend(a, b) ==
    /\ {a, b} \notin friendships
    /\ friendships' = friendships \cup {{a, b}}
    /\ follows' = follows \cup {<<a, b>>, <<b, a>>}

Unfriend(a, b) ==
    /\ {a, b} \in friendships
    /\ friendships' = friendships \ {{a, b}}
    /\ UNCHANGED follows

Next ==
    \E a \in User : \E b \in User \ {a} :
        Follow(a, b) \/ Unfollow(a, b) \/ Befriend(a, b) \/ Unfriend(a, b)

Spec == Init /\ [][Next]_vars
=============================================================================
