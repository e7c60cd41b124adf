SPECIFICATION CSpec
CONSTANTS
    User = {"ada", "bob"}
    Nobody = Nobody
    MsgId = {"m1"}
    NoId = NoId
    MaxList = 3
    Name = {"old", "new"}
    NoName = NoName
    MaxClock = 1
INVARIANTS
    CTypeOK
    FollowersMirrorFollowing
    FriendsAreMutual
    NobodyListedTwice
    ConversationsAgree
PROPERTIES
    ImplementsSocialGraph
    ImplementsMailbox
    RegisteredForGood
CHECK_DEADLOCK FALSE
