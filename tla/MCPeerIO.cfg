SPECIFICATION Spec
CONSTANTS
    Peer = {p1}
    Caller = {u1, u2}
    Heartbeat = heartbeat
    Main = main
    Nobody = Nobody
    Capacity = 2
INVARIANT LockKeepsPingsApart
PROPERTY CallsReturnIfRemotesRead
CHECK_DEADLOCK FALSE
