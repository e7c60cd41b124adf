SPECIFICATION Spec
CONSTANTS
    Id = {"remote"}
    Peer = {p1}
    Conn = {c1, c2}
    NoPeer = NoPeer
    NoConn = NoConn
    MaxDials = 1
INVARIANTS
    ActivePeerHasConn
    OpenConnIsServed
PROPERTIES
    NeglectedPeerIsDialled
    ReaderOfClosedConnEnds
CHECK_DEADLOCK FALSE
