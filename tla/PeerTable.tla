------------------------------ MODULE PeerTable ------------------------------
(***************************************************************************)
(* The peers of one P2PServer and the goroutines that keep their           *)
(* connections: network/network.go and network/p2p.go.                     *)
(*                                                                         *)
(* Code between Lock and Unlock of P2PServer.mutex is one step; that the   *)
(* mutex is given back although sends happen under it is looked at in      *)
(* module PeerIO.  The remote ends do as they like: they connect, say who  *)
(* they are or something else, send, fall silent, fail.                    *)
(***************************************************************************)
EXTENDS Naturals

CONSTANTS
    Id,       \* node IDs
    Peer,     \* Peer objects: one that left the table may still be in use
    Conn,     \* TCP connections, this end of them
    NoPeer,
    NoConn,   \* a nil Conn
    MaxDials  \* bound: dials of one peer under way that are told apart

ASSUME PeerTableAssumption ==
    /\ NoPeer \notin Peer /\ NoConn \notin Conn
    /\ MaxDials \in Nat \ {0}

VARIABLES
    peers,    \* P2PServer.peers
    peer,     \* the fields of the Peer objects
    conn,     \* the connections, and the goroutines that work on them
    dials,    \* connectToPeer goroutines that are in net.Dial, per Peer
    stopped,  \* was Stop called?
    panicked  \* did a goroutine, and with it the process, die on a nil Conn?

vars == <<peers, peer, conn, dials, stopped, panicked>>

\* silence is the time since LastSeen: less than 5 minutes, more than 5, more
\* than 30 minutes.
PeerFields == [conn : Conn \cup {NoConn}, active : BOOLEAN, silence : 0 .. 2]

\* handler is the goroutine that runs handleConnection or connectToPeer, reader
\* the goroutine it starts for the messages.
Connection == [open : BOOLEAN, dialled : BOOLEAN, of : Peer \cup {NoPeer},
               handler : {"none", "accepted", "registered", "started", "dialled"},
               reader : {"none", "reading", "handling", "ending"}]
Unused == [open |-> FALSE, dialled |-> FALSE, of |-> NoPeer,
           handler |-> "none", reader |-> "none"]

\* NewP2PServer
Init ==
    /\ peers = [id \in Id |-> NoPeer]
    /\ peer = [p \in Peer |-> [conn |-> NoConn, active |-> FALSE, silence |-> 0]]
    /\ conn = [c \in Conn |-> Unused]
    /\ dials = [p \in Peer |-> 0]
    /\ stopped = FALSE
    /\ panicked = FALSE

InTable == {peers[id] : id \in Id} \ {NoPeer}
Working(c) == conn[c].handler # "none" \/ conn[c].reader # "none"
Served(p) == \E c \in Conn : conn[c].of = p /\ Working(c)
NewConn(c) == conn[c] = Unused /\ \A p \in Peer : peer[p].conn # c
NewPeer(p) == p \notin InTable /\ dials[p] = 0 /\ ~Served(p)

\* A goroutine that ends lets go of its Peer.
Leave(r) == IF r.handler = "none" /\ r.reader = "none"
            THEN [r EXCEPT !.dialled = FALSE, !.of = NoPeer] ELSE r

\* Conn.Close, on the connections in C.
Closed(C) == [c \in Conn |-> [conn[c] EXCEPT !.open = @ /\ c \notin C]]

----------------------------------------------------------------------------
(* handleConnection *)

\* Accept in acceptConnections, which fails once the listener is closed.
Accept(c) ==
    /\ ~panicked
    /\ ~stopped
    /\ NewConn(c)
    /\ conn' = [conn EXCEPT ![c] = [Unused EXCEPT !.open = TRUE, !.handler = "accepted"]]
    /\ UNCHANGED <<peers, peer, dials, stopped, panicked>>

\* The first message does not come, or is not a NODE_INFO.
RefuseHandshake(c) ==
    /\ ~panicked
    /\ conn[c].handler = "accepted"
    /\ conn' = [conn EXCEPT ![c] = Leave([@ EXCEPT !.open = FALSE, !.handler = "none"])]
    /\ UNCHANGED <<peers, peer, dials, stopped, panicked>>

\* NODE_INFO: an entry is made, or the connection of the one there is replaced;
\* the old connection is not closed, and its reader goes on.
Handshake(c, id, p) ==
    /\ ~panicked
    /\ conn[c].handler = "accepted"
    /\ IF peers[id] = NoPeer THEN NewPeer(p) ELSE p = peers[id]
    /\ peers' = [peers EXCEPT ![id] = p]
    /\ peer' = [peer EXCEPT ![p] = [conn |-> c, active |-> TRUE, silence |-> 0]]
    /\ conn' = [conn EXCEPT ![c].of = p, ![c].handler = "registered"]
    /\ UNCHANGED <<dials, stopped, panicked>>

\* Mutation: the failed response returns to a connection that stays open.
RespondAndLeave(c, fails) ==
    LET out == peer[conn[c].of].conn
    IN  /\ ~panicked
        /\ conn[c].handler = "registered"
        /\ panicked' = (out = NoConn)
        /\ out # NoConn /\ ~conn[out].open => fails
        /\ conn' = [conn EXCEPT ![c] = IF fails THEN Leave([@ EXCEPT !.handler = "none"])
                                       ELSE [@ EXCEPT !.handler = "started", !.reader = "reading"]]
        /\ UNCHANGED <<peers, peer, dials, stopped>>

\* The response goes to the Conn the peer has by now.  If it fails, the peer
\* stays active and no reader is started.
Respond(c, fails) ==
    LET out == peer[conn[c].of].conn
    IN  /\ ~panicked
        /\ conn[c].handler = "registered"
        /\ panicked' = (out = NoConn)
        /\ out # NoConn /\ ~conn[out].open => fails
        /\ conn' = [conn EXCEPT ![c] =
              IF fails THEN Leave([@ EXCEPT !.open = FALSE, !.handler = "none"])
              ELSE [@ EXCEPT !.handler = "started", !.reader = "reading"]]
        /\ UNCHANGED <<peers, peer, dials, stopped>>

\* handleConnection returns once the reader is started: its deferred Close
\* closes the connection that is being read.
Return(c) ==
    /\ ~panicked
    /\ conn[c].handler = "started"
    /\ conn' = [conn EXCEPT ![c] = Leave([@ EXCEPT !.open = FALSE, !.handler = "none"])]
    /\ UNCHANGED <<peers, peer, dials, stopped, panicked>>

----------------------------------------------------------------------------
(* connectToPeer *)

DialFails(p) ==
    /\ ~panicked
    /\ dials[p] > 0
    /\ dials' = [dials EXCEPT ![p] = @ - 1]
    /\ UNCHANGED <<peers, peer, conn, stopped, panicked>>

DialSucceeds(p, c) ==
    /\ ~panicked
    /\ dials[p] > 0
    /\ NewConn(c)
    /\ dials' = [dials EXCEPT ![p] = @ - 1]
    /\ conn' = [conn EXCEPT ![c] = [open |-> TRUE, dialled |-> TRUE, of |-> p,
                                    handler |-> "dialled", reader |-> "none"]]
    /\ UNCHANGED <<peers, peer, stopped, panicked>>

\* Nothing is asked about what became of the peer during the dial: it may be
\* connected, removed from the table, or the server stopped.
Connected(c) ==
    /\ ~panicked
    /\ conn[c].handler = "dialled"
    /\ peer' = [peer EXCEPT ![conn[c].of] = [conn |-> c, active |-> TRUE, silence |-> 0]]
    /\ conn' = [conn EXCEPT ![c].handler = "none", ![c].reader = "reading"]
    /\ UNCHANGED <<peers, dials, stopped, panicked>>

----------------------------------------------------------------------------
(* The readers *)

\* A message: LastSeen is set, handleMessage is next.
Receive(c) ==
    /\ ~panicked
    /\ conn[c].reader = "reading" /\ conn[c].open
    /\ peer' = [peer EXCEPT ![conn[c].of].silence = 0]
    /\ conn' = [conn EXCEPT ![c].reader = "handling"]
    /\ UNCHANGED <<peers, dials, stopped, panicked>>

\* PONG and NODE_INFO set LastSeen once more; PING, DISCOVER, REQUEST_VOTE and
\* APPEND_ENTRIES are answered, on the Conn the peer has by now; NEW_BLOCK and
\* NEW_TX do neither.
HandleMessage(c) ==
    /\ ~panicked
    /\ conn[c].reader = "handling"
    /\ conn' = [conn EXCEPT ![c].reader = "reading"]
    /\ \/ peer' = [peer EXCEPT ![conn[c].of].silence = 0] /\ UNCHANGED panicked
       \/ panicked' = (peer[conn[c].of].conn = NoConn) /\ UNCHANGED peer
       \/ UNCHANGED <<peer, panicked>>
    /\ UNCHANGED <<peers, dials, stopped>>

\* Mutation: the loop reads on after an error.
ReadOn(c) ==
    /\ ~panicked
    /\ conn[c].reader = "reading"
    /\ conn' = [conn EXCEPT ![c].open = @ /\ conn[c].dialled]
    /\ UNCHANGED <<peers, peer, dials, stopped, panicked>>

\* readMessage fails: the remote end, or this one, closed the connection, or it
\* broke.  The reader of an accepted connection closes it now, the reader of a
\* dialled one when it ends.
ReadFails(c) ==
    /\ ~panicked
    /\ conn[c].reader = "reading"
    /\ conn' = [conn EXCEPT ![c].reader = "ending", ![c].open = @ /\ conn[c].dialled]
    /\ UNCHANGED <<peers, peer, dials, stopped, panicked>>

\* Mutation: a peer that lost its connection is left active.
ForgetConn(c) ==
    /\ ~panicked
    /\ conn[c].reader = "ending"
    /\ peer' = [peer EXCEPT ![conn[c].of].conn = IF conn[c].dialled THEN @ ELSE NoConn]
    /\ conn' = [conn EXCEPT ![c] = Leave([@ EXCEPT !.open = FALSE, !.reader = "none"])]
    /\ UNCHANGED <<peers, dials, stopped, panicked>>

\* The reader marks its peer inactive, and a reader of an accepted connection
\* takes the peer's Conn away, whether or not it still is the one that ended.
EndReader(c) ==
    /\ ~panicked
    /\ conn[c].reader = "ending"
    /\ peer' = [peer EXCEPT ![conn[c].of].active = FALSE,
                            ![conn[c].of].conn = IF conn[c].dialled THEN @ ELSE NoConn]
    /\ conn' = [conn EXCEPT ![c] = Leave([@ EXCEPT !.open = FALSE, !.reader = "none"])]
    /\ UNCHANGED <<peers, dials, stopped, panicked>>

----------------------------------------------------------------------------
(* The table *)

AddPeer(id, p) ==
    /\ ~panicked
    /\ peers[id] = NoPeer
    /\ NewPeer(p)
    /\ peers' = [peers EXCEPT ![id] = p]
    /\ peer' = [peer EXCEPT ![p] = [conn |-> NoConn, active |-> FALSE, silence |-> 0]]
    /\ dials' = [dials EXCEPT ![p] = 1]
    /\ UNCHANGED <<conn, stopped, panicked>>

RemovePeer(id) ==
    /\ ~panicked
    /\ peers[id] # NoPeer
    /\ peers' = [peers EXCEPT ![id] = NoPeer]
    /\ conn' = Closed({peer[peers[id]].conn})
    /\ UNCHANGED <<peer, dials, stopped, panicked>>

GrowSilent(p) ==
    /\ ~panicked
    /\ p \in InTable
    /\ peer[p].silence < 2
    /\ peer' = [peer EXCEPT ![p].silence = @ + 1]
    /\ UNCHANGED <<peers, conn, dials, stopped, panicked>>

\* Who the heartbeat gives up, and whom it dials again (at every tick).
Silent == {p \in InTable : peer[p].active /\ peer[p].silence >= 1}
LongGone == {p \in InTable : ~peer[p].active /\ peer[p].silence >= 2}

\* Mutation: only what is not active any more is looked at.
HeartbeatRedialsOnly ==
    /\ ~panicked
    /\ ~stopped
    /\ dials' = [p \in Peer |-> IF p \in LongGone /\ dials[p] < MaxDials
                                THEN dials[p] + 1 ELSE dials[p]]
    /\ UNCHANGED <<peers, peer, conn, stopped, panicked>>

\* One tick of heartbeat.
Heartbeat ==
    /\ ~panicked
    /\ ~stopped
    /\ peer' = [p \in Peer |-> IF p \in Silent
                               THEN [peer[p] EXCEPT !.active = FALSE, !.conn = NoConn]
                               ELSE peer[p]]
    /\ conn' = Closed({peer[p].conn : p \in Silent})
    /\ dials' = [p \in Peer |-> IF p \in LongGone /\ dials[p] < MaxDials
                                THEN dials[p] + 1 ELSE dials[p]]
    /\ UNCHANGED <<peers, stopped, panicked>>

\* Stop closes the listener and the connections the table knows.
Stop ==
    /\ ~panicked
    /\ ~stopped
    /\ stopped' = TRUE
    /\ conn' = Closed({peer[p].conn : p \in InTable})
    /\ UNCHANGED <<peers, peer, dials, panicked>>

----------------------------------------------------------------------------

Dial(p) == DialFails(p) \/ \E c \in Conn : DialSucceeds(p, c)

\* What the two goroutines of a connection do without the remote end.
Handler(c) == (\E fails \in BOOLEAN : Respond(c, fails)) \/ Return(c) \/ Connected(c)
Reader(c) == HandleMessage(c) \/ EndReader(c) \/ (~conn[c].open /\ ReadFails(c))

Next ==
    \/ \E c \in Conn :
         \/ Accept(c) \/ RefuseHandshake(c)
         \/ \E id \in Id, p \in Peer : Handshake(c, id, p)
         \/ Handler(c) \/ Reader(c)
         \/ Receive(c) \/ ReadFails(c)
    \/ \E p \in Peer : Dial(p) \/ GrowSilent(p)
    \/ \E id \in Id : RemovePeer(id) \/ \E p \in Peer : AddPeer(id, p)
    \/ Heartbeat \/ Stop

\* Time passes, the heartbeat ticks, and a goroutine that can go on does.  A
\* read from a connection that is closed at this end fails; no remote end has
\* to do anything, and no dial has to succeed.
Fairness ==
    /\ WF_vars(Heartbeat)
    /\ \A p \in Peer : WF_vars(Dial(p)) /\ WF_vars(GrowSilent(p))
    /\ \A c \in Conn : WF_vars(Handler(c)) /\ WF_vars(Reader(c))

Spec == Init /\ [][Next]_vars /\ Fairness

----------------------------------------------------------------------------
(* Properties *)

TypeOK ==
    /\ peers \in [Id -> Peer \cup {NoPeer}]
    /\ peer \in [Peer -> PeerFields]
    /\ conn \in [Conn -> Connection]
    /\ dials \in [Peer -> 0 .. MaxDials]
    /\ stopped \in BOOLEAN /\ panicked \in BOOLEAN

\* Broadcast, SendToPeer, discoverNodes and the heartbeat write to the Conn of
\* every active peer without looking: it is never nil, whichever of the
\* readers, dials, handshakes and heartbeats came last.
ActivePeerHasConn == \A p \in Peer : peer[p].active => peer[p].conn # NoConn

\* No connection is forgotten open: whatever way its goroutines go, the last
\* one closes it.
OpenConnIsServed == \A c \in Conn : conn[c].open => Working(c)

\* A peer in the table that no goroutine works for does not stay there unnoticed:
\* if it is still called active, the heartbeat finds out; then it is dialled.
Neglected(p) == p \in InTable /\ ~Served(p) /\ dials[p] = 0
NeglectedPeerIsDialled == \A p \in Peer : Neglected(p) ~> ~Neglected(p) \/ stopped \/ panicked

\* A reader whose connection is closed at this end, by a heartbeat, RemovePeer
\* or Stop, ends.
ReaderOfClosedConnEnds ==
    \A c \in Conn :
        conn[c].reader # "none" /\ ~conn[c].open ~> conn[c].reader = "none" \/ panicked

\* No message is answered on a Conn another goroutine took away.
NeverPanics == ~panicked

\* A peer that is being read from is active: Broadcast reaches it.
ReadPeerIsActive ==
    \A c \in Conn : conn[c].reader = "reading" /\ conn[c].open => peer[conn[c].of].active

\* The message loop handleConnection starts has a connection to read from until
\* the loop, RemovePeer, Stop or the heartbeat closes it.
LoopKeepsConn ==
    [][\A c \in Conn : conn[c].handler = "started" /\ conn[c].reader = "reading" /\ conn[c].open
           => conn'[c].handler = "started" \/ conn'[c].open]_vars

\* Stop leaves no connection open in the end.
StopClosesAll == stopped ~> \A c \in Conn : ~conn[c].open
=============================================================================
