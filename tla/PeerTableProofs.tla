-------------------------- MODULE PeerTableProofs --------------------------
(***************************************************************************)
(* Proofs about PeerTable, for every set of node IDs, Peer objects and     *)
(* connections.                                                            *)
(***************************************************************************)
EXTENDS PeerTable, TLAPS

Inv == TypeOK /\ ActivePeerHasConn /\ OpenConnIsServed

\* What the goroutines of a connection may leave behind.
Closes(r) == r.open => r.handler # "none" \/ r.reader # "none"

Fair(r) == r.active => r.conn # NoConn

----------------------------------------------------------------------------
(* One connection, or one peer, changes *)

\* One connection changes, and its open end still is served.
LEMMA ConnChange ==
    ASSUME Inv, NEW c \in Conn, NEW r \in Connection, Closes(r),
           conn' = [conn EXCEPT ![c] = r]
    PROVE  conn' \in [Conn -> Connection] /\ OpenConnIsServed'
<1>1. conn' \in [Conn -> Connection]
  BY DEF Inv, TypeOK
<1>2. ASSUME NEW d \in Conn, conn'[d].open
      PROVE  conn'[d].handler # "none" \/ conn'[d].reader # "none"
  <2>1. conn'[d] = IF d = c THEN r ELSE conn[d]
    BY DEF Inv, TypeOK
  <2> QED
    BY <1>2, <2>1 DEF Inv, OpenConnIsServed, Working, Closes
<1> QED
  BY <1>1, <1>2 DEF OpenConnIsServed, Working

\* Connections are closed and nothing else happens to them.
LEMMA ConnClosed ==
    ASSUME Inv, NEW C, conn' = Closed(C)
    PROVE  conn' \in [Conn -> Connection] /\ OpenConnIsServed'
<1>1. ASSUME NEW d \in Conn
      PROVE  /\ conn'[d] \in Connection
             /\ conn'[d].open => conn[d].open
             /\ conn'[d].handler = conn[d].handler /\ conn'[d].reader = conn[d].reader
  <2>1. conn[d] \in Connection
    BY DEF Inv, TypeOK
  <2>2. conn'[d] = [conn[d] EXCEPT !.open = @ /\ d \notin C]
    BY DEF Closed
  <2>3. (conn[d].open /\ d \notin C) \in BOOLEAN
    OBVIOUS
  <2> QED
    BY <2>1, <2>2, <2>3 DEF Connection
<1>2. conn' = [d \in Conn |-> conn'[d]]
  BY DEF Closed
<1> QED
  BY <1>1, <1>2 DEF Inv, OpenConnIsServed, Working

\* One peer changes, or none, if p is no peer.
LEMMA PeerChange ==
    ASSUME Inv, NEW p, NEW r \in PeerFields, Fair(r),
           peer' = [peer EXCEPT ![p] = r]
    PROVE  peer' \in [Peer -> PeerFields] /\ ActivePeerHasConn'
<1>1. peer' \in [Peer -> PeerFields]
  BY DEF Inv, TypeOK
<1>2. ASSUME NEW q \in Peer, peer'[q].active PROVE peer'[q].conn # NoConn
  <2>1. peer'[q] = IF q = p THEN r ELSE peer[q]
    BY DEF Inv, TypeOK
  <2> QED
    BY <1>2, <2>1 DEF Inv, ActivePeerHasConn, Fair
<1> QED
  BY <1>1, <1>2 DEF ActivePeerHasConn

LEMMA SameConn ==
    ASSUME Inv, conn' = conn PROVE conn' \in [Conn -> Connection] /\ OpenConnIsServed'
  BY DEF Inv, TypeOK, OpenConnIsServed, Working

LEMMA SamePeer ==
    ASSUME Inv, peer' = peer PROVE peer' \in [Peer -> PeerFields] /\ ActivePeerHasConn'
  BY DEF Inv, TypeOK, ActivePeerHasConn

\* A goroutine that ends lets go of its peer, and keeps what is asked of it.
LEMMA LeaveKeeps ==
    ASSUME NEW r \in Connection, Closes(r)
    PROVE  Leave(r) \in Connection /\ Closes(Leave(r))
  BY DEF Leave, Connection, Closes

----------------------------------------------------------------------------
(* The goroutines of a connection *)

LEMMA AcceptStep == ASSUME Inv, NEW c \in Conn, Accept(c) PROVE Inv'
<1> DEFINE r == [Unused EXCEPT !.open = TRUE, !.handler = "accepted"]
<1>1. r \in Connection /\ Closes(r)
  BY DEF Unused, Connection, Closes
<1>2. conn' = [conn EXCEPT ![c] = r]
  BY DEF Accept
<1>3. UNCHANGED <<peers, peer, dials, stopped, panicked>>
  BY DEF Accept
<1> QED
  BY <1>1, <1>2, <1>3, ConnChange, SamePeer DEF Inv, TypeOK

LEMMA RefuseHandshakeStep == ASSUME Inv, NEW c \in Conn, RefuseHandshake(c) PROVE Inv'
<1> DEFINE r == [conn[c] EXCEPT !.open = FALSE, !.handler = "none"]
<1>1. r \in Connection /\ Closes(r)
  BY DEF Inv, TypeOK, Connection, Closes
<1>2. conn' = [conn EXCEPT ![c] = Leave(r)]
  BY DEF RefuseHandshake
<1>3. UNCHANGED <<peers, peer, dials, stopped, panicked>>
  BY DEF RefuseHandshake
<1> HIDE DEF r
<1> QED
  BY <1>1, <1>2, <1>3, LeaveKeeps, ConnChange, SamePeer DEF Inv, TypeOK

LEMMA HandshakeStep ==
    ASSUME Inv, NEW c \in Conn, NEW id \in Id, NEW p \in Peer, Handshake(c, id, p) PROVE Inv'
<1> DEFINE r == [conn[c] EXCEPT !.of = p, !.handler = "registered"]
           q == [conn |-> c, active |-> TRUE, silence |-> 0]
<1>1. r \in Connection /\ Closes(r)
  BY DEF Inv, TypeOK, Connection, Closes
<1>2. conn' = [conn EXCEPT ![c] = r]
  BY DEF Handshake, Inv, TypeOK
<1>3. q \in PeerFields /\ Fair(q)
  BY PeerTableAssumption DEF PeerFields, Fair
<1>4. peer' = [peer EXCEPT ![p] = q]
  BY DEF Handshake
<1>5. peers' = [peers EXCEPT ![id] = p] /\ UNCHANGED <<dials, stopped, panicked>>
  BY DEF Handshake
<1> HIDE DEF r, q
<1>6. peers' \in [Id -> Peer \cup {NoPeer}]
  BY <1>5 DEF Inv, TypeOK
<1> QED
  BY <1>1, <1>2, <1>3, <1>4, <1>5, <1>6, ConnChange, PeerChange DEF Inv, TypeOK

LEMMA RespondStep ==
    ASSUME Inv, NEW c \in Conn, NEW fails \in BOOLEAN, Respond(c, fails) PROVE Inv'
<1> DEFINE r == [conn[c] EXCEPT !.open = FALSE, !.handler = "none"]
           s == [conn[c] EXCEPT !.handler = "started", !.reader = "reading"]
<1>1. r \in Connection /\ Closes(r) /\ s \in Connection /\ Closes(s)
  BY DEF Inv, TypeOK, Connection, Closes
<1>2. conn' = [conn EXCEPT ![c] = IF fails THEN Leave(r) ELSE s]
  BY DEF Respond
<1>3. UNCHANGED <<peers, peer, dials, stopped>> /\ panicked' \in BOOLEAN
  BY DEF Respond
<1> HIDE DEF r, s
<1>4. conn' \in [Conn -> Connection] /\ OpenConnIsServed'
  <2>1. CASE fails
    BY <1>1, <1>2, <2>1, LeaveKeeps, ConnChange
  <2>2. CASE ~fails
    BY <1>1, <1>2, <2>2, ConnChange
  <2> QED
    BY <2>1, <2>2
<1> QED
  BY <1>3, <1>4, SamePeer DEF Inv, TypeOK

LEMMA ReturnStep == ASSUME Inv, NEW c \in Conn, Return(c) PROVE Inv'
<1> DEFINE r == [conn[c] EXCEPT !.open = FALSE, !.handler = "none"]
<1>1. r \in Connection /\ Closes(r)
  BY DEF Inv, TypeOK, Connection, Closes
<1>2. conn' = [conn EXCEPT ![c] = Leave(r)]
  BY DEF Return
<1>3. UNCHANGED <<peers, peer, dials, stopped, panicked>>
  BY DEF Return
<1> HIDE DEF r
<1> QED
  BY <1>1, <1>2, <1>3, LeaveKeeps, ConnChange, SamePeer DEF Inv, TypeOK

LEMMA DialStep == ASSUME Inv, NEW p \in Peer, Dial(p) PROVE Inv'
<1>1. dials' = [dials EXCEPT ![p] = @ - 1] /\ dials[p] > 0
  BY DEF Dial, DialFails, DialSucceeds
<1>2. dials' \in [Peer -> 0 .. MaxDials]
  BY <1>1, PeerTableAssumption DEF Inv, TypeOK
<1>3. UNCHANGED <<peers, peer, stopped, panicked>>
  BY DEF Dial, DialFails, DialSucceeds
<1>4. conn' \in [Conn -> Connection] /\ OpenConnIsServed'
  <2>1. CASE DialFails(p)
    BY <2>1, SameConn DEF DialFails
  <2>2. ASSUME NEW c \in Conn, DialSucceeds(p, c)
        PROVE  conn' \in [Conn -> Connection] /\ OpenConnIsServed'
    <3> DEFINE r == [open |-> TRUE, dialled |-> TRUE, of |-> p, handler |-> "dialled", reader |-> "none"]
    <3>1. r \in Connection /\ Closes(r)
      BY DEF Connection, Closes
    <3>2. conn' = [conn EXCEPT ![c] = r]
      BY <2>2 DEF DialSucceeds
    <3> QED
      BY <3>1, <3>2, ConnChange
  <2> QED
    BY <2>1, <2>2 DEF Dial
<1> QED
  BY <1>2, <1>3, <1>4, SamePeer DEF Inv, TypeOK

LEMMA ConnectedStep == ASSUME Inv, NEW c \in Conn, Connected(c) PROVE Inv'
<1> DEFINE r == [conn[c] EXCEPT !.handler = "none", !.reader = "reading"]
           q == [conn |-> c, active |-> TRUE, silence |-> 0]
<1>1. r \in Connection /\ Closes(r)
  BY DEF Inv, TypeOK, Connection, Closes
<1>2. conn' = [conn EXCEPT ![c] = r]
  BY DEF Connected, Inv, TypeOK
<1>3. q \in PeerFields /\ Fair(q)
  BY PeerTableAssumption DEF PeerFields, Fair
<1>4. peer' = [peer EXCEPT ![conn[c].of] = q]
  BY DEF Connected
<1>5. UNCHANGED <<peers, dials, stopped, panicked>>
  BY DEF Connected
<1> HIDE DEF r, q
<1> QED
  BY <1>1, <1>2, <1>3, <1>4, <1>5, ConnChange, PeerChange DEF Inv, TypeOK

LEMMA ReceiveStep == ASSUME Inv, NEW c \in Conn, Receive(c) PROVE Inv'
<1> DEFINE r == [conn[c] EXCEPT !.reader = "handling"]
           p == conn[c].of
           q == [peer[p] EXCEPT !.silence = 0]
<1>1. r \in Connection /\ Closes(r)
  BY DEF Inv, TypeOK, Connection, Closes
<1>2. conn' = [conn EXCEPT ![c] = r]
  BY DEF Receive
<1>3. peer' = [peer EXCEPT ![p] = q]
  BY DEF Receive
<1>4. UNCHANGED <<peers, dials, stopped, panicked>>
  BY DEF Receive
<1>5. peer' \in [Peer -> PeerFields] /\ ActivePeerHasConn'
  <2>1. CASE p \in Peer
    <3>1. q \in PeerFields /\ Fair(q)
      BY <2>1 DEF Inv, TypeOK, ActivePeerHasConn, PeerFields, Fair
    <3> HIDE DEF q, p
    <3> QED
      BY <1>3, <3>1, PeerChange
  <2>2. CASE p \notin Peer
    <3>1. peer' = peer
      BY <1>3, <2>2 DEF Inv, TypeOK
    <3> QED
      BY <3>1, SamePeer
  <2> QED
    BY <2>1, <2>2
<1> HIDE DEF r
<1> QED
  BY <1>1, <1>2, <1>4, <1>5, ConnChange DEF Inv, TypeOK

LEMMA HandleMessageStep == ASSUME Inv, NEW c \in Conn, HandleMessage(c) PROVE Inv'
<1> DEFINE r == [conn[c] EXCEPT !.reader = "reading"]
           p == conn[c].of
           q == [peer[p] EXCEPT !.silence = 0]
<1>1. r \in Connection /\ Closes(r)
  BY DEF Inv, TypeOK, Connection, Closes
<1>2. conn' = [conn EXCEPT ![c] = r]
  BY DEF HandleMessage
<1>3. peer' = [peer EXCEPT ![p] = q] \/ peer' = peer
  BY DEF HandleMessage
<1>4. UNCHANGED <<peers, dials, stopped>> /\ panicked' \in BOOLEAN
  BY DEF HandleMessage, Inv, TypeOK
<1>5. peer' \in [Peer -> PeerFields] /\ ActivePeerHasConn'
  <2>1. CASE p \in Peer /\ peer' # peer
    <3>1. q \in PeerFields /\ Fair(q)
      BY <2>1 DEF Inv, TypeOK, ActivePeerHasConn, PeerFields, Fair
    <3> HIDE DEF q, p
    <3> QED
      BY <1>3, <2>1, <3>1, PeerChange
  <2>2. CASE p \notin Peer \/ peer' = peer
    <3>1. peer' = peer
      BY <1>3, <2>2 DEF Inv, TypeOK
    <3> QED
      BY <3>1, SamePeer
  <2> QED
    BY <2>1, <2>2
<1> HIDE DEF r
<1> QED
  BY <1>1, <1>2, <1>4, <1>5, ConnChange DEF Inv, TypeOK

LEMMA ReadFailsStep == ASSUME Inv, NEW c \in Conn, ReadFails(c) PROVE Inv'
<1> DEFINE r == [conn[c] EXCEPT !.reader = "ending", !.open = @ /\ conn[c].dialled]
<1>1. (conn[c].open /\ conn[c].dialled) \in BOOLEAN
  OBVIOUS
<1>2. r \in Connection /\ Closes(r)
  BY <1>1 DEF Inv, TypeOK, Connection, Closes
<1>3. conn' = [conn EXCEPT ![c] = r]
  BY DEF ReadFails, Inv, TypeOK
<1>4. UNCHANGED <<peers, peer, dials, stopped, panicked>>
  BY DEF ReadFails
<1> HIDE DEF r
<1> QED
  BY <1>2, <1>3, <1>4, ConnChange, SamePeer DEF Inv, TypeOK

LEMMA EndReaderStep == ASSUME Inv, NEW c \in Conn, EndReader(c) PROVE Inv'
<1> DEFINE r == [conn[c] EXCEPT !.open = FALSE, !.reader = "none"]
           p == conn[c].of
           q == [peer[p] EXCEPT !.active = FALSE, !.conn = IF conn[c].dialled THEN @ ELSE NoConn]
<1>1. r \in Connection /\ Closes(r)
  BY DEF Inv, TypeOK, Connection, Closes
<1>2. conn' = [conn EXCEPT ![c] = Leave(r)]
  BY DEF EndReader
<1>3. peer' = [peer EXCEPT ![p] = q]
  BY DEF EndReader, Inv, TypeOK
<1>4. UNCHANGED <<peers, dials, stopped, panicked>>
  BY DEF EndReader
<1>5. peer' \in [Peer -> PeerFields] /\ ActivePeerHasConn'
  <2>1. CASE p \in Peer
    <3>1. q \in PeerFields /\ Fair(q)
      BY <2>1 DEF Inv, TypeOK, PeerFields, Fair
    <3> HIDE DEF q, p
    <3> QED
      BY <1>3, <3>1, PeerChange
  <2>2. CASE p \notin Peer
    <3>1. peer' = peer
      BY <1>3, <2>2 DEF Inv, TypeOK
    <3> QED
      BY <3>1, SamePeer
  <2> QED
    BY <2>1, <2>2
<1> HIDE DEF r
<1> QED
  BY <1>1, <1>2, <1>4, <1>5, LeaveKeeps, ConnChange DEF Inv, TypeOK

----------------------------------------------------------------------------
(* The table *)

LEMMA AddPeerStep == ASSUME Inv, NEW id \in Id, NEW p \in Peer, AddPeer(id, p) PROVE Inv'
<1> DEFINE q == [conn |-> NoConn, active |-> FALSE, silence |-> 0]
<1>1. q \in PeerFields /\ Fair(q)
  BY DEF PeerFields, Fair
<1>2. peer' = [peer EXCEPT ![p] = q]
  BY DEF AddPeer
<1>3. peers' = [peers EXCEPT ![id] = p] /\ dials' = [dials EXCEPT ![p] = 1]
  BY DEF AddPeer
<1>4. UNCHANGED <<conn, stopped, panicked>>
  BY DEF AddPeer
<1> HIDE DEF q
<1>5. peers' \in [Id -> Peer \cup {NoPeer}] /\ dials' \in [Peer -> 0 .. MaxDials]
  BY <1>3, PeerTableAssumption DEF Inv, TypeOK
<1> QED
  BY <1>1, <1>2, <1>4, <1>5, PeerChange, SameConn DEF Inv, TypeOK

LEMMA RemovePeerStep == ASSUME Inv, NEW id \in Id, RemovePeer(id) PROVE Inv'
<1>1. peers' \in [Id -> Peer \cup {NoPeer}]
  BY DEF RemovePeer, Inv, TypeOK
<1>2. conn' = Closed({peer[peers[id]].conn})
  BY DEF RemovePeer
<1>3. UNCHANGED <<peer, dials, stopped, panicked>>
  BY DEF RemovePeer
<1> QED
  BY <1>1, <1>2, <1>3, ConnClosed, SamePeer DEF Inv, TypeOK

LEMMA GrowSilentStep == ASSUME Inv, NEW p \in Peer, GrowSilent(p) PROVE Inv'
<1> DEFINE q == [peer[p] EXCEPT !.silence = @ + 1]
<1>1. q \in PeerFields /\ Fair(q)
  BY DEF GrowSilent, Inv, TypeOK, ActivePeerHasConn, PeerFields, Fair
<1>2. peer' = [peer EXCEPT ![p] = q]
  BY DEF GrowSilent
<1>3. UNCHANGED <<peers, conn, dials, stopped, panicked>>
  BY DEF GrowSilent
<1> HIDE DEF q
<1> QED
  BY <1>1, <1>2, <1>3, PeerChange, SameConn DEF Inv, TypeOK

LEMMA HeartbeatStep == ASSUME Inv, Heartbeat PROVE Inv'
<1>1. ASSUME NEW p \in Peer PROVE peer'[p] \in PeerFields /\ Fair(peer'[p])
  <2>1. peer[p] \in PeerFields /\ Fair(peer[p])
    BY DEF Inv, TypeOK, ActivePeerHasConn, Fair
  <2>2. [peer[p] EXCEPT !.active = FALSE, !.conn = NoConn] \in PeerFields
    BY <2>1 DEF PeerFields
  <2>3. Fair([peer[p] EXCEPT !.active = FALSE, !.conn = NoConn])
    BY <2>1 DEF PeerFields, Fair
  <2>4. peer'[p] = IF p \in Silent THEN [peer[p] EXCEPT !.active = FALSE, !.conn = NoConn]
                   ELSE peer[p]
    BY DEF Heartbeat
  <2> QED
    BY <2>1, <2>2, <2>3, <2>4
<1>2. peer' \in [Peer -> PeerFields] /\ ActivePeerHasConn'
  <2>1. peer' = [p \in Peer |-> peer'[p]]
    BY DEF Heartbeat
  <2> QED
    BY <1>1, <2>1 DEF ActivePeerHasConn, Fair
<1>3. dials' \in [Peer -> 0 .. MaxDials]
  <2>1. ASSUME NEW p \in Peer PROVE dials'[p] \in 0 .. MaxDials
    <3>1. dials[p] \in 0 .. MaxDials /\ MaxDials \in Nat
      BY PeerTableAssumption DEF Inv, TypeOK
    <3>2. dials'[p] = IF p \in LongGone /\ dials[p] < MaxDials THEN dials[p] + 1 ELSE dials[p]
      BY DEF Heartbeat
    <3> QED
      BY <3>1, <3>2
  <2>2. dials' = [p \in Peer |-> dials'[p]]
    BY DEF Heartbeat
  <2> QED
    BY <2>1, <2>2
<1>4. conn' = Closed({peer[p].conn : p \in Silent})
  BY DEF Heartbeat
<1>5. UNCHANGED <<peers, stopped, panicked>>
  BY DEF Heartbeat
<1> QED
  BY <1>2, <1>3, <1>4, <1>5, ConnClosed DEF Inv, TypeOK

LEMMA StopStep == ASSUME Inv, Stop PROVE Inv'
<1>1. conn' = Closed({peer[p].conn : p \in InTable})
  BY DEF Stop
<1>2. UNCHANGED <<peers, peer, dials, panicked>> /\ stopped' \in BOOLEAN
  BY DEF Stop
<1> QED
  BY <1>1, <1>2, ConnClosed, SamePeer DEF Inv, TypeOK

----------------------------------------------------------------------------
(* Theorems *)

\* Types, a connection for every active peer and a goroutine for every open
\* connection are kept together by every step: of accepting and dialling, of
\* the readers, of the heartbeat, of AddPeer, RemovePeer and Stop.
THEOREM Kept == Spec => []Inv
<1>1. Init => Inv
  <2>1. Unused \in Connection /\ ~Unused.open
    BY DEF Unused, Connection
  <2>2. [conn |-> NoConn, active |-> FALSE, silence |-> 0] \in PeerFields
    BY DEF PeerFields
  <2>3. ASSUME Init PROVE TypeOK
    <3>1. 0 \in 0 .. MaxDials
      BY PeerTableAssumption
    <3> QED
      BY <2>1, <2>2, <2>3, <3>1 DEF Init, TypeOK
  <2>4. ASSUME Init PROVE ActivePeerHasConn /\ OpenConnIsServed
    BY <2>1, <2>4 DEF Init, ActivePeerHasConn, OpenConnIsServed
  <2> QED
    BY <2>3, <2>4 DEF Inv
<1>2. Inv /\ [Next]_vars => Inv'
  <2>1. ASSUME Inv, NEW c \in Conn,
               \/ Accept(c) \/ RefuseHandshake(c)
               \/ \E id \in Id, p \in Peer : Handshake(c, id, p)
               \/ Handler(c) \/ Reader(c)
               \/ Receive(c) \/ ReadFails(c)
        PROVE  Inv'
    BY <2>1, AcceptStep, RefuseHandshakeStep, HandshakeStep, RespondStep, ReturnStep,
       ConnectedStep, HandleMessageStep, EndReaderStep, ReceiveStep, ReadFailsStep
       DEF Handler, Reader
  <2>2. ASSUME Inv, NEW p \in Peer, Dial(p) \/ GrowSilent(p) PROVE Inv'
    BY <2>2, DialStep, GrowSilentStep
  <2>3. ASSUME Inv, NEW id \in Id, RemovePeer(id) \/ (\E p \in Peer : AddPeer(id, p)) PROVE Inv'
    BY <2>3, RemovePeerStep, AddPeerStep
  <2>4. ASSUME Inv, Heartbeat \/ Stop PROVE Inv'
    BY <2>4, HeartbeatStep, StopStep
  <2>5. ASSUME Inv, UNCHANGED vars PROVE Inv'
    BY <2>5 DEF vars, Inv, TypeOK, ActivePeerHasConn, OpenConnIsServed, Working
  <2> QED
    BY <2>1, <2>2, <2>3, <2>4, <2>5 DEF Next
<1> QED
  BY <1>1, <1>2, PTL DEF Spec

\* The table, the Peer objects and the connections keep their types.
THEOREM TypeCorrect == Spec => []TypeOK
<1>1. Inv => TypeOK
  BY DEF Inv
<1> QED
  BY <1>1, Kept, PTL

\* Whoever writes to an active peer without looking at its Conn finds one.
THEOREM ActiveHasConn == Spec => []ActivePeerHasConn
<1>1. Inv => ActivePeerHasConn
  BY DEF Inv
<1> QED
  BY <1>1, Kept, PTL

\* No connection stays open that no goroutine works on.
THEOREM OpenIsServed == Spec => []OpenConnIsServed
<1>1. Inv => OpenConnIsServed
  BY DEF Inv
<1> QED
  BY <1>1, Kept, PTL
=============================================================================
