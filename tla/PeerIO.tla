------------------------------- MODULE PeerIO -------------------------------
(***************************************************************************)
(* Sending in network/p2p.go and network/network.go: the goroutines of one *)
(* P2PServer that write to its active peers, the RWMutex they hold while   *)
(* they write, and the connections, which hold a few writes and then block *)
(* the writer until the remote end reads.                                  *)
(*                                                                         *)
(* A message is two writes, its length and its data, and nothing but       *)
(* P2PServer.mutex keeps two of them apart: Broadcast, SendToPeer and      *)
(* discoverNodes hold it shared, the heartbeat holds it alone, and a       *)
(* handler that answers does not hold it.                                  *)
(*                                                                         *)
(* sync.RWMutex as in BlockchainLock: a writer that asked keeps new        *)
(* readers out; those enter when it unlocks.                               *)
(***************************************************************************)
EXTENDS Naturals, Sequences

CONSTANTS
    Peer,       \* active peers with a connection each; also their reader goroutines
    Caller,     \* goroutines that call Broadcast or SendToPeer, and discoverNodes
    Heartbeat,  \* the heartbeat goroutine
    Main,       \* the goroutine that calls Stop
    Nobody,
    Capacity    \* bound: writes a connection holds before it blocks

ASSUME PeerIOAssumption ==
    /\ Peer \cap Caller = {}
    /\ {Heartbeat, Main} \cap (Peer \cup Caller) = {} /\ Heartbeat # Main
    /\ Nobody \notin Peer \cup Caller \cup {Heartbeat, Main}
    /\ Capacity \in Nat \ {0}

Thread == Peer \cup Caller \cup {Heartbeat, Main}

VARIABLES
    writer,   \* the goroutine that has asked for or holds the write lock
    readers,  \* the goroutines that hold a read lock
    pc,       \* where each goroutine is
    todo,     \* the peers it still has to send to
    at,       \* the peer it is sending to
    open,     \* the connections that are not closed
    buf,      \* the writes under way in each connection
    partial,  \* whose length the remote end has read and not yet the data
    torn      \* peers whose remote end got a message that was not one

mutex == <<writer, readers>>
net == <<open, buf, partial, torn>>
vars == <<writer, readers, pc, todo, at, open, buf, partial, torn>>

Init ==
    /\ writer = Nobody
    /\ readers = {}
    /\ pc = [t \in Thread |-> "idle"]
    /\ todo = [t \in Thread |-> {}]
    /\ at = [t \in Thread |-> Nobody]
    /\ open = Peer
    /\ buf = [p \in Peer |-> <<>>]
    /\ partial = [p \in Peer |-> Nobody]
    /\ torn = {}

----------------------------------------------------------------------------
(* Calls *)

Call(t, lock, targets) ==
    /\ pc[t] = "idle"
    /\ pc' = [pc EXCEPT ![t] = lock]
    /\ todo' = [todo EXCEPT ![t] = targets]
    /\ UNCHANGED <<mutex, at, net>>

\* Broadcast and discoverNodes send to every active peer, SendToPeer to one.
CallSend(t) == t \in Caller /\ \E targets \in {Peer} \cup {{p} : p \in Peer} : Call(t, "rlock", targets)

\* A tick: the heartbeat pings the peers that are silent.
Tick == \E targets \in SUBSET Peer : Call(Heartbeat, "lock", targets)

\* A reader got a message: it sets LastSeen under the lock, then answers.
Receive(p) == p \in open /\ Call(p, "lock", {p})

\* Stop; the ticks and calls that come after it are not told apart.
CallStop == Call(Main, "lock", {})

----------------------------------------------------------------------------
(* sync.RWMutex *)

\* Mutations: the heartbeat reads the table under a read lock; a call returns
\* and keeps its read lock.
LockShared(t) ==
    /\ pc[t] = "lock" /\ writer = Nobody
    /\ pc' = [pc EXCEPT ![t] = IF t = Heartbeat THEN "send" ELSE "drain"]
    /\ readers' = IF t = Heartbeat THEN readers \cup {t} ELSE readers
    /\ writer' = IF t = Heartbeat THEN writer ELSE t
    /\ UNCHANGED <<todo, at, net>>
RUnlockForgotten(t) ==
    /\ pc[t] = "send" /\ todo[t] = {} /\ t \in readers
    /\ pc' = [pc EXCEPT ![t] = "idle"]
    /\ UNCHANGED <<mutex, todo, at, net>>

Lock(t) ==
    /\ pc[t] = "lock" /\ writer = Nobody
    /\ writer' = t
    /\ pc' = [pc EXCEPT ![t] = "drain"]
    /\ UNCHANGED <<readers, todo, at, net>>

\* The lock is held: Stop closes every connection, a reader sets LastSeen.
Drain(t) ==
    /\ pc[t] = "drain" /\ readers = {}
    /\ pc' = [pc EXCEPT ![t] = IF t = Heartbeat THEN "send" ELSE "unlock"]
    /\ IF t = Main
         THEN /\ open' = {}
              /\ buf' = [p \in Peer |-> <<>>]
              /\ UNCHANGED <<partial, torn>>
         ELSE UNCHANGED net
    /\ UNCHANGED <<mutex, todo, at>>

Blocked == {t \in Thread : pc[t] = "blocked"}

\* A reader goes on to answer without the lock, the others return.
Unlock(t) ==
    /\ pc[t] = "unlock"
    /\ writer' = Nobody
    /\ readers' = Blocked
    /\ pc' = [u \in Thread |-> IF u = t THEN (IF t \in Peer THEN "send" ELSE "idle")
                               ELSE IF u \in Blocked THEN "send" ELSE pc[u]]
    /\ UNCHANGED <<todo, at, net>>

RLock(t) ==
    /\ pc[t] = "rlock"
    /\ IF writer = Nobody
         THEN readers' = readers \cup {t} /\ pc' = [pc EXCEPT ![t] = "send"]
         ELSE pc' = [pc EXCEPT ![t] = "blocked"] /\ UNCHANGED readers
    /\ UNCHANGED <<writer, todo, at, net>>

RUnlock(t) ==
    /\ pc[t] = "send" /\ todo[t] = {} /\ t \in readers
    /\ readers' = readers \ {t}
    /\ pc' = [pc EXCEPT ![t] = "idle"]
    /\ UNCHANGED <<writer, todo, at, net>>

----------------------------------------------------------------------------
(* sendMessage *)

Write(t, p, part) ==
    /\ p \in open /\ Len(buf[p]) < Capacity
    /\ buf' = [buf EXCEPT ![p] = Append(@, [from |-> t, part |-> part])]
    /\ UNCHANGED <<open, partial, torn>>

\* An error of the first write is dropped.  A connection that is closed refuses
\* both.
WriteLength(t) ==
    /\ pc[t] = "send"
    /\ \E p \in todo[t] :
        /\ Write(t, p, "length") \/ (p \notin open /\ UNCHANGED net)
        /\ at' = [at EXCEPT ![t] = p]
        /\ todo' = [todo EXCEPT ![t] = @ \ {p}]
    /\ pc' = [pc EXCEPT ![t] = "data"]
    /\ UNCHANGED mutex

WriteData(t) ==
    /\ pc[t] = "data"
    /\ Write(t, at[t], "data") \/ (at[t] \notin open /\ UNCHANGED net)
    /\ at' = [at EXCEPT ![t] = Nobody]
    /\ pc' = [pc EXCEPT ![t] = "send"]
    /\ UNCHANGED <<mutex, todo>>

\* The heartbeat has pinged, gives up peers that were silent for too long and
\* unlocks.
EndTick(closed) ==
    /\ pc[Heartbeat] = "send" /\ todo[Heartbeat] = {}
    /\ pc' = [pc EXCEPT ![Heartbeat] = "unlock"]
    /\ open' = open \ closed
    /\ buf' = [p \in Peer |-> IF p \in closed THEN <<>> ELSE buf[p]]
    /\ UNCHANGED <<mutex, todo, at, partial, torn>>

\* A handler returns to its reader.
Answered(p) ==
    /\ pc[p] = "send" /\ todo[p] = {}
    /\ pc' = [pc EXCEPT ![p] = "idle"]
    /\ UNCHANGED <<mutex, todo, at, net>>

----------------------------------------------------------------------------
(* The remote ends *)

\* readMessage there: four bytes of length, then as many bytes of data.  What is
\* not the data of the message whose length came first does not parse, and the
\* connection is closed.
RemoteReads(p) ==
    /\ p \in open /\ buf[p] # <<>>
    /\ LET w == Head(buf[p])
           whole == IF partial[p] = Nobody THEN w.part = "length"
                    ELSE w.part = "data" /\ w.from = partial[p]
       IN  /\ partial' = [partial EXCEPT ![p] = IF w.part = "length" THEN w.from ELSE Nobody]
           /\ torn' = IF whole THEN torn ELSE torn \cup {p}
           /\ open' = IF whole THEN open ELSE open \ {p}
           /\ buf' = [buf EXCEPT ![p] = IF whole THEN Tail(@) ELSE <<>>]
    /\ UNCHANGED <<mutex, pc, todo, at>>

RemoteCloses(p) ==
    /\ p \in open
    /\ open' = open \ {p}
    /\ buf' = [buf EXCEPT ![p] = <<>>]
    /\ UNCHANGED <<mutex, pc, todo, at, partial, torn>>

----------------------------------------------------------------------------

Run(t) ==
    \/ Lock(t) \/ Drain(t) \/ Unlock(t) \/ RLock(t) \/ RUnlock(t)
    \/ WriteLength(t) \/ WriteData(t)
    \/ t = Heartbeat /\ \E closed \in SUBSET open : EndTick(closed)
    \/ t \in Peer /\ Answered(t)

Next ==
    \/ \E t \in Thread : CallSend(t) \/ Run(t)
    \/ Tick \/ CallStop
    \/ \E p \in Peer : Receive(p) \/ RemoteReads(p) \/ RemoteCloses(p)

\* Every goroutine goes on as long as it can.  Those who wait for a mutex that
\* is freed again and again, or for room in a connection, queue, and get it in
\* the end.  No remote end has to read.
Fairness == \A t \in Thread : SF_vars(Run(t))

Spec == Init /\ [][Next]_vars /\ Fairness

----------------------------------------------------------------------------
(* Properties *)

TypeOK ==
    /\ writer \in Thread \cup {Nobody} /\ readers \subseteq Thread
    /\ pc \in [Thread -> {"idle", "lock", "drain", "unlock", "rlock", "blocked", "send", "data"}]
    /\ todo \in [Thread -> SUBSET Peer] /\ at \in [Thread -> Peer \cup {Nobody}]
    /\ open \subseteq Peer /\ torn \subseteq Peer
    /\ buf \in [Peer -> Seq([from : Thread, part : {"length", "data"}])]
    /\ partial \in [Peer -> Thread \cup {Nobody}]

\* Two writes that follow each other on a connection and do not belong together.
Mixed(t, u) ==
    \E p \in Peer : \E i \in 1 .. Len(buf[p]) - 1 :
        /\ buf[p][i].part = "length" /\ buf[p][i].from = t
        /\ buf[p][i+1].from = u /\ t # u

\* The lock keeps the pings of the heartbeat and the messages of Broadcast,
\* SendToPeer and discoverNodes apart.
LockKeepsPingsApart == \A t \in Caller : ~Mixed(t, Heartbeat) /\ ~Mixed(Heartbeat, t)

\* As long as every remote end reads what it is sent, or its connection is
\* closed, every call returns and the lock is given back: Stop ends, the
\* heartbeat ticks on, the readers go on reading.
RemotesRead == \A p \in Peer : []<>(buf[p] = <<>>)
CallsReturn == \A t \in Thread : pc[t] # "idle" ~> pc[t] = "idle"
CallsReturnIfRemotesRead == RemotesRead => CallsReturn

\* What a remote end reads are the messages that were sent.
FramesAreWhole == torn = {}

\* Stop returns, whatever the remote ends do.
StopReturns == pc[Main] # "idle" ~> pc[Main] = "idle"
=============================================================================
