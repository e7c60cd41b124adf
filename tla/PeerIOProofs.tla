---------------------------- MODULE PeerIOProofs ----------------------------
(***************************************************************************)
(* Proofs about PeerIO, for every set of peers and callers and every       *)
(* capacity of the connections: why two messages that are sent under the   *)
(* mutex are not mixed up with a ping, and why nobody waits but for remote *)
(* ends.                                                                   *)
(***************************************************************************)
EXTENDS PeerIO, SequenceTheorems, TLAPS

Places == {"idle", "lock", "drain", "unlock", "rlock", "blocked", "send", "data"}
Piece == [from : Thread, part : {"length", "data"}]
Sending == {"send", "data"}

\* Who comes where: only callers take the lock shared.
OnlyCallersShare ==
    \A t \in Thread :
        /\ pc[t] \in {"rlock", "blocked"} => t \in Caller
        /\ pc[t] \in {"lock", "drain", "unlock"} => t \notin Caller

\* Who sends holds the lock, a caller shared and the heartbeat alone.
Locked ==
    /\ \A t \in Thread : pc[t] \in {"drain", "unlock"} => writer = t
    /\ \A t \in Thread : pc[t] = "unlock" => readers = {}
    /\ \A t \in Caller : pc[t] \in Sending => t \in readers
    /\ pc[Heartbeat] \in Sending => writer = Heartbeat /\ readers = {}

\* The sender of the last length that is under way without its data still is at
\* this connection.
LastIsUnderWay ==
    \A p \in Peer : buf[p] # <<>> =>
        LET w == buf[p][Len(buf[p])]
        IN  w.part = "length" => pc[w.from] = "data" /\ at[w.from] = p

ClosedIsEmpty == \A p \in Peer : p \notin open => buf[p] = <<>>

Locks == TypeOK /\ OnlyCallersShare /\ Locked

----------------------------------------------------------------------------
(* The mutex *)

\* The goroutines are different ones.
LEMMA Threads ==
    /\ Heartbeat \in Thread /\ Main \in Thread /\ Heartbeat # Main
    /\ Heartbeat \notin Caller /\ Heartbeat \notin Peer /\ Main \notin Caller /\ Main \notin Peer
    /\ Nobody \notin Thread
    /\ \A p \in Peer : p \in Thread /\ p \notin Caller
    /\ \A t \in Caller : t \in Thread
BY PeerIOAssumption DEF Thread

LEMMA CallLocks ==
    ASSUME Locks, NEW t \in Thread, NEW targets \in SUBSET Peer,
           \/ t \in Caller /\ Call(t, "rlock", targets)
           \/ t \notin Caller /\ Call(t, "lock", targets)
    PROVE  Locks'
<1>1. TypeOK /\ OnlyCallersShare /\ Locked
  BY DEF Locks
<1>2. PICK x \in {"lock", "rlock"} :
         /\ pc[t] = "idle" /\ pc' = [pc EXCEPT ![t] = x]
         /\ x = "rlock" <=> t \in Caller
         /\ todo' = [todo EXCEPT ![t] = targets]
         /\ UNCHANGED <<mutex, at, net>>
  BY DEF Call
<1>3. \A u \in Thread : pc'[u] = IF u = t THEN x ELSE pc[u]
  BY <1>1, <1>2 DEF TypeOK
<1>4. TypeOK'
  <2>1. pc' \in [Thread -> Places] /\ todo' \in [Thread -> SUBSET Peer]
    BY <1>1, <1>2 DEF TypeOK, Places
  <2> QED
    BY <1>1, <1>2, <2>1 DEF TypeOK, Places, mutex, net
<1>5. OnlyCallersShare'
  BY <1>1, <1>2, <1>3 DEF OnlyCallersShare
<1>6. Locked'
  <2>1. writer' = writer /\ readers' = readers
    BY <1>2 DEF mutex
  <2>2. \A u \in Thread : pc'[u] \in {"drain", "unlock", "send", "data"} => pc[u] = pc'[u]
    BY <1>2, <1>3
  <2> QED
    BY <1>1, <2>1, <2>2, Threads DEF Locked, Sending
<1> QED
  BY <1>4, <1>5, <1>6 DEF Locks

LEMMA MutexLocks ==
    ASSUME Locks, NEW t \in Thread, Lock(t) \/ RLock(t) \/ RUnlock(t)
    PROVE  Locks'
<1>1. TypeOK /\ OnlyCallersShare /\ Locked
  BY DEF Locks
<1>2. CASE Lock(t)
  <2>1. /\ pc[t] = "lock" /\ writer = Nobody /\ writer' = t /\ readers' = readers
        /\ pc' = [pc EXCEPT ![t] = "drain"] /\ UNCHANGED <<todo, at, net>>
    BY <1>2 DEF Lock
  <2>2. \A u \in Thread : pc'[u] = IF u = t THEN "drain" ELSE pc[u]
    BY <1>1, <2>1 DEF TypeOK
  <2>3. TypeOK'
    BY <1>1, <2>1 DEF TypeOK, net
  <2>4. OnlyCallersShare'
    BY <1>1, <2>1, <2>2 DEF OnlyCallersShare
  <2>5. Locked'
    <3>1. \A u \in Thread : pc[u] \notin {"drain", "unlock"}
      BY <1>1, <2>1, Threads DEF Locked
    <3>2. pc[Heartbeat] \notin Sending
      BY <1>1, <2>1, Threads DEF Locked
    <3> QED
      BY <1>1, <2>1, <2>2, <3>1, <3>2, Threads DEF Locked, Sending
  <2> QED
    BY <2>3, <2>4, <2>5 DEF Locks
<1>3. CASE RLock(t) /\ writer = Nobody
  <2>1. /\ pc[t] = "rlock" /\ writer' = writer /\ readers' = readers \cup {t}
        /\ pc' = [pc EXCEPT ![t] = "send"] /\ UNCHANGED <<todo, at, net>>
    BY <1>3 DEF RLock
  <2>2. \A u \in Thread : pc'[u] = IF u = t THEN "send" ELSE pc[u]
    BY <1>1, <2>1 DEF TypeOK
  <2>3. TypeOK'
    BY <1>1, <2>1 DEF TypeOK, net
  <2>4. OnlyCallersShare'
    BY <1>1, <2>1, <2>2 DEF OnlyCallersShare
  <2>5. Locked'
    <3>1. \A u \in Thread : pc[u] \notin {"drain", "unlock"}
      BY <1>1, <1>3, Threads DEF Locked
    <3>2. pc[Heartbeat] \notin Sending
      BY <1>1, <1>3, Threads DEF Locked
    <3>3. t \in Caller
      BY <1>1, <2>1 DEF OnlyCallersShare
    <3> QED
      BY <1>1, <2>1, <2>2, <3>1, <3>2, <3>3, Threads DEF Locked, Sending
  <2> QED
    BY <2>3, <2>4, <2>5 DEF Locks
<1>4. CASE RLock(t) /\ writer # Nobody
  <2>1. /\ pc[t] = "rlock" /\ writer' = writer /\ readers' = readers
        /\ pc' = [pc EXCEPT ![t] = "blocked"] /\ UNCHANGED <<todo, at, net>>
    BY <1>4 DEF RLock
  <2>2. \A u \in Thread : pc'[u] = IF u = t THEN "blocked" ELSE pc[u]
    BY <1>1, <2>1 DEF TypeOK
  <2>3. TypeOK'
    BY <1>1, <2>1 DEF TypeOK, net
  <2>4. OnlyCallersShare'
    BY <1>1, <2>1, <2>2 DEF OnlyCallersShare
  <2>5. Locked'
    BY <1>1, <2>1, <2>2, Threads DEF Locked, Sending
  <2> QED
    BY <2>3, <2>4, <2>5 DEF Locks
<1>5. CASE RUnlock(t)
  <2>1. /\ writer' = writer /\ readers' = readers \ {t}
        /\ pc' = [pc EXCEPT ![t] = "idle"] /\ UNCHANGED <<todo, at, net>>
    BY <1>5 DEF RUnlock
  <2>2. \A u \in Thread : pc'[u] = IF u = t THEN "idle" ELSE pc[u]
    BY <1>1, <2>1 DEF TypeOK
  <2>3. TypeOK'
    BY <1>1, <2>1 DEF TypeOK, net
  <2>4. OnlyCallersShare'
    BY <1>1, <2>2 DEF OnlyCallersShare
  <2>5. Locked'
    BY <1>1, <2>1, <2>2, Threads DEF Locked, Sending
  <2> QED
    BY <2>3, <2>4, <2>5 DEF Locks
<1> QED
  BY <1>2, <1>3, <1>4, <1>5

LEMMA DrainLocks ==
    ASSUME Locks, NEW t \in Thread, Drain(t)
    PROVE  Locks'
<1>1. TypeOK /\ OnlyCallersShare /\ Locked
  BY DEF Locks
<1>2. PICK x \in {"send", "unlock"} :
         /\ pc[t] = "drain" /\ readers = {} /\ UNCHANGED <<mutex, todo, at>>
         /\ pc' = [pc EXCEPT ![t] = x]
         /\ x = "send" => t = Heartbeat
  BY DEF Drain
<1>3. writer' = writer /\ readers' = readers /\ writer = t
  BY <1>1, <1>2 DEF mutex, Locked
<1>4. \A u \in Thread : pc'[u] = IF u = t THEN x ELSE pc[u]
  BY <1>1, <1>2 DEF TypeOK
<1>5. TypeOK'
  <2>1. open' \subseteq Peer /\ torn' = torn /\ partial' = partial
        /\ buf' \in [Peer -> Seq([from : Thread, part : {"length", "data"}])]
    <3>1. CASE UNCHANGED net
      BY <1>1, <3>1 DEF TypeOK, net
    <3>2. CASE open' = {} /\ buf' = [p \in Peer |-> <<>>] /\ UNCHANGED <<partial, torn>>
      BY <3>2, EmptySeq
    <3> QED
      BY <3>1, <3>2 DEF Drain
  <2>2. pc' \in [Thread -> Places]
    BY <1>1, <1>2 DEF TypeOK, Places
  <2> QED
    BY <1>1, <1>2, <1>3, <2>1, <2>2 DEF TypeOK, Places
<1>6. OnlyCallersShare'
  BY <1>1, <1>2, <1>4, Threads DEF OnlyCallersShare
<1>7. Locked'
  BY <1>1, <1>2, <1>3, <1>4, Threads DEF Locked, Sending, OnlyCallersShare
<1> QED
  BY <1>5, <1>6, <1>7 DEF Locks

LEMMA UnlockLocks ==
    ASSUME Locks, NEW t \in Thread, Unlock(t)
    PROVE  Locks'
<1>1. TypeOK /\ OnlyCallersShare /\ Locked
  BY DEF Locks
<1>2. /\ pc[t] = "unlock" /\ writer' = Nobody /\ UNCHANGED <<todo, at, net>>
      /\ readers' = {u \in Thread : pc[u] = "blocked"}
      /\ pc' = [u \in Thread |-> IF u = t THEN (IF t \in Peer THEN "send" ELSE "idle")
                                 ELSE IF pc[u] = "blocked" THEN "send" ELSE pc[u]]
  BY DEF Unlock, Blocked
<1>3. writer = t /\ readers = {} /\ t \notin Caller
  BY <1>1, <1>2 DEF Locked, OnlyCallersShare
<1>4. \A u \in Thread : /\ pc'[u] \in Places
                        /\ u # t => pc'[u] = IF pc[u] = "blocked" THEN "send" ELSE pc[u]
                        /\ pc'[t] \in {"send", "idle"} /\ (pc'[t] = "send" => t \in Peer)
  BY <1>1, <1>2 DEF TypeOK, Places
<1>5. TypeOK'
  <2>1. pc' = [u \in Thread |-> pc'[u]]
    BY <1>2
  <2>2. pc' \in [Thread -> Places]
    BY <1>4, <2>1
  <2> QED
    BY <1>1, <1>2, <2>2 DEF TypeOK, Places, net
<1>6. OnlyCallersShare'
  BY <1>1, <1>4 DEF OnlyCallersShare
<1>7. Locked'
  <2>1. \A u \in Thread : u # t => pc[u] \notin {"drain", "unlock"}
    BY <1>1, <1>3 DEF Locked
  <2>2. \A u \in Caller : pc[u] \notin Sending
    BY <1>1, <1>3 DEF Locked
  <2>3. \A u \in Caller : u # t /\ u \in Thread /\ (pc'[u] \in Sending => u \in readers')
    BY <1>2, <1>3, <1>4, <2>2, Threads DEF Sending
  <2>4. pc'[Heartbeat] \notin Sending
    <3>1. CASE t = Heartbeat
      BY <1>4, <3>1, Threads DEF Sending
    <3>2. CASE t # Heartbeat
      <4>1. pc[Heartbeat] \notin Sending
        BY <1>1, <1>3, <3>2 DEF Locked
      <4>2. pc[Heartbeat] # "blocked"
        BY <1>1, Threads DEF OnlyCallersShare
      <4> QED
        BY <1>4, <3>2, <4>1, <4>2, Threads
    <3> QED
      BY <3>1, <3>2
  <2>5. \A u \in Thread : pc'[u] \notin {"drain", "unlock"}
    BY <1>4, <2>1
  <2> QED
    BY <2>3, <2>4, <2>5 DEF Locked
<1> QED
  BY <1>5, <1>6, <1>7 DEF Locks

\* Sending, the end of a tick and the end of a call.
LEMMA SendLocks ==
    ASSUME Locks, NEW t \in Thread, WriteLength(t) \/ WriteData(t)
    PROVE  Locks'
<1>1. TypeOK /\ OnlyCallersShare /\ Locked
  BY DEF Locks
<1>2. CASE WriteLength(t)
  <2>1. PICK p \in todo[t] :
           /\ Write(t, p, "length") \/ (p \notin open /\ UNCHANGED net)
           /\ at' = [at EXCEPT ![t] = p]
           /\ todo' = [todo EXCEPT ![t] = @ \ {p}]
    BY <1>2 DEF WriteLength
  <2>2. pc[t] = "send" /\ pc' = [pc EXCEPT ![t] = "data"] /\ UNCHANGED mutex /\ p \in Peer
    BY <1>1, <1>2, <2>1 DEF WriteLength, TypeOK
  <2>3. \A u \in Thread : pc'[u] = IF u = t THEN "data" ELSE pc[u]
    BY <1>1, <2>2 DEF TypeOK
  <2>4. /\ open' = open /\ torn' = torn /\ partial' = partial
        /\ buf' \in [Peer -> Seq([from : Thread, part : {"length", "data"}])]
    <3>1. CASE Write(t, p, "length")
      <4>1. Append(buf[p], [from |-> t, part |-> "length"]) \in Seq([from : Thread, part : {"length", "data"}])
        BY <1>1, <2>2, AppendProperties DEF TypeOK
      <4> QED
        BY <1>1, <2>2, <3>1, <4>1 DEF Write, TypeOK
    <3>2. CASE UNCHANGED net
      BY <1>1, <3>2 DEF net, TypeOK
    <3> QED
      BY <2>1, <3>1, <3>2
  <2>5. TypeOK'
    <3>1. pc' \in [Thread -> Places] /\ at' \in [Thread -> Peer \cup {Nobody}]
      BY <1>1, <2>1, <2>2 DEF TypeOK, Places
    <3>2. todo' \in [Thread -> SUBSET Peer]
      BY <1>1, <2>1 DEF TypeOK
    <3> QED
      BY <1>1, <2>2, <2>4, <3>1, <3>2 DEF TypeOK, Places, mutex
  <2>6. OnlyCallersShare'
    BY <1>1, <2>3 DEF OnlyCallersShare
  <2>7. Locked'
    BY <1>1, <2>2, <2>3, Threads DEF Locked, Sending, mutex
  <2> QED
    BY <2>5, <2>6, <2>7 DEF Locks
<1>3. CASE WriteData(t)
  <2>1. /\ pc[t] = "data" /\ pc' = [pc EXCEPT ![t] = "send"] /\ UNCHANGED <<mutex, todo>>
        /\ at' = [at EXCEPT ![t] = Nobody]
        /\ Write(t, at[t], "data") \/ (at[t] \notin open /\ UNCHANGED net)
    BY <1>3 DEF WriteData
  <2>2. \A u \in Thread : pc'[u] = IF u = t THEN "send" ELSE pc[u]
    BY <1>1, <2>1 DEF TypeOK
  <2>3. /\ open' = open /\ torn' = torn /\ partial' = partial
        /\ buf' \in [Peer -> Seq([from : Thread, part : {"length", "data"}])]
    <3>1. CASE Write(t, at[t], "data")
      <4>1. at[t] \in Peer
        BY <1>1, <3>1 DEF Write, TypeOK
      <4>2. Append(buf[at[t]], [from |-> t, part |-> "data"]) \in Seq([from : Thread, part : {"length", "data"}])
        BY <1>1, <4>1, AppendProperties DEF TypeOK
      <4> QED
        BY <1>1, <3>1, <4>1, <4>2 DEF Write, TypeOK
    <3>2. CASE UNCHANGED net
      BY <1>1, <3>2 DEF net, TypeOK
    <3> QED
      BY <2>1, <3>1, <3>2
  <2>4. TypeOK'
    <3>1. pc' \in [Thread -> Places] /\ at' \in [Thread -> Peer \cup {Nobody}]
      BY <1>1, <2>1 DEF TypeOK, Places
    <3> QED
      BY <1>1, <2>1, <2>3, <3>1 DEF TypeOK, Places, mutex
  <2>5. OnlyCallersShare'
    BY <1>1, <2>2 DEF OnlyCallersShare
  <2>6. Locked'
    BY <1>1, <2>1, <2>2, Threads DEF Locked, Sending, mutex
  <2> QED
    BY <2>4, <2>5, <2>6 DEF Locks
<1> QED
  BY <1>2, <1>3

LEMMA EndLocks ==
    ASSUME Locks,
           \/ \E closed \in SUBSET open : EndTick(closed)
           \/ \E p \in Peer : Answered(p)
    PROVE  Locks'
<1>1. TypeOK /\ OnlyCallersShare /\ Locked
  BY DEF Locks
<1>2. CASE \E closed \in SUBSET open : EndTick(closed)
  <2>1. PICK closed \in SUBSET open : EndTick(closed)
    BY <1>2
  <2>2. /\ pc[Heartbeat] = "send" /\ pc' = [pc EXCEPT ![Heartbeat] = "unlock"]
        /\ UNCHANGED <<mutex, todo, at, partial, torn>> /\ open' = open \ closed
        /\ buf' = [p \in Peer |-> IF p \in closed THEN <<>> ELSE buf[p]]
    BY <2>1 DEF EndTick
  <2>3. \A u \in Thread : pc'[u] = IF u = Heartbeat THEN "unlock" ELSE pc[u]
    BY <1>1, <2>2 DEF TypeOK
  <2>4. TypeOK'
    <3>1. buf' \in [Peer -> Seq([from : Thread, part : {"length", "data"}])]
      BY <1>1, <2>2, EmptySeq DEF TypeOK
    <3>2. pc' \in [Thread -> Places]
      BY <1>1, <2>2 DEF TypeOK, Places
    <3> QED
      BY <1>1, <2>2, <3>1, <3>2 DEF TypeOK, Places, mutex
  <2>5. OnlyCallersShare'
    BY <1>1, <2>3, Threads DEF OnlyCallersShare
  <2>6. Locked'
    BY <1>1, <2>2, <2>3, Threads DEF Locked, Sending, mutex
  <2> QED
    BY <2>4, <2>5, <2>6 DEF Locks
<1>3. CASE \E p \in Peer : Answered(p)
  <2>1. PICK p \in Peer : Answered(p)
    BY <1>3
  <2>2. /\ pc' = [pc EXCEPT ![p] = "idle"] /\ UNCHANGED <<mutex, todo, at, net>>
    BY <2>1 DEF Answered
  <2>3. \A u \in Thread : pc'[u] = IF u = p THEN "idle" ELSE pc[u]
    BY <1>1, <2>2, Threads DEF TypeOK
  <2>4. TypeOK'
    BY <1>1, <2>2 DEF TypeOK, mutex, net
  <2>5. OnlyCallersShare'
    BY <1>1, <2>3 DEF OnlyCallersShare
  <2>6. Locked'
    BY <1>1, <2>2, <2>3, Threads DEF Locked, Sending, mutex
  <2> QED
    BY <2>4, <2>5, <2>6 DEF Locks
<1> QED
  BY <1>2, <1>3

\* The remote ends touch neither the mutex nor the goroutines.
LEMMA RemoteLocks ==
    ASSUME Locks, NEW p \in Peer, RemoteReads(p) \/ RemoteCloses(p)
    PROVE  Locks'
<1>1. TypeOK /\ OnlyCallersShare /\ Locked
  BY DEF Locks
<1>2. UNCHANGED <<mutex, pc, todo, at>>
  BY DEF RemoteReads, RemoteCloses
<1>3. /\ open' \subseteq Peer /\ torn' \subseteq Peer
      /\ buf' \in [Peer -> Seq([from : Thread, part : {"length", "data"}])]
      /\ partial' \in [Peer -> Thread \cup {Nobody}]
  <2>1. CASE RemoteCloses(p)
    BY <1>1, <2>1, EmptySeq DEF RemoteCloses, TypeOK
  <2>2. CASE RemoteReads(p)
    <3>1. /\ buf[p] # <<>> /\ buf[p] \in Seq([from : Thread, part : {"length", "data"}])
      BY <1>1, <2>2 DEF RemoteReads, TypeOK
    <3>2. /\ Tail(buf[p]) \in Seq([from : Thread, part : {"length", "data"}])
          /\ Head(buf[p]) \in [from : Thread, part : {"length", "data"}]
      BY <3>1, HeadTailProperties
    <3>3. Head(buf[p]).from \in Thread
      BY <3>2
    <3>4. open' \in {open, open \ {p}} /\ torn' \in {torn, torn \cup {p}}
      BY <2>2 DEF RemoteReads
    <3>5. \E q \in {Tail(buf[p]), <<>>} : buf' = [buf EXCEPT ![p] = q]
      BY <1>1, <2>2 DEF RemoteReads, TypeOK
    <3>6. \E f \in {Head(buf[p]).from, Nobody} : partial' = [partial EXCEPT ![p] = f]
      BY <2>2 DEF RemoteReads
    <3>7. buf' \in [Peer -> Seq([from : Thread, part : {"length", "data"}])]
      <4>1. PICK q \in {Tail(buf[p]), <<>>} : buf' = [buf EXCEPT ![p] = q]
        BY <3>5
      <4>2. q \in Seq([from : Thread, part : {"length", "data"}])
        BY <3>2, <4>1, EmptySeq
      <4> QED
        BY <1>1, <4>1, <4>2 DEF TypeOK
    <3>8. partial' \in [Peer -> Thread \cup {Nobody}]
      BY <1>1, <3>3, <3>6 DEF TypeOK
    <3> QED
      BY <1>1, <3>4, <3>7, <3>8 DEF TypeOK
  <2> QED
    BY <2>1, <2>2
<1>4. TypeOK'
  BY <1>1, <1>2, <1>3 DEF TypeOK, mutex
<1>5. OnlyCallersShare' /\ Locked'
  BY <1>1, <1>2 DEF OnlyCallersShare, Locked, mutex
<1> QED
  BY <1>4, <1>5 DEF Locks

LEMMA LocksInit == Init => Locks
<1> SUFFICES ASSUME Init PROVE Locks
  OBVIOUS
<1>1. TypeOK
  <2>1. \A p \in Peer : <<>> \in Seq([from : Thread, part : {"length", "data"}])
    BY EmptySeq
  <2>2. buf \in [Peer -> Seq([from : Thread, part : {"length", "data"}])]
    BY <2>1 DEF Init
  <2> QED
    BY <2>2 DEF Init, TypeOK
<1>2. OnlyCallersShare /\ Locked
  BY Threads DEF Init, OnlyCallersShare, Locked, Sending
<1> QED
  BY <1>1, <1>2 DEF Locks

\* One step per action.
LEMMA LocksStep == Locks /\ [Next]_vars => Locks'
<1> SUFFICES ASSUME Locks, [Next]_vars PROVE Locks'
  OBVIOUS
<1>1. CASE \E t \in Thread : CallSend(t)
  <2>1. PICK t \in Thread : CallSend(t)
    BY <1>1
  <2>2. PICK targets \in {Peer} \cup {{p} : p \in Peer} : t \in Caller /\ Call(t, "rlock", targets)
    BY <2>1 DEF CallSend
  <2> QED
    BY <2>2, CallLocks
<1>2. CASE \E t \in Thread : Run(t)
  <2>1. PICK t \in Thread : Run(t)
    BY <1>2
  <2> QED
    BY <2>1, MutexLocks, DrainLocks, UnlockLocks, SendLocks, EndLocks DEF Run
<1>3. CASE Tick
  BY <1>3, CallLocks, Threads DEF Tick
<1>4. CASE CallStop
  BY <1>4, CallLocks, Threads DEF CallStop
<1>5. CASE \E p \in Peer : Receive(p)
  BY <1>5, CallLocks, Threads DEF Receive
<1>6. CASE \E p \in Peer : RemoteReads(p) \/ RemoteCloses(p)
  BY <1>6, RemoteLocks
<1>7. CASE UNCHANGED vars
  BY <1>7 DEF vars, Locks, TypeOK, OnlyCallersShare, Locked
<1> QED
  BY <1>1, <1>2, <1>3, <1>4, <1>5, <1>6, <1>7 DEF Next

----------------------------------------------------------------------------
(* The writes under way *)

\* Two that send and do not share the lock: there are none of these.
LEMMA SendersAgree ==
    ASSUME Locks, NEW t \in Caller
    PROVE  ~(pc[t] \in Sending /\ pc[Heartbeat] \in Sending)
BY DEF Locks, Locked

Apart == LastIsUnderWay /\ ClosedIsEmpty /\ LockKeepsPingsApart

\* A step that sends nothing: connections keep what is under way, lose the first
\* of it or all of it, and nobody leaves the middle of a message.
LEMMA Shrinks ==
    ASSUME Locks, Apart,
           \A p \in Peer : \/ buf'[p] = buf[p]
                           \/ buf'[p] = <<>>
                           \/ buf[p] # <<>> /\ buf'[p] = Tail(buf[p]),
           \A p \in Peer : p \notin open' => buf'[p] = <<>>,
           \A u \in Thread : pc[u] = "data" => pc'[u] = "data" /\ at'[u] = at[u]
    PROVE  Apart'
<1>0. \A p \in Peer : buf[p] \in Seq(Piece)
  BY DEF Locks, TypeOK, Piece
<1>1. \A p \in Peer : buf[p] \in Seq(Piece) /\ buf'[p] \in Seq(Piece)
  <2>1. <<>> \in Seq(Piece)
    BY EmptySeq
  <2>2. \A s \in Seq(Piece) : s # <<>> => Tail(s) \in Seq(Piece)
    BY HeadTailProperties
  <2> QED
    BY <1>0, <2>1, <2>2
<1>2. \A p \in Peer : \A i \in 1 .. Len(buf'[p]) :
         \E d \in {0, 1} : /\ Len(buf[p]) = Len(buf'[p]) + d
                           /\ \A j \in 1 .. Len(buf'[p]) : buf'[p][j] = buf[p][j + d]
  <2> SUFFICES ASSUME NEW p \in Peer, NEW i \in 1 .. Len(buf'[p])
               PROVE \E d \in {0, 1} : /\ Len(buf[p]) = Len(buf'[p]) + d
                                       /\ \A j \in 1 .. Len(buf'[p]) : buf'[p][j] = buf[p][j + d]
    OBVIOUS
  <2>1. buf[p] \in Seq(Piece)
    BY <1>1
  <2>2. CASE buf'[p] = buf[p]
    BY <2>1, <2>2
  <2>3. CASE buf'[p] = <<>>
    BY <2>3
  <2>4. CASE buf[p] # <<>> /\ buf'[p] = Tail(buf[p])
    BY <2>1, <2>4
  <2> QED
    BY <2>2, <2>3, <2>4
<1>3. LastIsUnderWay'
  <2> SUFFICES ASSUME NEW p \in Peer, buf'[p] # <<>>, buf'[p][Len(buf'[p])].part = "length"
               PROVE  LET w == buf'[p][Len(buf'[p])] IN pc'[w.from] = "data" /\ at'[w.from] = p
    BY DEF LastIsUnderWay
  <2>1. buf[p] \in Seq(Piece) /\ buf'[p] \in Seq(Piece)
    BY <1>1
  <2>2. Len(buf'[p]) \in 1 .. Len(buf'[p])
    BY <2>1
  <2>3. buf[p] # <<>> /\ buf'[p][Len(buf'[p])] = buf[p][Len(buf[p])]
    BY <1>2, <2>1, <2>2
  <2>4. pc[buf[p][Len(buf[p])].from] = "data" /\ at[buf[p][Len(buf[p])].from] = p
    BY <2>3 DEF Apart, LastIsUnderWay
  <2>5. buf[p][Len(buf[p])].from \in Thread
    <3>1. buf[p][Len(buf[p])] \in Piece
      BY <2>1, <2>3
    <3> QED
      BY <3>1 DEF Piece
  <2> QED
    BY <2>3, <2>4, <2>5
<1>4. ClosedIsEmpty'
  BY DEF ClosedIsEmpty
<1>5. \A t, u : Mixed(t, u)' => Mixed(t, u)
  <2> SUFFICES ASSUME NEW t, NEW u, Mixed(t, u)' PROVE Mixed(t, u)
    OBVIOUS
  <2>0. PICK p \in Peer : \E i \in 1 .. Len(buf'[p]) - 1 :
           /\ buf'[p][i].part = "length" /\ buf'[p][i].from = t
           /\ buf'[p][i+1].from = u /\ t # u
    BY DEF Mixed
  <2>1. PICK i \in 1 .. Len(buf'[p]) - 1 :
           /\ buf'[p][i].part = "length" /\ buf'[p][i].from = t
           /\ buf'[p][i+1].from = u /\ t # u
    BY <2>0
  <2>2. buf[p] \in Seq(Piece) /\ buf'[p] \in Seq(Piece)
    BY <1>1
  <2>3. i \in 1 .. Len(buf'[p]) /\ i + 1 \in 1 .. Len(buf'[p])
    BY <2>2
  <2>4. PICK d \in {0, 1} : /\ Len(buf[p]) = Len(buf'[p]) + d
                            /\ \A j \in 1 .. Len(buf'[p]) : buf'[p][j] = buf[p][j + d]
    BY <1>2, <2>3
  <2>5. i + d \in 1 .. Len(buf[p]) - 1 /\ (i + d) + 1 = (i + 1) + d
    BY <2>2, <2>3, <2>4
  <2>6. buf[p][i + d] = buf'[p][i] /\ buf[p][(i + d) + 1] = buf'[p][i + 1]
    BY <2>3, <2>4, <2>5
  <2> QED
    BY <2>1, <2>5, <2>6 DEF Mixed
<1>6. LockKeepsPingsApart'
  BY <1>5 DEF Apart, LockKeepsPingsApart
<1> QED
  BY <1>3, <1>4, <1>6 DEF Apart

\* A write goes behind what is under way.
LEMMA Adds ==
    ASSUME Locks, Apart, NEW t \in Thread, NEW p \in Peer, NEW part \in {"length", "data"},
           pc[t] \in Sending,
           buf' = [buf EXCEPT ![p] = Append(@, [from |-> t, part |-> part])]
    PROVE  /\ buf'[p] # <<>> /\ buf'[p][Len(buf'[p])] = [from |-> t, part |-> part]
           /\ \A q \in Peer \ {p} : buf'[q] = buf[q]
           /\ LockKeepsPingsApart'
<1>1. buf \in [Peer -> Seq(Piece)]
  BY DEF Locks, TypeOK, Piece
<1>2. /\ buf'[p] = Append(buf[p], [from |-> t, part |-> part]) /\ buf[p] \in Seq(Piece)
      /\ \A q \in Peer \ {p} : buf'[q] = buf[q]
  BY <1>1
<1>3. [from |-> t, part |-> part] \in Piece
  BY DEF Piece
<1>4. /\ Len(buf'[p]) = Len(buf[p]) + 1 /\ Len(buf[p]) \in Nat
      /\ \A i \in 1 .. Len(buf[p]) : buf'[p][i] = buf[p][i]
      /\ buf'[p][Len(buf[p]) + 1] = [from |-> t, part |-> part]
  BY <1>2, <1>3, AppendProperties
<1>5. ASSUME NEW q \in Peer, NEW i \in 1 .. Len(buf'[q]) - 1, buf'[q][i].part = "length",
             \/ buf'[q][i].from \in Caller /\ buf'[q][i+1].from = Heartbeat
             \/ buf'[q][i].from = Heartbeat /\ buf'[q][i+1].from \in Caller
      PROVE  FALSE
  <2>1. \A x, y : (x \in Caller /\ y = Heartbeat) \/ (x = Heartbeat /\ y \in Caller)
                     => ~Mixed(x, y) /\ x # y
    BY Threads DEF Apart, LockKeepsPingsApart
  <2>2. ~Mixed(buf'[q][i].from, buf'[q][i+1].from) /\ buf'[q][i].from # buf'[q][i+1].from
    BY <1>5, <2>1
  <2>3. CASE q # p
    BY <1>2, <1>5, <2>2, <2>3 DEF Mixed
  <2>4. CASE q = p /\ i < Len(buf[p])
    <3>1. i \in 1 .. Len(buf[p]) - 1 /\ i \in 1 .. Len(buf[p]) /\ i + 1 \in 1 .. Len(buf[p])
      BY <1>4, <2>4
    <3>2. buf'[p][i] = buf[p][i] /\ buf'[p][i + 1] = buf[p][i + 1]
      BY <1>4, <3>1
    <3> QED
      BY <1>5, <2>2, <2>4, <3>1, <3>2 DEF Mixed
  <2>5. CASE q = p /\ i = Len(buf[p])
    <3>1. buf[p] # <<>> /\ buf'[p][i] = buf[p][i]
      BY <1>2, <1>4, <2>5
    <3>2. pc[buf'[p][i].from] = "data"
      BY <1>5, <2>5, <3>1 DEF Apart, LastIsUnderWay
    <3>3. buf'[p][i+1].from = t
      BY <1>4, <2>5
    <3> QED
      BY <1>5, <2>5, <3>2, <3>3, SendersAgree DEF Sending
  <2> QED
    BY <1>4, <2>3, <2>4, <2>5
<1>6. LockKeepsPingsApart'
  BY <1>5 DEF LockKeepsPingsApart, Mixed
<1>7. buf'[p] # <<>>
  BY <1>4, Len(<<>>) = 0
<1> QED
  BY <1>2, <1>4, <1>6, <1>7

\* Who sent the last length is in Thread.
LEMMA LastFrom ==
    ASSUME Locks, LastIsUnderWay, NEW p \in Peer, buf[p] # <<>>,
           buf[p][Len(buf[p])].part = "length"
    PROVE  LET w == buf[p][Len(buf[p])]
           IN  w.from \in Thread /\ pc[w.from] = "data" /\ at[w.from] = p
<1>1. buf[p] \in Seq(Piece) /\ buf[p] # <<>>
  BY DEF Locks, TypeOK, Piece
<1>2. buf[p][Len(buf[p])] \in Piece
  BY <1>1
<1> QED
  BY <1>2 DEF LastIsUnderWay, Piece

LEMMA SendApart ==
    ASSUME Locks, Apart, NEW t \in Thread, WriteLength(t) \/ WriteData(t)
    PROVE  Apart'
<1>1. CASE WriteLength(t)
  <2>1. PICK p \in todo[t] :
           /\ Write(t, p, "length") \/ (p \notin open /\ UNCHANGED net)
           /\ at' = [at EXCEPT ![t] = p]
    BY <1>1 DEF WriteLength
  <2>2. p \in Peer /\ pc[t] = "send" /\ pc' = [pc EXCEPT ![t] = "data"]
    BY <1>1, <2>1 DEF WriteLength, Locks, TypeOK
  <2>3. \A u \in Thread : /\ pc'[u] = IF u = t THEN "data" ELSE pc[u]
                          /\ at'[u] = IF u = t THEN p ELSE at[u]
    BY <2>1, <2>2 DEF Locks, TypeOK
  <2>4. CASE Write(t, p, "length")
    <3>1. p \in open /\ open' = open /\ buf' = [buf EXCEPT ![p] = Append(@, [from |-> t, part |-> "length"])]
      BY <2>4 DEF Write
    <3>2. /\ buf'[p] # <<>> /\ buf'[p][Len(buf'[p])] = [from |-> t, part |-> "length"]
          /\ \A q \in Peer \ {p} : buf'[q] = buf[q]
          /\ LockKeepsPingsApart'
      BY <2>2, <3>1, Adds DEF Sending
    <3>3. ASSUME NEW q \in Peer, buf'[q] # <<>>, buf'[q][Len(buf'[q])].part = "length"
          PROVE  LET w == buf'[q][Len(buf'[q])] IN pc'[w.from] = "data" /\ at'[w.from] = q
      <4>1. CASE q = p
        BY <2>3, <3>2, <4>1
      <4>2. CASE q # p
        BY <2>2, <2>3, <3>2, <3>3, <4>2, LastFrom DEF Apart
      <4> QED
        BY <4>1, <4>2
    <3>4. LastIsUnderWay'
      BY <3>3 DEF LastIsUnderWay
    <3>5. ClosedIsEmpty'
      BY <2>2, <3>1, <3>2 DEF Apart, ClosedIsEmpty
    <3> QED
      BY <3>2, <3>4, <3>5 DEF Apart
  <2>5. CASE p \notin open /\ UNCHANGED net
    <3>1. \A u \in Thread : pc[u] = "data" => pc'[u] = "data" /\ at'[u] = at[u]
      BY <2>2, <2>3
    <3>2. \A q \in Peer : buf'[q] = buf[q] /\ (q \notin open' => buf'[q] = <<>>)
      BY <2>5 DEF net, Apart, ClosedIsEmpty
    <3> QED
      BY <3>1, <3>2, Shrinks
  <2> QED
    BY <2>1, <2>4, <2>5
<1>2. CASE WriteData(t)
  <2>1. /\ pc[t] = "data" /\ pc' = [pc EXCEPT ![t] = "send"]
        /\ at' = [at EXCEPT ![t] = Nobody]
        /\ Write(t, at[t], "data") \/ (at[t] \notin open /\ UNCHANGED net)
    BY <1>2 DEF WriteData
  <2>2. \A u \in Thread : u # t => pc'[u] = pc[u] /\ at'[u] = at[u]
    BY <2>1 DEF Locks, TypeOK
  <2>3. CASE Write(t, at[t], "data")
    <3>1. /\ at[t] \in open /\ at[t] \in Peer /\ open' = open
          /\ buf' = [buf EXCEPT ![at[t]] = Append(@, [from |-> t, part |-> "data"])]
      BY <2>3 DEF Write, Locks, TypeOK
    <3>2. /\ buf'[at[t]] # <<>> /\ buf'[at[t]][Len(buf'[at[t]])] = [from |-> t, part |-> "data"]
          /\ \A q \in Peer \ {at[t]} : buf'[q] = buf[q]
          /\ LockKeepsPingsApart'
      BY <2>1, <3>1, Adds DEF Sending
    <3>3. ASSUME NEW q \in Peer, buf'[q] # <<>>, buf'[q][Len(buf'[q])].part = "length"
          PROVE  LET w == buf'[q][Len(buf'[q])] IN pc'[w.from] = "data" /\ at'[w.from] = q
      <4>1. q # at[t]
        BY <3>2, <3>3
      <4> QED
        BY <2>2, <3>2, <3>3, <4>1, LastFrom DEF Apart
    <3>4. LastIsUnderWay'
      BY <3>3 DEF LastIsUnderWay
    <3>5. ClosedIsEmpty'
      BY <3>1, <3>2 DEF Apart, ClosedIsEmpty
    <3> QED
      BY <3>2, <3>4, <3>5 DEF Apart
  <2>4. CASE at[t] \notin open /\ UNCHANGED net
    <3>1. open' = open /\ buf' = buf
      BY <2>4 DEF net
    <3>2. ASSUME NEW q \in Peer, buf'[q] # <<>>, buf'[q][Len(buf'[q])].part = "length"
          PROVE  LET w == buf'[q][Len(buf'[q])] IN pc'[w.from] = "data" /\ at'[w.from] = q
      <4>1. q # at[t]
        BY <2>4, <3>1, <3>2 DEF Apart, ClosedIsEmpty
      <4> QED
        BY <2>2, <3>1, <3>2, <4>1, LastFrom DEF Apart
    <3>3. LastIsUnderWay'
      BY <3>2 DEF LastIsUnderWay
    <3> QED
      BY <3>1, <3>3 DEF Apart, ClosedIsEmpty, LockKeepsPingsApart, Mixed
  <2> QED
    BY <2>1, <2>3, <2>4
<1> QED
  BY <1>1, <1>2

\* The steps that send nothing.
LEMMA QuietApart ==
    ASSUME Locks, Apart, [Next]_vars, ~\E t \in Thread : WriteLength(t) \/ WriteData(t)
    PROVE  Apart'
<1>0. \A p \in Peer : p \notin open => buf[p] = <<>>
  BY DEF Apart, ClosedIsEmpty
<1> DEFINE Stays == \A u \in Thread : pc[u] = "data" => pc'[u] = "data" /\ at'[u] = at[u]
<1> DEFINE Same == \A p \in Peer : buf'[p] = buf[p] /\ (p \notin open' => buf'[p] = <<>>)
<1>1. Same /\ Stays => Apart'
  BY Shrinks
<1>2. ASSUME NEW t \in Thread, NEW x, NEW targets, Call(t, x, targets) PROVE Apart'
  <2>1. Same
    BY <1>0, <1>2 DEF Call, net
  <2>2. Stays
    BY <1>2 DEF Call, Locks, TypeOK
  <2> QED
    BY <1>1, <2>1, <2>2
<1>3. ASSUME NEW t \in Thread, Lock(t) \/ RLock(t) \/ RUnlock(t) PROVE Apart'
  <2>1. Same
    BY <1>0, <1>3 DEF Lock, RLock, RUnlock, net
  <2>2. at' = at /\ pc[t] # "data" /\ \E x : pc' = [pc EXCEPT ![t] = x]
    BY <1>3 DEF Lock, RLock, RUnlock
  <2>3. Stays
    BY <2>2 DEF Locks, TypeOK
  <2> QED
    BY <1>1, <2>1, <2>3
<1>4. ASSUME NEW t \in Thread, Drain(t) PROVE Apart'
  <2>1. Stays
    BY <1>4 DEF Drain, Locks, TypeOK
  <2>2. \A p \in Peer : /\ buf'[p] = buf[p] \/ buf'[p] = <<>>
                        /\ p \notin open' => buf'[p] = <<>>
    BY <1>0, <1>4 DEF Drain, net
  <2> QED
    BY <2>1, <2>2, Shrinks
<1>5. ASSUME NEW t \in Thread, Unlock(t) PROVE Apart'
  <2>1. Same
    BY <1>0, <1>5 DEF Unlock, net
  <2>2. Stays
    BY <1>5 DEF Unlock, Blocked
  <2> QED
    BY <1>1, <2>1, <2>2
<1>6. ASSUME NEW closed \in SUBSET open, EndTick(closed) PROVE Apart'
  <2>1. Stays
    BY <1>6 DEF EndTick, Locks, TypeOK
  <2>2. \A p \in Peer : /\ buf'[p] = buf[p] \/ buf'[p] = <<>>
                        /\ p \notin open' => buf'[p] = <<>>
    BY <1>0, <1>6 DEF EndTick
  <2> QED
    BY <2>1, <2>2, Shrinks
<1>7. ASSUME NEW p \in Peer, Answered(p) PROVE Apart'
  <2>1. Same
    BY <1>0, <1>7 DEF Answered, net
  <2>2. Stays
    BY <1>7, Threads DEF Answered, Locks, TypeOK
  <2> QED
    BY <1>1, <2>1, <2>2
<1>8. ASSUME NEW p \in Peer, RemoteReads(p) PROVE Apart'
  <2>1. Stays
    BY <1>8 DEF RemoteReads
  <2>2. buf[p] # <<>> /\ p \in open
    BY <1>8 DEF RemoteReads
  <2>3. \/ open' = open /\ buf' = [buf EXCEPT ![p] = Tail(@)]
        \/ open' = open \ {p} /\ buf' = [buf EXCEPT ![p] = <<>>]
    BY <1>8 DEF RemoteReads
  <2>4. \A q \in Peer : /\ \/ buf'[q] = buf[q]
                           \/ buf'[q] = <<>>
                           \/ buf[q] # <<>> /\ buf'[q] = Tail(buf[q])
                        /\ q \notin open' => buf'[q] = <<>>
    BY <1>0, <2>2, <2>3 DEF Locks, TypeOK
  <2> QED
    BY <2>1, <2>4, Shrinks
<1>9. ASSUME NEW p \in Peer, RemoteCloses(p) PROVE Apart'
  <2>1. Stays
    BY <1>9 DEF RemoteCloses
  <2>2. \A q \in Peer : /\ buf'[q] = buf[q] \/ buf'[q] = <<>>
                        /\ q \notin open' => buf'[q] = <<>>
    BY <1>0, <1>9 DEF RemoteCloses, Locks, TypeOK
  <2> QED
    BY <2>1, <2>2, Shrinks
<1>10. CASE UNCHANGED vars
  BY <1>10 DEF vars, Apart, LastIsUnderWay, ClosedIsEmpty, LockKeepsPingsApart, Mixed
<1>11. CASE Next
  <2>1. CASE \E t \in Thread : CallSend(t)
    BY <1>2, <2>1 DEF CallSend
  <2>2. CASE \E t \in Thread : Run(t)
    <3>1. PICK t \in Thread : Run(t)
      BY <2>2
    <3> QED
      BY <1>3, <1>4, <1>5, <1>6, <1>7, <3>1 DEF Run
  <2>3. CASE Tick \/ CallStop \/ \E p \in Peer : Receive(p)
    BY <1>2, <2>3, Threads DEF Tick, CallStop, Receive
  <2> QED
    BY <1>8, <1>9, <1>11, <2>1, <2>2, <2>3 DEF Next
<1> QED
  BY <1>10, <1>11

\* The type invariant, for every number of goroutines and every capacity of a
\* connection: the goroutine that is at the data of a message has a connection
\* for it, and what is under way are lengths and data.
THEOREM TypeCorrect == Spec => []TypeOK
<1>1. Spec => []Locks
  BY LocksInit, LocksStep, PTL DEF Spec
<1>2. Locks => TypeOK
  BY DEF Locks
<1> QED
  BY <1>1, <1>2, PTL

\* A ping and a message of Broadcast, SendToPeer or discoverNodes are never
\* mixed up, whatever the connections hold and however slow the remote ends
\* are: the last length of a connection belongs to a goroutine that still sends
\* there, and two of these senders exclude each other.
THEOREM PingsApart == Spec => []LockKeepsPingsApart
<1>1. Init => Locks /\ Apart
  <2>1. Init => Apart
    BY DEF Init, Apart, LastIsUnderWay, ClosedIsEmpty, LockKeepsPingsApart, Mixed
  <2> QED
    BY <2>1, LocksInit
<1>2. Locks /\ Apart /\ [Next]_vars => (Locks /\ Apart)'
  BY LocksStep, SendApart, QuietApart
<1>3. Locks /\ Apart => LockKeepsPingsApart
  BY DEF Apart
<1> QED
  BY <1>1, <1>2, <1>3, PTL DEF Spec

----------------------------------------------------------------------------
(* Who waits, and for whom *)

\* The mutex is taken by somebody who goes on or sends; readers that wait have
\* somebody to wait for.
Served ==
    /\ writer # Nobody =>
          pc[writer] \in {"drain", "unlock"} \/ (writer = Heartbeat /\ pc[writer] \in Sending)
    /\ \A t \in readers : t \in Caller /\ pc[t] \in Sending
    /\ \A t \in Thread : pc[t] = "blocked" => writer # Nobody

\* What a step that leaves the mutex alone may do to the places.
LEMMA ServedElsewhere ==
    ASSUME Locks, Served, UNCHANGED mutex,
           \A t \in Thread :
               \/ pc'[t] = pc[t]
               \/ pc[t] \in Sending /\ pc'[t] \in Sending
               \/ pc[t] \notin {"drain", "unlock"} \cup Sending /\ pc'[t] # "blocked"
    PROVE  Served'
<1>1. writer' = writer /\ readers' = readers
  BY DEF mutex
<1>2. (writer # Nobody => writer \in Thread) /\ readers \subseteq Thread
  BY DEF Locks, TypeOK
<1> QED
  BY <1>1, <1>2 DEF Served, Sending

LEMMA ServedStep ==
    ASSUME Locks, Served, [Next]_vars
    PROVE  Served'
<1>0. TypeOK /\ OnlyCallersShare /\ Locked
  BY DEF Locks
<1>1. (writer # Nobody => writer \in Thread) /\ readers \subseteq Thread
  BY <1>0 DEF TypeOK
<1>2. ASSUME NEW t \in Thread, NEW lock \in {"lock", "rlock"}, NEW targets, Call(t, lock, targets)
      PROVE  Served'
  <2>1. \A u \in Thread : pc'[u] = IF u = t THEN lock ELSE pc[u]
    BY <1>0, <1>2 DEF Call, TypeOK
  <2>2. pc[t] = "idle" /\ UNCHANGED mutex
    BY <1>2 DEF Call
  <2> QED
    BY <2>1, <2>2, ServedElsewhere DEF Sending
<1>3. CASE \/ \E t \in Thread : CallSend(t)
           \/ Tick \/ CallStop \/ \E p \in Peer : Receive(p)
  BY <1>2, <1>3, Threads DEF CallSend, Tick, CallStop, Receive
<1>4. CASE \E p \in Peer : RemoteReads(p) \/ RemoteCloses(p)
  BY <1>4, ServedElsewhere DEF RemoteReads, RemoteCloses
<1>5. CASE UNCHANGED vars
  BY <1>5, ServedElsewhere DEF vars, mutex
<1>6. ASSUME NEW t \in Thread, Run(t) PROVE Served'
  <2>1. CASE Lock(t)
    <3>1. writer' = t /\ readers' = readers /\ pc[t] = "lock"
          /\ \A u \in Thread : pc'[u] = IF u = t THEN "drain" ELSE pc[u]
      BY <1>0, <2>1 DEF Lock, TypeOK
    <3> QED
      BY <1>1, <3>1, Threads DEF Served, Sending
  <2>2. CASE Drain(t)
    <3>1. /\ writer' = writer /\ readers' = readers /\ readers = {} /\ writer = t
          /\ \A u \in Thread : pc'[u] = IF u = t
                 THEN (IF t = Heartbeat THEN "send" ELSE "unlock") ELSE pc[u]
      BY <1>0, <2>2 DEF Drain, mutex, TypeOK, Locked
    <3> QED
      BY <3>1, Threads DEF Served, Sending
  <2>3. CASE Unlock(t)
    <3>1. writer' = Nobody /\ readers' = Blocked
          /\ \A u \in Thread : pc'[u] =
                 IF u = t THEN (IF t \in Peer THEN "send" ELSE "idle")
                 ELSE IF u \in Blocked THEN "send" ELSE pc[u]
      BY <2>3 DEF Unlock
    <3>2. pc[t] = "unlock" /\ Blocked \subseteq Caller
      BY <1>0, <2>3 DEF Unlock, Blocked, OnlyCallersShare
    <3> QED
      BY <3>1, <3>2 DEF Served, Blocked, Sending
  <2>4. CASE RLock(t)
    <3>1. /\ writer' = writer
          /\ readers' = IF writer = Nobody THEN readers \cup {t} ELSE readers
          /\ \A u \in Thread : pc'[u] = IF u = t
                 THEN (IF writer = Nobody THEN "send" ELSE "blocked") ELSE pc[u]
          /\ pc[t] = "rlock"
      BY <1>0, <2>4 DEF RLock, TypeOK
    <3>2. t \in Caller
      BY <1>0, <3>1 DEF OnlyCallersShare
    <3> QED
      BY <1>1, <3>1, <3>2 DEF Served, Sending
  <2>5. CASE RUnlock(t)
    <3>1. writer' = writer /\ readers' = readers \ {t} /\ t \in readers
          /\ \A u \in Thread : pc'[u] = IF u = t THEN "idle" ELSE pc[u]
      BY <1>0, <2>5 DEF RUnlock, TypeOK
    <3>2. writer # t
      BY <2>5, <3>1, Threads DEF RUnlock, Served
    <3> QED
      BY <1>1, <3>1, <3>2 DEF Served, Sending
  <2>6. CASE WriteLength(t) \/ WriteData(t)
    <3>1. /\ UNCHANGED mutex
          /\ pc[t] \in Sending /\ pc'[t] \in Sending
          /\ \A u \in Thread : u # t => pc'[u] = pc[u]
      BY <1>0, <2>6 DEF WriteLength, WriteData, TypeOK, Sending
    <3>2. \A u \in Thread : pc'[u] = pc[u] \/ (pc[u] \in Sending /\ pc'[u] \in Sending)
      BY <3>1
    <3> QED
      BY <3>1, <3>2, ServedElsewhere
  <2>7. CASE t = Heartbeat /\ \E closed \in SUBSET open : EndTick(closed)
    <3>1. UNCHANGED mutex /\ pc[Heartbeat] = "send"
          /\ \A u \in Thread : pc'[u] = IF u = Heartbeat THEN "unlock" ELSE pc[u]
      BY <1>0, <2>7 DEF EndTick, TypeOK
    <3>2. writer = Heartbeat /\ readers = {} /\ writer' = writer /\ readers' = readers
      BY <1>0, <3>1 DEF Locked, mutex, Sending
    <3> QED
      BY <3>1, <3>2, Threads DEF Served, Sending
  <2>8. CASE t \in Peer /\ Answered(t)
    <3>1. UNCHANGED mutex /\ pc[t] = "send" /\ t \in Peer
          /\ \A u \in Thread : pc'[u] = IF u = t THEN "idle" ELSE pc[u]
      BY <1>0, <2>8 DEF Answered, TypeOK
    <3>2. t # writer /\ t \notin readers
      BY <3>1, Threads DEF Served
    <3> QED
      BY <1>1, <3>1, <3>2 DEF Served, mutex, Sending
  <2> QED
    BY <1>6, <2>1, <2>2, <2>3, <2>4, <2>5, <2>6, <2>7, <2>8 DEF Run
<1> QED
  BY <1>3, <1>4, <1>5, <1>6 DEF Next

\* Where a goroutine has a step to take: the guards of Run.  Where it waits for
\* the remote end of an open connection that is full.
HasRoom(p) == p \notin open \/ Len(buf[p]) < Capacity
CanGoOn(t) ==
    \/ pc[t] = "lock" /\ writer = Nobody
    \/ pc[t] = "drain" /\ readers = {}
    \/ pc[t] \in {"unlock", "rlock"}
    \/ pc[t] = "send" /\ (todo[t] = {} \/ \E p \in todo[t] : HasRoom(p))
    \/ pc[t] = "data" /\ HasRoom(at[t])
AwaitsRemote(t) ==
    \/ pc[t] = "send" /\ \E p \in todo[t] : ~HasRoom(p)
    \/ pc[t] = "data" /\ ~HasRoom(at[t])

\* The mutex of the server adds no deadlock of its own: while a call is under
\* way some goroutine can take its next step, or waits for a remote end that
\* does not read.
OnlyRemotesDelay ==
    (\E t \in Thread : pc[t] # "idle") => \E t \in Thread : CanGoOn(t) \/ AwaitsRemote(t)
THEOREM NoCircularWait == Spec => []OnlyRemotesDelay
<1>1. Init => Locks /\ Served
  BY LocksInit DEF Init, Served
<1>2. Locks /\ Served /\ [Next]_vars => (Locks /\ Served)'
  BY LocksStep, ServedStep
<1>3. ASSUME Locks, Served, NEW t \in Thread, pc[t] # "idle"
      PROVE  \E u \in Thread : CanGoOn(u) \/ AwaitsRemote(u)
  <2>0. TypeOK
    BY <1>3 DEF Locks
  <2>1. ASSUME NEW u \in Thread, pc[u] \in Sending
        PROVE  CanGoOn(u) \/ AwaitsRemote(u)
    BY <2>1 DEF Sending, CanGoOn, AwaitsRemote
  <2>2. CASE readers # {}
    <3>1. PICK u \in readers : u \in Thread /\ pc[u] \in Sending
      BY <1>3, <2>0, <2>2 DEF Served, TypeOK
    <3> QED
      BY <2>1, <3>1
  <2>3. CASE readers = {} /\ writer # Nobody
    <3>1. writer \in Thread /\ pc[writer] \in {"drain", "unlock"} \cup Sending
      BY <1>3, <2>0, <2>3 DEF Served, TypeOK
    <3> QED
      BY <2>1, <2>3, <3>1 DEF CanGoOn
  <2>4. CASE writer = Nobody
    <3>1. pc[t] \notin {"blocked", "drain"}
      BY <1>3, <2>4, Threads DEF Served, Locks, Locked
    <3> QED
      BY <1>3, <2>0, <2>1, <2>4, <3>1 DEF CanGoOn, TypeOK, Sending
  <2> QED
    BY <2>2, <2>3, <2>4
<1>4. Locks /\ Served => OnlyRemotesDelay
  BY <1>3 DEF OnlyRemotesDelay
<1> QED
  BY <1>1, <1>2, <1>4, PTL DEF Spec
=============================================================================
