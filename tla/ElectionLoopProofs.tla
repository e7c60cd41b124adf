------------------------- MODULE ElectionLoopProofs -------------------------
(***************************************************************************)
(* Proofs about ElectionLoop, for every set of calls and number of them:   *)
(* that the code as built never runs, and, behind the panic, which timer   *)
(* runs in which office.                                                   *)
(***************************************************************************)
EXTENDS ElectionLoop, TLAPS

LEMMA LoopKeepsTypes ==
    ASSUME TypeOK,
           \/ TimerExpires \/ EnterSelect \/ ReceiveQuit \/ StartElection
           \/ LoseElection \/ WinElection \/ ReceiveTick \/ BeatDone
    PROVE  TypeOK'
<1>1. CASE TimerExpires
  BY <1>1 DEF TypeOK, TimerExpires
<1>2. CASE EnterSelect
  BY <1>2 DEF TypeOK, EnterSelect
<1>3. CASE ReceiveQuit
  BY <1>3 DEF TypeOK, ReceiveQuit
<1>4. CASE StartElection
  BY <1>4 DEF TypeOK, StartElection
<1>5. CASE LoseElection
  BY <1>5 DEF TypeOK, LoseElection
<1>6. CASE WinElection
  BY <1>6 DEF TypeOK, WinElection
<1>7. CASE ReceiveTick
  BY <1>7 DEF TypeOK, ReceiveTick
<1>8. CASE BeatDone
  BY <1>8 DEF TypeOK, BeatDone
<1> QED
  BY <1>1, <1>2, <1>3, <1>4, <1>5, <1>6, <1>7, <1>8

LEMMA CallsKeepTypes ==
    ASSUME TypeOK, HandleAppendEntries \/ GrantVote \/ RefuseVote \/ Stop
    PROVE  TypeOK'
<1>0. MaxCalls \in Nat
  BY ElectionLoopAssumption
<1>1. CASE HandleAppendEntries
  BY <1>0, <1>1 DEF TypeOK, HandleAppendEntries, Call, ResetElectionTimer
<1>2. CASE GrantVote
  BY <1>0, <1>2 DEF TypeOK, GrantVote, Call, ResetElectionTimer
<1>3. CASE RefuseVote
  BY <1>0, <1>3 DEF TypeOK, RefuseVote, Call
<1>4. CASE Stop
  BY <1>4 DEF TypeOK, Stop
<1> QED
  BY <1>1, <1>2, <1>3, <1>4

\* Every variable of the loop keeps its type, whatever handlers are called.
THEOREM TypeCorrect == Spec => []TypeOK
<1>1. Init => TypeOK
  <2>1. MaxCalls \in 0 .. MaxCalls
    BY ElectionLoopAssumption
  <2>2. Init => quit \in BOOLEAN
    BY Zenon DEF Init
  <2> QED
    BY <2>1, <2>2 DEF Init, TypeOK
<1>2. TypeOK /\ [Next]_vars => TypeOK'
  <2>1. ASSUME TypeOK, Next PROVE TypeOK'
    BY <2>1, LoopKeepsTypes, CallsKeepTypes DEF Next
  <2>2. ASSUME TypeOK, UNCHANGED vars PROVE TypeOK'
    BY <2>2 DEF TypeOK, vars
  <2> QED
    BY <2>1, <2>2
<1> QED
  BY <1>1, <1>2, PTL DEF Spec

----------------------------------------------------------------------------

\* The code as it is: whoever calls, the loop gets no further than its first
\* select, so that no node ever runs for an election.
NeverRuns == pc \in {"enter", "panicked"} /\ state = "Follower"
THEOREM AsBuiltNeverRuns == NilPanics => (Spec => []NeverRuns)
<1> SUFFICES ASSUME NilPanics PROVE Spec => []NeverRuns
  OBVIOUS
<1> DEFINE I == NeverRuns /\ ticker = "nil"
<1>1. Init => I
  BY DEF Init, NeverRuns
<1>2. I /\ [Next]_vars => I'
  <2> SUFFICES ASSUME I, [Next]_vars PROVE I'
    OBVIOUS
  <2>1. CASE TimerExpires \/ EnterSelect
    BY <2>1 DEF NeverRuns, TimerExpires, EnterSelect
  <2>2. CASE \/ ReceiveQuit \/ StartElection \/ LoseElection
             \/ WinElection \/ ReceiveTick \/ BeatDone
    BY <2>2 DEF NeverRuns, ReceiveQuit, StartElection, LoseElection, WinElection,
                ReceiveTick, BeatDone
  <2>3. CASE HandleAppendEntries \/ GrantVote \/ RefuseVote
    BY <2>3 DEF NeverRuns, HandleAppendEntries, GrantVote, RefuseVote
  <2>4. CASE Stop
    BY <2>4 DEF NeverRuns, Stop
  <2>5. CASE UNCHANGED vars
    BY <2>5 DEF NeverRuns, vars
  <2> QED
    BY <2>1, <2>2, <2>3, <2>4, <2>5 DEF Next
<1> HIDE DEF I
<1>3. I => NeverRuns
  BY DEF I
<1> QED
  BY <1>1, <1>2, <1>3, PTL DEF Spec

\* Until Stop, a leader has a ticker that ticks and a candidate an election
\* timer that runs or has expired, in every order of elections and calls:
\* what LeaderBeats and VeteranStartsElection rest on.
THEOREM OfficesHaveTimers == Spec => []OfficeHasTimer
<1>1. Init => OfficeHasTimer
  BY DEF Init, OfficeHasTimer
<1>2. OfficeHasTimer /\ [Next]_vars => OfficeHasTimer'
  <2> SUFFICES ASSUME OfficeHasTimer, [Next]_vars PROVE OfficeHasTimer'
    OBVIOUS
  <2>1. CASE TimerExpires \/ EnterSelect \/ ReceiveQuit \/ LoseElection \/ ReceiveTick \/ BeatDone
    BY <2>1 DEF OfficeHasTimer, TimerExpires, EnterSelect, ReceiveQuit, LoseElection,
                ReceiveTick, BeatDone
  <2>2. CASE StartElection \/ WinElection
    BY <2>2 DEF OfficeHasTimer, StartElection, WinElection
  <2>3. CASE HandleAppendEntries \/ GrantVote
    BY <2>3 DEF OfficeHasTimer, HandleAppendEntries, GrantVote, ResetElectionTimer
  <2>4. CASE RefuseVote
    BY <2>4 DEF OfficeHasTimer, RefuseVote
  <2>5. CASE Stop
    BY <2>5 DEF OfficeHasTimer, Stop
  <2>6. CASE UNCHANGED vars
    BY <2>6 DEF OfficeHasTimer, vars
  <2> QED
    BY <2>1, <2>2, <2>3, <2>4, <2>5, <2>6 DEF Next
<1> QED
  BY <1>1, <1>2, PTL DEF Spec

\* A node is left without election timer by nothing but the handler that steps
\* down and refuses its vote: where that is not called, only a leader, or a
\* node that was stopped, has a timer that is stopped.
OnlyLeadersStopTimer == timer = "stopped" => state = "Leader" \/ quit
THEOREM RefusalStopsTimer == "refuse" \notin Calls => (Spec => []OnlyLeadersStopTimer)
<1> SUFFICES ASSUME "refuse" \notin Calls PROVE Spec => []OnlyLeadersStopTimer
  OBVIOUS
<1>1. Init => OnlyLeadersStopTimer
  BY DEF Init, OnlyLeadersStopTimer
<1>2. OnlyLeadersStopTimer /\ [Next]_vars => OnlyLeadersStopTimer'
  <2> SUFFICES ASSUME OnlyLeadersStopTimer, [Next]_vars PROVE OnlyLeadersStopTimer'
    OBVIOUS
  <2>1. CASE TimerExpires \/ EnterSelect \/ ReceiveQuit \/ LoseElection \/ ReceiveTick \/ BeatDone
    BY <2>1 DEF OnlyLeadersStopTimer, TimerExpires, EnterSelect, ReceiveQuit, LoseElection,
                ReceiveTick, BeatDone
  <2>2. CASE StartElection \/ WinElection
    BY <2>2 DEF OnlyLeadersStopTimer, StartElection, WinElection
  <2>3. CASE HandleAppendEntries \/ GrantVote
    BY <2>3 DEF OnlyLeadersStopTimer, HandleAppendEntries, GrantVote, ResetElectionTimer
  <2>4. ~RefuseVote
    BY DEF RefuseVote, Call
  <2>5. CASE Stop
    BY <2>5 DEF OnlyLeadersStopTimer, Stop
  <2>6. CASE UNCHANGED vars
    BY <2>6 DEF OnlyLeadersStopTimer, vars
  <2> QED
    BY <2>1, <2>2, <2>3, <2>4, <2>5, <2>6 DEF Next
<1> QED
  BY <1>1, <1>2, PTL DEF Spec
=============================================================================
