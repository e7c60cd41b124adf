---------------------------- MODULE ElectionLoop ----------------------------
(***************************************************************************)
(* One node's electionLoop (consensus/consensus.go), with its timers, the  *)
(* handlers that reset them from other goroutines, and Stop.               *)
(*                                                                         *)
(* A select takes its channels when it is entered: a timer that            *)
(* resetElectionTimer replaces while the loop waits is not the one waited  *)
(* for.  Timers are those of Go 1.20 (go.mod): Stop leaves an expiry that  *)
(* is already in the channel there.                                        *)
(*                                                                         *)
(* Nothing makes the heartbeat ticker before a node is leader, and the     *)
(* select reads its channel: NilPanics is TRUE for the code as it is,      *)
(* whose first select panics.  FALSE is the least repair there is, a       *)
(* select that has no heartbeat branch while there is no ticker; it lets   *)
(* what is behind the panic be looked at.                                  *)
(***************************************************************************)
EXTENDS Naturals

CONSTANTS
    NilPanics,  \* does a select on the channel of a ticker that is nil panic?
    HasPeers,   \* is rc.peers non-empty?  Without peers no vote is ever counted
    Calls,      \* the calls the node gets, of "append", "grant", "refuse", "stop"
    MaxCalls    \* bound: calls of the handlers

ASSUME ElectionLoopAssumption ==
    /\ NilPanics \in BOOLEAN
    /\ HasPeers \in BOOLEAN
    /\ Calls \subseteq {"append", "grant", "refuse", "stop"}
    /\ MaxCalls \in Nat

VARIABLES
    pc,       \* the loop: "enter" or "wait" in select, "campaign", "beat", "done", "panicked"
    timer,    \* rc.electionTimer: "armed", "expired" (not received yet), "stopped"
    watched,  \* the timer the select waits for: "current", or a replaced one, which
              \* is "silent" or left an "expiry"
    ticker,   \* rc.heartbeatTicker: "nil", "running", "stopped"
    state,    \* rc.state
    quit,     \* is rc.quit closed?
    budget    \* handler calls left

vars == <<pc, timer, watched, ticker, state, quit, budget>>

\* NewRaftConsensus and Start
Init ==
    /\ pc = "enter"
    /\ timer = "armed"
    /\ watched = "current"
    /\ ticker = "nil"
    /\ state = "Follower"
    /\ quit = FALSE
    /\ budget = MaxCalls

----------------------------------------------------------------------------
(* Timers *)

TimerExpires ==
    /\ timer = "armed"
    /\ timer' = "expired"
    /\ UNCHANGED <<pc, watched, ticker, state, quit, budget>>

\* Mutation: the old timer is given up and no new one made.
DropElectionTimer ==
    /\ timer' = "nil"
    /\ UNCHANGED watched

\* resetElectionTimer: a select that is waiting keeps the old timer.
ResetElectionTimer ==
    /\ timer' = "armed"
    /\ watched' = IF pc = "wait" /\ watched = "current"
                  THEN (IF timer = "expired" THEN "expiry" ELSE "silent")
                  ELSE watched

----------------------------------------------------------------------------
(* The loop *)

\* Mutations: a select that keeps its first timer for good; a return from the
\* select only.
EnterSelectOnce ==
    /\ pc = "enter"
    /\ pc' = IF ticker = "nil" /\ NilPanics THEN "panicked" ELSE "wait"
    /\ UNCHANGED <<timer, watched, ticker, state, quit, budget>>
BreakOnQuit ==
    /\ pc = "wait" /\ quit
    /\ pc' = "enter"
    /\ UNCHANGED <<timer, watched, ticker, state, quit, budget>>

\* Entering the select reads rc.electionTimer.C and rc.heartbeatTicker.C.
EnterSelect ==
    /\ pc = "enter"
    /\ pc' = IF ticker = "nil" /\ NilPanics THEN "panicked" ELSE "wait"
    /\ watched' = "current"
    /\ UNCHANGED <<timer, ticker, state, quit, budget>>

ReceiveQuit ==
    /\ pc = "wait" /\ quit
    /\ pc' = "done"
    /\ UNCHANGED <<timer, watched, ticker, state, quit, budget>>

\* Mutation: the timer that expired is not reset.
StartElectionOnly ==
    /\ pc = "wait"
    /\ watched = "expiry" \/ (watched = "current" /\ timer = "expired")
    /\ pc' = "campaign"
    /\ state' = "Candidate"
    /\ timer' = IF watched = "current" THEN "stopped" ELSE timer
    /\ watched' = "current"
    /\ UNCHANGED <<ticker, quit, budget>>

\* The election branch: startElection up to the votes.
StartElection ==
    /\ pc = "wait"
    /\ watched = "expiry" \/ (watched = "current" /\ timer = "expired")
    /\ pc' = "campaign"
    /\ state' = "Candidate"
    /\ timer' = "armed"
    /\ watched' = "current"
    /\ UNCHANGED <<ticker, quit, budget>>

\* Too few votes in 100ms, or no peers to ask.
LoseElection ==
    /\ pc = "campaign"
    /\ pc' = "enter"
    /\ UNCHANGED <<timer, watched, ticker, state, quit, budget>>

\* Mutation: becomeLeader stops the ticker of an earlier office and makes none.
WinAndStopTicker ==
    /\ pc = "campaign"
    /\ HasPeers
    /\ pc' = "enter"
    /\ state' = "Leader"
    /\ timer' = IF timer = "expired" THEN "expired" ELSE "stopped"
    /\ ticker' = IF ticker = "running" THEN "stopped" ELSE "running"
    /\ UNCHANGED <<watched, quit, budget>>

\* becomeLeader stops the timer but does not drain it.
WinElection ==
    /\ pc = "campaign"
    /\ HasPeers
    /\ pc' = "enter"
    /\ state' = "Leader"
    /\ timer' = IF timer = "expired" THEN "expired" ELSE "stopped"
    /\ ticker' = "running"
    /\ UNCHANGED <<watched, quit, budget>>

\* The heartbeat branch.
ReceiveTick ==
    /\ pc = "wait" /\ ticker = "running"
    /\ pc' = IF state = "Leader" THEN "beat" ELSE "enter"
    /\ UNCHANGED <<timer, watched, ticker, state, quit, budget>>

\* sendHeartbeats has started its goroutines.
BeatDone ==
    /\ pc = "beat"
    /\ pc' = "enter"
    /\ UNCHANGED <<timer, watched, ticker, state, quit, budget>>

----------------------------------------------------------------------------
(* Calls from other goroutines *)

Call(c) ==
    /\ c \in Calls
    /\ budget > 0
    /\ pc # "panicked"
    /\ budget' = budget - 1

\* handleAppendEntries, of a higher term or of the node's own.
HandleAppendEntries ==
    /\ Call("append")
    /\ state' \in {state, "Follower"}
    /\ ResetElectionTimer
    /\ UNCHANGED <<pc, ticker, quit>>

\* handleRequestVote that grants: of a higher term, or to a node that has not
\* voted, which a candidate has.
GrantVote ==
    /\ Call("grant")
    /\ state' \in {state, "Follower"} \ {"Candidate"}
    /\ ResetElectionTimer
    /\ UNCHANGED <<pc, ticker, quit>>

\* handleRequestVote of a higher term that refuses for the log: the node steps
\* down, its timer stays as it is.
RefuseVote ==
    /\ Call("refuse")
    /\ state' = "Follower"
    /\ UNCHANGED <<pc, timer, watched, ticker, quit>>

\* Stop.  Called once, by main.
Stop ==
    /\ "stop" \in Calls /\ ~quit
    /\ pc # "panicked"
    /\ quit' = TRUE
    /\ timer' = IF timer = "armed" THEN "stopped" ELSE timer
    /\ ticker' = IF ticker = "running" THEN "stopped" ELSE ticker
    /\ UNCHANGED <<pc, watched, state, budget>>

----------------------------------------------------------------------------

Next ==
    \/ TimerExpires
    \/ EnterSelect \/ ReceiveQuit \/ StartElection \/ LoseElection \/ WinElection
    \/ ReceiveTick \/ BeatDone
    \/ HandleAppendEntries \/ GrantVote \/ RefuseVote \/ Stop

\* Time passes and the loop runs.  A select with several ready channels takes
\* one at random, so none that is ready again and again is passed over forever.
\* Nobody has to call the node, no vote has to be won.
Fairness ==
    /\ WF_vars(TimerExpires)
    /\ WF_vars(EnterSelect) /\ WF_vars(LoseElection \/ WinElection) /\ WF_vars(BeatDone)
    /\ SF_vars(ReceiveQuit) /\ SF_vars(StartElection) /\ SF_vars(ReceiveTick)

Spec == Init /\ [][Next]_vars /\ Fairness

----------------------------------------------------------------------------
(* Properties *)

TypeOK ==
    /\ pc \in {"enter", "wait", "campaign", "beat", "done", "panicked"}
    /\ timer \in {"armed", "expired", "stopped"}
    /\ watched \in {"current", "silent", "expiry"}
    /\ ticker \in {"nil", "running", "stopped"}
    /\ state \in {"Follower", "Candidate", "Leader"}
    /\ quit \in BOOLEAN
    /\ budget \in 0 .. MaxCalls

\* Start leaves a loop that runs until Stop.
LoopSurvives == pc # "panicked"

\* A follower or candidate that hears no more from a leader starts an election,
\* whatever timers the handlers replaced while the loop was waiting.
SilenceStartsElection == state # "Leader" /\ ~quit ~> pc = "campaign" \/ quit

\* A node that has led does so, unless its timer was stopped: the ticker of that
\* office ticks on and takes the loop off a timer that was replaced.
VeteranStartsElection ==
    ticker # "nil" /\ state # "Leader" /\ timer # "stopped" /\ ~quit
        ~> pc = "campaign" \/ quit

\* Until Stop, a leader has a ticker that ticks and a candidate an election
\* timer that runs or has expired, in every order of elections and calls.
OfficeHasTimer ==
    ~quit => /\ state = "Leader" => ticker = "running"
             /\ state = "Candidate" => timer # "stopped"

\* Stop ends the loop, from the middle of an election or a heartbeat too.
StopEndsLoop == quit ~> pc = "done"

\* As long as it leads, a node goes on sending heartbeats.
LeaderBeats == state = "Leader" ~> pc = "beat" \/ state # "Leader" \/ quit

\* The first node of a deployment becomes the leader.
FirstNodeLeads == <>(state = "Leader")

\* A service that was stopped takes no new office.
NoOfficeAfterStop == [][quit /\ state # "Leader" => state' # "Leader"]_vars
=============================================================================
