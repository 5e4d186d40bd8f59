------------------------------ MODULE UpdateCard ------------------------------
(***************************************************************************)
(* The card that updates DockLite (components/UpdateCard.tsx) and the job  *)
(* it starts (handlers/system_update.go; docklite-helper's update-start).  *)
(* The job runs outside the agent and restarts it, so the card's questions *)
(* fail for a while and are answered in any order.                         *)
(***************************************************************************)
EXTENDS Naturals, FiniteSets

CONSTANT MaxUpdateCalls

UpdateAssumption == MaxUpdateCalls \in Nat

VARIABLES job,        \* the agent and the update job
          card,       \* the card
          updateCalls \* the calls not answered

updateVars == <<job, card, updateCalls>>

Ended     == {"success", "failed", "rolled-back"}
NoState   == "none"

(***************************************************************************)
(* job.stage counts what has become of the job this card may start: 0      *)
(* before, 1 while it runs, 2 after; before it the state file tells how an *)
(* earlier update ended.  A question is answered with the state and stage  *)
(* read when the agent gets to it.  card.starting covers the POST and the  *)
(* question that follows it ("own").  card.stale is history: an answer     *)
(* read before the job started was shown after.                            *)
(***************************************************************************)
UpdateInit ==
    /\ job \in {[state |-> s, stage |-> 0, up |-> TRUE] : s \in Ended \union {"idle"}}
    /\ card = [status |-> NoState, starting |-> FALSE, reconnecting |-> FALSE, target |-> FALSE,
               stale |-> FALSE]
    /\ updateCalls = {[kind |-> "status", own |-> FALSE, read |-> NoState, stage |-> 0]}

Question(own) == [kind |-> "status", own |-> own, read |-> NoState, stage |-> 0]
Run           == [kind |-> "run", own |-> TRUE, read |-> NoState, stage |-> 0]
Room          == Cardinality(updateCalls) < MaxUpdateCalls
Waiting       == card.starting \/ card.status = "running" \/ card.reconnecting

(***************************************************************************)
(* The server.                                                             *)
(***************************************************************************)
StatusRead(c) ==
    /\ c.kind = "status" /\ c.read = NoState /\ job.up
    /\ updateCalls' = (updateCalls \ {c}) \union {[c EXCEPT !.read = job.state, !.stage = job.stage]}
    /\ UNCHANGED <<job, card>>

\* The job ends well, fails, or puts the old version back; one that was
\* killed is reported as failed.
JobEnds(s) ==
    /\ job.state = "running"
    /\ job' = [job EXCEPT !.state = s, !.stage = 2]
    /\ UNCHANGED <<card, updateCalls>>

\* The job restarts the agent, also when it goes back.
AgentStops ==
    /\ job.state = "running" /\ job.up
    /\ job' = [job EXCEPT !.up = FALSE]
    /\ UNCHANGED <<card, updateCalls>>

AgentStarts ==
    /\ ~job.up
    /\ job' = [job EXCEPT !.up = TRUE]
    /\ UNCHANGED <<card, updateCalls>>

(***************************************************************************)
(* The card.                                                               *)
(***************************************************************************)
\* Mutant: the timer stops when a question is lost.
PollRunning ==
    /\ card.starting \/ card.status = "running"
    /\ Room /\ Question(FALSE) \notin updateCalls
    /\ updateCalls' = updateCalls \union {Question(FALSE)}
    /\ UNCHANGED <<job, card>>

\* Every three seconds while it waits, and by hand while it does not.
Poll ==
    /\ Waiting /\ Room
    /\ Question(FALSE) \notin updateCalls
    /\ updateCalls' = updateCalls \union {Question(FALSE)}
    /\ UNCHANGED <<job, card>>

Refresh ==
    /\ ~Waiting /\ updateCalls = {}
    /\ updateCalls' = {Question(FALSE)}
    /\ UNCHANGED <<job, card>>

StatusShown(c) ==
    /\ c.kind = "status" /\ c.read # NoState
    /\ card' = [card EXCEPT !.status = c.read, !.reconnecting = FALSE,
                            !.starting = @ /\ ~c.own,
                            !.stale = @ \/ (c.stage = 0 /\ job.stage > 0)]
    /\ updateCalls' = updateCalls \ {c}
    /\ UNCHANGED job

\* No answer: the card takes it for the restart.
StatusLost(c) ==
    /\ c.kind = "status" /\ c.read = NoState
    /\ card' = [card EXCEPT !.reconnecting = TRUE, !.starting = @ /\ ~c.own]
    /\ updateCalls' = updateCalls \ {c}
    /\ UNCHANGED job

StartUpdate ==
    /\ card.status # NoState /\ ~Waiting /\ ~card.target /\ job.stage = 0 /\ Room
    /\ card' = [card EXCEPT !.starting = TRUE, !.target = TRUE]
    /\ updateCalls' = updateCalls \union {Run}
    /\ UNCHANGED job

RunAnswered(c) ==
    /\ c.kind = "run" /\ job.up
    /\ job' = [job EXCEPT !.state = "running", !.stage = 1]
    /\ updateCalls' = (updateCalls \ {c}) \union {Question(TRUE)}
    /\ UNCHANGED card

\* Refused, or the answer is lost after the job was started.
RunFailed(c, started) ==
    /\ c.kind = "run"
    /\ job' = IF started THEN [job EXCEPT !.state = "running", !.stage = 1] ELSE job
    /\ card' = [card EXCEPT !.starting = FALSE, !.target = FALSE]
    /\ updateCalls' = updateCalls \ {c}

-----------------------------------------------------------------------------
UpdateNext == \/ Poll \/ Refresh \/ StartUpdate \/ AgentStops \/ AgentStarts
              \/ \E s \in Ended : JobEnds(s)
              \/ \E c \in updateCalls : \/ StatusRead(c) \/ StatusShown(c) \/ StatusLost(c)
                                      \/ RunAnswered(c) \/ \E b \in BOOLEAN : RunFailed(c, b)

UpdateServes   == \E c \in updateCalls : StatusRead(c)
UpdateDelivers == \E c \in updateCalls : StatusShown(c)
UpdateSettles  == \E c \in updateCalls : c.own /\ (StatusRead(c) \/ StatusShown(c) \/ StatusLost(c))

\* The timer goes on, the agent comes back, not every question of the
\* timer fails, and the one the button waits for has an outcome.
UpdateFairness == /\ WF_updateVars(Poll) /\ WF_updateVars(AgentStarts) 
                  /\ SF_updateVars(UpdateServes) /\ WF_updateVars(UpdateDelivers) /\ WF_updateVars(UpdateSettles)
UpdateSpec     == UpdateInit /\ [][UpdateNext]_updateVars /\ UpdateFairness

(***************************************************************************)
(* Properties                                                              *)
(***************************************************************************)
\* When the update the card started has ended, the card comes to show how,
\* through the restart of the agent, unless it has shown an answer from
\* before the update after it began.
OutcomeIsShown ==
    (card.target /\ job.stage = 2) ~> (card.stale \/ (card.status = job.state /\ ~Waiting))

=============================================================================
