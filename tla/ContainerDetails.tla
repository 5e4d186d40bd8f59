-------------------------- MODULE ContainerDetails --------------------------
(***************************************************************************)
(* The two views of one container: the dialog of the containers page       *)
(* (ContainerDetailsModal.tsx) and the page of its own                     *)
(* (containers/[id]/ContainerPage.tsx).  Both load the details, the        *)
(* statistics and the logs one after the other, then ask for the logs      *)
(* every five seconds while "auto-refresh" is on.  The view is one or the  *)
(* other, chosen at the start.  The polled statistics are left out.        *)
(***************************************************************************)
EXTENDS Naturals, FiniteSets

CONSTANTS LogLines,        \* the lengths the select offers
          DefaultLines,    \* 100
          MaxDetailCalls   \* bound: calls outstanding at once

ContainerDetailsAssumption ==
    DefaultLines \in LogLines /\ LogLines \subseteq Nat \ {0} /\ MaxDetailCalls \in Nat

VARIABLES detail,      \* the view
          detailCalls  \* the calls not answered; equal calls are one

detailVars == <<detail, detailCalls>>

(***************************************************************************)
(* A call asks for the logs with a tail of so many lines, or is a step of  *)
(* the first load, which carries the tail its last step will ask for.      *)
(***************************************************************************)
LogCall(tail)         == [step |-> "logs", tail |-> tail, loads |-> FALSE]
LoadStep(step, tail)  == [step |-> step, tail |-> tail, loads |-> TRUE]
Steps                 == <<"inspect", "stats", "logs">>
After(step)           == CHOOSE i \in 2..3 : Steps[i - 1] = step
Room(n)               == Cardinality(detailCalls) + n <= MaxDetailCalls

DetailsInit ==
    /\ \E view \in {"dialog", "page"} :
         detail = [view |-> view, loading |-> TRUE, have |-> FALSE, error |-> FALSE,
                   lines |-> DefaultLines, auto |-> TRUE, shown |-> 0]
    /\ detailCalls = {LoadStep("inspect", DefaultLines)}

(***************************************************************************)
(* What is drawn.  The dialog looks at the error only once it has details, *)
(* which it never gets when the inspection fails.                          *)
(***************************************************************************)
DialogScreen == IF detail.loading \/ ~detail.have THEN "loading" ELSE IF detail.error THEN "error" ELSE "details"
PageScreen   == IF detail.loading THEN "loading" ELSE IF detail.error \/ ~detail.have THEN "error" ELSE "details"
Screen       == IF detail.view = "dialog" THEN DialogScreen ELSE PageScreen

(***************************************************************************)
(* Answers                                                                 *)
(***************************************************************************)
Got(c, ok) ==
    CASE c.step = "inspect" -> IF ok THEN [detail EXCEPT !.have = TRUE] ELSE [detail EXCEPT !.error = TRUE]
      [] c.step = "stats"   -> detail
      [] c.step = "logs"    -> IF ok THEN [detail EXCEPT !.shown = c.tail] ELSE detail

\* A step that fails does not stop the steps after it.
DetailAnswered(c, ok) ==
    /\ detail' = [Got(c, ok) EXCEPT !.loading = @ /\ ~(c.loads /\ c.step = "logs")]
    /\ detailCalls' = (detailCalls \ {c}) \union
           IF c.loads /\ c.step # "logs" THEN {LoadStep(Steps[After(c.step)], c.tail)} ELSE {}

(***************************************************************************)
(* The timer, the Refresh button and the two controls of the logs tab.     *)
(***************************************************************************)
\* Mutant: the timer goes on asking for the first length.
PollDefault ==
    /\ detail.auto /\ LogCall(DefaultLines) \notin detailCalls
    /\ detailCalls' = detailCalls \union {LogCall(DefaultLines)}
    /\ UNCHANGED detail

PollLogs ==
    /\ detail.auto /\ LogCall(detail.lines) \notin detailCalls
    /\ detailCalls' = detailCalls \union {LogCall(detail.lines)}
    /\ UNCHANGED detail

RefreshLogs ==
    /\ Screen = "details" /\ Room(1)
    /\ detailCalls' = detailCalls \union {LogCall(detail.lines)}
    /\ UNCHANGED detail

ToggleAuto ==
    /\ Screen = "details"
    /\ detail' = [detail EXCEPT !.auto = ~@]
    /\ UNCHANGED detailCalls

\* The handler asks with the fetchLogs of the old length.  The page's effect
\* depends on fetchLogs, so there everything is loaded again, without the
\* loading screen.
ChooseLines(n) ==
    /\ Screen = "details" /\ n # detail.lines /\ Room(2)
    /\ detail' = [detail EXCEPT !.lines = n]
    /\ detailCalls' = detailCalls \union {LogCall(detail.lines)}
                      \union IF detail.view = "page" THEN {LoadStep("inspect", n)} ELSE {}

-----------------------------------------------------------------------------
AnswerDetails == \E c \in detailCalls, ok \in BOOLEAN : DetailAnswered(c, ok)
DetailsClick  == RefreshLogs \/ ToggleAuto \/ \E n \in LogLines : ChooseLines(n)
DetailsNext   == AnswerDetails \/ PollLogs \/ DetailsClick

(***************************************************************************)
(* What is fair: the timer fires, its question for the length now chosen   *)
(* is again and again answered well, and a load gets some answer to each   *)
(* of its steps.  No click is fair.                                        *)
(***************************************************************************)
AnswersThePoll  == LogCall(detail.lines) \in detailCalls /\ DetailAnswered(LogCall(detail.lines), TRUE)
AnswersTheLoad  == \E c \in detailCalls, ok \in BOOLEAN : c.loads /\ DetailAnswered(c, ok)
DetailsFairness == WF_detailVars(PollLogs) /\ SF_detailVars(AnswersThePoll) /\ WF_detailVars(AnswersTheLoad)

DetailsSpec == DetailsInit /\ [][DetailsNext]_detailVars /\ DetailsFairness

(***************************************************************************)
(* Properties                                                              *)
(***************************************************************************)
\* The number of lines chosen is the number drawn in the end, though the choice
\* itself asks for the old number: auto-refresh makes up for it.  Except when an
\* inspection failed: nothing ever clears that error, so the page keeps its error
\* screen and the dialog its loading screen, whatever the timer fetches.
LogsFollowTheChoice ==
    \A n \in LogLines : <>[](detail.lines = n /\ detail.auto) =>
        <>[](detail.error \/ (Screen = "details" /\ detail.shown = n))

=============================================================================
