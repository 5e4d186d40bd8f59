---------------------------- MODULE ScheduleForm ----------------------------
(***************************************************************************)
(* Backup schedules in the dashboard: the list's buttons (backups/page.tsx)*)
(* and the form they open (AddBackupJobModal.tsx), which creates a job,    *)
(* edits one, or creates a copy.  A job's schedule is a text; the form     *)
(* takes it apart, and puts it together again when it is submitted.        *)
(***************************************************************************)
EXTENDS Naturals, FiniteSets

CONSTANTS Jobs,         \* the schedules: records [type, schedule]
          FormHours,    \* the numbers of hours and of copies
          FormCopies,   \*   the form offers; 0 copies: keep all
          MaxFormCalls  \* bound: calls outstanding at once

Types         == {"all-sites", "site", "all-databases", "database"}
\* The schedule texts a job may have; "other" is any the form does not know.
ScheduleTexts == [kind : {"hourly", "hours", "daily", "weekly", "other"}, hours : Nat,
                  timed : BOOLEAN, keep : Nat]

ASSUME ScheduleFormAssumption ==
    /\ Jobs \subseteq [type : Types, schedule : ScheduleTexts]
    /\ FormHours \subseteq Nat \ {0} /\ FormCopies \subseteq Nat /\ MaxFormCalls \in Nat

VARIABLES form,      \* the form and what opened it
          formCalls  \* the calls not answered

formVars == <<form, formCalls>>

WithTarget == {"site", "database"}
NoJob      == [type |-> "none"]

(***************************************************************************)
(* parseFrequency and its counterpart in handleSubmit.  A schedule text is *)
(* a record: its kind ("hours" with their number), whether it names a time *)
(* of day, and the copies to keep, 0 when it names none.  Which time and   *)
(* which weekday are left out.                                             *)
(***************************************************************************)
\* Mutant: the number of hours is not read.
ParseKindOnly(text) ==
    [kind |-> IF text.kind \in {"weekly", "hours"} THEN text.kind ELSE "daily",
     hours |-> 6, keep |-> IF text.keep > 0 THEN text.keep ELSE 7]

ParseFrequency(text) ==
    LET kind == CASE text.kind = "weekly"            -> "weekly"
                  [] text.kind \in {"hourly", "hours"} -> "hours"
                  [] OTHER                           -> "daily"
    IN [kind  |-> kind,
        hours |-> CASE text.kind = "hourly" -> 1
                    [] text.kind = "hours"  -> text.hours
                    [] OTHER                -> 6,
        keep  |-> IF text.keep > 0 THEN text.keep ELSE 7]

FrequencyText(f) ==
    [kind |-> f.kind, hours |-> IF f.kind = "hours" THEN f.hours ELSE 0,
     timed |-> f.kind # "hours", keep |-> f.keep]

Fresh == [kind |-> "daily", hours |-> 6, keep |-> 7]

(***************************************************************************)
(* State.  duplicate and editing are the page's; target is the kind of the *)
(* thing targetId names.  "asked" is what the user clicked last and        *)
(* "touched" whether he has changed the schedule since; "crossed" whether  *)
(* he changed the type while a list of targets was being loaded.           *)
(***************************************************************************)
\* The page with its form closed: editing and duplicate stay.
Blank(editing, duplicate, destinations) ==
    [open |-> FALSE, editing |-> editing, duplicate |-> duplicate,
     type |-> "all-sites", target |-> "none", schedule |-> Fresh,
     destinations |-> destinations, saving |-> FALSE,
     asked |-> "none", job |-> NoJob, touched |-> FALSE, crossed |-> FALSE]

Closed == Blank(form.editing, form.duplicate, form.destinations)

FormInit ==
    /\ form = Blank(NoJob, NoJob, FALSE)
    /\ formCalls = {[kind |-> "schedules"]}

FormRoom    == Cardinality(formCalls) < MaxFormCalls
Targets     == {c \in formCalls : c.kind = "targets"}
InitialJob  == IF form.duplicate # NoJob THEN form.duplicate ELSE form.editing
TargetsOf(type) == IF type \in WithTarget THEN {[kind |-> "targets", type |-> type]} ELSE {}

\* The form's fields as the job it is opened with has them.
Filled(f, job) ==
    IF job = NoJob
    THEN [f EXCEPT !.type = "all-sites", !.target = "none", !.schedule = Fresh]
    ELSE [f EXCEPT !.type = job.type, !.schedule = ParseFrequency(job.schedule),
                   !.target = IF job.type \in WithTarget THEN job.type ELSE "none"]

(***************************************************************************)
(* Opening and closing.  Answers for a form that has gone are lost.        *)
(***************************************************************************)
OpenWith(op, job, editing, duplicate) ==
    /\ ~form.open /\ FormRoom
    /\ LET f == [Blank(editing, duplicate, form.destinations)
                     EXCEPT !.open = TRUE, !.asked = op, !.job = job]
           g == Filled(f, IF duplicate # NoJob THEN duplicate ELSE editing)
       IN /\ form' = g
          /\ formCalls' = formCalls \union TargetsOf(g.type)

\* Mutant: an earlier edit is not forgotten.
DuplicateEditing(job)  == OpenWith("duplicate", job, form.editing, job)

CreateSchedule         == OpenWith("create", NoJob, NoJob, NoJob)
DuplicateSchedule(job) == OpenWith("duplicate", job, NoJob, job)
EditSchedule(job)      == OpenWith("edit", job, job, NoJob)

Submissions == {c \in formCalls : c.kind \in {"put", "post"}}

\* What is outstanding when the form goes: a submission can still close the
\* next form, but no longer ends that one's saving.
LeftBehind == (formCalls \ (Targets \union Submissions))
              \union {[c EXCEPT !.late = TRUE] : c \in Submissions}

\* The cross stays enabled while the form is being saved.
CloseForm ==
    /\ form.open
    /\ form' = Closed
    /\ formCalls' = LeftBehind

(***************************************************************************)
(* Filling in                                                              *)
(***************************************************************************)
ChooseJobType(type) ==
    /\ form.open /\ ~form.saving /\ type # form.type /\ FormRoom
    /\ form' = [form EXCEPT !.type = type, !.target = "none",
                            !.crossed = @ \/ Targets # {}]
    /\ formCalls' = formCalls \union TargetsOf(type)

\* The first of the list is taken when no target is chosen yet.
TargetsListed(c, some) ==
    /\ c.kind = "targets"
    /\ form' = IF some /\ form.target = "none" THEN [form EXCEPT !.target = c.type] ELSE form
    /\ formCalls' = formCalls \ {c}

ChooseSchedule(schedule) ==
    /\ form.open /\ ~form.saving
    /\ form' = [form EXCEPT !.schedule = schedule, !.touched = TRUE]
    /\ UNCHANGED formCalls

\* loadSchedules: the destinations are a new list, and a form opened with a
\* job starts again from that job.  A call that cannot be made changes nothing.
ListLost(c) ==
    /\ c.kind = "schedules"
    /\ formCalls' = formCalls \ {c}
    /\ UNCHANGED form

ListLoaded(c, some) ==
    /\ c.kind = "schedules"
    /\ LET f == [form EXCEPT !.destinations = some]
           again == form.open /\ InitialJob # NoJob
           g == IF again THEN Filled(f, InitialJob) ELSE f
       IN /\ form' = [g EXCEPT !.touched = @ /\ ~again]
          /\ formCalls' = (formCalls \ {c}) \union
                          IF again /\ g.type # form.type THEN TargetsOf(g.type) ELSE {}

(***************************************************************************)
(* Submitting.  Without a destination the button is disabled.              *)
(***************************************************************************)
SubmitForm ==
    /\ form.open /\ ~form.saving /\ form.destinations /\ FormRoom
    /\ form' = [form EXCEPT !.saving = TRUE]
    /\ formCalls' = formCalls \union
           {[kind |-> IF form.editing # NoJob THEN "put" ELSE "post",
             job |-> IF form.editing # NoJob THEN InitialJob ELSE NoJob,
             type |-> form.type,
             target |-> IF form.type \in WithTarget THEN form.target ELSE "none",
             schedule |-> FrequencyText(form.schedule), late |-> FALSE,
             asked |-> form.asked, askedOf |-> form.job,
             touched |-> form.touched, crossed |-> form.crossed]}

\* A saved job closes whichever form is open by then and loads the list.
Submitted(c, ok) ==
    /\ c.kind \in {"put", "post"}
    /\ IF ok
       THEN /\ form' = Closed
            /\ formCalls' = (LeftBehind \ {c, [c EXCEPT !.late = TRUE]})
                            \union {[kind |-> "schedules"]}
       ELSE /\ form' = [form EXCEPT !.saving = @ /\ c.late]
            /\ formCalls' = formCalls \ {c}

-----------------------------------------------------------------------------
Schedules == [kind : {"daily", "weekly"}, hours : {6}, keep : FormCopies]
             \union [kind : {"hours"}, hours : FormHours, keep : FormCopies]

FormAnswer(c) ==
    \/ ListLost(c)
    \/ \E ok \in BOOLEAN : TargetsListed(c, ok) \/ ListLoaded(c, ok) \/ Submitted(c, ok)

FormClick == \/ \E job \in Jobs : DuplicateSchedule(job) \/ EditSchedule(job)
             \/ \E type \in Types : ChooseJobType(type)
             \/ \E schedule \in Schedules : ChooseSchedule(schedule)
             \/ CreateSchedule \/ CloseForm \/ SubmitForm

FormNext == FormClick \/ \E c \in formCalls : FormAnswer(c)

FormSpec == FormInit /\ [][FormNext]_formVars

(***************************************************************************)
(* Properties                                                              *)
(***************************************************************************)
\* A job is changed only when the user asked to edit that very job: what is
\* left of an earlier edit never turns a new schedule or a copy into a change.
ChangesOnlyWhatIsEdited ==
    \A c \in Submissions : c.kind = "put" <=> c.asked = "edit" /\ c.job = c.askedOf

Written(s) == s.kind \in {"hours", "daily", "weekly"} /\ s = FrequencyText(s)

\* A job the form wrote is edited without harm: saved with its schedule
\* untouched it keeps it, as long as it keeps a number of copies.
OwnSchedulesSurviveEditing ==
    \A c \in Submissions : c.kind = "put" /\ ~c.touched =>
        (Written(c.job.schedule) /\ c.job.schedule.keep # 0 => c.schedule = c.job.schedule)

=============================================================================
