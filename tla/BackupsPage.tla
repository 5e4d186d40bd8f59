---------------------------- MODULE BackupsPage ----------------------------
(***************************************************************************)
(* The backups page (backups/page.tsx): its three tabs, the loaders behind *)
(* them, the instant backup and the confirmed deletions.  Loading the      *)
(* backups is a chain of calls: the records, then who the user is, then    *)
(* what he may back up; several chains may be under way.  The restore tab  *)
(* and the schedule form have modules of their own.                        *)
(***************************************************************************)
EXTENDS Naturals, FiniteSets

CONSTANTS MaxBackupCalls  \* bound: calls outstanding at once

ASSUME BackupsPageAssumption == MaxBackupCalls \in Nat \ {0}

VARIABLES user,        \* whether the user is an administrator
          backups,     \* the page
          backupCalls  \* the calls not answered; equal calls are one

backupVars == <<user, backups, backupCalls>>

Kinds == {"site", "database"}

(***************************************************************************)
(* State.  target is the kind of the thing exportTargetId names; targets   *)
(* are the kinds of which the page has anything to offer.                  *)
(***************************************************************************)
BackupsInit ==
    /\ user \in BOOLEAN
    /\ backups = [tab |-> "backups", loaded |-> {}, loading |-> TRUE, admin |-> FALSE,
                  type |-> "site", target |-> "none", targets |-> {},
                  exporting |-> FALSE, confirm |-> "none", deleting |-> FALSE]
    /\ backupCalls = {[kind |-> "backups"]}

BackupRoom == Cardinality(backupCalls) < MaxBackupCalls
FirstLoad(tab) == tab \notin backups.loaded

\* loadBackups and loadSchedules: only the first load of a tab shows the
\* loading screen.
Load(page, tab) == IF FirstLoad(tab) THEN [page EXCEPT !.loading = TRUE] ELSE page
Loaded(tab, page) == [page EXCEPT !.loading = FALSE, !.loaded = @ \union {tab}]

(***************************************************************************)
(* Loading                                                                 *)
(***************************************************************************)
\* A site backup's Restore button is one more way to the restore tab.
ChooseTab(tab) ==
    /\ tab # backups.tab /\ backups.confirm = "none" /\ BackupRoom
    /\ LET b == [backups EXCEPT !.tab = tab]
       IN IF tab = "restore"
          THEN backups' = [b EXCEPT !.loading = FALSE] /\ UNCHANGED backupCalls
          ELSE /\ backups' = Load(b, tab)
               /\ backupCalls' = backupCalls \union {[kind |-> tab]}
    /\ UNCHANGED user

Refresh ==
    /\ backups.tab = "backups" /\ backups.confirm = "none" /\ BackupRoom
    /\ backups' = Load(backups, "backups")
    /\ backupCalls' = backupCalls \union {[kind |-> "backups"]}
    /\ UNCHANGED user

SchedulesLoaded(c) ==
    /\ c.kind = "schedules"
    /\ backups' = Loaded("schedules", backups)
    /\ backupCalls' = backupCalls \ {c}
    /\ UNCHANGED user

\* A call that cannot be made at all ends the chain; a refused one does not.
BackupsLoaded(c, reached) ==
    /\ c.kind = "backups"
    /\ IF reached
       THEN /\ backupCalls' = (backupCalls \ {c}) \union {[kind |-> "me"]}
            /\ UNCHANGED backups
       ELSE /\ backupCalls' = backupCalls \ {c}
            /\ backups' = Loaded("backups", backups)
    /\ UNCHANGED user

\* Until the agent says otherwise this chain takes the user for no administrator.
UserKnown(c, ok) ==
    /\ c.kind = "me"
    /\ backups' = IF ok THEN [backups EXCEPT !.admin = user] ELSE backups
    /\ backupCalls' = (backupCalls \ {c}) \union {[kind |-> "targets", admin |-> ok /\ user]}
    /\ UNCHANGED user

FirstOf(kind, found) == IF kind \in found THEN kind ELSE "none"

\* The export form's type and target are the ones shown now, not those of
\* when the chain began: the loader reads them from refs.
TargetsLoaded(c, found) ==
    /\ c.kind = "targets"
    /\ LET b == Loaded("backups", [backups EXCEPT !.targets = found])
       IN backups' =
            IF ~c.admin /\ b.type = "site"
            THEN [b EXCEPT !.type = "database", !.target = FirstOf("database", found)]
            ELSE IF b.target = "none" THEN [b EXCEPT !.target = FirstOf(b.type, found)]
            ELSE b
    /\ backupCalls' = backupCalls \ {c}
    /\ UNCHANGED user

LoadCutOff(c) ==
    /\ c.kind \in {"me", "targets"}
    /\ backups' = Loaded("backups", backups)
    /\ backupCalls' = backupCalls \ {c}
    /\ UNCHANGED user

(***************************************************************************)
(* The instant backup                                                      *)
(***************************************************************************)
TabShown(tab) == backups.tab = tab /\ ~backups.loading /\ backups.confirm = "none"

\* Mutant: the target stays when the type changes.
KeepTarget(type) ==
    /\ TabShown("backups") /\ (type = "site" => backups.admin)
    /\ backups' = [backups EXCEPT !.type = type]
    /\ UNCHANGED <<user, backupCalls>>

ChooseType(type) ==
    /\ TabShown("backups") /\ (type = "site" => backups.admin)
    /\ backups' = [backups EXCEPT !.type = type, !.target = "none"]
    /\ UNCHANGED <<user, backupCalls>>

ChooseTarget ==
    /\ TabShown("backups") /\ backups.type \in backups.targets
    /\ backups' = [backups EXCEPT !.target = backups.type]
    /\ UNCHANGED <<user, backupCalls>>

RunBackup ==
    /\ TabShown("backups") /\ ~backups.exporting /\ backups.target # "none" /\ BackupRoom
    /\ backups' = [backups EXCEPT !.exporting = TRUE]
    /\ backupCalls' = backupCalls \union
           {[kind |-> "export", type |-> backups.type, target |-> backups.target]}
    /\ UNCHANGED user

\* A backup that ran is followed by a load, a failed one is not.
BackupRan(c, ok) ==
    /\ c.kind = "export"
    /\ LET b == [backups EXCEPT !.exporting = FALSE]
       IN backups' = IF ok THEN Load(b, "backups") ELSE b
    /\ backupCalls' = (backupCalls \ {c}) \union IF ok THEN {[kind |-> "backups"]} ELSE {}
    /\ UNCHANGED user

(***************************************************************************)
(* Rows: deleting a record or a schedule, switching and running a schedule *)
(***************************************************************************)
AskToDelete(tab) ==
    /\ TabShown(tab) /\ tab # "restore"
    /\ backups' = [backups EXCEPT !.confirm = tab]
    /\ UNCHANGED <<user, backupCalls>>

CancelDelete ==
    /\ backups.confirm # "none" /\ ~backups.deleting
    /\ backups' = [backups EXCEPT !.confirm = "none"]
    /\ UNCHANGED <<user, backupCalls>>

Delete ==
    /\ backups.confirm # "none" /\ ~backups.deleting /\ BackupRoom
    /\ backups' = [backups EXCEPT !.deleting = TRUE]
    /\ backupCalls' = backupCalls \union {[kind |-> "delete", tab |-> backups.confirm]}
    /\ UNCHANGED user

Deleted(c, ok) ==
    /\ c.kind = "delete"
    /\ LET b == [backups EXCEPT !.deleting = FALSE]
       IN backups' = IF ok THEN Load([b EXCEPT !.confirm = "none"], c.tab) ELSE b
    /\ backupCalls' = (backupCalls \ {c}) \union IF ok THEN {[kind |-> c.tab]} ELSE {}
    /\ UNCHANGED user

SwitchOrRun(kind) ==
    /\ TabShown("schedules") /\ BackupRoom
    /\ backupCalls' = backupCalls \union {[kind |-> kind]}
    /\ UNCHANGED <<user, backups>>

SwitchedOrRun(c, ok) ==
    /\ c.kind \in {"switch", "run"}
    /\ LET again == ok /\ c.kind = "switch"
       IN /\ backups' = IF again THEN Load(backups, "schedules") ELSE backups
          /\ backupCalls' = (backupCalls \ {c}) \union
                            IF again THEN {[kind |-> "schedules"]} ELSE {}
    /\ UNCHANGED user

-----------------------------------------------------------------------------
BackupAnswer(c) ==
    \/ SchedulesLoaded(c) \/ LoadCutOff(c)
    \/ \E found \in SUBSET Kinds : TargetsLoaded(c, found)
    \/ \E ok \in BOOLEAN : \/ BackupsLoaded(c, ok) \/ UserKnown(c, ok) \/ BackupRan(c, ok)
                           \/ Deleted(c, ok) \/ SwitchedOrRun(c, ok)

BackupClick ==
    \/ \E tab \in {"backups", "schedules", "restore"} : ChooseTab(tab) \/ AskToDelete(tab)
    \/ \E type \in Kinds : ChooseType(type)
    \/ \E kind \in {"switch", "run"} : SwitchOrRun(kind)
    \/ Refresh \/ ChooseTarget \/ RunBackup \/ CancelDelete \/ Delete

BackupsNext == BackupClick \/ \E c \in backupCalls : BackupAnswer(c)

BackupsSpec == BackupsInit /\ [][BackupsNext]_backupVars

(***************************************************************************)
(* Properties                                                              *)
(***************************************************************************)
\* An instant backup is asked for a target of the chosen kind, and by an
\* administrator when it is a site's, whichever of several loads that change
\* the form answers when.
ExportsWithinRights ==
    \A c \in backupCalls : c.kind = "export" =>
        c.target = c.type /\ (c.type = "site" => user)

=============================================================================
