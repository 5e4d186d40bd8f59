----------------------------- MODULE RestoreTab -----------------------------
(***************************************************************************)
(* The restore tab of the backups page (RestoreSiteBackups.tsx).  Picking  *)
(* a backup opens a dialog and asks the agent to inspect the file; what    *)
(* the dialog says and whether it lets the user restore comes from the     *)
(* inspection answered last, what it restores from the file picked.        *)
(***************************************************************************)
EXTENDS Naturals, FiniteSets

CONSTANTS BackupFiles,  \* the site backups on the server
          Usable,       \* those that are verified and belong to a site
          MaxInspections,  \* bound: inspections outstanding at once
          NoFile

ASSUME RestoreTabAssumption ==
    Usable \subseteq BackupFiles /\ NoFile \notin BackupFiles /\ MaxInspections \in Nat

VARIABLES restore,      \* the tab
          restoreCalls  \* the calls not answered

restoreVars == <<restore, restoreCalls>>

\* "hasty" is history: the file was picked while another was being inspected.
RestoreInit ==
    /\ \E focus \in BackupFiles \union {NoFile} :
         restore = [focus |-> focus, files |-> {}, loading |-> TRUE, picked |-> NoFile,
                    inspection |-> NoFile, working |-> FALSE, done |-> NoFile, hasty |-> FALSE]
    /\ restoreCalls = {[kind |-> "list", file |-> NoFile]}

Inspections == {c \in restoreCalls : c.kind = "inspect"}

\* Mutant: the last inspection stays in the dialog.
ChooseInspected(r, f) == [r EXCEPT !.picked = f, !.done = NoFile,
                                   !.hasty = \E c \in Inspections : c.file # f]

\* choose: the dialog opens without an inspection and asks for one.
Choose(r, f) == [r EXCEPT !.picked = f, !.inspection = NoFile, !.done = NoFile,
                          !.hasty = \E c \in Inspections : c.file # f]

Inspect(f) == [kind |-> "inspect", file |-> f]

\* The files are listed once; the backup the user came for is picked at once.
FilesListed(c, found) ==
    /\ c.kind = "list"
    /\ LET r    == [restore EXCEPT !.files = found, !.loading = FALSE]
           here == restore.focus \in found
       IN /\ restore' = IF here THEN Choose(r, restore.focus) ELSE r
          /\ restoreCalls' = (restoreCalls \ {c}) \union
                             IF here THEN {Inspect(restore.focus)} ELSE {}

RowsShown == ~restore.loading /\ restore.picked = NoFile

PickFile(f) ==
    /\ RowsShown /\ f \in restore.files
    /\ Cardinality(Inspections \union {Inspect(f)}) <= MaxInspections
    /\ restore' = Choose(restore, f)
    /\ restoreCalls' = restoreCalls \union {Inspect(f)}

\* Any inspection is taken for the picked file's.
Inspected(c, ok) ==
    /\ c.kind = "inspect"
    /\ restore' = IF ok THEN [restore EXCEPT !.inspection = c.file] ELSE restore
    /\ restoreCalls' = restoreCalls \ {c}

DialogShown == restore.picked # NoFile
CanRestore  == restore.inspection \in Usable /\ ~restore.working

CancelRestore ==
    /\ DialogShown /\ ~restore.working
    /\ restore' = [restore EXCEPT !.picked = NoFile]
    /\ UNCHANGED restoreCalls

RestoreNow ==
    /\ DialogShown /\ CanRestore
    /\ restore' = [restore EXCEPT !.working = TRUE]
    /\ restoreCalls' = restoreCalls \union
           {[kind |-> "restore", file |-> restore.picked, told |-> restore.inspection]}

RestoreAnswered(c, ok) ==
    /\ c.kind = "restore"
    /\ LET r == [restore EXCEPT !.working = FALSE]
       IN restore' = IF ok THEN [r EXCEPT !.done = c.file, !.picked = NoFile] ELSE r
    /\ restoreCalls' = restoreCalls \ {c}

-----------------------------------------------------------------------------
RestoreAnswer(c) ==
    \/ \E found \in SUBSET BackupFiles : FilesListed(c, found)
    \/ \E ok \in BOOLEAN : Inspected(c, ok) \/ RestoreAnswered(c, ok)

RestoreClick == (\E f \in BackupFiles : PickFile(f)) \/ CancelRestore \/ RestoreNow

RestoreTabNext == RestoreClick \/ \E c \in restoreCalls : RestoreAnswer(c)

RestoreTabSpec == RestoreInit /\ [][RestoreTabNext]_restoreVars

(***************************************************************************)
(* Properties                                                              *)
(***************************************************************************)
\* The file that is restored is the one whose contents and site the dialog
\* told the user of, unless he picked it while another file was still being
\* inspected: choose has no guard against the late answer.
RestoresWhatItTold ==
    \A c \in restoreCalls : c.kind = "restore" /\ ~restore.hasty => c.file = c.told

=============================================================================
