-------------------------- MODULE BackupPagesProofs --------------------------
(***************************************************************************)
(* Proofs about the three pages around backups: the backups page, the      *)
(* restore tab and the schedule form, for any number of files, jobs and    *)
(* calls under way.  The pages share no state; each part stands alone.     *)
(***************************************************************************)
EXTENDS BackupsPage, RestoreTab, ScheduleForm, TLAPS

-----------------------------------------------------------------------------
(***************************************************************************)
(* The backups page                                                        *)
(* An instant backup stays within the user's rights, for any number of     *)
(* loads under way.  Two facts about the page carry it: it takes the user  *)
(* for an administrator only if he is one, and for anybody else it offers  *)
(* no site: either nothing has been offered yet, or the form was turned to *)
(* databases by the answer that brought the offers.                        *)
(***************************************************************************)

Forms == [tab : {"backups", "schedules", "restore"}, loaded : SUBSET {"backups", "schedules"},
          loading : BOOLEAN, admin : BOOLEAN, type : Kinds, target : Kinds \union {"none"},
          targets : SUBSET Kinds, exporting : BOOLEAN,
          confirm : {"none", "backups", "schedules"}, deleting : BOOLEAN]

AdminIsKnown == backups.admin => user

TargetIsOfType == backups.target \in {"none", backups.type}

NoSiteForOthers == ~user /\ backups.type = "site" => backups.target = "none" /\ backups.targets = {}

CallOK(c) ==
    /\ c.kind = "targets" => (c.admin => user)
    /\ c.kind = "export" => c.target = c.type /\ (c.type = "site" => user)
    /\ c.kind = "delete" => c.tab \in {"backups", "schedules"}

PageInv ==
    /\ user \in BOOLEAN /\ backups \in Forms
    /\ AdminIsKnown /\ TargetIsOfType /\ NoSiteForOthers
    /\ \A c \in backupCalls : CallOK(c)

\* The form's part of the page.
SameForm(b) == /\ b.admin = backups.admin /\ b.type = backups.type
               /\ b.target = backups.target /\ b.targets = backups.targets

\* A call that carries only its kind is sound.
LEMMA PlainCall ==
  ASSUME NEW kind, kind \notin {"targets", "export", "delete"}
  PROVE  CallOK([kind |-> kind])
  BY DEF CallOK

\* Steps that leave the form alone.
LEMMA FormAlone ==
  ASSUME PageInv, UNCHANGED user, backups' \in Forms, SameForm(backups'),
         \A c \in backupCalls' : c \in backupCalls \/ CallOK(c)
  PROVE  PageInv'
  BY DEF PageInv, SameForm, AdminIsKnown, TargetIsOfType, NoSiteForOthers, CallOK

\* Loading screens, on and off.
LEMMA LoadKeepsForm ==
  ASSUME NEW b \in Forms, NEW tab \in {"backups", "schedules"}
  PROVE  /\ Load(b, tab) \in Forms /\ Loaded(tab, b) \in Forms
         /\ SameForm(b) => SameForm(Load(b, tab)) /\ SameForm(Loaded(tab, b))
         /\ Loaded(tab, b).type = b.type /\ Loaded(tab, b).target = b.target
         /\ Loaded(tab, b).targets = b.targets /\ Loaded(tab, b).admin = b.admin
<1>1. Load(b, tab) \in {b, [b EXCEPT !.loading = TRUE]}
  BY DEF Load
<1>2. [b EXCEPT !.loading = TRUE] \in Forms /\ (SameForm(b) => SameForm([b EXCEPT !.loading = TRUE]))
  BY DEF Forms, SameForm
<1>3. Loaded(tab, b) \in Forms
  BY DEF Loaded, Forms
<1>4. /\ Loaded(tab, b).type = b.type /\ Loaded(tab, b).target = b.target
      /\ Loaded(tab, b).targets = b.targets /\ Loaded(tab, b).admin = b.admin
  BY DEF Loaded, Forms
<1> QED
  BY <1>1, <1>2, <1>3, <1>4 DEF SameForm

LEMMA PageInitially == BackupsInit => PageInv
<1> SUFFICES ASSUME BackupsInit PROVE PageInv
  OBVIOUS
<1>1. backups \in Forms /\ ~backups.admin /\ backups.target = "none" /\ backups.targets = {}
  BY DEF BackupsInit, Forms, Kinds
<1>2. \A c \in backupCalls : CallOK(c)
  BY PlainCall DEF BackupsInit
<1> QED
  BY <1>1, <1>2 DEF BackupsInit, PageInv, AdminIsKnown, TargetIsOfType, NoSiteForOthers

-----------------------------------------------------------------------------
\* Loading

LEMMA ChooseTabKeeps ==
  ASSUME PageInv, NEW tab \in {"backups", "schedules", "restore"}, ChooseTab(tab) PROVE PageInv'
<1> DEFINE b == [backups EXCEPT !.tab = tab]
<1>1. b \in Forms /\ SameForm(b) /\ [b EXCEPT !.loading = FALSE] \in Forms
      /\ SameForm([b EXCEPT !.loading = FALSE])
  BY DEF PageInv, Forms, SameForm
<1>2. CallOK([kind |-> tab])
  BY PlainCall
<1>3. CASE tab = "restore"
  BY <1>1, <1>3, FormAlone DEF ChooseTab
<1>4. CASE tab # "restore"
  <2>1. backups' = Load(b, tab) /\ backupCalls' = backupCalls \union {[kind |-> tab]} /\ UNCHANGED user
    BY <1>4 DEF ChooseTab
  <2> HIDE DEF b
  <2>2. backups' \in Forms /\ SameForm(backups')
    BY <1>1, <1>4, <2>1, LoadKeepsForm
  <2> QED
    BY <1>2, <2>1, <2>2, FormAlone
<1> QED
  BY <1>3, <1>4

LEMMA RefreshKeeps == ASSUME PageInv, Refresh PROVE PageInv'
<1>1. backups \in Forms /\ SameForm(backups)
  BY DEF PageInv, SameForm
<1>2. backups' \in Forms /\ SameForm(backups')
  BY <1>1, LoadKeepsForm DEF Refresh
<1> QED
  BY <1>2, PlainCall, FormAlone DEF Refresh

LEMMA FinishedKeeps ==
  ASSUME PageInv, NEW c \in backupCalls,
         \/ SchedulesLoaded(c) \/ LoadCutOff(c) \/ \E reached \in BOOLEAN : BackupsLoaded(c, reached)
  PROVE  PageInv'
<1>1. backups \in Forms /\ SameForm(backups)
  BY DEF PageInv, SameForm
<1>2. backups' \in Forms /\ SameForm(backups')
  BY <1>1, LoadKeepsForm DEF SchedulesLoaded, LoadCutOff, BackupsLoaded
<1> QED
  BY <1>2, PlainCall, FormAlone DEF SchedulesLoaded, LoadCutOff, BackupsLoaded

\* Who the user is, is known from the agent only.
LEMMA UserKnownKeeps ==
  ASSUME PageInv, NEW c \in backupCalls, NEW ok \in BOOLEAN, UserKnown(c, ok) PROVE PageInv'
<1> DEFINE d == [kind |-> "targets", admin |-> ok /\ user]
<1>1. CallOK(d)
  BY DEF CallOK
<1>2. backupCalls' = (backupCalls \ {c}) \union {d} /\ UNCHANGED user
  BY DEF UserKnown
<1> HIDE DEF d
<1>3. \A e \in backupCalls' : CallOK(e)'
  BY <1>1, <1>2 DEF PageInv, CallOK
<1>4. CASE ok
  <2>1. backups' = [backups EXCEPT !.admin = user] /\ user \in BOOLEAN /\ backups \in Forms
    BY <1>4 DEF UserKnown, PageInv
  <2>2. backups' \in Forms /\ backups'.admin = user /\ backups'.type = backups.type
        /\ backups'.target = backups.target /\ backups'.targets = backups.targets
    BY <2>1 DEF Forms
  <2> QED
    BY <1>2, <1>3, <2>2 DEF PageInv, AdminIsKnown, TargetIsOfType, NoSiteForOthers
<1>5. CASE ~ok
  <2>1. backups' = backups
    BY <1>5 DEF UserKnown
  <2> QED
    BY <1>2, <1>3, <2>1 DEF PageInv, AdminIsKnown, TargetIsOfType, NoSiteForOthers
<1> QED
  BY <1>4, <1>5

\* The offers arrive with what to do about the form.
LEMMA TargetsKeep ==
  ASSUME PageInv, NEW c \in backupCalls, NEW found \in SUBSET Kinds, TargetsLoaded(c, found)
  PROVE  PageInv'
<1> DEFINE f == [backups EXCEPT !.targets = found]
           b == Loaded("backups", f)
           turned == [b EXCEPT !.type = "database", !.target = FirstOf("database", found)]
           first == [b EXCEPT !.target = FirstOf(b.type, found)]
<1>1. f \in Forms /\ f.targets = found /\ f.type = backups.type /\ f.target = backups.target
      /\ f.admin = backups.admin
  BY DEF PageInv, Forms
<1> HIDE DEF f
<1>2. b \in Forms /\ b.targets = found /\ b.type = backups.type /\ b.target = backups.target
      /\ b.admin = backups.admin
  BY <1>1, LoadKeepsForm
<1> HIDE DEF b
<1>3. /\ turned \in Forms /\ turned.type = "database" /\ turned.target \in {"none", "database"}
      /\ turned.admin = b.admin
  BY <1>2 DEF Forms, Kinds, FirstOf
<1>4. /\ first \in Forms /\ first.type = b.type /\ first.target \in {"none", b.type}
      /\ first.admin = b.admin
  BY <1>2 DEF Forms, FirstOf
<1>5. /\ backups' = IF ~c.admin /\ b.type = "site" THEN turned
                    ELSE IF b.target = "none" THEN first ELSE b
      /\ backupCalls' = backupCalls \ {c} /\ UNCHANGED user /\ c.kind = "targets"
  BY DEF TargetsLoaded, b, f
<1> HIDE DEF turned, first
<1>6. \A e \in backupCalls' : CallOK(e)'
  BY <1>5 DEF PageInv, CallOK
<1>7. c.admin => user
  BY <1>5 DEF PageInv, CallOK
<1>8. CASE ~c.admin /\ b.type = "site"
  BY <1>2, <1>3, <1>5, <1>6, <1>8 DEF PageInv, AdminIsKnown, TargetIsOfType, NoSiteForOthers
<1>9. CASE ~(~c.admin /\ b.type = "site")
  <2>1. b.type = "site" => user
    BY <1>7, <1>9
  <2>2. backups' \in {first, b}
    BY <1>5, <1>9
  <2> QED
    BY <1>2, <1>4, <1>5, <1>6, <2>1, <2>2 DEF PageInv, AdminIsKnown, TargetIsOfType, NoSiteForOthers
<1> QED
  BY <1>8, <1>9

-----------------------------------------------------------------------------
\* The instant backup

LEMMA ChooseTypeKeeps == ASSUME PageInv, NEW type \in Kinds, ChooseType(type) PROVE PageInv'
<1>1. backups' = [backups EXCEPT !.type = type, !.target = "none"] /\ backups \in Forms
      /\ UNCHANGED <<user, backupCalls>>
  BY DEF ChooseType, PageInv
<1>2. backups' \in Forms /\ backups'.type = type /\ backups'.target = "none"
      /\ backups'.admin = backups.admin
  BY <1>1 DEF Forms
<1>3. type = "site" => user
  BY DEF ChooseType, PageInv, AdminIsKnown
<1> QED
  BY <1>1, <1>2, <1>3 DEF PageInv, AdminIsKnown, TargetIsOfType, NoSiteForOthers, CallOK

LEMMA ChooseTargetKeeps == ASSUME PageInv, ChooseTarget PROVE PageInv'
<1>1. backups' = [backups EXCEPT !.target = backups.type] /\ backups \in Forms
      /\ UNCHANGED <<user, backupCalls>> /\ backups.type \in backups.targets
  BY DEF ChooseTarget, PageInv
<1>2. backups' \in Forms /\ backups'.type = backups.type /\ backups'.target = backups.type
      /\ backups'.admin = backups.admin
  BY <1>1 DEF Forms
<1>3. backups.type = "site" => user
  BY <1>1 DEF PageInv, NoSiteForOthers
<1> QED
  BY <1>1, <1>2, <1>3 DEF PageInv, AdminIsKnown, TargetIsOfType, NoSiteForOthers, CallOK

LEMMA RunKeeps == ASSUME PageInv, RunBackup PROVE PageInv'
<1> DEFINE d == [kind |-> "export", type |-> backups.type, target |-> backups.target]
<1>1. backups.target = backups.type /\ (backups.type = "site" => user)
  BY DEF RunBackup, PageInv, TargetIsOfType, NoSiteForOthers
<1>2. CallOK(d)
  BY <1>1 DEF CallOK
<1>3. backups' = [backups EXCEPT !.exporting = TRUE] /\ backups \in Forms /\ UNCHANGED user
      /\ backupCalls' = backupCalls \union {d}
  BY DEF RunBackup, PageInv
<1> HIDE DEF d
<1>4. backups' \in Forms /\ SameForm(backups')
  BY <1>3 DEF Forms, SameForm
<1> QED
  BY <1>2, <1>3, <1>4, FormAlone

LEMMA RanKeeps ==
  ASSUME PageInv, NEW c \in backupCalls, NEW ok \in BOOLEAN, BackupRan(c, ok) PROVE PageInv'
<1> DEFINE b == [backups EXCEPT !.exporting = FALSE]
<1>1. b \in Forms /\ SameForm(b)
  BY DEF PageInv, Forms, SameForm
<1>2. /\ backups' = IF ok THEN Load(b, "backups") ELSE b
      /\ backupCalls' = (backupCalls \ {c}) \union IF ok THEN {[kind |-> "backups"]} ELSE {}
      /\ UNCHANGED user
  BY DEF BackupRan
<1> HIDE DEF b
<1>3. backups' \in Forms /\ SameForm(backups')
  BY <1>1, <1>2, LoadKeepsForm
<1> QED
  BY <1>2, <1>3, PlainCall, FormAlone

-----------------------------------------------------------------------------
\* Rows

LEMMA QuestionKeeps ==
  ASSUME PageInv, (\E tab \in {"backups", "schedules", "restore"} : AskToDelete(tab)) \/ CancelDelete
  PROVE  PageInv'
<1>1. backups' \in Forms /\ SameForm(backups')
  BY DEF PageInv, AskToDelete, CancelDelete, Forms, SameForm
<1> QED
  BY <1>1, FormAlone DEF AskToDelete, CancelDelete

LEMMA DeleteKeeps == ASSUME PageInv, Delete PROVE PageInv'
<1> DEFINE d == [kind |-> "delete", tab |-> backups.confirm]
<1>1. backups \in Forms /\ backups.confirm \in {"backups", "schedules"}
  BY DEF PageInv, Forms, Delete
<1>2. CallOK(d)
  BY <1>1 DEF CallOK
<1>3. backups' = [backups EXCEPT !.deleting = TRUE] /\ backupCalls' = backupCalls \union {d} /\ UNCHANGED user
  BY DEF Delete
<1> HIDE DEF d
<1>4. backups' \in Forms /\ SameForm(backups')
  BY <1>1, <1>3 DEF Forms, SameForm
<1> QED
  BY <1>2, <1>3, <1>4, FormAlone

LEMMA DeletedKeeps ==
  ASSUME PageInv, NEW c \in backupCalls, NEW ok \in BOOLEAN, Deleted(c, ok) PROVE PageInv'
<1> DEFINE b == [backups EXCEPT !.deleting = FALSE]
           shut == [b EXCEPT !.confirm = "none"]
<1>1. b \in Forms /\ SameForm(b) /\ shut \in Forms /\ SameForm(shut)
  BY DEF PageInv, Forms, SameForm
<1>2. c.tab \in {"backups", "schedules"}
  BY DEF PageInv, CallOK, Deleted
<1>3. /\ backups' = IF ok THEN Load(shut, c.tab) ELSE b
      /\ backupCalls' = (backupCalls \ {c}) \union IF ok THEN {[kind |-> c.tab]} ELSE {}
      /\ UNCHANGED user
  BY DEF Deleted
<1> HIDE DEF b, shut
<1>4. backups' \in Forms /\ SameForm(backups')
  BY <1>1, <1>2, <1>3, LoadKeepsForm
<1> QED
  BY <1>2, <1>3, <1>4, PlainCall, FormAlone

LEMMA SwitchKeeps ==
  ASSUME PageInv, NEW kind \in {"switch", "run"}, SwitchOrRun(kind) PROVE PageInv'
<1>1. backups' \in Forms /\ SameForm(backups')
  BY DEF PageInv, SwitchOrRun, SameForm
<1> QED
  BY <1>1, PlainCall, FormAlone DEF SwitchOrRun

LEMMA SwitchedKeeps ==
  ASSUME PageInv, NEW c \in backupCalls, NEW ok \in BOOLEAN, SwitchedOrRun(c, ok) PROVE PageInv'
<1>1. backups \in Forms /\ SameForm(backups)
  BY DEF PageInv, SameForm
<1>2. backups' \in Forms /\ SameForm(backups')
  BY <1>1, LoadKeepsForm DEF SwitchedOrRun
<1> QED
  BY <1>2, PlainCall, FormAlone DEF SwitchedOrRun

-----------------------------------------------------------------------------
LEMMA PageStep == PageInv /\ [BackupsNext]_backupVars => PageInv'
<1> SUFFICES ASSUME PageInv, [BackupsNext]_backupVars PROVE PageInv'
  OBVIOUS
<1>1. CASE BackupClick
  BY <1>1, ChooseTabKeeps, QuestionKeeps, ChooseTypeKeeps, SwitchKeeps, RefreshKeeps, ChooseTargetKeeps,
     RunKeeps, DeleteKeeps DEF BackupClick
<1>2. CASE \E c \in backupCalls : BackupAnswer(c)
  BY <1>2, FinishedKeeps, TargetsKeep, UserKnownKeeps, RanKeeps, DeletedKeeps, SwitchedKeeps DEF BackupAnswer
<1>3. CASE UNCHANGED backupVars
  BY <1>3 DEF backupVars, PageInv, AdminIsKnown, TargetIsOfType, NoSiteForOthers, CallOK
<1> QED
  BY <1>1, <1>2, <1>3 DEF BackupsNext

\* The page takes nobody for an administrator who is none, and offers sites
\* to nobody else (loadExportData of backups/page.tsx).
THEOREM OffersWithinRights == BackupsSpec => []PageInv
  BY PageInitially, PageStep, PTL DEF BackupsSpec

\* An instant backup is of a target of the chosen kind, and of a site for
\* administrators only, for any number of loads that answer in any order.
THEOREM ExportsStayWithinRights == BackupsSpec => []ExportsWithinRights
<1>1. PageInv => ExportsWithinRights
  BY DEF PageInv, CallOK, ExportsWithinRights
<1> QED
  BY <1>1, OffersWithinRights, PTL

-----------------------------------------------------------------------------
(***************************************************************************)
(* The restore tab                                                         *)
(* The restore tab restores what it told of, for any number of files and   *)
(* inspections.  The invariant follows the one history bit: while it is    *)
(* not set, every inspection on its way is of the picked file, and nobody  *)
(* picks while a restore is on its way.                                    *)
(***************************************************************************)

AnyFile == BackupFiles \union {NoFile}

Tabs == [focus : AnyFile, files : SUBSET BackupFiles, loading : BOOLEAN, picked : AnyFile,
         inspection : AnyFile, working : BOOLEAN, done : AnyFile, hasty : BOOLEAN]

Listing == [kind |-> "list", file |-> NoFile]

RestoreCalls == {Listing} \union {Inspect(f) : f \in BackupFiles}
                \union [kind : {"restore"}, file : BackupFiles, told : BackupFiles]

Restores == {c \in restoreCalls : c.kind = "restore"}

TabTypeOK == restore \in Tabs /\ restoreCalls \subseteq RestoreCalls

\* Nothing is picked before the files are listed.
ListedBeforePicking ==
    Listing \in restoreCalls => restore.loading /\ restore.picked = NoFile /\ Restores = {}

\* One restore at a time, and its dialog stays.
OneRestore ==
    /\ \A c, d \in Restores : c = d
    /\ Restores # {} => restore.working /\ restore.picked # NoFile

\* Unless the user was hasty, inspections are the picked file's.
InspectsThePicked ==
    restore.picked # NoFile /\ ~restore.hasty =>
        /\ restore.inspection \in {NoFile, restore.picked}
        /\ \A c \in Inspections : c.file = restore.picked

TabInv == TabTypeOK /\ ListedBeforePicking /\ OneRestore /\ InspectsThePicked /\ RestoresWhatItTold

\* The three kinds of call, by what they are.
LEMMA CallsByKind ==
  ASSUME TabTypeOK, NEW c \in restoreCalls
  PROVE  /\ c.kind = "list" => c = Listing
         /\ c.kind = "inspect" => c.file \in BackupFiles /\ c = Inspect(c.file)
         /\ c.kind = "restore" => c.file \in BackupFiles /\ c.told \in BackupFiles
  BY DEF TabTypeOK, RestoreCalls, Listing, Inspect

LEMMA TabInitially == RestoreInit => TabInv
<1> SUFFICES ASSUME RestoreInit PROVE TabInv
  OBVIOUS
<1>1. PICK focus \in AnyFile :
        restore = [focus |-> focus, files |-> {}, loading |-> TRUE, picked |-> NoFile,
                   inspection |-> NoFile, working |-> FALSE, done |-> NoFile, hasty |-> FALSE]
  BY DEF RestoreInit, AnyFile
<1>2. restoreCalls = {Listing}
  BY DEF RestoreInit, Listing
<1>3. restore \in Tabs /\ restore.picked = NoFile /\ restore.loading
  BY <1>1 DEF Tabs, AnyFile
<1>4. Restores = {}
  BY <1>2 DEF Restores, Listing
<1> QED
  BY <1>2, <1>3, <1>4
     DEF TabInv, TabTypeOK, RestoreCalls, ListedBeforePicking, OneRestore, InspectsThePicked, RestoresWhatItTold,
         Restores

\* What choose makes of the tab.
LEMMA Chosen ==
  ASSUME NEW r \in Tabs, NEW f \in BackupFiles
  PROVE  /\ Choose(r, f) \in Tabs
         /\ Choose(r, f).picked = f /\ Choose(r, f).inspection = NoFile
         /\ Choose(r, f).working = r.working
         /\ Choose(r, f).hasty = \E c \in Inspections : c.file # f
  BY DEF Choose, Tabs, AnyFile

\* Choosing a file while no restore and no listing is out.
LEMMA ChoosingKeeps ==
  ASSUME TabTypeOK, Restores = {}, NEW r \in Tabs, NEW f \in BackupFiles,
         restore' = Choose(r, f),
         restoreCalls' \subseteq restoreCalls \union {Inspect(f)}, Listing \notin restoreCalls'
  PROVE  TabInv'
<1>1. /\ restore' \in Tabs /\ restore'.picked = f /\ restore'.inspection = NoFile
      /\ restore'.hasty = \E c \in Inspections : c.file # f
  BY Chosen
<1>2. restoreCalls' \subseteq RestoreCalls
  BY DEF TabTypeOK, RestoreCalls
<1>3. Restores' = {}
  BY DEF Restores, Inspect
<1>4. \A c \in restoreCalls' : c.kind # "restore"
  BY <1>3 DEF Restores
<1>5. ~restore'.hasty => \A c \in Inspections' : c.file = f
  <2> SUFFICES ASSUME ~restore'.hasty, NEW c \in Inspections' PROVE c.file = f
    OBVIOUS
  <2>1. c \in restoreCalls' /\ c.kind = "inspect"
    BY DEF Inspections
  <2>2. CASE c = Inspect(f)
    BY <2>2 DEF Inspect
  <2>3. CASE c \in restoreCalls
    BY <1>1, <2>1, <2>3 DEF Inspections
  <2> QED
    BY <2>1, <2>2, <2>3
<1> QED
  BY <1>1, <1>2, <1>3, <1>4, <1>5
     DEF TabInv, TabTypeOK, ListedBeforePicking, OneRestore, InspectsThePicked, RestoresWhatItTold

LEMMA ListedKeeps ==
  ASSUME TabInv, NEW c \in restoreCalls, NEW found \in SUBSET BackupFiles, FilesListed(c, found)
  PROVE  TabInv'
<1> DEFINE r == [restore EXCEPT !.files = found, !.loading = FALSE]
<1>1. c = Listing /\ Restores = {} /\ restore.picked = NoFile /\ restore \in Tabs
  BY CallsByKind DEF FilesListed, TabInv, TabTypeOK, ListedBeforePicking
<1>2. r \in Tabs /\ r.picked = NoFile
  BY <1>1 DEF Tabs
<1>3. CASE restore.focus \in found
  <2>1. restore' = Choose(r, restore.focus)
        /\ restoreCalls' = (restoreCalls \ {c}) \union {Inspect(restore.focus)}
    BY <1>3 DEF FilesListed
  <2>2. Listing \notin restoreCalls' /\ restore.focus \in BackupFiles
    BY <1>1, <1>3, <2>1 DEF Listing, Inspect
  <2> HIDE DEF r
  <2> QED
    BY <1>1, <1>2, <2>1, <2>2, ChoosingKeeps DEF TabInv
<1>4. CASE restore.focus \notin found
  <2>1. restore' = r /\ restoreCalls' = restoreCalls \ {c}
    BY <1>4 DEF FilesListed
  <2> HIDE DEF r
  <2>2. Restores' = {}
    BY <1>1, <2>1 DEF Restores
  <2>3. \A d \in restoreCalls' : d.kind # "restore"
    BY <2>2 DEF Restores
  <2> QED
    BY <1>1, <1>2, <2>1, <2>2, <2>3
       DEF TabInv, TabTypeOK, ListedBeforePicking, OneRestore, InspectsThePicked, RestoresWhatItTold
<1> QED
  BY <1>3, <1>4

LEMMA PickKeeps == ASSUME TabInv, NEW f \in BackupFiles, PickFile(f) PROVE TabInv'
<1>1. restore.picked = NoFile /\ ~restore.loading /\ Restores = {} /\ restore \in Tabs
  BY DEF PickFile, RowsShown, TabInv, TabTypeOK, OneRestore
<1>2. Listing \notin restoreCalls
  BY <1>1 DEF TabInv, ListedBeforePicking
<1> QED
  BY <1>1, <1>2, ChoosingKeeps DEF PickFile, TabInv, Inspect, Listing

\* An answer that only fewer calls are out afterwards and the tab as it says.
LEMMA InspectedKeeps ==
  ASSUME TabInv, NEW c \in restoreCalls, NEW ok \in BOOLEAN, Inspected(c, ok)
  PROVE  TabInv'
<1>1. c.file \in BackupFiles /\ c \in Inspections /\ c.kind = "inspect" /\ restore \in Tabs
  BY CallsByKind DEF Inspected, Inspections, TabInv, TabTypeOK
<1>2. restore' = IF ok THEN [restore EXCEPT !.inspection = c.file] ELSE restore
  BY DEF Inspected
<1>3. restoreCalls' = restoreCalls \ {c}
  BY DEF Inspected
<1>4. /\ restore' \in Tabs
      /\ restore'.picked = restore.picked /\ restore'.hasty = restore.hasty
      /\ restore'.working = restore.working /\ restore'.loading = restore.loading
      /\ restore'.inspection \in {restore.inspection, c.file}
  <2>1. CASE ok
    BY <1>1, <1>2, <2>1 DEF Tabs, AnyFile
  <2>2. CASE ~ok
    BY <1>1, <1>2, <2>2
  <2> QED
    BY <2>1, <2>2
<1>5. Restores' = Restores /\ Inspections' = Inspections \ {c}
  BY <1>1, <1>3 DEF Restores, Inspections
<1>6. TabTypeOK' /\ ListedBeforePicking' /\ OneRestore'
  BY <1>3, <1>4, <1>5 DEF TabInv, TabTypeOK, ListedBeforePicking, OneRestore
<1>7. InspectsThePicked'
  BY <1>1, <1>4, <1>5 DEF TabInv, InspectsThePicked
<1>8. RestoresWhatItTold'
  BY <1>3, <1>4 DEF TabInv, RestoresWhatItTold
<1> QED
  BY <1>6, <1>7, <1>8 DEF TabInv

LEMMA CancelKeeps == ASSUME TabInv, CancelRestore PROVE TabInv'
<1>1. restore \in Tabs /\ restore' = [restore EXCEPT !.picked = NoFile] /\ restoreCalls' = restoreCalls
  BY DEF CancelRestore, TabInv, TabTypeOK
<1>2. restore' \in Tabs /\ restore'.picked = NoFile /\ restore'.hasty = restore.hasty
      /\ restore'.working = restore.working /\ restore'.loading = restore.loading
  BY <1>1 DEF Tabs, AnyFile
<1>3. Restores' = {} /\ Restores = {}
  BY <1>1 DEF CancelRestore, TabInv, OneRestore, Restores
<1> QED
  BY <1>1, <1>2, <1>3
     DEF TabInv, TabTypeOK, ListedBeforePicking, OneRestore, InspectsThePicked, RestoresWhatItTold

\* What is restored is the picked file, told of by the last inspection.
LEMMA RestoreKeeps == ASSUME TabInv, RestoreNow PROVE TabInv'
<1> DEFINE d == [kind |-> "restore", file |-> restore.picked, told |-> restore.inspection]
<1>1. restore \in Tabs /\ restore.picked # NoFile /\ restore.inspection \in Usable /\ ~restore.working
  BY DEF RestoreNow, DialogShown, CanRestore, TabInv, TabTypeOK
<1>2. restore.picked \in BackupFiles /\ restore.inspection \in BackupFiles
  BY <1>1, RestoreTabAssumption DEF Tabs, AnyFile
<1>3. d \in RestoreCalls /\ d.kind = "restore" /\ d # Listing
  BY <1>2 DEF RestoreCalls, Listing
<1>4. restore' = [restore EXCEPT !.working = TRUE] /\ restoreCalls' = restoreCalls \union {d}
  BY DEF RestoreNow
<1>5. /\ restore' \in Tabs /\ restore'.working
      /\ restore'.picked = restore.picked /\ restore'.hasty = restore.hasty
      /\ restore'.inspection = restore.inspection
  BY <1>1, <1>4 DEF Tabs
<1>6. Restores = {} /\ Listing \notin restoreCalls
  BY <1>1 DEF TabInv, OneRestore, ListedBeforePicking
<1>7. Restores' = {d} /\ Inspections' = Inspections
  BY <1>3, <1>4, <1>6 DEF Restores, Inspections
<1>8. ~restore.hasty => d.file = d.told
  <2>1. restore.inspection # NoFile
    BY <1>2, RestoreTabAssumption
  <2> QED
    BY <1>1, <2>1 DEF TabInv, InspectsThePicked
<1> HIDE DEF d
<1>9. TabTypeOK' /\ ListedBeforePicking'
  BY <1>3, <1>4, <1>5, <1>6 DEF TabInv, TabTypeOK, ListedBeforePicking
<1>10. OneRestore' /\ InspectsThePicked'
  BY <1>1, <1>5, <1>7 DEF TabInv, OneRestore, InspectsThePicked
<1>11. RestoresWhatItTold'
  <2>1. \A c \in restoreCalls' : c.kind = "restore" => c = d
    BY <1>7 DEF Restores
  <2> QED
    BY <1>5, <1>8, <2>1 DEF RestoresWhatItTold
<1> QED
  BY <1>9, <1>10, <1>11 DEF TabInv

LEMMA AnsweredKeeps ==
  ASSUME TabInv, NEW c \in restoreCalls, NEW ok \in BOOLEAN, RestoreAnswered(c, ok)
  PROVE  TabInv'
<1>1. c \in Restores /\ c.kind = "restore" /\ c.file \in BackupFiles /\ restore \in Tabs
  BY CallsByKind DEF RestoreAnswered, Restores, TabInv, TabTypeOK
<1>2. restoreCalls' = restoreCalls \ {c}
  BY DEF RestoreAnswered
<1> DEFINE r == [restore EXCEPT !.working = FALSE]
<1>3. restore' = IF ok THEN [r EXCEPT !.done = c.file, !.picked = NoFile] ELSE r
  BY DEF RestoreAnswered
<1>4. /\ r \in Tabs /\ r.picked = restore.picked /\ r.hasty = restore.hasty
      /\ r.inspection = restore.inspection
  BY <1>1 DEF Tabs
<1> HIDE DEF r
<1>5. /\ restore' \in Tabs /\ restore'.picked \in {NoFile, restore.picked}
      /\ restore'.hasty = restore.hasty /\ restore'.inspection = restore.inspection
  <2>1. CASE ok
    BY <1>1, <1>3, <1>4, <2>1 DEF Tabs, AnyFile
  <2>2. CASE ~ok
    BY <1>3, <1>4, <2>2
  <2> QED
    BY <2>1, <2>2
<1>6. Restores' = {} /\ Inspections' = Inspections
  BY <1>1, <1>2 DEF TabInv, OneRestore, Restores, Inspections
<1>7. \A d \in restoreCalls' : d.kind # "restore"
  BY <1>6 DEF Restores
<1>8. Listing \notin restoreCalls
  BY <1>1 DEF TabInv, ListedBeforePicking
<1> QED
  BY <1>1, <1>2, <1>5, <1>6, <1>7, <1>8
     DEF TabInv, TabTypeOK, ListedBeforePicking, OneRestore, InspectsThePicked, RestoresWhatItTold

LEMMA TabStep == TabInv /\ [RestoreTabNext]_restoreVars => TabInv'
<1> SUFFICES ASSUME TabInv, [RestoreTabNext]_restoreVars PROVE TabInv'
  OBVIOUS
<1>1. CASE RestoreClick
  BY <1>1, PickKeeps, CancelKeeps, RestoreKeeps DEF RestoreClick
<1>2. CASE \E c \in restoreCalls : RestoreAnswer(c)
  BY <1>2, ListedKeeps, InspectedKeeps, AnsweredKeeps DEF RestoreAnswer
<1>3. CASE UNCHANGED restoreVars
  BY <1>3 DEF restoreVars, TabInv, TabTypeOK, ListedBeforePicking, OneRestore, InspectsThePicked,
              RestoresWhatItTold, Restores, Inspections
<1> QED
  BY <1>1, <1>2, <1>3 DEF RestoreTabNext

\* One restore at a time, of the file its dialog is for, and nothing picked
\* while it is out (RestoreSiteBackups.tsx).
THEOREM OneRestoreAtATime == RestoreTabSpec => []TabInv
  BY TabInitially, TabStep, PTL DEF RestoreTabSpec

\* The file restored is the one whose inspection the dialog showed, unless
\* it was picked while another file was being inspected, for any number of
\* files and inspections.
THEOREM WhatIsToldIsRestored == RestoreTabSpec => []RestoresWhatItTold
<1>1. TabInv => RestoresWhatItTold
  BY DEF TabInv
<1> QED
  BY <1>1, OneRestoreAtATime, PTL

-----------------------------------------------------------------------------
(***************************************************************************)
(* The schedule form                                                       *)
(* The schedule form changes only what the user asked to edit, and leaves  *)
(* the schedules it wrote as they were, for any jobs and any number of     *)
(* calls.  Answers reload and close the form at any time; the invariant    *)
(* says what is true of the open form between them, and that a submission  *)
(* keeps what was true of the form that sent it.                           *)
(***************************************************************************)

AnyJob == Jobs \union {NoJob}
Parsed == [kind : {"hours", "daily", "weekly"}, hours : Nat, keep : Nat]
Kinds3 == {"none", "site", "database"}
Clicks == {"none", "create", "duplicate", "edit"}

FormStates == [open : BOOLEAN, editing : AnyJob, duplicate : AnyJob, type : Types, target : Kinds3,
               schedule : Parsed, destinations : BOOLEAN, saving : BOOLEAN,
               asked : Clicks, job : AnyJob, touched : BOOLEAN, crossed : BOOLEAN]

SubmissionStates == [kind : {"put", "post"}, job : AnyJob, type : Types, target : Kinds3,
                     schedule : ScheduleTexts, late : BOOLEAN, asked : Clicks, askedOf : AnyJob,
                     touched : BOOLEAN, crossed : BOOLEAN]

\* An open form edits the job the user asked to edit, or none.
EditsWhatWasAsked(f) ==
    f.open => /\ f.editing # NoJob <=> f.asked = "edit"
              /\ f.editing # NoJob => f.editing = f.job /\ f.duplicate = NoJob

\* Untouched, its schedule is the job's as the form reads it.
ShowsItsSchedule(f) ==
    f.open /\ f.editing # NoJob /\ ~f.touched => f.schedule = ParseFrequency(f.editing.schedule)

SubmissionOK(c) ==
    /\ c.kind = "targets" => c.type \in WithTarget
    /\ c.kind \in {"put", "post"} =>
         /\ c \in SubmissionStates
         /\ c.kind = "put" <=> c.asked = "edit" /\ c.job = c.askedOf
         /\ c.kind = "put" /\ ~c.touched =>
              c.job \in Jobs /\ c.schedule = FrequencyText(ParseFrequency(c.job.schedule))

FormInv ==
    /\ form \in FormStates
    /\ EditsWhatWasAsked(form) /\ ShowsItsSchedule(form)
    /\ \A c \in formCalls : SubmissionOK(c)

\* The jobs, and what the form reads of their schedules.
LEMMA NoJobIsNoJob == NoJob \notin Jobs
  BY ScheduleFormAssumption DEF NoJob, Types

LEMMA ParsedIsParsed == ASSUME NEW s \in ScheduleTexts PROVE ParseFrequency(s) \in Parsed
<1>1. s.keep \in Nat /\ s.hours \in Nat
  BY DEF ScheduleTexts
<1> DEFINE kind == CASE s.kind = "weekly"             -> "weekly"
                     [] s.kind \in {"hourly", "hours"} -> "hours"
                     [] OTHER                         -> "daily"
           hours == CASE s.kind = "hourly" -> 1 [] s.kind = "hours" -> s.hours [] OTHER -> 6
           keep == IF s.keep > 0 THEN s.keep ELSE 7
<1>2. kind \in {"hours", "daily", "weekly"} /\ hours \in Nat /\ keep \in Nat
  BY <1>1
<1>3. ParseFrequency(s) = [kind |-> kind, hours |-> hours, keep |-> keep]
  BY DEF ParseFrequency
<1> HIDE DEF kind, hours, keep
<1> QED
  BY <1>2, <1>3 DEF Parsed

LEMMA WrittenIsAText == ASSUME NEW f \in Parsed PROVE FrequencyText(f) \in ScheduleTexts
  BY DEF FrequencyText, Parsed, ScheduleTexts

\* What the form wrote is written again as it was read.
LEMMA RoundTrip ==
  ASSUME NEW s \in ScheduleTexts, Written(s), s.keep # 0
  PROVE  FrequencyText(ParseFrequency(s)) = s
<1>1. /\ s.kind \in {"hours", "daily", "weekly"} /\ s.keep \in Nat /\ s.keep > 0
      /\ s = [kind |-> s.kind, hours |-> IF s.kind = "hours" THEN s.hours ELSE 0,
              timed |-> s.kind # "hours", keep |-> s.keep]
  BY DEF Written, FrequencyText, ScheduleTexts
<1>2. /\ ParseFrequency(s).kind = s.kind /\ ParseFrequency(s).keep = s.keep
      /\ s.kind = "hours" => ParseFrequency(s).hours = s.hours
  BY <1>1 DEF ParseFrequency
<1> QED
  BY <1>1, <1>2 DEF FrequencyText

-----------------------------------------------------------------------------
LEMMA BlankIsAForm ==
  ASSUME NEW e \in AnyJob, NEW d \in AnyJob, NEW some \in BOOLEAN
  PROVE  /\ Blank(e, d, some) \in FormStates
         /\ ~Blank(e, d, some).open
         /\ Blank(e, d, some).editing = e /\ Blank(e, d, some).duplicate = d
         /\ ~Blank(e, d, some).touched
  BY DEF Blank, FormStates, Types, Kinds3, Clicks, Parsed, Fresh, AnyJob

\* A closed form has nothing to keep.
LEMMA ClosedIsSound ==
  ASSUME form \in FormStates
  PROVE  Closed \in FormStates /\ EditsWhatWasAsked(Closed) /\ ShowsItsSchedule(Closed)
<1>1. form.editing \in AnyJob /\ form.duplicate \in AnyJob /\ form.destinations \in BOOLEAN
  BY DEF FormStates
<1>2. Closed \in FormStates /\ ~Closed.open
  BY <1>1, BlankIsAForm DEF Closed
<1> QED
  BY <1>2 DEF EditsWhatWasAsked, ShowsItsSchedule

\* Filling the fields from a job changes neither what opened the form nor
\* what it is for.
LEMMA FilledFields ==
  ASSUME NEW f \in FormStates, NEW job \in AnyJob
  PROVE  /\ Filled(f, job) \in FormStates
         /\ Filled(f, job).open = f.open /\ Filled(f, job).editing = f.editing
         /\ Filled(f, job).duplicate = f.duplicate /\ Filled(f, job).asked = f.asked
         /\ Filled(f, job).job = f.job /\ Filled(f, job).touched = f.touched
         /\ job # NoJob => Filled(f, job).schedule = ParseFrequency(job.schedule)
<1>1. CASE job = NoJob
  <2>1. Filled(f, job) = [f EXCEPT !.type = "all-sites", !.target = "none", !.schedule = Fresh]
    BY <1>1 DEF Filled
  <2>2. Fresh \in Parsed
    BY DEF Fresh, Parsed
  <2> QED
    BY <1>1, <2>1, <2>2 DEF FormStates, Types, Kinds3
<1>2. CASE job # NoJob
  <2> DEFINE target == IF job.type \in WithTarget THEN job.type ELSE "none"
             p == ParseFrequency(job.schedule)
  <2>1. job.type \in Types /\ p \in Parsed
    BY <1>2, ParsedIsParsed, ScheduleFormAssumption DEF AnyJob
  <2>2. target \in Kinds3
    BY DEF WithTarget, Kinds3
  <2>3. Filled(f, job) = [f EXCEPT !.type = job.type, !.schedule = p, !.target = target]
    BY <1>2 DEF Filled
  <2> HIDE DEF p, target
  <2>4. /\ Filled(f, job) \in FormStates /\ Filled(f, job).schedule = p
        /\ Filled(f, job).open = f.open /\ Filled(f, job).editing = f.editing
        /\ Filled(f, job).duplicate = f.duplicate /\ Filled(f, job).asked = f.asked
        /\ Filled(f, job).job = f.job /\ Filled(f, job).touched = f.touched
    BY <2>1, <2>2, <2>3 DEF FormStates
  <2> QED
    BY <2>4 DEF p
<1> QED
  BY <1>1, <1>2

LEMMA TargetsAreSound == ASSUME NEW type, NEW c \in TargetsOf(type) PROVE SubmissionOK(c)
  BY DEF TargetsOf, SubmissionOK

LEMMA LeftBehindIsSound ==
  ASSUME \A c \in formCalls : SubmissionOK(c), NEW d \in LeftBehind
  PROVE  SubmissionOK(d)
<1>1. CASE d \in formCalls
  BY <1>1
<1>2. CASE \E c \in Submissions : d = [c EXCEPT !.late = TRUE]
  <2>1. PICK c \in Submissions : d = [c EXCEPT !.late = TRUE]
    BY <1>2
  <2>2. c \in SubmissionStates /\ SubmissionOK(c) /\ c.kind \in {"put", "post"}
    BY DEF Submissions, SubmissionOK
  <2>3. /\ d \in SubmissionStates /\ d.kind = c.kind /\ d.asked = c.asked /\ d.job = c.job
        /\ d.askedOf = c.askedOf /\ d.touched = c.touched /\ d.schedule = c.schedule
    BY <2>1, <2>2 DEF SubmissionStates
  <2> QED
    BY <2>2, <2>3 DEF SubmissionOK
<1> QED
  BY <1>1, <1>2 DEF LeftBehind

LEMMA FormInitially == FormInit => FormInv
<1> SUFFICES ASSUME FormInit PROVE FormInv
  OBVIOUS
<1>1. form \in FormStates /\ ~form.open
  BY BlankIsAForm DEF FormInit, AnyJob
<1>2. \A c \in formCalls : SubmissionOK(c)
  BY DEF FormInit, SubmissionOK
<1> QED
  BY <1>1, <1>2 DEF FormInv, EditsWhatWasAsked, ShowsItsSchedule

-----------------------------------------------------------------------------
\* The form opens with what was clicked, and nothing of what it was before.
LEMMA OpenKeeps ==
  ASSUME FormInv, NEW op \in Clicks, NEW job \in AnyJob, NEW e \in AnyJob, NEW d \in AnyJob,
         e # NoJob <=> op = "edit", e # NoJob => e = job /\ d = NoJob,
         OpenWith(op, job, e, d)
  PROVE  FormInv'
<1> DEFINE b == Blank(e, d, form.destinations)
           f == [b EXCEPT !.open = TRUE, !.asked = op, !.job = job]
           first == IF d # NoJob THEN d ELSE e
           g == Filled(f, first)
<1>1. b \in FormStates /\ b.editing = e /\ b.duplicate = d
  BY BlankIsAForm DEF FormInv, FormStates
<1> HIDE DEF b
<1>2. f \in FormStates /\ f.open /\ f.editing = e /\ f.duplicate = d /\ f.asked = op /\ f.job = job
  BY <1>1 DEF FormStates
<1>3. form' = g /\ formCalls' = formCalls \union TargetsOf(g.type)
  BY DEF OpenWith, b
<1> HIDE DEF f
<1>4. /\ g \in FormStates /\ g.editing = e /\ g.duplicate = d /\ g.asked = op /\ g.job = job
      /\ first # NoJob => g.schedule = ParseFrequency(first.schedule)
  BY <1>2, FilledFields
<1>5. e # NoJob => first = e
  OBVIOUS
<1> HIDE DEF g, first
<1>6. EditsWhatWasAsked(form') /\ ShowsItsSchedule(form')
  BY <1>3, <1>4, <1>5 DEF EditsWhatWasAsked, ShowsItsSchedule
<1>7. \A c \in formCalls' : SubmissionOK(c)
  BY <1>3, TargetsAreSound DEF FormInv
<1> QED
  BY <1>3, <1>4, <1>6, <1>7 DEF FormInv

\* The form is left, and what it sent stays on its way.
LEMMA CloseKeeps ==
  ASSUME FormInv, form' = Closed, \A c \in formCalls' : c \in LeftBehind \/ SubmissionOK(c)
  PROVE  FormInv'
  BY ClosedIsSound, LeftBehindIsSound DEF FormInv

\* A change of the fields the invariant does not speak of.
LEMMA FieldsKeep ==
  ASSUME FormInv, form' \in FormStates,
         form'.open = form.open, form'.editing = form.editing, form'.duplicate = form.duplicate,
         form'.asked = form.asked, form'.job = form.job,
         form'.touched \/ (form'.touched = form.touched /\ form'.schedule = form.schedule),
         \A c \in formCalls' : c \in formCalls \/ SubmissionOK(c)
  PROVE  FormInv'
<1>1. EditsWhatWasAsked(form')
  BY DEF FormInv, EditsWhatWasAsked
<1>2. ShowsItsSchedule(form')
  BY DEF FormInv, ShowsItsSchedule
<1> QED
  BY <1>1, <1>2 DEF FormInv

LEMMA TypeKeeps == ASSUME FormInv, NEW type \in Types, ChooseJobType(type) PROVE FormInv'
<1> DEFINE crossed == form.crossed \/ Targets # {}
<1>1. form' = [form EXCEPT !.type = type, !.target = "none", !.crossed = crossed] /\ form \in FormStates
  BY DEF ChooseJobType, FormInv, FormStates
<1>2. crossed \in BOOLEAN
  OBVIOUS
<1> HIDE DEF crossed
<1>3. /\ form' \in FormStates
      /\ form'.open = form.open /\ form'.editing = form.editing /\ form'.duplicate = form.duplicate
      /\ form'.asked = form.asked /\ form'.job = form.job
      /\ form'.touched = form.touched /\ form'.schedule = form.schedule
  BY <1>1, <1>2 DEF FormStates, Kinds3
<1>4. \A c \in formCalls' : c \in formCalls \/ SubmissionOK(c)
  BY TargetsAreSound DEF ChooseJobType
<1> QED
  BY <1>3, <1>4, FieldsKeep

LEMMA FormTargetsKeep ==
  ASSUME FormInv, NEW c \in formCalls, NEW some \in BOOLEAN, TargetsListed(c, some) PROVE FormInv'
<1>1. c.type \in Kinds3 /\ form \in FormStates
  BY DEF FormInv, SubmissionOK, TargetsListed, WithTarget, Kinds3
<1>2. form' \in {form, [form EXCEPT !.target = c.type]}
  BY DEF TargetsListed
<1>3. /\ form' \in FormStates
      /\ form'.open = form.open /\ form'.editing = form.editing /\ form'.duplicate = form.duplicate
      /\ form'.asked = form.asked /\ form'.job = form.job
      /\ form'.touched = form.touched /\ form'.schedule = form.schedule
  BY <1>1, <1>2 DEF FormStates
<1> QED
  BY <1>3, FieldsKeep DEF TargetsListed

LEMMA ScheduleKeeps == ASSUME FormInv, NEW s \in Schedules, ChooseSchedule(s) PROVE FormInv'
<1>1. s \in Parsed
  <2>1. FormCopies \subseteq Nat /\ FormHours \subseteq Nat
    BY ScheduleFormAssumption
  <2>2. CASE s \in [kind : {"daily", "weekly"}, hours : {6}, keep : FormCopies]
    <3>1. s.kind \in {"daily", "weekly"} /\ s.hours = 6 /\ s.keep \in Nat
          /\ s = [kind |-> s.kind, hours |-> s.hours, keep |-> s.keep]
      BY <2>1, <2>2
    <3>2. s.kind \in {"hours", "daily", "weekly"} /\ s.hours \in Nat
      BY <3>1
    <3> QED
      BY <3>1, <3>2 DEF Parsed
  <2>3. CASE s \in [kind : {"hours"}, hours : FormHours, keep : FormCopies]
    BY <2>1, <2>3 DEF Parsed
  <2> QED
    BY <2>2, <2>3 DEF Schedules
<1>2. form' = [form EXCEPT !.schedule = s, !.touched = TRUE] /\ form \in FormStates /\ UNCHANGED formCalls
  BY DEF ChooseSchedule, FormInv
<1>3. /\ form' \in FormStates /\ form'.touched
      /\ form'.open = form.open /\ form'.editing = form.editing /\ form'.duplicate = form.duplicate
      /\ form'.asked = form.asked /\ form'.job = form.job
  BY <1>1, <1>2 DEF FormStates
<1> QED
  BY <1>2, <1>3, FieldsKeep

\* The list is loaded again under the open form.
LEMMA LoadKeeps ==
  ASSUME FormInv, NEW c \in formCalls, NEW some \in BOOLEAN, ListLoaded(c, some) PROVE FormInv'
<1> DEFINE f == [form EXCEPT !.destinations = some]
           again == form.open /\ InitialJob # NoJob
           g == IF again THEN Filled(f, InitialJob) ELSE f
           touched == g.touched /\ ~again
<1>1. form \in FormStates /\ InitialJob \in AnyJob
  BY DEF FormInv, FormStates, InitialJob
<1>2. /\ f \in FormStates /\ f.schedule = form.schedule
      /\ f.open = form.open /\ f.editing = form.editing /\ f.duplicate = form.duplicate
      /\ f.asked = form.asked /\ f.job = form.job /\ f.touched = form.touched
  BY <1>1 DEF FormStates
<1>3. /\ form' = [g EXCEPT !.touched = touched]
      /\ formCalls' = (formCalls \ {c}) \union
                      IF again /\ g.type # form.type THEN TargetsOf(g.type) ELSE {}
  BY DEF ListLoaded
<1> HIDE DEF f
<1>4. /\ g \in FormStates
      /\ g.open = form.open /\ g.editing = form.editing /\ g.duplicate = form.duplicate
      /\ g.asked = form.asked /\ g.job = form.job /\ g.touched = form.touched
      /\ again => g.schedule = ParseFrequency(InitialJob.schedule)
      /\ ~again => g.schedule = form.schedule
  <2>1. CASE again
    BY <1>1, <1>2, <2>1, FilledFields
  <2>2. CASE ~again
    BY <1>2, <2>2
  <2> QED
    BY <2>1, <2>2
<1>5. touched \in BOOLEAN /\ (~again => (touched <=> g.touched))
  OBVIOUS
<1> HIDE DEF g, touched
<1>6. /\ form' \in FormStates /\ form'.touched = touched /\ form'.schedule = g.schedule
      /\ form'.open = g.open /\ form'.editing = g.editing /\ form'.duplicate = g.duplicate
      /\ form'.asked = g.asked /\ form'.job = g.job
  BY <1>3, <1>4, <1>5 DEF FormStates
<1>7. EditsWhatWasAsked(form')
  BY <1>4, <1>6 DEF FormInv, EditsWhatWasAsked
<1>8. ShowsItsSchedule(form')
  <2> SUFFICES ASSUME form'.open, form'.editing # NoJob, ~form'.touched
               PROVE  form'.schedule = ParseFrequency(form'.editing.schedule)
    BY DEF ShowsItsSchedule
  <2>1. form.open /\ form.editing # NoJob /\ form.editing = form'.editing /\ form.duplicate = NoJob
    BY <1>4, <1>6 DEF FormInv, EditsWhatWasAsked
  <2>2. again /\ InitialJob = form.editing
    BY <2>1 DEF InitialJob
  <2> QED
    BY <1>4, <1>6, <2>1, <2>2
<1>9. \A d \in formCalls' : SubmissionOK(d)
  BY <1>3, TargetsAreSound DEF FormInv
<1> QED
  BY <1>6, <1>7, <1>8, <1>9 DEF FormInv

\* A submission says what was true of its form.
LEMMA SubmitKeeps == ASSUME FormInv, SubmitForm PROVE FormInv'
<1> DEFINE put == form.editing # NoJob
           d == [kind |-> IF put THEN "put" ELSE "post",
                 job |-> IF put THEN InitialJob ELSE NoJob,
                 type |-> form.type,
                 target |-> IF form.type \in WithTarget THEN form.target ELSE "none",
                 schedule |-> FrequencyText(form.schedule), late |-> FALSE,
                 asked |-> form.asked, askedOf |-> form.job,
                 touched |-> form.touched, crossed |-> form.crossed]
<1>1. form \in FormStates /\ form.open
  BY DEF FormInv, SubmitForm
<1>2. InitialJob \in AnyJob /\ FrequencyText(form.schedule) \in ScheduleTexts
  BY <1>1, WrittenIsAText DEF FormStates, InitialJob
<1>3. d \in SubmissionStates
  BY <1>1, <1>2 DEF SubmissionStates, FormStates, Kinds3, AnyJob
<1>4. (put <=> form.asked = "edit") /\ (put => form.editing = form.job /\ InitialJob = form.editing)
  BY <1>1 DEF FormInv, EditsWhatWasAsked, InitialJob
<1>5. put /\ ~form.touched => form.schedule = ParseFrequency(form.editing.schedule)
  BY <1>1 DEF FormInv, ShowsItsSchedule
<1>6. put => form.editing \in Jobs
  BY <1>1 DEF FormStates, AnyJob
<1>7. SubmissionOK(d)
  <2>1. CASE put
    BY <1>3, <1>4, <1>5, <1>6, <2>1 DEF SubmissionOK
  <2>2. CASE ~put
    BY <1>3, <1>4, <2>2 DEF SubmissionOK
  <2> QED
    BY <2>1, <2>2
<1>8. form' = [form EXCEPT !.saving = TRUE] /\ formCalls' = formCalls \union {d}
  BY DEF SubmitForm
<1> HIDE DEF d, put
<1>9. /\ form' \in FormStates
      /\ form'.open = form.open /\ form'.editing = form.editing /\ form'.duplicate = form.duplicate
      /\ form'.asked = form.asked /\ form'.job = form.job
      /\ form'.touched = form.touched /\ form'.schedule = form.schedule
  BY <1>1, <1>8 DEF FormStates
<1> QED
  BY <1>7, <1>8, <1>9, FieldsKeep

LEMMA SubmittedKeeps ==
  ASSUME FormInv, NEW c \in formCalls, NEW ok \in BOOLEAN, Submitted(c, ok) PROVE FormInv'
<1>1. CASE ok
  <2>1. SubmissionOK([kind |-> "schedules"])
    BY DEF SubmissionOK
  <2> QED
    BY <1>1, <2>1, CloseKeeps DEF Submitted
<1>2. CASE ~ok
  <2> DEFINE saving == form.saving /\ c.late
  <2>1. form' = [form EXCEPT !.saving = saving] /\ formCalls' = formCalls \ {c} /\ form \in FormStates
    BY <1>2 DEF Submitted, FormInv, FormStates
  <2>2. saving \in BOOLEAN
    OBVIOUS
  <2> HIDE DEF saving
  <2>3. /\ form' \in FormStates
        /\ form'.open = form.open /\ form'.editing = form.editing /\ form'.duplicate = form.duplicate
        /\ form'.asked = form.asked /\ form'.job = form.job
        /\ form'.touched = form.touched /\ form'.schedule = form.schedule
    BY <2>1, <2>2 DEF FormStates
  <2> QED
    BY <2>1, <2>3, FieldsKeep
<1> QED
  BY <1>1, <1>2

LEMMA FormStep == FormInv /\ [FormNext]_formVars => FormInv'
<1> SUFFICES ASSUME FormInv, [FormNext]_formVars PROVE FormInv'
  OBVIOUS
<1>1. CASE \E job \in Jobs : DuplicateSchedule(job) \/ EditSchedule(job)
  BY <1>1, OpenKeeps, NoJobIsNoJob DEF DuplicateSchedule, EditSchedule, AnyJob, Clicks
<1>2. CASE CreateSchedule
  BY <1>2, OpenKeeps DEF CreateSchedule, AnyJob, Clicks
<1>3. CASE CloseForm
  BY <1>3, CloseKeeps DEF CloseForm
<1>4. CASE \E type \in Types : ChooseJobType(type)
  BY <1>4, TypeKeeps
<1>5. CASE \E s \in Schedules : ChooseSchedule(s)
  BY <1>5, ScheduleKeeps
<1>6. CASE SubmitForm
  BY <1>6, SubmitKeeps
<1>7. CASE \E c \in formCalls : ListLost(c)
  BY <1>7 DEF ListLost, FormInv
<1>8. CASE \E c \in formCalls, ok \in BOOLEAN : TargetsListed(c, ok) \/ ListLoaded(c, ok) \/ Submitted(c, ok)
  BY <1>8, FormTargetsKeep, LoadKeeps, SubmittedKeeps
<1>9. CASE UNCHANGED formVars
  BY <1>9 DEF formVars, FormInv
<1> QED
  BY <1>1, <1>2, <1>3, <1>4, <1>5, <1>6, <1>7, <1>8, <1>9 DEF FormNext, FormClick, FormAnswer

\* The open form edits what was asked for, whatever is loaded and answered
\* under it (AddBackupJobModal.tsx, backups/page.tsx).
THEOREM TheFormIsForWhatWasAsked == FormSpec => []FormInv
  BY FormInitially, FormStep, PTL DEF FormSpec

\* A job is changed only when the user asked to edit that very job.
THEOREM OnlyEditsChange == FormSpec => []ChangesOnlyWhatIsEdited
<1>1. FormInv => ChangesOnlyWhatIsEdited
  BY DEF FormInv, SubmissionOK, Submissions, ChangesOnlyWhatIsEdited
<1> QED
  BY <1>1, TheFormIsForWhatWasAsked, PTL

\* A schedule the form wrote is saved untouched as it was: reading a text and
\* writing it again gives the text (parseFrequency, handleSubmit).
THEOREM EditingLeavesSchedules == FormSpec => []OwnSchedulesSurviveEditing
<1>1. FormInv => OwnSchedulesSurviveEditing
  <2> SUFFICES ASSUME FormInv, NEW c \in Submissions, c.kind = "put", ~c.touched,
                      Written(c.job.schedule), c.job.schedule.keep # 0
               PROVE  c.schedule = c.job.schedule
    BY DEF OwnSchedulesSurviveEditing
  <2>1. c.job \in Jobs /\ c.schedule = FrequencyText(ParseFrequency(c.job.schedule))
    BY DEF FormInv, SubmissionOK, Submissions
  <2>2. c.job.schedule \in ScheduleTexts
    BY <2>1, ScheduleFormAssumption
  <2> QED
    BY <2>1, <2>2, RoundTrip
<1> QED
  BY <1>1, TheFormIsForWhatWasAsked, PTL

=============================================================================
