# DockLite in TLA+

DockLite runs web sites and databases in Docker on one server.  A Go agent
(`go-app/cmd/docklite-agent`) serves an HTTP interface, keeps its records in one
SQLite file, and works on three kinds of shared state: database rows, files on the
disk, and Docker/nginx.  Handlers run concurrently, background goroutines (backup
scheduler, upstream sync, download timers) run beside them, and almost nothing is
locked.  A dashboard of React pages (`webapp/`) calls that interface: its pages send
calls and go on, and the answers come back in any order, late, or not at all.  The
models here are about what goes wrong *between* those steps, on either side.

All paths below are relative to `src/`; `internal/` stands for `go-app/internal/`,
`handlers/` for `internal/handlers/`, and the pages are under `webapp/app/(dashboard)/`.

## 1. Inventory

| Component | State it keeps | Operations | What is hard | What makes it correct | Modelled |
|---|---|---|---|---|---|
| backup jobs, scheduler, clean-up (`internal/backup/{scheduler,cleanup}.go`, `store/backups.go`, `handlers/backups.go`) | tables `backup_jobs`, `backup_destinations`, `backups`; archive files; pending download timers | scheduler pass, run-now, export, keep-last, retention, delete, clear history, delete a local file, edit a job or a destination | goroutines share rows and files; listings go stale; a stop between file and row; ignored errors | a row that says "success" names an archive; clean-up spares the newest and the unfinished; keep-last keeps its N; one run per slot; every target tried; rows leave `in_progress` | `Backups` |
| archive writing (`internal/backup/{artifacts,archive,engines}.go`) | `_tmp/*.partial`, final archive, manifest | write, verify, rename, write manifest | a failure at each step; names that carry only the second | nothing half-written has a final name | steps in `Backups`, contents abstracted |
| schedule text (`internal/backup/schedule.go`) | none | parse, next slot, due | calendar edges | at most one slot per period | `Due`, `Slot` on an abstract clock |
| site restore (`internal/backup/restore.go`, `handlers/backups_restore.go`) | the site's folder, safety copies, staging folders | save, stage, unpack, swap, undo | many renames that must look like one; the site keeps writing; concurrent restores; a stop in the middle | all or nothing; nothing is lost | `Restore`, `AtomicReplace` |
| backup progress (`internal/backup/progress.go`) | in-memory map of runs | begin, update, finish | - | - | no: nothing outside its tests starts a tracked run |
| automatic certificates (`handlers/autocert.go`) | a JSON queue of domains | enqueue, process, retry with back-off, give up after 48 h | processed on a copy; an old `CreatedAt` survives a new request; restart | every queued domain ends as issued or given up | planned |
| upstream sync (`handlers/upstream_sync.go`, `docker/ports.go`) | last known ports | poll, repair nginx | the port is remembered before the repair worked | nginx eventually points at the live port | planned |
| folders and positions (`store/folders.go`, `handlers/folders.go`) | folder tree with depth and position, container positions | create, move, delete; file, reorder, unlink containers | read and checked before the transaction, written in it; a failure that keeps the only connection | no cycle, depth = parent's + 1, positions distinct, others keep their order | `Folders` |
| site and container pages (`page.tsx`, `components/{ContainerCard,FolderSection,ContainerDetailsModal,AllContainersModal}.tsx`, `containers/[id]/`, `lib/container-sort.ts`; `handlers/containers.go`) | the cards shown, one container's details and logs, the tiers of all containers; tracking and site records | fetch every ten seconds, start and stop, drag; choose log lines; track, claim | a drop shows its outcome before it has one; listings cross; a form outlives its call | the cards catch up; the logs follow the choice; one site for each container | `ContainersPage`, `ContainerDetails`, `AllContainers` |
| site and container lifecycle (`handlers/{containers,site_layout}.go`, `docker/containers.go`, `store/sites.go`) | site row, folder, container | create, relocate, delete | three stores change in turn and are rolled back by hand | row, folder and container agree | claiming and assigning only |
| log-in, tokens, CSRF (`handlers/{auth_login,tokens,csrf}.go`) | failure counters, token rows | log in, issue, revoke | counter checked and written in different critical sections | a revoked token is refused | planned |
| users (`handlers/users.go`, `store/users.go`, `settings/users/page.tsx`) | users and who manages them, owners of sites; the page's dialogs | list, create, delete with transfer, change a password, assign a site | the check and the act are apart; several administrators | every site keeps a living owner; the super administrator stays | `Users` |
| delegation (`handlers/delegation.go`) | grants | grant, revoke | - | - | no |
| system update (`components/UpdateCard.tsx`, `handlers/system_update.go`) | the job's state file; the card | start, ask, restart of the agent | the process that is asked is the one replaced; old answers | the card ends by showing the outcome | `UpdateCard` |
| ACME manager (`internal/acme/manager.go`) | key and certificate files | obtain, store, renew | two files written one after the other | key and certificate match | planned |
| databases (`databases/`, `handlers/databases*.go`) | the list and its dialogs; the table editor with a sidebar on each side | list, create, delete, download, log in to edit; choose a table, edit a row, query | listings cross; three components that share only window events | the list catches up; an update names the table its rows came from | `DatabasesPage`, `DatabaseEdit` |
| backup pages (`backups/page.tsx`, `components/{RestoreSiteBackups,AddBackupJobModal}.tsx`) | tabs, the instant backup's form, the restore dialog, the schedule form | load (a chain of three calls), export, delete; pick, inspect, restore; create, edit, copy a schedule | chains of loads change the form under the user; late inspections; what an edit leaves behind; text taken apart and written again | exports within the user's rights; what is restored is what was shown; only an edit changes a job, and leaves its schedule | `BackupsPage`, `RestoreTab`, `ScheduleForm` |
| server page (`server/page.tsx`, `components/ServiceCard.tsx`) | sections, one busy name, one log panel | service actions and the calls they chain, logs, prune, diagnostics | answers about one service under the title of another | the panel shows the logs of the service it names | `ServerPage` |
| files (`components/{FileManager,FileEditorModal}.tsx`) | current directory, last listing, editor, one dialog | open, read, save, create, upload, copy, move, delete | names of one directory joined to the path of another; late reads | acts on what was listed; a file gets its own text back | `FileManager` |
| network page (`network/{NginxPanel,DnsPanel,CloudflareSetup,ZoneSslControls}.tsx`; `handlers/{nginx_mgmt,dns,cloudflare}.go`) | editors; zones and records, here and at Cloudflare; token, SSL mode | load, save and test a configuration; import, synchronise, create, delete; set the mode | written and then refused; two stores changed in turn by requests that overlap; answers that come too late; stale closures; remounted controls | a clean editor shows the file; the copy agrees with Cloudflare; records and controls belong to the zone shown | `NginxPanel`, `Dns`, `DnsAgent`, `Cloudflare` |
| certificates page (`components/SslStatus.tsx`, `handlers/ssl.go`) | the list, one busy name | issue, renew, delete | several orders out at once; listings overtake each other; one that fails looks empty | the list catches up | `Certificates` |
| ports and Cloudflare sites; server statistics; terminal; HTTP router; command line | none between requests | - | - | - | no: reporting, streams, single calls |
| SQLite store (`internal/store/sqlite.go`) | one connection (`:25`) | statements, transactions | a transaction blocks every other statement | a statement is atomic | the atomicity assumption of every model |
| dashboard frame, settings, library (`webapp/lib`) | preferences of a browser | - | - | - | no; the migrations are the database schema and give `Init` |

How they interact: handlers and goroutines call the store (one statement at a
time), the file system and Docker; the agent never calls back into a handler.
Backups and restores share only the disk (a safety copy is written where exports
go, but gets no row), which is why they are two models: a restore changes no row of
`backups`, and no clean-up loop touches a file that no row names (an operator may still delete
a safety copy by name).  A page of the dashboard talks to the agent only through
calls, and to another page only through the agent: the dashboard shows one page at a
time and builds it anew when it is opened.  The table editor is the exception, three
mounted components that tell each other of tables and rows by window events; it is
one module.

## 2. Modules

    Backups  <-- BackupsMC   (constants of the TLC runs)
             <-- BackupsProofs
    AtomicReplace  <.. refined by ..  Restore  <-- RestoreMC
                                               <-- RestoreProofs
    Folders  <-- FoldersMC
             <-- FoldersProofs

    ActionPages   extends Users, RestoreTab, BackupsPage, ScheduleForm, ServerPage,
                  AllContainers, FileManager, DatabaseEdit
    NetworkPages  extends NginxPanel, Dns, DnsAgent, Cloudflare
    LivePages     instances of DatabasesPage, ContainersPage, ContainerDetails,
                  UpdateCard, Certificates
    ActionPagesMC, NetworkPagesMC, LivePagesMC   (constants and symmetry of the runs)
    proofs:  UsersProofs
             BackupPagesProofs    (RestoreTab, BackupsPage, ScheduleForm)
             ServerPagesProofs    (ServerPage, AllContainers; the composition ActionPages)
             EditingProofs        (FileManager, DatabaseEdit)
             NetworkPagesProofs   (NginxPanel, Dns, DnsAgent, Cloudflare; the composition NetworkPages)

### Backups

One process per goroutine: the scheduler, run-now goroutines, export requests,
delete requests; timers are a set.  `proc[p]` holds the goroutine's locals and its
`pc`, the place between two statements or file operations.

| Variable | Code |
|---|---|
| `jobs`, `dest`, `backup`, `nextId` | tables `backup_jobs`, the local row of `backup_destinations`, `backups`, its AUTOINCREMENT |
| `files`, `partial` | finished archives (`_downloads` or kept), `_tmp/*.partial` |
| `timers` | `time.AfterFunc` of `handlers/backups.go:157` |
| `queue` | the jobs `checkAndRunJobs` listed and has not looked at |
| `now` | the wall clock, in ticks; it names archives and fills `created_at` |
| `removed`, `finished`, `begun` | history, read by properties only (`Fresh` reads `removed` to keep seconds apart, and `OncePerSlot` reads `begun`) |

| Actions | Code |
|---|---|
| `Wake`, `SkipJob`, `BeginJob` | `checkAndRunJobs`, `shouldRunJob`, head of `executeBackupJob` |
| `TriggerJob`, `Export`, `DeleteRequest`, `ClearRequest`, `DeleteLocalFile`, `EditJob`, `EditDestination` | the HTTP handlers |
| `BackUpTarget`, `WriteArchive`, `FailArchive`, `Publish`, `RecordSuccess`, `RecordFailure`, `StampJob` | one backup, from its row to the job's `last_run_at` |
| `PruneList`, `RetainList`, `RemoveFile`, `RemoveRow`, `RemoveDone` | `pruneKeepLast`, `cleanupOldBackups`: list once, then file and row of each |
| `ClearFile`, `ClearRows` | the history's DELETE: files of the rows listed, then *every* row |
| `ExpireFile`, `ExpireRow` | the download timer |
| `Restart` | the agent stops and starts; `main.go` repairs nothing |

`Works`/`Breaks` mark statements whose error the code handles or ignores: either
the statement does its job, or a fault is spent and the error path is taken.
An archive is its path `[dir, target, stamp]`: two archives of one target in one
second *are* one file, as in `artifacts.go:72`.  `SameSecond = FALSE` excludes
that case from a run.

### Restore

A folder is a function from top-level names to contents, because the swap renames
top-level entries and never looks below.  `proc[r]` holds the locals of
`RestoreSiteArchive`; every rename, every deletion of an entry and every entry of
the safety copy is a step of its own, in any order (`os.ReadDir` order is not
promised to mean anything).  `Undo`, `ClearEntry`, `ClearDone`, `Return`,
`ReturnDone` are the `undo` closure; the deferred `RemoveAll` of the staging folder
is `DropStage`, part of every action that returns, and absent from `Restart`.

Switches: `Faulty` names the operations that may fail, `"look"` among them, the listing
whose failure `hasContents` takes for an empty folder (`restore.go:139,300-303`); `Overlap` lets a restore
begin while another runs (the code takes no lock); `SameSecond` lets two safety copies have one
name; `WriteAnyTime` lets the site write during a restore; `Unreadable` entries can
be renamed but not read.  `had[r]` is history: what the site held when request `r`
began, less what the site itself overwrote.

### AtomicReplace

The promise of `restore.go:114-119`, in three variables: what the folder holds,
who asked for what, what they were told.  `Restore` implements it under the mapping
`Promised`: while entries are being moved the folder counts as what it was before,
and the answer is the one step in which it changes.

### Folders

| Variable | Code |
|---|---|
| `folder`, `nextId` | table `folders` (`store/folders.go:8-16`, migrations 004 and 010), its AUTOINCREMENT |
| `place` | table `folder_containers`; a function, since the only INSERT follows the DELETE of the container's other rows |
| `tx` | the open transaction: who is in it and the table a rollback restores |
| `proc` | what each request has read so far, and where it is |

| Actions | Code |
|---|---|
| `AskCreate`, `ReadDepth`, `ReadPosition`, `Insert` | `createFolder` and `CreateFolder`, three statements; also the "Default" folder that `ListContainers` and `AssignContainer` make |
| `AskMove`, `CheckParent`, `CheckMove` | `MoveFolder`: the folder, the new parent, the listing and `validateFolderMove` |
| `ReadFolder`, `ReadDepth`, `ReadPosition`, `BeginMove`, `Descend`, `CommitMove` | `MoveFolderToParent`: three reads, then a transaction that updates the row, walks down with `updateDescendantDepths`, and closes the gap |
| `AskDelete`, `DeleteFolder` | `deleteFolder`, with the foreign keys' cascade |
| `AskContainer`, `File`, `Unlink`, `Reorder` | the handlers of `/folders/{id}/containers`; transactions without a loop are one step |
| `AskAssign`, `FindDefault` | `AssignContainer` to the user who owns the site |
| `RemoveContainer` | `UnlinkContainerFromAllFolders` |
| `StatementFails`, `Restart` | any statement may fail, the agent may stop; SQLite rolls back |

The store has one connection (`store/sqlite.go:25`): while `tx` is open nobody
else's statement runs (`Free`).  `StatementFails` includes the path of
`MoveContainerToFolder` that returns without rolling back (`:194`), after which
nothing runs until `Restart`.  `Overlap = FALSE` says that no two requests that
create or move folders run at once, the case the code is written for;
requests that delete folders or touch containers always overlap.  A name is only
"Default" or not; a name that is taken is one of the failures.

### The pages

Each page is a module with the same three variables: what the agent has (where it
matters), the page's React state as one record, and the set of calls that were sent
and not answered.  A click is an action whose guard is what the page shows and
enables; it changes the record and adds a call.  An answer is an action that takes a
call out of the set, changes the agent's part if it succeeded, and sets the state as the
code after the `await` does.  Answers come in any order, any call may fail, and a
closure that reads state of the render that made it carries that state in the call.
Equal calls are one: answered once or twice they leave the same state.  Fields named
in a module's comment as history are read by properties only.

| Module | The page's state and the agent's | What the actions keep of the code |
|---|---|---|
| `Users` | `accounts`, `owner`: tables `users` and `sites.user_id`; `users`: list, dialog, busy flags | a request is checked (`Allowed`: the token's user is read again) and acts later; a deletion hands over the sites in one transaction that the foreign key undoes; another administrator's requests run beside the page's |
| `BackupsPage` | tab, what was loaded, type and target of the form | loading is a chain: records, then who the user is, then the targets; a chain changes the form that is shown by then |
| `RestoreTab` | files, the one picked, the inspection shown | `choose` asks for an inspection and has no guard against an earlier one's answer |
| `ScheduleForm` | `editing` and `duplicate` of the page, the form's fields | `parseFrequency` and the text `handleSubmit` writes, on records; three ways to open the form; what closing leaves behind; submissions answered after the form has gone |
| `ServerPage` | sections, `busy`, log panel | an action is followed by the services and by the open logs; the first 403 hides the page |
| `AllContainers` | site records, tracking, manifests; tiers, claim form | a listing is read at one time and shown at another; the form can be cancelled and reopened while its claim is out; the agent takes only DELETE where the page sends POST, so a deletion always fails |
| `FileManager` | current directory, listing, selection, editor, dialog | the path of an operation is the current directory and a name of the listing; the editor takes its path from the selection and its text from the last read |
| `DatabaseEdit` | page, left and right sidebar | events are delivered within the step that sends them; a refused call (401) drops the credentials and leaves the page |
| `NginxPanel` | the files, which a site may lack; an editor for each site | the agent writes, enables and then tests: a refused text stays written; for a site without a file it makes a text up |
| `Dns` | zones; the zone selected and the one whose records are shown | the loaders of the rendering that sent a call answer it; an answer that is no JSON, or none, leaves the list and the records shown before |
| `DnsAgent` | no page: the integration's switch, a zone's records at Cloudflare and the rows of the copy; the requests of any number of pages | a request changes (or lists) Cloudflare first and the copy after it, statement by statement, ids of rows are read earlier; each step may fail, Cloudflare may carry out what the agent gave up on, a restart cuts all off |
| `Cloudflare` | token, switch, the zone's mode; form, controls | `mount` tells controls from the ones before them, whose change may still be out; a change answered as failed may have been carried out, or will be |
| `DatabasesPage` | databases; list and dialogs | every change is followed by a fetch, a timer fetches besides |
| `ContainersPage` | containers tracked and running, folders and their links; the cards | `DragEnd` shows its outcome and sends one call or two; `Listing` sorts as `container-sort.ts` does |
| `ContainerDetails` | details, lines chosen and shown, auto-refresh | the three loads follow each other; `ChooseLines` asks for the number chosen before |
| `UpdateCard` | state file, stage of the job, whether the agent is up; card | `StatusLost` is taken for the restart; a question is answered with what was read when the agent got to it |
| `Certificates` | domains with a certificate, and whether they can be listed; list, busy name | one name is busy though several orders are out; each success fetches again; a listing is served at one time and shown at another, and one the agent could not read is served as an empty one |

The three compositions let a behaviour be the life of one page, chosen at the start;
the others stay as they begin.  That is what the dashboard does, and it lets one
run ask several questions.

## 3. Runs

`CHECK_DEADLOCK FALSE` in all but `network`: the clock and the budgets of requests and
faults are bounded, so every behaviour of a bounded instance comes to rest (in `Folders` also
because the agent really stops answering when the connection is lost).  No
constraint is used; bounds are guards (`Limit`, `MaxEvents`, `MaxTime`,
`MaxBackups`, `MaxFolders`, `MaxDepth`, and for each page the number of calls
outstanding at once: `MaxUserCalls`, `MaxServerCalls`, `MaxListings`, `MaxFileCalls`,
`MaxDbCalls`, `MaxBackupCalls`, `MaxInspections`, `MaxFormCalls`, `MaxEditCalls`,
`MaxDnsCalls`, `MaxRequests`, `MaxCfCalls`, `MaxListCalls`, `MaxContainerCalls`, `MaxDetailCalls`,
`MaxUpdateCalls`, `MaxCertCalls`).

| Run | Question | Instance |
|---|---|---|
| `backups` | Is the catalogue honest, and does clean-up keep away from unfinished and newest backups? `TypeOK`, `SuccessNamesAnArchive`, `OnlyFinishedAreCleanedUp`, `PruneSparesNewest` | 1 job, 1 site, ticks 0..2 with a slot every 2, retention 1, keep 1, archives may share a second; an export and an operator request |
| `backups_keep` | Do concurrent runs of one job leave the copies keep-last promises, does a job run once a slot, is every target tried? `KeepLastHonoured`, `OncePerSlot`, `EveryTargetTried` | 1 job, 2 targets, 2 slots, keep 1; one of run-now, restart, fault |
| `backups_live` | Do due jobs run, rows settle, downloads go away? `DueJobsRun`, `RunsSettle`, `DownloadsGoAway` | 1 interval job, 1 site, 2 ticks; any one event; `FairSpec` |
| `restore` | Is a restore atomic? `ReplacesAtomically` | 1 request at a time, two in a row, 3 entry names of which one is `.old`, 3 backups, 3 initial folders, one write in between, two faults; `FairSpec` |
| `restore_crash` | Can anything be lost? `RestoreTypeOK`, `StageIsPrivate`, `OriginalsRecoverable` | 2 overlapping requests (symmetric), 3 names, any operation may fail but `"look"`, a restart, a write |
| `folders` | Does the tree stay a tree with right depths and distinct positions, do filed containers keep their order? `FoldersTypeOK`, `Forest`, `DepthsAreRight`, `PositionsDiffer`, `PlacesDiffer`, `OthersKeepOrder` | 2 requests, 2 users, 4 folders (up to 3 created and one Default), 3 containers; four of create (3), move (2), delete, file (4), fault, restart; requests, users, containers symmetric; `Overlap = FALSE` |
| `actions` | Is what eight pages send about what they show, and do accounts stay sound? `SitesHaveOwners`, `SuperAdminRemains`, `LogsMatchTheirTitle`, `OneSiteEach`, `ActsOnWhatWasListed`, `SavesItsOwnText`, `UpdatesNameTheirTable`, `ExportsWithinRights`, `RestoresWhatItTold`, `ChangesOnlyWhatIsEdited`, `OwnSchedulesSurviveEditing` | 3 user ids and a site; 2 services; a container and 2 domains; a directory and 2 files; 2 tables; 3 backup files, one of them unusable; 2 schedules; two or three calls out |
| `network` | Do copies, editors and controls agree with what they stand for? `CleanEditorShowsTheFile`, `CopyAgrees`, `RecordsMatchTheirZone`, `ControlsShowTheMode` | 2 sites, with or without a file, and 2 texts, one of which the agent makes up; 2 zones, one of them added and deleted; 2 records, 3 numbers of rows and 3 requests about them; 2 modes; two or three calls out; records and rows symmetric |
| `pages_live` | Do the pages that poll end by showing what the agent has? `ListCatchesUp`, `CardsCatchUp`, `LogsFollowTheChoice`, `OutcomeIsShown`, `ListShowsTheCertificates` | a database; a container and 2 folders; 2 lengths of logs; a certificate and two calls about it; two or three calls out elsewhere; `LiveSpec` |
| `backups_stale`, `restore_undo`, `folders_cycle` | three disagreements of section 5 | the smallest instance that shows each |

Why these bounds.  Keep-last needs two backups of one target to remove one and two
goroutines to race: two slots or a slot and a run-now give both.  Retention needs a
row older than the cut-off: tick 0 seen from tick 2.  A second target is needed for
"one failing site must not stop the others".  A stale listing needs one foreign
step between listing and use, which one event supplies.  For the swap, two moved
entries already give every order of "one moved, one not" on both sides of a
failure; the third name is there because `.old` is special.  Two faults let the
undo fail after the swap did.  `MaxBackups` is above what the other bounds can
insert, so it never bites.  For folders, three besides a Default folder are enough
for a parent, a child and a sibling whose position closes a gap, and for a chain
longer than the two layers allowed; three filed containers are enough for one to
pass the two others.  `MaxDepth = 4` stops only the endless descent of `folders_cycle`.

On the pages an answer goes astray when another call is answered between its sending
and its arrival, so two calls out at once are the smallest case, and three where one
of them is the poll or the first link of a chain; two things to choose between
(zones, sites, tables, files, services) are the smallest case of taking one for the
other.  For the DNS copy, two records tell a missing row from a wrong one, three rows allow
one of them twice, and three requests are two that overlap and one Cloudflare still has.
With one certificate a listing of before and one of after are already two, and so are
one that could be read and one that could not; a second would only multiply the orders out at once.
For users, a third id is the heir who is deleted between the check and the
transaction.  The calls outstanding are bounded, not the calls made: every behaviour
goes on clicking for ever.

Together the passing runs take every action and disjunct.  Each property has a
mutant of the code it depends on (the operators whose comment begins "Mutant:"),
and is violated by it in its own run: a dropped status check, an off-by-one in the
count, a missing stamp, an error swallowed before the row's update, an undo that
leaves new entries, `MkdirAll` for `Mkdir`, foreign keys not enforced, an inspection left
in the dialog, a form that does not forget its edit, a poll that gives up, and so on.

`restore` lets every operation fail except three: a rename of the first loop and
the clearing and renaming of the undo.  For those the promise is false in the code: the
undo deletes what was not moved (section 5), and an undo that fails itself cannot
put back.  `OriginalsRecoverable`, which `restore_crash` checks, holds with those
failing as well, but not with *every* operation failing: when the listing before the safety copy
fails, `hasContents` takes the folder for an empty one (`restore.go:139`, `:300-303`), no copy is
made and the swap goes on, so that the originals are deleted.  `Check` has that
step under the name `"look"`, and `MCNoticed` leaves it out of `Faulty`; with it the property is
false.

### Fairness

`FairSpec` of `Backups`: the ticker fires and the scheduler's goroutine runs
(`scheduler.go:17-29` is an endless `select` over a ticker), goroutines that have
started go on (the Go scheduler is fair, and no model step waits for a lock or a
channel), and timers fire.  One condition for each goroutine's `Run(p)`, since one goroutine's
progress says nothing of another's.  Requests, faults and restarts are never
forced.  `FailArchive` and the error paths are choices inside `Run(p)`, so an
archive may always fail; the properties hold nevertheless.  `FairSpec` of `Restore`
is the same: a request's goroutine goes on.

`LiveFairness`: the intervals of the pages fire (`setInterval` of each page, weak
fairness of the poll); the agent answers well *again and again* (strong fairness of
serving, since a call it may serve can be refused in between and asked again); what it
answered arrives (weak fairness of delivery).  For the update card also: the agent
comes back (systemd restarts it), and the request the button waits for has an outcome,
good or bad.  No click, change by another administrator, refusal or end of a job is forced.
The three loads of a container's details are answered (`AnswersTheLoad`), for they are fetched
once and not polled.  A list of certificates is polled, served again and again and delivered
(`CertPolls`, `ServesStatus`, `DeliversStatus`), but that it can be read is no fairness: it is a
condition of the property.  The safety properties of `network` and `actions` assume no
fairness: an answer may stay away for ever.

### What the properties leave open, on purpose

`OncePerSlot` and `DueJobsRun` speak of what the scheduler reads (`last_run_at`);
a failed stamp may run a job twice (`begun` is reset).  `RunsSettle` and
`DownloadsGoAway` exclude restarts, after which the code really leaves the row
(`backups_stale`) and the download for ever.  `EveryTargetTried` excludes failing statements and
rows deleted by an operator meanwhile.  `KeepLastHonoured` is checked without
downloads and without two archives in one second; both break it: for downloads see
section 5, and two runs of a target in one second share one path, so that pruning
the older row removes the newest's file (`artifacts.go:72`, `cleanup.go:71`).
`DepthsAreRight` and `PositionsDiffer` speak of the table between transactions and,
with `Forest`, hold for requests that do not overlap: two creations at once do get
the same position (`store/folders.go:63-71`).  Where `Admins` is not empty, an
administrator may nest folders of different owners, and the check of the next move
lists only one owner's folders (`handlers/folders.go:128`); the runs have users only.
`PlacesDiffer` and `OthersKeepOrder` need no such restriction.

Many properties of the pages have a condition that reads a history field.

| Property | What it excepts |
|---|---|
| `LogsMatchTheirTitle` | the logs of two services were out at once; the last ones could not be loaded |
| `OneSiteEach` | a listing from before a claim was shown after it (`late`); the answer to a claim was lost |
| `ActsOnWhatWasListed` | the user moved on with a call outstanding; a listing failed |
| `SavesItsOwnText` | the user clicked on with a call outstanding |
| `UpdatesNameTheirTable` | a click during a load; a load that failed; a save answered during a load or after another table was chosen, which loads the old table again under the new title (`DatabaseEditPage.tsx:335`) (`hasty`) |
| `RestoresWhatItTold` | a backup was picked while the inspection of another was out (`hasty`) |
| `CleanEditorShowsTheFile` | the editor's load or last save went wrong (`refused`); and while a site has no file, the text is one the agent made up (`nginx_mgmt.go:115-124`) |
| `RecordsMatchTheirZone` | the last records asked for crossed with, or were, another zone's (`crossed`); the last answer about them was lost, and those shown before stay (`DnsPanel.tsx:52-54`, `missed`) |
| `CopyAgrees` | since a synchronisation ran alone, requests about the zone overlapped between their steps, one stopped or failed half-way or Cloudflare carried it out too late, or a record was deleted without asking Cloudflare (`doubt`) |
| `ControlsShowTheMode` | since the controls were shown, Cloudflare carried out a change that controls now hidden had sent, or one that was answered as failed (`unseen`) |

Without its condition each is false in the code, which has no guard against those answers, and
the condition often *is* the race a reader would ask about first.  What the property then says is
the discipline of use, or of the network, under which the page can be trusted, and that
nothing else breaks it: no dialog left open, late answer of another kind, or order of
clicks.  What such an answer does is in the models: the wrong text is in the editor,
the wrong records are shown.
`SitesHaveOwners`, `SuperAdminRemains`, `ExportsWithinRights`,
`ChangesOnlyWhatIsEdited` and the liveness of `DatabasesPage` need no such
condition.  `CardsCatchUp` and `LogsFollowTheChoice` may end in the error screen: once a listing,
or the details, could not be loaded, `error` is not cleared by the poll (`page.tsx`,
`ContainerPage.tsx:85-87,165`).  `ListShowsTheCertificates` asks that the agent be able to list
the certificates: one that cannot answers 200 with none (`ssl.go:230-234`).  A success of an
update is announced whatever version it brought; the code asks besides whether it is the
one it was looking for (`UpdateCard.tsx:135`).  `OutcomeIsShown` excepts a card that has taken an answer
from before the update for one about it.

## 4. Proofs

TLAPS, for every value of the constants allowed by the named assumptions of the
modules (`ConstantsAssumption`, `RestoreAssumption`, `UsersAssumption` and so on): any
number of jobs, targets, goroutines, requests, entries, folders, faults, restarts,
users, files, schedules, zones, tables and calls outstanding.  A theorem that needs
more than that says so in its `ASSUME`, and the reason is given below.

Every invariant and every action property of the passing runs is stated by a
theorem.  Hardly one of them is inductive: what an action does rests on what an
earlier one has read.  Each proof therefore has an invariant that says, place by
place, what a process or a call under way still knows.

**`BackupsProofs`.** `TypeCorrect`: `Spec => []TypeOK`.  `TypeOK` is not inductive:
what an action writes from `proc[p].row` or `.path` has its type only at the right `pc`, so `TypeInv` adds
`WellFormed` (a process that records has a row and a path, one that prunes has a
job).

- *The catalogue.*  `Frame` says which shared state a process's step cannot touch, and the
  theorems rest on `CatalogueInv`: every success row and every clean-up
  victim is in `finished`; every recorded path was published; a victim of keep-last
  has a finished witness at least as new.  From it follow
  `SuccessesAreArchives` (`[]SuccessNamesAnArchive`), `OnlyFinishedRemoved`
  (`[]OnlyFinishedAreCleanedUp`) and `NewestIsSpared` (`[]PruneSparesNewest`).  The
  last one is the interesting one: a row is in `Surplus` only if at least `keep > 0`
  others are ahead of it, so one of them exists; it *finished*, and having finished is never
  undone, so the witness survives every later deletion and every stale listing.
- *Once per slot.*  `JobsBeginOncePerSlot` is `OncePerSlot`, with no assumption.  The
  scheduler decides on `last_run_at` as it was when it listed the jobs.  `SlotInv`: what
  it listed is no older than the job's last begin; a live job's stamp is no older
  either, unless the scheduler is running it; a job is listed once.  Run-now goroutines
  stamp too, but only forward.
- *Every target.*  `EveryTargetIsTried` is `EveryTargetTried`.  `RunTried`: whatever is no
  longer in the scheduler's `todo` is in its hands or has a settled row at least as new as the begin.
  That this row stays needs `RowsInv`: a row in the hands of a goroutine is
  in progress, so no clean-up can list it; a finished row is lost to keep-last only,
  and then it is *overtaken*, that is, as many as keep-last keeps were ahead of it in
  what has finished.  Of a set of
  rows of one target the newest is not overtaken, so one stays.
- *Keep-last keeps.*  `KeepLastKeeps` is `[]KeepLastHonoured`.  Counting what is left
  would need an induction over the deletions; instead the proof counts once, at the end.  `FilesKept`: a finished
  backup has its file, or it is overtaken.  Suppose one has lost file or row.  The
  newest of those that have, the leader of the lost, is overtaken, and everything ahead of it is still
  there, file and row, so there are `keep` copies.  If none is lost, all `n` are there.
  `NamesApart` is what makes files of rows: archives under way and finished ones never
  share a name.

`JobsOnly`, assumed by the last two, says that there are no downloads and no age limit
beside the jobs.  Both are needed.  A download counts for keep-last, pushes a kept row
out and then expires (section 5).  Retention deletes by age, and a run that takes longer than that loses
the rows of its first targets.
`KeepLastKeeps` also excludes requests of an operator, who may delete what he likes, and
two archives of one target in one second, which share a file (section 3); and it needs a job to
speak of.  Faults, restarts, concurrent runs of one job and stale listings are all in.

**`RestoreProofs`.** `RestoreTypeCorrect`: `Spec => []RestoreTypeOK`.
`StagesArePrivate`: `Spec => []StageIsPrivate` for any number of overlapping
requests, from `StageInv` (a request that has a staging folder finds it in place,
and no other request works at that second; `Mkdir` refuses the second comer).
`OriginalsAreRecoverable`: `Spec => []OriginalsRecoverable` under four assumptions
stated in the theorem: entries are readable, the listing before the safety copy does not
fail, safety copies carry different seconds, and the site does not write during a restore.
The code guarantees none of them.  Without either of the first two the property is
false (section 5); the other two are limits of what the safety copy can
promise.  Its invariant `RecoverInv` says of each running
request that an original is in a safety copy, or in the part of the copy already
made, or untouched where it was, because nothing is moved before *some* request's copy is
complete (`SavedFirst`).

`RestoreIsAtomic` is the refinement: the initial states of `Restore` are initial states of
`AtomicReplace`, and every step maps to one of its steps or to a stutter.
With WF it is `ReplacesAtomically`, which the run checks.  `InPlace` says of each `pc`
and each *entry* where it is: in the first loop an entry is moved aside or still
where it was; in the second an entry of the backup is placed or still in the staging
folder, and nothing else lies in the site's; in the undo an old entry is back or still aside.
So every step but the last leaves `Promised` alone, an `ok` finds the folder equal to the
backup, and a `failed` finds it as it was.  `Undisturbed` assumes what section 3 says of the
run: requests do not overlap, the site does not write during a restore, no restart, and no
failure of a rename in the first loop or in the undo.  Without each of them a half-done swap can be
seen, and for the renames the code is at fault (`restore_undo`).

**`FoldersProofs`.** With any requests overlapping, administrators, failures and restarts:
`FoldersTypeCorrect`, `PlacesAlwaysDiffer` (`[]PlacesDiffer`) and `OthersAlwaysKeepOrder`
(`OthersKeepOrder`).  That no depth or position becomes negative
needs two facts: a request in the transaction knows the row it moves
(`WellFormed`), and the parent of every row is a row, in the table and in the one to
roll back to (`ParentsExist`: an insert or move under a folder that is gone is
refused, and a deletion takes the sub-folders along, `GoneWithChildren`).  Positions
of containers stay apart because closing a gap and making way are injective on
the others and miss the place that is taken (`WithoutDiffers`, `MakeWayKeepsApart`), and
both are monotone, which keeps the order.

For requests that do not overlap and users without a role, `FoldersFormATree` (`[]Forest`),
`DepthsAreAlwaysRight` (`[]DepthsAreRight`) and `FoldersKeepApart`
(`[]PositionsDiffer`), from `ShapeInv`.  One request at a time creates or moves
(`OneSerial`), beside any that delete or file.  What it has read still holds when it
writes (`MoveHolds`, `PlaceHolds`): the new parent is another folder and lies at the top,
because the check lets nothing go deeper than 1, and so cannot lie below the folder that
moves; the depth is the parent's plus 1; the position is beyond all siblings.  Deletions
by others only shrink the table, which disturbs none of this.  During the
transaction the table is wrong, but only so far (`Descends`): depths directly below the
folders of `todo`, and nobody at the place the folder left, so that closing the gap keeps
the siblings apart.  The table to roll back to satisfies everything.
`~Overlap` is needed: `folders_cycle` shows the cycle.  `Admins = {}` is needed as well:
an administrator may move a folder under another user's, whose own parents the
check does not list (`handlers/folders.go:128`).

**`UsersProofs`.** `ChecksStillHold`: `UsersSpec => []UsersInv`.  Neither property is inductive,
because a deletion acts on what its check read.  `UsersInv` says what every checked
deletion still guarantees when it acts: it is not of the super administrator (whom
nobody manages and nobody becomes), and its heir is not the user himself (nobody
manages himself, since ids are not used again).  From it `EverySiteHasAnOwner`
(`[]SitesHaveOwners`) and `TheSuperAdminStays` (`[]SuperAdminRemains`).

**`BackupPagesProofs`.** *The backups page*, `OffersWithinRights`: `[]PageInv`: the page takes nobody for
an administrator who is none, in the form and in every chain under way; the target
shown is of the type shown; and a user without rights who still sees the type "site"
has nothing to choose.  `ExportsStayWithinRights` is `[]ExportsWithinRights`.

*The restore tab*, `OneRestoreAtATime`: `[]TabInv`: there is one restore and its
dialog stays; unless the user was hasty, the inspection shown and those on their way
are of the file picked.  The second part needs that a file is picked only when no
other's inspection is out, which is what `hasty` records.  `WhatIsToldIsRestored` is
`[]RestoresWhatItTold`.

*The schedule form*, `TheFormIsForWhatWasAsked`: `[]FormInv`: an open form edits
the job the user asked to edit or none, and untouched it shows that job's schedule as
`ParseFrequency` reads it, also after the list was loaded again under it.
`OnlyEditsChange` is `[]ChangesOnlyWhatIsEdited`; `EditingLeavesSchedules` is
`[]OwnSchedulesSurviveEditing` and rests on `RoundTrip`: what `FrequencyText` wrote,
with copies to keep, comes back from `ParseFrequency` as it was.

**`ServerPagesProofs`.** *The server page*, `LogCallsNameTheTarget`: `[]ServerInv`: until
logs of two services are out at once, every call for logs is for the service the panel
names, whether a click, the timer or the chain of an action sent it.
`LogsAlwaysMatchTheirTitle` is `[]LogsMatchTheirTitle`.  An action that was sent
while one panel was open asks for that panel's logs when it ends; that this is harmless rests on the
same invariant, and no restriction on several actions out at once is needed.

*All containers*, `NoSiteIsClaimed`: `[]AllInv`: while no listing from before a claim was
shown after it, the rows shown, the claim form and the claim that is out are of
containers without a site, and one claim is out at most.  `OneSiteEachAlways` is `[]OneSiteEach`.

**`EditingProofs`.** *The file browser*, `FilesStayTogether`: `[]FilesInv`: until the user moves
on with a call out, every call is about the directory he is in, and so is the listing
once none is loading; one file at most is being read, the selected one, and an open
editor has that file's text.  `AlwaysActsOnWhatWasListed` and `AlwaysSavesItsOwnText` are
`[]ActsOnWhatWasListed` and `[]SavesItsOwnText`.

*The row editor*, `RowsBelongToTheirTable`: `[]DbInv`: until a click during a load, a load
that failed, or a save answered during a load or after another table was chosen, the loads under way are of the selected table, and with none under way so are the
rows shown and the row being edited.  `UpdatesAlwaysNameTheirTable` is `[]UpdatesNameTheirTable`.

**`NetworkPagesProofs`.** *nginx*, `OriginalsAreTheFiles`: `[]EditorInv`: as long as no load or
save of it went wrong, an editor's original is the site's file, or while there is none a text
the agent makes up; a save in flight does not disturb this because its answer sets both.
`CleanEditorsShowTheFile` is `[]CleanEditorShowsTheFile`.

*The DNS panel*, `PanelHoldsTogether`: `[]DnsInv`: on the records tab, until records
cross or an answer is lost, the records on their way are of the zone selected, and with
none on their way so are those shown.  A record created or deleted reloads the zone of the rendering
that sent the call; that this is harmless rests on `crossed` looking at what is asked for.
`RecordsAlwaysMatchTheirZone` is `[]RecordsMatchTheirZone`.

*The agent's copy*, `AgentHoldsTogether`: `[]AgentInv`.  Requests overlap at every step, so
the invariant says what *one* of them knows: a request that has begun with no other between its
steps, and was not disturbed since, is `alone`, and there is one at most.  `Knows` says
how far copy and Cloudflare are apart in the middle of it: by the record it created and has not
stored, by the one it deleted and has not dropped, by the part of its listing not stored yet.
While such a request runs on an undoubted copy, that difference is all there is (`Midway`);
with none under way they agree (`Agrees`).  So its last step closes the gap exactly, and the
last step of a synchronisation does so whatever the gap was before it, which is why it alone
ends a `doubt`.  Rows are told apart because numbers are not used again (migration 008,
AUTOINCREMENT) and Cloudflare's names because it makes a new one for each record.
`CopyAlwaysAgrees` is `[]CopyAgrees`.

*SSL controls*, `ControlsKnowTheMode`: `[]ControlsInv`: as long as nothing was carried out
unseen, the controls show the zone's mode until their own change is carried out, of which there is
one at most, and then that change carries it; a mode that was read and has not arrived yet is the zone's.
`ControlsAlwaysShowTheMode` is `[]ControlsShowTheMode`.

**The compositions.**  The theorems above speak of each page's own specification, the runs
`actions` and `network` of the compositions.  `EachPageRunsByItself` and
`EachSectionRunsByItself` close the gap: a behaviour of the composition is one
of each part.

### Only model-checked

The liveness properties, which are out of this prover's reach: `DueJobsRun`,
`RunsSettle`, `DownloadsGoAway`, `ListCatchesUp`, `CardsCatchUp`, `LogsFollowTheChoice`,
`OutcomeIsShown`, `ListShowsTheCertificates`, and the fairness of `ReplacesAtomically`
(that every request is answered in the end).  The three disagreements of section 5
are shown by TLC on the smallest instance.

## 5. Where code and promise part

| Run | Promise | What the code does |
|---|---|---|
| `backups_stale` | `progress.go:11-12`: a stale row "is failed at startup" | nothing at start-up touches `backups`; the row stays `in_progress` |
| `restore_undo` | `restore.go:117-119`: the old contents are put back; answer "nothing was changed" | when a rename of the first loop fails, the undo deletes what was not moved yet |
| `folders_cycle` | `handlers/folders.go:539`: "cannot create circular folder reference" | two crossing moves are both checked before either is made; the second closes a cycle and its depth update goes round in it, keeping the only connection |

Read in the code while modelling it, and told here without a run:

- Keep-last counts downloads, which delete themselves after an hour (`cleanup.go:62-70`,
  `handlers/backups.go:151-160`), though it should "keep only the 7 newest backups of
  each site" (`schedule.go:16`).
- Entries that cannot be read are skipped in the safety copy with a warning nobody
  looks at (`archive.go:136-139`, `restore.go:145`), then moved and deleted, though
  "What was there before was saved first" (`handlers/backups_restore.go:130`);
  `Restore` shows it with `Unreadable` not empty.
- "what is in siteDir now is backed up to safetyDir" (`restore.go:116`): a folder whose listing
  fails counts as empty (`:139`, `:300-303`), so the restore takes no copy at all, goes on and deletes
  what was there.  `Restore` shows it with `"look"` in `Faulty`.
- A request about a DNS record that Cloudflare carries out after its 20 seconds
  (`cloudflare/client.go:34`) is answered as failed; the copy is changed only after
  Cloudflare, so an error between the two leaves them apart (`dns.go:249-253`, `:352-355`); a
  synchronisation ignores the errors of its own statements (`:431`, `:443`), two at
  once store every row twice, and one gives all rows new numbers, so that a deletion asked for before
  it finds nothing.  The next synchronisation that runs alone repairs all of it.
- A failing fetch of a zone's records is swallowed, and the former zone's stay under the
  new name (`DnsPanel.tsx:52-54`).
- The agent that can list no certificates says 200 and "none" (`ssl.go:230-234`), and without its
  listing of sites likewise (`:44`).
- The nginx editor shows a text no file holds when a site has no file, with nothing to tell
  it from one that was read (`nginx_mgmt.go:115-124`); only the list has a mark.
- A save of a row reloads the table that was open when it was sent, under the title of the one open
  now (`DatabaseEditPage.tsx:335`).
- "maximum nesting depth is 2 layers" (`handlers/folders.go:544`): the check adds the
  moved folder's own depth (`:548`), not its children's, so a root folder with a
  sub-folder may be put into another root folder.
- "All of them (never delete)" (`AddBackupJobModal.tsx:382`): a schedule without a
  number of copies is read back as keeping 7 (`ParseFrequency`), so editing a job that
  kept everything makes it delete.  `OwnSchedulesSurviveEditing` excepts that case.
- "in the folder's own (manual) order" (`container-sort.ts:3-5`): the agent lists a
  folder's containers in Docker's order (`handlers/containers.go:188-207`), so a
  container dragged to another place goes back at the next fetch.
- `"<service>:<action>" of the action currently running, if any` (`ServiceCard.tsx:28`):
  the page clears the one busy name when *any* action ends.
- "details of the table you're looking at" (`DatabaseContextPanel.tsx:39-40`): the right sidebar
  keeps the row count of another table when its rows arrive after a new choice.
- A sub-folder's Delete button does nothing: `FolderSection.tsx:234-246` does not hand
  `onDeleteFolder` down.

## 6. Not modelled

Archive, dump and manifest contents (tar, gzip, hashes): an archive either verifies
or not.  Calendar arithmetic: slots are every `Period` ticks.  Several destinations
and the deletion or re-pointing of one; changing a job's schedule text, targets or
retention while it runs (its enabled flag, deletion and creation are modelled).
Sub-folders and permissions in a restore.  The folders of a deleted user and the table of
untracked containers as `Folders` would see it.  In the pages: wording and layout, toasts,
filters and searches that only hide rows, statistics that are only shown, the
contents of rows, files and logs beyond where they came from, which weekday or time
of day a schedule names, what a DNS record says and changing it, and changes at Cloudflare
by others; what new certificates and new sites write into nginx's files.  Creating, relocating and deleting sites with their roll-backs; the
certificate queue and manager; upstream sync; log-in.  Components marked "no" in section 1.

## 7. Plan

In order; each step brings its module, runs, mutants and theorems.

1. Done: `Backups`, `Restore`, `AtomicReplace`, `Folders`, `DnsAgent`, the sixteen pages and
   their three compositions, with the proofs of section 4.
2. Proofs: the type invariants and the safety facts behind the liveness properties of `LivePages`
   (what a listing on its way may still overwrite); `EveryTargetIsTried` with downloads
   beside the jobs, for jobs that keep everything.
3. `AutoCert`: queue file, back-off, give-up, restart; liveness "every queued domain
   is settled"; theorem: attempts and next-try times are bounded.
4. `Schedule`: `ParseSchedule`, `Next`, `slotAtOrBefore` as operators over real
   weekdays, against a reference definition; then `Due` of `Backups` as an instance of
   it.
5. `UpstreamSync`: remembered ports against nginx, with failing repairs.
6. `SiteLifecycle`: create, relocate, delete over row, folder and container, with
   roll-back; the abstract specification is "a site is all there or not at all".
7. `LoginLimiter`, `CertStore`: small modules.  The agent's side of an update (its
   note, its staleness rule) as a specification `UpdateCard` is composed with.
8. Extend `Backups` with destinations and job edits.
