------------------------------ MODULE Backups ------------------------------
(***************************************************************************)
(* The backup subsystem of the DockLite agent: the job table and its       *)
(* scheduler, "run now" goroutines, export requests, the archive files and *)
(* the catalogue rows that describe them, keep-last and retention clean-up,*)
(* download timers, the operator's delete requests and agent restarts.     *)
(*                                                                         *)
(* The SQLite handle has one connection (store/sqlite.go:25), so a         *)
(* statement is one atomic step; everything between two statements or file *)
(* operations can interleave with every other goroutine.  Archive writing, *)
(* hashing and the manifest's text are abstracted: an archive is its path. *)
(***************************************************************************)
EXTENDS Integers, FiniteSets

CONSTANTS
  Scheduler,      \* the goroutine of StartScheduler
  Triggers,       \* goroutines of "run now" requests
  Exports,        \* in-flight export requests
  Admins,         \* in-flight delete / clean-up requests
  Job,            \* backup jobs
  Target,         \* sites and databases
  JobTargets,     \* [Job -> SUBSET Target], what ListSites/TargetID give the job
  Keep,           \* [Job -> Nat], ";keep=N" of the schedule text, 0 = no limit
  Retention,      \* [Job -> Nat], retention_days in ticks, 0 = none
  AtClock,        \* [Job -> BOOLEAN], TRUE for a schedule with a time of day
  Period,         \* ticks between two slots, and the interval of the others
  Days,           \* retention_days a request may carry
  Expiry,         \* ticks a finished download stays (time.Hour)
  None,           \* SQL NULL, the empty path, "no such value"
  SameSecond,     \* BOOLEAN: may two archives of a target carry the same second?
  MaxTime,        \* bound: the clock stops here
  MaxBackups,     \* bound: rows ever inserted
  Limit,          \* bound: how many triggers, exports, ops, restarts, faults
  MaxEvents       \* bound: how many of those in all

Proc == {Scheduler} \cup Triggers \cup Exports \cup Admins
Time == 0 .. MaxTime
Never == -1
Id == 1 .. MaxBackups
Dir == {"kept", "downloads"}
Path == [dir : Dir, target : Target, stamp : Time]
Budget == {"trigger", "export", "op", "restart", "fault"}

ASSUME ConstantsAssumption ==
  /\ JobTargets \in [Job -> SUBSET Target]
  /\ Keep \in [Job -> Nat] /\ Retention \in [Job -> Nat]
  /\ AtClock \in [Job -> BOOLEAN]
  /\ Period \in Nat \ {0} /\ Expiry \in Nat /\ Days \subseteq Nat
  /\ MaxTime \in Nat /\ MaxBackups \in Nat
  /\ SameSecond \in BOOLEAN
  /\ Limit \in [Budget -> Nat] /\ MaxEvents \in Nat
  /\ None \notin Job \cup Target \cup Path
  /\ Scheduler \notin Triggers \cup Exports \cup Admins
  /\ Triggers \cap Exports = {} /\ Triggers \cap Admins = {}
  /\ Exports \cap Admins = {}

VARIABLES
  now,        \* the clock, in ticks; file names and created_at carry it
  jobs,       \* backup_jobs
  dest,       \* is the local row of backup_destinations enabled?
  backup,     \* backups: [Id -> Row], NoRow where there is no row
  nextId,     \* AUTOINCREMENT
  files,      \* finished archives on disk
  partial,    \* <base>/_tmp/<file>.partial
  timers,     \* pending time.AfterFunc calls of finished downloads
  queue,      \* the scheduler's listing of enabled jobs still to look at
  proc,       \* what each goroutine is doing
  removed,    \* history: paths somebody called os.Remove on
  finished,   \* history: rows that reached "success"
  begun,      \* history: when the scheduler last began each job's run
  used        \* how much of each Limit is spent

db    == <<jobs, dest, backup, nextId>>
disk  == <<files, partial>>
hist  == <<removed, finished, begun>>
vars  == <<now, db, disk, timers, queue, proc, hist, used>>

JobRow == [state : {"new", "live", "gone"}, enabled : BOOLEAN, lastRun : Time \cup {Never}]
Status == {"none", "in_progress", "success", "failed"}
Row == [status : Status, target : Target \cup {None},
        path : Path \cup {None}, created : Time]
NoRow == [status |-> "none", target |-> None, path |-> None, created |-> 0]
Victim == [id : Id, path : Path \cup {None}, created : Time]
NoVictim == [id |-> 0, path |-> None, created |-> 0]
Timer == [id : Id, path : Path, at : Nat, fired : BOOLEAN]

PC == {"idle", "next", "write", "publish", "record", "record_failed",
       "prune", "retain", "remove", "unlist", "clear"}
Process == [pc : PC,
            kind : {"none", "job", "local", "download", "delete"},
            mode : {"none", "prune", "retain"},
            job : Job \cup {None},
            todo : SUBSET Target,
            target : Target \cup {None},
            row : Id \cup {0},
            path : Path \cup {None},
            days : Nat,
            victims : SUBSET Victim,
            victim : Victim \cup {NoVictim}]
Idle == [pc |-> "idle", kind |-> "none", mode |-> "none", job |-> None,
         todo |-> {}, target |-> None, row |-> 0, path |-> None, days |-> 0,
         victims |-> {}, victim |-> NoVictim]

-----------------------------------------------------------------------------
(* Helpers *)

\* slotAtOrBefore: the latest scheduled time that is not after t.
Slot(t) == t - (t % Period)

\* Schedule.Due
Due(j, last, t) ==
  \/ last = Never
  \/ AtClock[j] /\ last < Slot(t)
  \/ ~AtClock[j] /\ t - last >= Period

Live(j) == jobs[j].state = "live"
Rows == {i \in Id : backup[i].status # "none"}
\* Mutant: not looking at the status.
CountUnfinished(t) == {i \in Rows : backup[i].target = t}
\* Mutant: failed backups count as well.
CountFailures(t) ==
  {i \in Rows : backup[i].status # "in_progress" /\ backup[i].target = t}
Successes(t) == {i \in Rows : backup[i].status = "success" /\ backup[i].target = t}

\* ListOldBackups: successful rows created before the cut-off.
OldBackups(days) ==
  {i \in Rows : backup[i].status = "success" /\ backup[i].created < now - days}

AsVictim(i) == [id |-> i, path |-> backup[i].path, created |-> backup[i].created]

\* Mutant: the request's delivery is taken for the directory.
DirIsDelivery(kind) == kind
\* Where a run of this kind puts its archive (subDir).
DirOf(kind) == IF kind = "download" THEN "downloads" ELSE "kept"
TempOf(path) == <<path.target, path.stamp>>

\* executeBackupJob goes on with the next of its targets.
NextTarget(q) == [Idle EXCEPT !.pc = "next", !.kind = "job", !.job = q.job, !.todo = q.todo]

Step(p, q) == proc' = [proc EXCEPT ![p] = q]
Events == used["trigger"] + used["export"] + used["op"] + used["restart"] + used["fault"]
Spend(b) ==
  /\ used[b] < Limit[b] /\ Events < MaxEvents
  /\ used' = [used EXCEPT ![b] = @ + 1]

\* A statement or file operation that may fail: it works, or spends a fault.
Works == UNCHANGED used
Breaks == Spend("fault")

\* UPDATE ... WHERE id = i: no effect when the row is gone.
Update(i, row) ==
  backup' = IF backup[i].status = "none" THEN backup ELSE [backup EXCEPT ![i] = row]
DeleteRow(i) == backup' = IF i \in Id THEN [backup EXCEPT ![i] = NoRow] ELSE backup

\* Mutant: only the manifest is removed.
ManifestOnly(path) ==
  /\ files' = files
  /\ removed' = IF path = None THEN removed ELSE removed \cup {path}
\* RemoveBackupArtifacts: os.Remove, errors ignored, nothing for an empty path.
RemoveArtifacts(path) ==
  /\ files' = files \ {path}
  /\ removed' = IF path = None THEN removed ELSE removed \cup {path}

\* CreateBackup: INSERT of an in_progress row with the next id.
Insert(t) ==
  /\ nextId \in Id
  /\ backup' = [backup EXCEPT ![nextId] =
                 [status |-> "in_progress", target |-> t, path |-> None, created |-> now]]
  /\ nextId' = nextId + 1

-----------------------------------------------------------------------------
Init ==
  /\ now = 0
  /\ jobs \in [Job -> {[state |-> s, enabled |-> TRUE, lastRun |-> Never] :
                            s \in {"new", "live"}}]
  /\ dest = TRUE
  /\ backup = [i \in Id |-> NoRow]
  /\ nextId = 1
  /\ files = {} /\ partial = {}
  /\ timers = {} /\ queue = {}
  /\ proc = [p \in Proc |-> Idle]
  /\ removed = {} /\ finished = {}
  /\ begun = [j \in Job |-> Never]
  /\ used = [b \in Budget |-> 0]

Tick ==
  /\ now < MaxTime
  /\ now' = now + 1
  /\ UNCHANGED <<db, disk, timers, queue, proc, hist, used>>

-----------------------------------------------------------------------------
(* The scheduler goroutine and run-now goroutines *)

\* Mutant: last_run_at does not parse and counts as never.
WakeUnparsed ==
  /\ proc[Scheduler].pc = "idle" /\ queue = {}
  /\ queue' = {[job |-> j, last |-> Never] : j \in {k \in Job : Live(k) /\ jobs[k].enabled}}
  /\ UNCHANGED <<now, db, disk, timers, proc, hist, used>>
\* checkAndRunJobs lists the enabled jobs once; the rest of the pass works on
\* that listing, however old it gets.  With nothing left of the listing the
\* goroutine sleeps until the ticker wakes it.
Wake ==
  /\ proc[Scheduler].pc = "idle" /\ queue = {}
  /\ queue' = {[job |-> j, last |-> jobs[j].lastRun] :
                 j \in {k \in Job : Live(k) /\ jobs[k].enabled}}
  /\ UNCHANGED <<now, db, disk, timers, proc, hist, used>>

\* A listed job that is not due, or whose destination is off or gone, or for
\* which a read fails: the pass goes on without touching its last_run_at.
SkipJob ==
  /\ proc[Scheduler].pc = "idle"
  /\ \E e \in queue :
       /\ \/ (~Due(e.job, e.last, now) \/ ~dest) /\ Works
          \/ Due(e.job, e.last, now) /\ Breaks
       /\ queue' = queue \ {e}
  /\ UNCHANGED <<now, db, disk, timers, proc, hist>>

BeginJob ==
  /\ proc[Scheduler].pc = "idle"
  /\ \E e \in queue :
       /\ Due(e.job, e.last, now) /\ dest
       /\ queue' = queue \ {e}
       /\ Step(Scheduler, [Idle EXCEPT !.pc = "next", !.kind = "job",
                             !.job = e.job, !.todo = JobTargets[e.job]])
       /\ begun' = [begun EXCEPT ![e.job] = now]
  /\ UNCHANGED <<now, db, disk, timers, removed, finished, used>>

\* BackupTrigger starts a goroutine that runs the job whether it is due or not,
\* enabled or not, and whoever else is running it.
TriggerJob(p) ==
  /\ proc[p].pc = "idle" /\ dest /\ Spend("trigger")
  /\ \E j \in Job :
       /\ Live(j)
       /\ Step(p, [Idle EXCEPT !.pc = "next", !.kind = "job",
                     !.job = j, !.todo = JobTargets[j]])
  /\ UNCHANGED <<now, db, disk, timers, queue, hist>>

\* One round of executeBackupJob's loop: insert the target's row.  The insert
\* fails when the job is gone (foreign key) or the statement does.
BackUpTarget(p) ==
  /\ proc[p].pc = "next"
  /\ \E t \in proc[p].todo :
       LET rest == [proc[p] EXCEPT !.todo = @ \ {t}]
       IN  \/ /\ Live(proc[p].job) /\ Works
              /\ Insert(t)
              /\ Step(p, [rest EXCEPT !.pc = "write", !.target = t, !.row = nextId])
           \/ /\ IF Live(proc[p].job) THEN Breaks ELSE Works
              /\ Step(p, rest)
              /\ UNCHANGED <<backup, nextId>>
  /\ UNCHANGED <<now, jobs, dest, disk, timers, queue, hist>>

\* Mutant: last_run_at is not stamped.
LeaveStamp(p) ==
  /\ proc[p].pc = "next" /\ proc[p].todo = {}
  /\ Step(p, Idle)
  /\ UNCHANGED <<now, db, disk, timers, queue, hist, used>>
\* Every target was tried: UpdateBackupJobRunTime stamps the job.
StampJob(p) ==
  /\ proc[p].pc = "next" /\ proc[p].todo = {}
  /\ Step(p, Idle)
  /\ LET j == proc[p].job
     IN  \/ /\ Works
            /\ jobs' = IF Live(j) THEN [jobs EXCEPT ![j].lastRun = now] ELSE jobs
            /\ UNCHANGED begun
         \/ /\ Breaks
            /\ begun' = [begun EXCEPT ![j] = Never]
            /\ UNCHANGED jobs
  /\ UNCHANGED <<now, dest, backup, nextId, disk, timers, queue, removed, finished>>

-----------------------------------------------------------------------------
(* Export requests *)

\* BackupExport: ensureLocalDestination (which does not look at the enabled
\* flag), then the in_progress row.
Export(p) ==
  /\ proc[p].pc = "idle" /\ Spend("export")
  /\ \E t \in Target, kind \in {"local", "download"}, d \in Days \cup {0} :
       /\ kind = "download" => d = 0
       /\ Insert(t)
       /\ Step(p, [Idle EXCEPT !.pc = "write", !.kind = kind, !.target = t,
                     !.row = nextId, !.days = d])
  /\ UNCHANGED <<now, jobs, dest, disk, timers, queue, hist>>

-----------------------------------------------------------------------------
(* Making one archive: CreateSiteBackup and CreateDatabaseExportOfType *)

\* Archives of one target are told apart by the second in their name only.
Fresh(t) ==
  /\ <<t, now>> \notin partial
  /\ \A f \in files \cup removed : <<f.target, f.stamp>> # <<t, now>>

WriteArchive(p) ==
  /\ proc[p].pc = "write"
  /\ LET t == proc[p].target
         path == [dir |-> DirOf(proc[p].kind), target |-> t, stamp |-> now]
     IN  /\ SameSecond \/ Fresh(t)
         /\ partial' = partial \cup {TempOf(path)}
         /\ Step(p, [proc[p] EXCEPT !.pc = "publish", !.path = path])
  /\ UNCHANGED <<now, db, files, timers, queue, hist, used>>

\* Mutant: the archive's error is dropped.
SwallowError(p) ==
  /\ proc[p].pc \in {"write", "publish"}
  /\ partial' = IF proc[p].pc = "publish" THEN partial \ {TempOf(proc[p].path)} ELSE partial
  /\ Step(p, [proc[p] EXCEPT !.pc = "record"])
  /\ UNCHANGED <<now, db, files, timers, queue, hist, used>>
\* The target is gone, the archive cannot be written, or what was written does
\* not verify: the temporary file is deleted.
FailArchive(p) ==
  /\ proc[p].pc \in {"write", "publish"}
  /\ partial' = IF proc[p].pc = "publish" THEN partial \ {TempOf(proc[p].path)} ELSE partial
  /\ Step(p, [proc[p] EXCEPT !.pc = "record_failed"])
  /\ UNCHANGED <<now, db, files, timers, queue, hist, used>>

\* Verified, renamed to its final name, then the manifest is written; when the
\* manifest cannot be, the run is a failure and the archive stays behind.
Publish(p) ==
  /\ proc[p].pc = "publish" /\ TempOf(proc[p].path) \in partial
  /\ partial' = partial \ {TempOf(proc[p].path)}
  /\ files' = files \cup {proc[p].path}
  /\ \/ Works /\ Step(p, [proc[p] EXCEPT !.pc = "record"])
     \/ Breaks /\ Step(p, [proc[p] EXCEPT !.pc = "record_failed"])
  /\ UNCHANGED <<now, db, timers, queue, hist>>

\* What follows the row's update: keep-last and retention for a job's target,
\* retention for a local export, nothing for a download.
AfterRecord(p) ==
  LET q == proc[p]
      days == IF q.kind = "job" THEN Retention[q.job] ELSE q.days
      pc == IF q.kind = "job" /\ Keep[q.job] > 0 THEN "prune"
            ELSE IF days > 0 THEN "retain"
            ELSE "next"
  IN  IF pc # "next" THEN [q EXCEPT !.pc = pc, !.days = days]
      ELSE IF q.kind = "job" THEN NextTarget(q) ELSE Idle

RecordSuccess(p) ==
  /\ proc[p].pc = "record"
  /\ LET q == proc[p]
         i == q.row
     IN  /\ \/ /\ Works
               /\ Update(i, [backup[i] EXCEPT !.status = "success", !.path = q.path])
               /\ finished' = IF backup[i].status = "none" THEN finished
                              ELSE finished \cup {[id |-> i, path |-> q.path,
                                                   created |-> backup[i].created]}
            \/ /\ Breaks
               /\ UNCHANGED <<backup, finished>>
         /\ timers' = IF q.kind = "download"
                      THEN timers \cup {[id |-> i, path |-> q.path,
                                         at |-> now + Expiry, fired |-> FALSE]}
                      ELSE timers
  /\ Step(p, AfterRecord(p))
  /\ UNCHANGED <<now, jobs, dest, nextId, disk, queue, removed, begun>>

\* Mutant: the error is returned before the row is updated.
ReturnEarly(p) ==
  /\ proc[p].pc = "record_failed"
  /\ Step(p, IF proc[p].kind = "job" THEN NextTarget(proc[p]) ELSE Idle)
  /\ UNCHANGED <<now, db, disk, timers, queue, hist, used>>
RecordFailure(p) ==
  /\ proc[p].pc = "record_failed"
  /\ LET i == proc[p].row
     IN  \/ Works /\ Update(i, [backup[i] EXCEPT !.status = "failed"])
         \/ Breaks /\ UNCHANGED backup
  /\ Step(p, IF proc[p].kind = "job" THEN NextTarget(proc[p]) ELSE Idle)
  /\ UNCHANGED <<now, jobs, dest, nextId, disk, timers, queue, hist>>

-----------------------------------------------------------------------------
(* Clean-up after a successful backup *)

\* ORDER BY created_at DESC.  created_at has a resolution of a second; SQLite
\* leaves equal rows in rowid order.
Newer(u, v) == u.created > v.created \/ (u.created = v.created /\ u.id < v.id)

\* Mutant: off by one.
OneTooMany(t, n) ==
  {AsVictim(i) : i \in {k \in Successes(t) :
     Cardinality({m \in Successes(t) : Newer(AsVictim(m), AsVictim(k))}) >= n - 1}}
\* What keep-last has no room for: the rows of the target with n newer ones.
Surplus(t, n) ==
  {AsVictim(i) : i \in {k \in Successes(t) :
     Cardinality({m \in Successes(t) : Newer(AsVictim(m), AsVictim(k))}) >= n}}

\* pruneKeepLast lists the target's successful rows, download rows included.
PruneList(p) ==
  /\ proc[p].pc = "prune"
  /\ \/ /\ Works
        /\ Step(p, [proc[p] EXCEPT !.pc = "remove", !.mode = "prune",
                      !.victims = Surplus(proc[p].target, Keep[proc[p].job])])
     \/ /\ Breaks
        /\ Step(p, [proc[p] EXCEPT !.pc = "remove", !.mode = "prune"])
  /\ UNCHANGED <<now, db, disk, timers, queue, hist>>

\* cleanupOldBackups, and the same loop at the end of a local export: every old
\* successful row of the destination, whichever target it belongs to.
RetainList(p) ==
  /\ proc[p].pc = "retain"
  /\ \/ /\ Works
        /\ Step(p, [proc[p] EXCEPT !.pc = "remove", !.mode = "retain",
                      !.victims = {AsVictim(i) : i \in OldBackups(proc[p].days)}])
     \/ /\ Breaks
        /\ Step(p, [proc[p] EXCEPT !.pc = "remove", !.mode = "retain"])
  /\ UNCHANGED <<now, db, disk, timers, queue, hist>>

\* One round of a clean-up loop: the file first, then the row.  A keep-last
\* listing is walked newest first.
RemoveFile(p) ==
  /\ proc[p].pc = "remove"
  /\ \E v \in proc[p].victims :
       /\ proc[p].mode = "prune" => \A u \in proc[p].victims \ {v} : Newer(v, u)
       /\ RemoveArtifacts(v.path)
       /\ Step(p, [proc[p] EXCEPT !.pc = "unlist", !.victim = v, !.victims = @ \ {v}])
  /\ UNCHANGED <<now, db, partial, timers, queue, finished, begun, used>>

RemoveRow(p) ==
  /\ proc[p].pc = "unlist"
  /\ \/ Works /\ DeleteRow(proc[p].victim.id)
     \/ Breaks /\ UNCHANGED backup
  /\ Step(p, [proc[p] EXCEPT !.pc = "remove", !.victim = NoVictim])
  /\ UNCHANGED <<now, jobs, dest, nextId, disk, timers, queue, hist>>

RemoveDone(p) ==
  /\ proc[p].pc = "remove" /\ proc[p].victims = {}
  /\ LET q == proc[p]
     IN  Step(p, IF q.kind # "job" THEN Idle
                 ELSE IF q.mode = "prune" /\ q.days > 0
                      THEN [q EXCEPT !.pc = "retain", !.mode = "none"]
                 ELSE NextTarget(q))
  /\ UNCHANGED <<now, db, disk, timers, queue, hist, used>>

\* The time.AfterFunc of a finished download, an hour later: file, then row.
ExpireFile ==
  /\ \E t \in timers :
       /\ ~t.fired /\ now >= t.at
       /\ RemoveArtifacts(t.path)
       /\ timers' = (timers \ {t}) \cup {[t EXCEPT !.fired = TRUE]}
  /\ UNCHANGED <<now, db, partial, queue, proc, finished, begun, used>>

ExpireRow ==
  /\ \E t \in timers :
       /\ t.fired
       /\ \/ Works /\ DeleteRow(t.id)
          \/ Breaks /\ UNCHANGED backup
       /\ timers' = timers \ {t}
  /\ UNCHANGED <<now, jobs, dest, nextId, disk, queue, proc, hist>>

-----------------------------------------------------------------------------
(* Operator requests *)

\* deleteBackup of one row, or cleanupBackups: read the rows, then remove.
DeleteRequest(p) ==
  /\ proc[p].pc = "idle" /\ Spend("op")
  /\ \E ids \in {{i} : i \in Rows} \cup {OldBackups(d) : d \in Days \ {0}} :
       Step(p, [Idle EXCEPT !.pc = "remove", !.kind = "delete",
                  !.victims = {AsVictim(i) : i \in ids}])
  /\ UNCHANGED <<now, db, disk, timers, queue, hist>>

\* BackupHistory: list the rows, remove their files one by one ...
ClearRequest(p) ==
  /\ proc[p].pc = "idle" /\ Spend("op")
  /\ Step(p, [Idle EXCEPT !.pc = "clear", !.kind = "delete",
                !.victims = {AsVictim(i) : i \in {k \in Rows : backup[k].path # None}}])
  /\ UNCHANGED <<now, db, disk, timers, queue, hist>>

ClearFile(p) ==
  /\ proc[p].pc = "clear"
  /\ \E v \in proc[p].victims :
       /\ RemoveArtifacts(v.path)
       /\ Step(p, [proc[p] EXCEPT !.victims = @ \ {v}])
  /\ UNCHANGED <<now, db, partial, timers, queue, finished, begun, used>>

\* ... then DELETE FROM backups, which takes every row there is by then.
ClearRows(p) ==
  /\ proc[p].pc = "clear" /\ proc[p].victims = {}
  /\ \/ Works /\ backup' = [i \in Id |-> NoRow]
     \/ Breaks /\ UNCHANGED backup
  /\ Step(p, Idle)
  /\ UNCHANGED <<now, jobs, dest, nextId, disk, timers, queue, hist>>

\* LocalBackups DELETE: the file goes, its row stays.
DeleteLocalFile ==
  /\ Spend("op")
  /\ \E f \in files : RemoveArtifacts(f)
  /\ UNCHANGED <<now, db, partial, timers, queue, proc, finished, begun>>

\* BackupJobs PUT (the enabled flag), DELETE and POST.
EditJob ==
  /\ Spend("op")
  /\ \E j \in Job :
       \/ Live(j) /\ jobs' = [jobs EXCEPT ![j].enabled = ~@]
       \/ Live(j) /\ jobs' = [jobs EXCEPT ![j].state = "gone"]
       \/ jobs[j].state = "new" /\ jobs' = [jobs EXCEPT ![j].state = "live"]
  /\ UNCHANGED <<now, dest, backup, nextId, disk, timers, queue, proc, hist>>

\* BackupDestinations PUT (the enabled flag).
EditDestination ==
  /\ Spend("op")
  /\ dest' = ~dest
  /\ UNCHANGED <<now, jobs, backup, nextId, disk, timers, queue, proc, hist>>

-----------------------------------------------------------------------------
\* The agent stops and starts: goroutines, requests and timers are gone, the
\* database and the disk are as they were, and nothing looks at them again.
Restart ==
  /\ Spend("restart")
  /\ proc' = [p \in Proc |-> Idle]
  /\ queue' = {} /\ timers' = {}
  /\ begun' = [j \in Job |-> Never]
  /\ UNCHANGED <<now, db, disk, removed, finished>>

-----------------------------------------------------------------------------
Schedule == Wake \/ SkipJob \/ BeginJob

Run(p) ==
  \/ BackUpTarget(p) \/ StampJob(p)
  \/ WriteArchive(p) \/ FailArchive(p) \/ Publish(p)
  \/ RecordSuccess(p) \/ RecordFailure(p)
  \/ PruneList(p) \/ RetainList(p)
  \/ RemoveFile(p) \/ RemoveRow(p) \/ RemoveDone(p)
  \/ ClearFile(p) \/ ClearRows(p)

Expire == ExpireFile \/ ExpireRow

Operate ==
  \/ \E p \in Triggers : TriggerJob(p)
  \/ \E p \in Exports : Export(p)
  \/ \E p \in Admins : DeleteRequest(p) \/ ClearRequest(p)
  \/ DeleteLocalFile \/ EditJob \/ EditDestination

Next ==
  \/ Tick
  \/ Schedule
  \/ \E p \in Proc : Run(p)
  \/ Expire
  \/ Operate
  \/ Restart

\* Goroutines that are running keep running, the ticker keeps ticking and
\* timers fire; nobody has to send a request or restart the agent.
Fairness ==
  /\ WF_vars(Tick) /\ WF_vars(Schedule) /\ WF_vars(Expire)
  /\ \A p \in Proc : WF_vars(Run(p))

Spec == Init /\ [][Next]_vars
FairSpec == Spec /\ Fairness

-----------------------------------------------------------------------------
(* Every variable keeps its type: rows, processes, timers and paths are the  *)
(* records the code's structs and tables hold.                               *)
TypeOK ==
  /\ now \in Time
  /\ jobs \in [Job -> JobRow]
  /\ dest \in BOOLEAN
  /\ backup \in [Id -> Row]
  /\ nextId \in 1 .. (MaxBackups + 1)
  /\ files \subseteq Path /\ partial \subseteq Target \X Time
  /\ timers \subseteq Timer
  /\ queue \subseteq [job : Job, last : Time \cup {Never}]
  /\ proc \in [Proc -> Process]
  /\ removed \subseteq Path
  /\ finished \subseteq [id : Id, path : Path, created : Time]
  /\ begun \in [Job -> Time \cup {Never}]
  /\ used \in [Budget -> Nat]

-----------------------------------------------------------------------------
(* Safety *)

\* What a goroutine's clean-up loop still holds, the row in hand included.
Victims(p) == (proc[p].victims \cup {proc[p].victim}) \ {NoVictim}

\* A row says "success" only for an archive that was verified and renamed to
\* its final name; it can be missing from the disk only because some clean-up,
\* timer or operator removed that very path (backup/artifacts.go:94-104).
SuccessNamesAnArchive ==
  \A i \in Id : backup[i].status = "success" => backup[i].path \in files \cup removed

\* "Only backups that finished are counted and removed" (backup/cleanup.go:53):
\* whatever a run or an export cleans up once reached "success".
OnlyFinishedAreCleanedUp ==
  \A p \in Proc \ Admins : \A v \in Victims(p) : \E f \in finished : f.id = v.id

\* "The newest is never touched" (backup/cleanup.go:53): whatever keep-last is
\* about to remove, however stale its listing, another backup of the same
\* target finished that is at least as new.
PruneSparesNewest ==
  \A p \in Proc : proc[p].mode = "prune" =>
    \A v \in Victims(p) :
      \E f \in finished : /\ f.id # v.id /\ f.path.target = proc[p].target
                          /\ f.created >= v.created

\* Copies of a target meant to stay that can be restored from their row.
Copies(t) ==
  {i \in Successes(t) : backup[i].path \in files /\ backup[i].path.dir = "kept"}

\* "Keep only the N newest" keeps N (backup/schedule.go:16): once n backups of
\* a target finished, min(n, N) of them are still there, whatever the scheduler
\* and run-now goroutines do to each other and wherever the agent is stopped.
KeepLastHonoured ==
  \A t \in Target :
    LET n == Cardinality({f \in finished : f.path.target = t /\ f.path.dir = "kept"})
    IN  \E j \in Job : \/ Cardinality(Copies(t)) >= Keep[j]
                       \/ Cardinality(Copies(t)) >= n

\* A job's row says in_progress only while a goroutine works on it: "if the
\* agent restarts mid-backup the run is gone, and the stale database record is
\* failed at startup" (backup/progress.go:11-12).
NoStaleRow ==
  \A i \in Id : backup[i].status = "in_progress" =>
    \E p \in Proc : proc[p].row = i /\ proc[p].pc \in {"write", "publish", "record", "record_failed"}

-----------------------------------------------------------------------------
(* Action properties *)

\* The scheduler runs a job once per slot (or interval), whether its targets
\* succeed or fail: "the failure is recorded on its backup row, and the
\* schedule moves on" (backup/scheduler.go:117-118).  Only a restart or a
\* failed UPDATE of last_run_at makes it run the job again.
OncePerSlot ==
  [][\A j \in Job :
       /\ proc[Scheduler].pc = "idle"
       /\ proc'[Scheduler].pc = "next" /\ proc'[Scheduler].job = j
       => Due(j, begun[j], now)]_vars

\* "One failing site must not stop the others from being backed up ... every
\* target is tried" (backup/scheduler.go:117-118): when the scheduler stamps a
\* job, each of its targets has a finished or failed row from this run on.
EveryTargetTried ==
  [][\A j \in Job :
       /\ proc[Scheduler].pc = "next" /\ proc[Scheduler].job = j
       /\ proc'[Scheduler].pc = "idle" /\ begun'[j] # Never
       => \A t \in JobTargets[j] :
            \/ \E i \in Rows : /\ backup[i].target = t
                              /\ backup[i].status \in {"success", "failed"}
                              /\ backup[i].created >= begun[j]
            \/ used["fault"] + used["op"] > 0]_vars

-----------------------------------------------------------------------------
(* Liveness *)

Pending(j) == Live(j) /\ jobs[j].enabled /\ dest /\ Due(j, jobs[j].lastRun, now)

\* An enabled job that is due gets its run and its last_run_at stamped, also
\* after the agent was stopped at its hour (backup/schedule.go:122-123).
DueJobsRun == \A j \in Job : Pending(j) ~> ~Pending(j)

\* Every backup that is started ends as a success, a failure or a deleted row,
\* unless the agent restarts or an UPDATE fails meanwhile.
RunsSettle ==
  \A i \in Id : backup[i].status = "in_progress"
                ~> (backup[i].status # "in_progress" \/ used["restart"] + used["fault"] > 0)

\* A finished download is off the disk again after its hour, unless the agent
\* restarts and the timer is lost (handlers/backups.go:157-160), or the bounded
\* clock stops before.
DownloadsGoAway ==
  \A f \in Path : (\E t \in timers : t.path = f /\ t.at <= MaxTime)
                  ~> (f \notin files \/ used["restart"] > 0)
=============================================================================
