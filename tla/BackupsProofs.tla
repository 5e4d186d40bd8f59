--------------------------- MODULE BackupsProofs ---------------------------
(***************************************************************************)
(* Proofs about Backups for every number of goroutines, jobs, targets and  *)
(* rows, every schedule and every bound: types first, then what the        *)
(* catalogue says about the disk and what clean-up may touch, then how     *)
(* often a job begins, and, for jobs left to themselves, that each of      *)
(* their targets is tried and that keep-last keeps what it promises.       *)
(***************************************************************************)
EXTENDS Backups, FiniteSetTheorems, TLAPS

-----------------------------------------------------------------------------
(* Types *)

Making == {"write", "publish", "record", "record_failed"}

\* What the pc of a goroutine says about its other locals.
WellFormed(q) ==
  /\ q.kind = "job" => q.job \in Job
  /\ q.pc \in {"next", "prune"} => q.kind = "job"
  /\ q.pc \in Making => q.row \in Id
  /\ q.pc \in Making \cup {"prune"} => q.target \in Target
  /\ q.pc \in {"publish", "record"} => q.path \in Path

TypeInv == TypeOK /\ \A p \in Proc : WellFormed(proc[p])

LEMMA IdleIsAProcess == Idle \in Process /\ WellFormed(Idle)
  BY DEF Idle, Process, PC, WellFormed, Making, NoVictim

\* Changing one goroutine's locals to a well-formed record keeps the others'.
LEMMA StepKeepsProc ==
  ASSUME TypeInv, NEW p \in Proc, NEW q \in Process, WellFormed(q), Step(p, q)
  PROVE  proc' \in [Proc -> Process] /\ \A r \in Proc : WellFormed(proc'[r])
  BY DEF TypeInv, TypeOK, Step

LEMMA SpendKeepsUsed ==
  ASSUME TypeInv, NEW b \in Budget, Spend(b)
  PROVE  used' \in [Budget -> Nat]
  BY DEF TypeInv, TypeOK, Spend

LEMMA InitTypes == Init => TypeInv
  <1> SUFFICES ASSUME Init PROVE TypeInv
    OBVIOUS
  <1>1. jobs \in [Job -> JobRow]
    <2> DEFINE First == {[state |-> s, enabled |-> TRUE, lastRun |-> Never] :
                            s \in {"new", "live"}}
    <2>1. First \subseteq JobRow
      <3> SUFFICES ASSUME NEW s \in {"new", "live"}
                   PROVE  [state |-> s, enabled |-> TRUE, lastRun |-> Never] \in JobRow
        OBVIOUS
      <3> QED
        BY DEF JobRow
    <2>2. jobs \in [Job -> First]
      BY DEF Init
    <2> HIDE DEF First
    <2> QED
      BY <2>1, <2>2
  <1>2. backup \in [Id -> Row]
    BY ConstantsAssumption DEF Init, Row, NoRow, Status, Time
  <1>3. proc \in [Proc -> Process] /\ \A p \in Proc : WellFormed(proc[p])
    BY IdleIsAProcess DEF Init
  <1>4. now \in Time /\ nextId \in 1 .. (MaxBackups + 1)
    BY ConstantsAssumption DEF Init, Time
  <1>5. begun \in [Job -> Time \cup {Never}] /\ used \in [Budget -> Nat]
    BY DEF Init
  <1> QED
    BY <1>1, <1>2, <1>3, <1>4, <1>5 DEF TypeInv, TypeOK, Init

(* One lemma per group of actions: each names the locals the step leaves. *)

LEMMA SchedulerTypes == TypeInv /\ (Tick \/ Schedule) => TypeInv'
  <1> SUFFICES ASSUME TypeInv, Tick \/ Schedule PROVE TypeInv'
    OBVIOUS
  <1> USE DEF db, disk, hist
  <1>1. CASE Tick
    BY <1>1, ConstantsAssumption DEF Tick, TypeInv, TypeOK, Time
  <1>2. CASE Wake
    <2>1. queue' \subseteq [job : Job, last : Time \cup {Never}]
      BY <1>2 DEF Wake, TypeInv, TypeOK, JobRow
    <2> QED
      BY <1>2, <2>1 DEF Wake, TypeInv, TypeOK
  <1>3. CASE SkipJob
    <2>1. used' \in [Budget -> Nat]
      BY <1>3, SpendKeepsUsed DEF SkipJob, Works, Breaks, TypeInv, TypeOK, Budget
    <2> QED
      BY <1>3, <2>1 DEF SkipJob, TypeInv, TypeOK
  <1>4. CASE BeginJob
    <2>1. PICK e \in queue :
            /\ queue' = queue \ {e}
            /\ Step(Scheduler, [Idle EXCEPT !.pc = "next", !.kind = "job",
                                 !.job = e.job, !.todo = JobTargets[e.job]])
            /\ begun' = [begun EXCEPT ![e.job] = now]
      BY <1>4 DEF BeginJob
    <2>2. e.job \in Job /\ JobTargets[e.job] \in SUBSET Target
      BY ConstantsAssumption DEF TypeInv, TypeOK
    <2> DEFINE q == [Idle EXCEPT !.pc = "next", !.kind = "job",
                       !.job = e.job, !.todo = JobTargets[e.job]]
    <2>3. q \in Process /\ WellFormed(q)
      BY <2>2 DEF Idle, Process, PC, WellFormed, Making, NoVictim
    <2>4. proc' \in [Proc -> Process] /\ \A r \in Proc : WellFormed(proc'[r])
      BY <2>1, <2>3, StepKeepsProc DEF Proc
    <2> QED
      BY <1>4, <2>1, <2>2, <2>4 DEF BeginJob, TypeInv, TypeOK
  <1> QED
    BY <1>1, <1>2, <1>3, <1>4 DEF Schedule

LEMMA TriggerTypes ==
  ASSUME TypeInv, NEW p \in Proc, TriggerJob(p)
  PROVE  TypeInv'
  <1> USE DEF db, disk, hist
  <1>1. PICK j \in Job :
          Step(p, [Idle EXCEPT !.pc = "next", !.kind = "job",
                     !.job = j, !.todo = JobTargets[j]])
    BY DEF TriggerJob
  <1> DEFINE q == [Idle EXCEPT !.pc = "next", !.kind = "job",
                     !.job = j, !.todo = JobTargets[j]]
  <1>2. q \in Process /\ WellFormed(q)
    BY ConstantsAssumption DEF Idle, Process, PC, WellFormed, Making, NoVictim
  <1>3. proc' \in [Proc -> Process] /\ \A r \in Proc : WellFormed(proc'[r])
    BY <1>1, <1>2, StepKeepsProc
  <1>4. used' \in [Budget -> Nat]
    BY SpendKeepsUsed DEF TriggerJob, Budget
  <1> QED
    BY <1>3, <1>4 DEF TriggerJob, TypeInv, TypeOK

\* A fault or not, the budgets stay natural numbers.
LEMMA FaultKeepsUsed ==
  ASSUME TypeInv, Works \/ Breaks
  PROVE  used' \in [Budget -> Nat]
  BY SpendKeepsUsed DEF Works, Breaks, TypeInv, TypeOK, Budget

LEMMA InsertTypes ==
  ASSUME TypeInv, NEW t \in Target, Insert(t)
  PROVE  backup' \in [Id -> Row] /\ nextId' \in 1 .. (MaxBackups + 1) /\ nextId \in Id
  BY ConstantsAssumption DEF TypeInv, TypeOK, Insert, Row, Status, Id

LEMMA BackUpTargetTypes ==
  ASSUME TypeInv, NEW p \in Proc, BackUpTarget(p)
  PROVE  TypeInv'
  <1> USE DEF disk, hist
  <1>1. proc[p] \in Process /\ WellFormed(proc[p])
    BY DEF TypeInv, TypeOK
  <1>2. PICK t \in proc[p].todo :
          \/ /\ Works /\ Insert(t)
             /\ Step(p, [proc[p] EXCEPT !.todo = @ \ {t}, !.pc = "write",
                                        !.target = t, !.row = nextId])
          \/ /\ Works \/ Breaks
             /\ Step(p, [proc[p] EXCEPT !.todo = @ \ {t}])
             /\ UNCHANGED <<backup, nextId>>
    BY DEF BackUpTarget
  <1>3. t \in Target
    BY <1>1 DEF Process
  <1>4. used' \in [Budget -> Nat]
    BY <1>2, FaultKeepsUsed
  <1>5. CASE Insert(t) /\ Step(p, [proc[p] EXCEPT !.todo = @ \ {t}, !.pc = "write",
                                        !.target = t, !.row = nextId])
    <2> DEFINE q == [proc[p] EXCEPT !.todo = @ \ {t}, !.pc = "write",
                                    !.target = t, !.row = nextId]
    <2>1. backup' \in [Id -> Row] /\ nextId' \in 1 .. (MaxBackups + 1) /\ nextId \in Id
      BY <1>3, <1>5, InsertTypes
    <2>2. q \in Process /\ WellFormed(q)
      BY <1>1, <1>3, <2>1 DEF Process, PC, WellFormed, Making
    <2>3. proc' \in [Proc -> Process] /\ \A r \in Proc : WellFormed(proc'[r])
      BY <1>5, <2>2, StepKeepsProc
    <2> QED
      BY <1>4, <2>1, <2>3 DEF BackUpTarget, TypeInv, TypeOK
  <1>6. CASE UNCHANGED <<backup, nextId>> /\ Step(p, [proc[p] EXCEPT !.todo = @ \ {t}])
    <2> DEFINE q == [proc[p] EXCEPT !.todo = @ \ {t}]
    <2>1. q \in Process /\ WellFormed(q)
      BY <1>1 DEF Process, WellFormed
    <2>2. proc' \in [Proc -> Process] /\ \A r \in Proc : WellFormed(proc'[r])
      BY <1>6, <2>1, StepKeepsProc
    <2> QED
      BY <1>4, <1>6, <2>2 DEF BackUpTarget, TypeInv, TypeOK
  <1> QED
    BY <1>2, <1>5, <1>6

LEMMA StampJobTypes ==
  ASSUME TypeInv, NEW p \in Proc, StampJob(p)
  PROVE  TypeInv'
  <1> USE DEF disk
  <1>1. proc' \in [Proc -> Process] /\ \A r \in Proc : WellFormed(proc'[r])
    BY IdleIsAProcess, StepKeepsProc DEF StampJob
  <1>2. used' \in [Budget -> Nat]
    BY FaultKeepsUsed DEF StampJob
  <1>3. jobs' \in [Job -> JobRow]
    BY DEF StampJob, TypeInv, TypeOK, JobRow
  <1>4. begun' \in [Job -> Time \cup {Never}]
    BY DEF StampJob, TypeInv, TypeOK
  <1> QED
    BY <1>1, <1>2, <1>3, <1>4 DEF StampJob, TypeInv, TypeOK

LEMMA ExportTypes ==
  ASSUME TypeInv, NEW p \in Proc, Export(p)
  PROVE  TypeInv'
  <1> USE DEF disk, hist
  <1>1. PICK t \in Target, kind \in {"local", "download"}, d \in Days \cup {0} :
          /\ Insert(t)
          /\ Step(p, [Idle EXCEPT !.pc = "write", !.kind = kind, !.target = t,
                                  !.row = nextId, !.days = d])
    BY DEF Export
  <1> DEFINE q == [Idle EXCEPT !.pc = "write", !.kind = kind, !.target = t,
                               !.row = nextId, !.days = d]
  <1>2. backup' \in [Id -> Row] /\ nextId' \in 1 .. (MaxBackups + 1) /\ nextId \in Id
    BY <1>1, InsertTypes
  <1>3. q \in Process /\ WellFormed(q)
    <2>1. d \in Nat /\ nextId \in Id
      BY <1>2, ConstantsAssumption
    <2>2. q \in Process
      BY <2>1 DEF Idle, Process, PC, NoVictim
    <2> QED
      BY <2>1, <2>2 DEF Idle, WellFormed, Making
  <1>4. proc' \in [Proc -> Process] /\ \A r \in Proc : WellFormed(proc'[r])
    BY <1>1, <1>3, StepKeepsProc
  <1>5. used' \in [Budget -> Nat]
    BY SpendKeepsUsed DEF Export, Budget
  <1> QED
    BY <1>2, <1>4, <1>5 DEF Export, TypeInv, TypeOK

LEMMA ArchiveTypes ==
  ASSUME TypeInv, NEW p \in Proc, WriteArchive(p) \/ FailArchive(p) \/ Publish(p)
  PROVE  TypeInv'
  <1> USE DEF db, hist
  <1>1. proc[p] \in Process /\ WellFormed(proc[p])
    BY DEF TypeInv, TypeOK
  <1>2. CASE WriteArchive(p)
    <2> DEFINE path == [dir |-> DirOf(proc[p].kind), target |-> proc[p].target, stamp |-> now]
               q == [proc[p] EXCEPT !.pc = "publish", !.path = path]
    <2>1. path \in Path /\ TempOf(path) \in Target \X Time
      BY <1>1, <1>2 DEF WriteArchive, WellFormed, Making, Path, Dir, DirOf, TempOf, TypeInv, TypeOK
    <2>2. q \in Process /\ WellFormed(q)
      <3> HIDE DEF path
      <3> QED
        BY <1>1, <1>2, <2>1 DEF WriteArchive, Process, PC, WellFormed, Making
    <2>3. Step(p, q) /\ partial' = partial \cup {TempOf(path)}
      BY <1>2 DEF WriteArchive
    <2>4. proc' \in [Proc -> Process] /\ \A r \in Proc : WellFormed(proc'[r])
      BY <2>2, <2>3, StepKeepsProc
    <2> QED
      BY <1>2, <2>1, <2>3, <2>4 DEF WriteArchive, TypeInv, TypeOK
  <1>3. CASE FailArchive(p)
    <2> DEFINE q == [proc[p] EXCEPT !.pc = "record_failed"]
    <2>1. q \in Process /\ WellFormed(q)
      BY <1>1, <1>3 DEF FailArchive, Process, PC, WellFormed, Making
    <2>2. proc' \in [Proc -> Process] /\ \A r \in Proc : WellFormed(proc'[r])
      BY <1>3, <2>1, StepKeepsProc DEF FailArchive
    <2> QED
      BY <1>3, <2>2 DEF FailArchive, TypeInv, TypeOK
  <1>4. CASE Publish(p)
    <2> DEFINE q(pc) == [proc[p] EXCEPT !.pc = pc]
    <2>1. \A pc \in {"record", "record_failed"} : q(pc) \in Process /\ WellFormed(q(pc))
      BY <1>1, <1>4 DEF Publish, Process, PC, WellFormed, Making
    <2>2. PICK pc \in {"record", "record_failed"} : Step(p, q(pc)) /\ (Works \/ Breaks)
      BY <1>4 DEF Publish
    <2>3. proc' \in [Proc -> Process] /\ \A r \in Proc : WellFormed(proc'[r])
      <3> HIDE DEF q
      <3> QED
        BY <2>1, <2>2, StepKeepsProc
    <2>4. used' \in [Budget -> Nat]
      BY <2>2, FaultKeepsUsed
    <2>5. files' \subseteq Path
      BY <1>1, <1>4 DEF Publish, WellFormed, TypeInv, TypeOK
    <2> QED
      BY <1>4, <2>3, <2>4, <2>5 DEF Publish, TypeInv, TypeOK
  <1> QED
    BY <1>2, <1>3, <1>4

\* Where a run goes after its row is settled.
LEMMA NextIsTyped ==
  ASSUME NEW q \in Process, WellFormed(q)
  PROVE  /\ q.kind = "job" => NextTarget(q) \in Process /\ WellFormed(NextTarget(q))
  <1>1. SUFFICES ASSUME q.kind = "job"
                 PROVE  NextTarget(q) \in Process /\ WellFormed(NextTarget(q))
    OBVIOUS
  <1>2. q.job \in Job /\ q.todo \in SUBSET Target
    BY <1>1 DEF WellFormed, Process
  <1> QED
    <2> DEFINE j == q.job
               rest == q.todo
    <2>1. NextTarget(q) = [Idle EXCEPT !.pc = "next", !.kind = "job", !.job = j, !.todo = rest]
      BY DEF NextTarget
    <2>2. j \in Job /\ rest \in SUBSET Target
      BY <1>2
    <2> HIDE DEF j, rest
    <2>3. [Idle EXCEPT !.pc = "next", !.kind = "job", !.job = j, !.todo = rest] \in Process
      BY <2>2 DEF Idle, Process, PC, NoVictim
    <2> QED
      BY <2>1, <2>2, <2>3 DEF Idle, WellFormed, Making

LEMMA UpdateTypes ==
  ASSUME TypeInv, NEW i \in Id, NEW row \in Row, Update(i, row)
  PROVE  backup' \in [Id -> Row]
  BY DEF TypeInv, TypeOK, Update

LEMMA RecordFailureTypes ==
  ASSUME TypeInv, NEW p \in Proc, RecordFailure(p)
  PROVE  TypeInv'
  <1> USE DEF disk, hist
  <1>1. proc[p] \in Process /\ WellFormed(proc[p])
    BY DEF TypeInv, TypeOK
  <1>2. proc[p].row \in Id
    BY <1>1 DEF RecordFailure, WellFormed, Making
  <1>3. backup' \in [Id -> Row]
    <2>1. [backup[proc[p].row] EXCEPT !.status = "failed"] \in Row
      BY <1>2 DEF TypeInv, TypeOK, Row, Status
    <2> QED
      BY <1>2, <2>1, UpdateTypes DEF RecordFailure, TypeInv, TypeOK
  <1>4. used' \in [Budget -> Nat]
    BY FaultKeepsUsed DEF RecordFailure
  <1>5. proc' \in [Proc -> Process] /\ \A r \in Proc : WellFormed(proc'[r])
    BY <1>1, NextIsTyped, IdleIsAProcess, StepKeepsProc DEF RecordFailure
  <1> QED
    BY <1>3, <1>4, <1>5 DEF RecordFailure, TypeInv, TypeOK

LEMMA AfterRecordTypes ==
  ASSUME TypeInv, NEW p \in Proc, proc[p].pc \in Making
  PROVE  AfterRecord(p) \in Process /\ WellFormed(AfterRecord(p))
  <1> DEFINE q == proc[p]
             days == IF q.kind = "job" THEN Retention[q.job] ELSE q.days
  <1>1. q \in Process /\ WellFormed(q)
    BY DEF TypeInv, TypeOK
  <1>2. days \in Nat
    BY <1>1, ConstantsAssumption DEF WellFormed, Process
  <1>3. CASE q.kind = "job" /\ Keep[q.job] > 0
    <2>1. AfterRecord(p) = [q EXCEPT !.pc = "prune", !.days = days]
      BY <1>3 DEF AfterRecord
    <2> HIDE DEF days
    <2> QED
      BY <1>1, <1>2, <1>3, <2>1 DEF Process, PC, WellFormed, Making
  <1>4. CASE ~(q.kind = "job" /\ Keep[q.job] > 0) /\ days > 0
    <2>1. AfterRecord(p) = [q EXCEPT !.pc = "retain", !.days = days]
      BY <1>4 DEF AfterRecord
    <2> HIDE DEF days
    <2> QED
      BY <1>1, <1>2, <2>1 DEF Process, PC, WellFormed, Making
  <1>5. CASE ~(q.kind = "job" /\ Keep[q.job] > 0) /\ ~(days > 0)
    <2>1. AfterRecord(p) = IF q.kind = "job" THEN NextTarget(q) ELSE Idle
      BY <1>5 DEF AfterRecord
    <2> QED
      BY <1>1, <2>1, NextIsTyped, IdleIsAProcess
  <1> QED
    BY <1>3, <1>4, <1>5

LEMMA RecordSuccessTypes ==
  ASSUME TypeInv, NEW p \in Proc, RecordSuccess(p)
  PROVE  TypeInv'
  <1> USE DEF disk
  <1> DEFINE q == proc[p]
             i == q.row
  <1>1. i \in Id /\ q.path \in Path
    BY DEF RecordSuccess, WellFormed, Making, TypeInv
  <1>2. backup' \in [Id -> Row]
    <2> DEFINE path == q.path
               old == backup[i]
    <2>1. old \in Row /\ path \in Path
      BY <1>1 DEF TypeInv, TypeOK
    <2>2. [old EXCEPT !.status = "success", !.path = path] \in Row
      <3> HIDE DEF old, path
      <3> QED
        BY <2>1 DEF Row, Status
    <2> QED
      BY <1>1, <2>2, UpdateTypes DEF RecordSuccess, TypeInv, TypeOK
  <1>3. finished' \subseteq [id : Id, path : Path, created : Time]
    <2>1. backup[i].created \in Time
      BY <1>1 DEF TypeInv, TypeOK, Row
    <2> QED
      BY <1>1, <2>1 DEF RecordSuccess, TypeInv, TypeOK
  <1>4. timers' \subseteq Timer
    <2>1. now + Expiry \in Nat
      BY ConstantsAssumption DEF TypeInv, TypeOK, Time
    <2>2. [id |-> i, path |-> q.path, at |-> now + Expiry, fired |-> FALSE] \in Timer
      BY <1>1, <2>1 DEF Timer
    <2> QED
      BY <2>2 DEF RecordSuccess, TypeInv, TypeOK
  <1>5. used' \in [Budget -> Nat]
    BY FaultKeepsUsed DEF RecordSuccess
  <1>6. proc' \in [Proc -> Process] /\ \A r \in Proc : WellFormed(proc'[r])
    BY AfterRecordTypes, StepKeepsProc DEF RecordSuccess, Making
  <1> QED
    BY <1>2, <1>3, <1>4, <1>5, <1>6 DEF RecordSuccess, TypeInv, TypeOK

\* Rows that are listed for removal are victims.
LEMMA VictimsAreTyped ==
  ASSUME TypeInv, NEW S \in SUBSET Rows
  PROVE  {AsVictim(i) : i \in S} \in SUBSET Victim
  BY DEF TypeInv, TypeOK, Rows, Row, AsVictim, Victim

LEMMA ListTypes ==
  ASSUME TypeInv, NEW p \in Proc, PruneList(p) \/ RetainList(p)
  PROVE  TypeInv'
  <1> USE DEF db, disk, hist
  <1> DEFINE Locals(mode, S) == [proc[p] EXCEPT !.pc = "remove", !.mode = mode, !.victims = S]
             Quiet(mode) == [proc[p] EXCEPT !.pc = "remove", !.mode = mode]
  <1>1. proc[p] \in Process /\ WellFormed(proc[p])
    BY DEF TypeInv, TypeOK
  <1>2. \A mode \in {"prune", "retain"}, S \in SUBSET Victim :
          Locals(mode, S) \in Process /\ WellFormed(Locals(mode, S))
    <2> SUFFICES ASSUME NEW mode \in {"prune", "retain"}, NEW S \in SUBSET Victim
                 PROVE  Locals(mode, S) \in Process /\ WellFormed(Locals(mode, S))
      OBVIOUS
    <2>1. Locals(mode, S) \in Process
      BY <1>1 DEF Process, PC
    <2>2. WellFormed(Locals(mode, S))
      BY <1>1 DEF Process, WellFormed, Making
    <2> QED
      BY <2>1, <2>2
  <1>3. \A mode \in {"prune", "retain"} : Quiet(mode) \in Process /\ WellFormed(Quiet(mode))
    BY <1>1 DEF Process, PC, WellFormed, Making
  <1>4. \E mode \in {"prune", "retain"} :
          \/ \E S \in SUBSET Victim : Step(p, Locals(mode, S))
          \/ Step(p, Quiet(mode))
    <2>1. Surplus(proc[p].target, Keep[proc[p].job]) \in SUBSET Victim
      BY VictimsAreTyped DEF Surplus, Successes
    <2>2. {AsVictim(i) : i \in OldBackups(proc[p].days)} \in SUBSET Victim
      BY VictimsAreTyped DEF OldBackups
    <2>3. CASE PruneList(p)
      BY <2>1, <2>3 DEF PruneList
    <2>4. CASE RetainList(p)
      BY <2>2, <2>4 DEF RetainList
    <2> QED
      BY <2>3, <2>4
  <1>5. proc' \in [Proc -> Process] /\ \A r \in Proc : WellFormed(proc'[r])
    <2> HIDE DEF Locals, Quiet
    <2> QED
      BY <1>2, <1>3, <1>4, StepKeepsProc
  <1>6. used' \in [Budget -> Nat]
    BY FaultKeepsUsed DEF PruneList, RetainList
  <1> QED
    BY <1>5, <1>6 DEF PruneList, RetainList, TypeInv, TypeOK

LEMMA RemoveFileTypes ==
  ASSUME TypeInv, NEW p \in Proc, RemoveFile(p) \/ ClearFile(p)
  PROVE  TypeInv'
  <1> USE DEF db
  <1>1. proc[p] \in Process /\ WellFormed(proc[p])
    BY DEF TypeInv, TypeOK
  <1>2. PICK v \in proc[p].victims :
          /\ RemoveArtifacts(v.path)
          /\ \/ Step(p, [proc[p] EXCEPT !.pc = "unlist", !.victim = v, !.victims = @ \ {v}])
             \/ Step(p, [proc[p] EXCEPT !.victims = @ \ {v}])
    BY DEF RemoveFile, ClearFile
  <1>3. v \in Victim
    BY <1>1 DEF Process
  <1>4. /\ [proc[p] EXCEPT !.pc = "unlist", !.victim = v, !.victims = @ \ {v}] \in Process
        /\ WellFormed([proc[p] EXCEPT !.pc = "unlist", !.victim = v, !.victims = @ \ {v}])
    <2> DEFINE S == proc[p].victims \ {v}
               q == [proc[p] EXCEPT !.pc = "unlist", !.victim = v, !.victims = S]
    <2>1. S \in SUBSET Victim
      BY <1>1 DEF Process
    <2> HIDE DEF S
    <2>2. q \in Process
      BY <1>1, <1>3, <2>1 DEF Process, PC
    <2>3. WellFormed(q)
      BY <1>1 DEF Process, WellFormed, Making
    <2> QED
      BY <2>2, <2>3 DEF S
  <1>5. /\ [proc[p] EXCEPT !.victims = @ \ {v}] \in Process
        /\ WellFormed([proc[p] EXCEPT !.victims = @ \ {v}])
    BY <1>1 DEF Process, WellFormed
  <1>6. proc' \in [Proc -> Process] /\ \A r \in Proc : WellFormed(proc'[r])
    BY <1>2, <1>4, <1>5, StepKeepsProc
  <1>7. files' \subseteq Path /\ removed' \subseteq Path
    BY <1>2, <1>3 DEF RemoveArtifacts, Victim, TypeInv, TypeOK
  <1> QED
    BY <1>6, <1>7 DEF RemoveFile, ClearFile, TypeInv, TypeOK

LEMMA DeleteRowTypes ==
  ASSUME TypeInv, NEW i, DeleteRow(i)
  PROVE  backup' \in [Id -> Row]
  <1>1. NoRow \in Row
    BY ConstantsAssumption DEF NoRow, Row, Status, Time
  <1> QED
    BY <1>1 DEF TypeInv, TypeOK, DeleteRow

LEMMA RemoveRowTypes ==
  ASSUME TypeInv, NEW p \in Proc, RemoveRow(p) \/ ClearRows(p)
  PROVE  TypeInv'
  <1> USE DEF disk, hist
  <1>1. proc[p] \in Process /\ WellFormed(proc[p])
    BY DEF TypeInv, TypeOK
  <1>2. backup' \in [Id -> Row]
    <2>1. NoRow \in Row
      BY ConstantsAssumption DEF NoRow, Row, Status, Time
    <2> QED
      BY <2>1, DeleteRowTypes DEF RemoveRow, ClearRows, TypeInv, TypeOK
  <1>3. /\ [proc[p] EXCEPT !.pc = "remove", !.victim = NoVictim] \in Process
        /\ WellFormed([proc[p] EXCEPT !.pc = "remove", !.victim = NoVictim])
    <2> DEFINE q == [proc[p] EXCEPT !.pc = "remove", !.victim = NoVictim]
    <2>1. q \in Process
      BY <1>1 DEF Process, PC
    <2>2. WellFormed(q)
      BY <1>1 DEF Process, WellFormed, Making
    <2> QED
      BY <2>1, <2>2
  <1>4. proc' \in [Proc -> Process] /\ \A r \in Proc : WellFormed(proc'[r])
    BY <1>3, IdleIsAProcess, StepKeepsProc DEF RemoveRow, ClearRows
  <1>5. used' \in [Budget -> Nat]
    BY FaultKeepsUsed DEF RemoveRow, ClearRows
  <1> QED
    BY <1>2, <1>4, <1>5 DEF RemoveRow, ClearRows, TypeInv, TypeOK

LEMMA RemoveDoneTypes ==
  ASSUME TypeInv, NEW p \in Proc, RemoveDone(p)
  PROVE  TypeInv'
  <1> USE DEF db, disk, hist
  <1>1. proc[p] \in Process /\ WellFormed(proc[p])
    BY DEF TypeInv, TypeOK
  <1>2. /\ [proc[p] EXCEPT !.pc = "retain", !.mode = "none"] \in Process
        /\ WellFormed([proc[p] EXCEPT !.pc = "retain", !.mode = "none"])
    <2> DEFINE q == [proc[p] EXCEPT !.pc = "retain", !.mode = "none"]
    <2>1. q \in Process
      BY <1>1 DEF Process, PC
    <2>2. WellFormed(q)
      BY <1>1 DEF Process, WellFormed, Making
    <2> QED
      BY <2>1, <2>2
  <1>3. \/ Step(p, Idle)
        \/ Step(p, [proc[p] EXCEPT !.pc = "retain", !.mode = "none"])
        \/ proc[p].kind = "job" /\ Step(p, NextTarget(proc[p]))
    BY DEF RemoveDone
  <1>4. proc' \in [Proc -> Process] /\ \A r \in Proc : WellFormed(proc'[r])
    BY <1>1, <1>2, <1>3, NextIsTyped, IdleIsAProcess, StepKeepsProc
  <1> QED
    BY <1>4 DEF RemoveDone, TypeInv, TypeOK

LEMMA ExpireTypes ==
  ASSUME TypeInv, Expire
  PROVE  TypeInv'
  <1> USE DEF db, disk, hist
  <1>1. CASE ExpireFile
    <2>1. PICK t \in timers :
            /\ RemoveArtifacts(t.path)
            /\ timers' = (timers \ {t}) \cup {[t EXCEPT !.fired = TRUE]}
      BY <1>1 DEF ExpireFile
    <2>2. t \in Timer /\ [t EXCEPT !.fired = TRUE] \in Timer
      BY DEF TypeInv, TypeOK, Timer
    <2>3. timers' \subseteq Timer /\ files' \subseteq Path /\ removed' \subseteq Path
      BY <2>1, <2>2 DEF RemoveArtifacts, Timer, TypeInv, TypeOK
    <2> QED
      BY <1>1, <2>3 DEF ExpireFile, TypeInv, TypeOK
  <1>2. CASE ExpireRow
    <2>1. backup' \in [Id -> Row] /\ used' \in [Budget -> Nat]
      BY <1>2, DeleteRowTypes, FaultKeepsUsed DEF ExpireRow, TypeInv, TypeOK
    <2>2. timers' \subseteq Timer
      BY <1>2 DEF ExpireRow, TypeInv, TypeOK
    <2> QED
      BY <1>2, <2>1, <2>2 DEF ExpireRow, TypeInv, TypeOK
  <1> QED
    BY <1>1, <1>2 DEF Expire

LEMMA AdminTypes ==
  ASSUME TypeInv, NEW p \in Proc, DeleteRequest(p) \/ ClearRequest(p)
  PROVE  TypeInv'
  <1> USE DEF db, disk, hist
  <1> DEFINE Locals(pc, S) == [Idle EXCEPT !.pc = pc, !.kind = "delete", !.victims = S]
  <1>1. \A pc \in {"remove", "clear"}, S \in SUBSET Victim :
          Locals(pc, S) \in Process /\ WellFormed(Locals(pc, S))
    <2> SUFFICES ASSUME NEW pc \in {"remove", "clear"}, NEW S \in SUBSET Victim
                 PROVE  Locals(pc, S) \in Process /\ WellFormed(Locals(pc, S))
      OBVIOUS
    <2>1. Locals(pc, S) \in Process
      BY DEF Idle, Process, PC, NoVictim
    <2>2. WellFormed(Locals(pc, S))
      BY DEF Idle, WellFormed, Making
    <2> QED
      BY <2>1, <2>2
  <1>2. \E pc \in {"remove", "clear"}, S \in SUBSET Victim : Step(p, Locals(pc, S))
    <2>1. CASE DeleteRequest(p)
      <3>1. PICK ids \in {{i} : i \in Rows} \cup {OldBackups(d) : d \in Days \ {0}} :
              Step(p, Locals("remove", {AsVictim(i) : i \in ids}))
        BY <2>1 DEF DeleteRequest
      <3>2. ids \in SUBSET Rows
        BY DEF OldBackups
      <3>3. {AsVictim(i) : i \in ids} \in SUBSET Victim
        BY <3>2, VictimsAreTyped
      <3> HIDE DEF Locals
      <3> QED
        BY <3>1, <3>3
    <2>2. CASE ClearRequest(p)
      <3>1. {AsVictim(i) : i \in {k \in Rows : backup[k].path # None}} \in SUBSET Victim
        BY VictimsAreTyped
      <3>2. Step(p, Locals("clear", {AsVictim(i) : i \in {k \in Rows : backup[k].path # None}}))
        BY <2>2 DEF ClearRequest
      <3> HIDE DEF Locals
      <3> QED
        BY <3>1, <3>2
    <2> QED
      BY <2>1, <2>2
  <1>3. proc' \in [Proc -> Process] /\ \A r \in Proc : WellFormed(proc'[r])
    <2> HIDE DEF Locals
    <2> QED
      BY <1>1, <1>2, StepKeepsProc
  <1>4. used' \in [Budget -> Nat]
    BY SpendKeepsUsed DEF DeleteRequest, ClearRequest, Budget
  <1> QED
    BY <1>3, <1>4 DEF DeleteRequest, ClearRequest, TypeInv, TypeOK

LEMMA EditTypes ==
  ASSUME TypeInv, DeleteLocalFile \/ EditJob \/ EditDestination \/ Restart
  PROVE  TypeInv'
  <1> USE DEF db, disk, hist
  <1>1. used' \in [Budget -> Nat]
    BY SpendKeepsUsed DEF DeleteLocalFile, EditJob, EditDestination, Restart, Budget
  <1>2. CASE DeleteLocalFile
    BY <1>1, <1>2 DEF DeleteLocalFile, RemoveArtifacts, TypeInv, TypeOK
  <1>3. CASE EditJob
    <2>1. PICK j \in Job :
            \/ jobs' = [jobs EXCEPT ![j].enabled = ~@]
            \/ \E st \in {"gone", "live"} : jobs' = [jobs EXCEPT ![j].state = st]
      BY <1>3 DEF EditJob
    <2>2. jobs \in [Job -> JobRow]
      BY DEF TypeInv, TypeOK
    <2>3. [jobs[j] EXCEPT !.enabled = ~@] \in JobRow
      BY <2>2 DEF JobRow
    <2>4. \A st \in {"gone", "live"} : [jobs[j] EXCEPT !.state = st] \in JobRow
      BY <2>2 DEF JobRow
    <2>5. jobs' \in [Job -> JobRow]
      BY <2>1, <2>2, <2>3, <2>4
    <2> QED
      BY <1>1, <1>3, <2>5 DEF EditJob, TypeInv, TypeOK
  <1>4. CASE EditDestination
    BY <1>1, <1>4 DEF EditDestination, TypeInv, TypeOK
  <1>5. CASE Restart
    BY <1>1, <1>5, IdleIsAProcess DEF Restart, TypeInv, TypeOK
  <1> QED
    BY <1>2, <1>3, <1>4, <1>5

LEMMA NextTypes == TypeInv /\ [Next]_vars => TypeInv'
  <1> SUFFICES ASSUME TypeInv, [Next]_vars PROVE TypeInv'
    OBVIOUS
  <1>1. CASE Tick \/ Schedule
    BY <1>1, SchedulerTypes
  <1>2. ASSUME NEW p \in Proc, Run(p) PROVE TypeInv'
    BY <1>2, BackUpTargetTypes, StampJobTypes, ArchiveTypes, RecordSuccessTypes,
       RecordFailureTypes, ListTypes, RemoveFileTypes, RemoveRowTypes, RemoveDoneTypes
       DEF Run
  <1>3. CASE Expire
    BY <1>3, ExpireTypes
  <1>4. CASE Operate
    BY <1>4, TriggerTypes, ExportTypes, AdminTypes, EditTypes DEF Operate, Proc
  <1>5. CASE Restart
    BY <1>5, EditTypes
  <1>6. CASE UNCHANGED vars
    BY <1>6 DEF vars, db, disk, hist, TypeInv, TypeOK
  <1> QED
    BY <1>1, <1>2, <1>3, <1>4, <1>5, <1>6 DEF Next

\* Types of every variable hold in every reachable state: no run, request,
\* timer or restart leaves a row, a goroutine or a path of another shape.
THEOREM TypeCorrect == Spec => []TypeOK
  <1>1. Spec => []TypeInv
    BY InitTypes, NextTypes, PTL DEF Spec
  <1>2. TypeInv => TypeOK
    BY DEF TypeInv
  <1> QED
    BY <1>1, <1>2, PTL

-----------------------------------------------------------------------------
(* What no step does: forget a path, reuse a row for another target, forget  *)
(* that a row finished.                                                      *)

PathsKept == files \cup removed \subseteq files' \cup removed'

\* A row that is there keeps its target and its time, and a row that is gone
\* stays gone: ids are not used again.
IdentityKept ==
  /\ nextId' \in Nat /\ nextId <= nextId'
  /\ \A i \in Id : i < nextId /\ backup'[i].status # "none" =>
       /\ backup[i].status # "none"
       /\ backup'[i].target = backup[i].target /\ backup'[i].created = backup[i].created

\* A row turns into a success only when a goroutine records its archive.
Recorded(p, i) ==
  /\ proc[p].pc = "record" /\ proc[p].row = i /\ backup[i].status # "none"
  /\ backup'[i] = [backup[i] EXCEPT !.status = "success", !.path = proc[p].path]
  /\ finished' = finished \cup {[id |-> i, path |-> proc[p].path, created |-> backup[i].created]}

SuccessIsRecorded ==
  \A i \in Id : \/ backup'[i] = backup[i]
               \/ backup'[i].status # "success"
               \/ \E p \in Proc : Recorded(p, i)

Frame == PathsKept /\ IdentityKept /\ SuccessIsRecorded /\ finished \subseteq finished'

\* A step that leaves rows, history and ids alone and only adds paths.
LEMMA QuietFrame ==
  ASSUME TypeInv, UNCHANGED <<backup, nextId, finished>>, PathsKept
  PROVE  Frame
  BY DEF Frame, IdentityKept, SuccessIsRecorded, TypeInv, TypeOK

LEMMA RemoveKeepsPaths ==
  ASSUME TypeInv, NEW path, RemoveArtifacts(path)
  PROVE  PathsKept
  BY ConstantsAssumption DEF TypeInv, TypeOK, RemoveArtifacts, PathsKept

LEMMA InsertFrame ==
  ASSUME TypeInv, NEW t, Insert(t), UNCHANGED <<files, removed, finished>>
  PROVE  Frame
  <1>1. nextId \in Id /\ nextId \in Nat /\ nextId' = nextId + 1
    BY ConstantsAssumption DEF Insert, Id
  <1>2. \A i \in Id : i # nextId => backup'[i] = backup[i]
    BY DEF Insert, TypeInv, TypeOK
  <1>3. backup'[nextId].status = "in_progress"
    BY <1>1 DEF Insert, TypeInv, TypeOK
  <1>4. PathsKept /\ finished \subseteq finished'
    BY DEF PathsKept
  <1>5. IdentityKept
    BY <1>1, <1>2 DEF IdentityKept, Id
  <1>6. SuccessIsRecorded
    BY <1>1, <1>2, <1>3 DEF SuccessIsRecorded
  <1> QED
    BY <1>4, <1>5, <1>6 DEF Frame

LEMMA DeleteFrame ==
  ASSUME TypeInv, UNCHANGED <<files, removed, finished, nextId>>,
         \A i \in Id : backup'[i] = backup[i] \/ backup'[i].status = "none"
  PROVE  Frame
  BY DEF TypeInv, TypeOK, Frame, PathsKept, IdentityKept, SuccessIsRecorded, Id

LEMMA RecordFrame ==
  ASSUME TypeInv, NEW p \in Proc, RecordSuccess(p) \/ RecordFailure(p)
  PROVE  Frame
  <1> DEFINE q == proc[p]
             i == q.row
  <1>1. i \in Id
    BY DEF RecordSuccess, RecordFailure, WellFormed, Making, TypeInv
  <1>2. PathsKept /\ nextId' = nextId /\ nextId \in Nat
    BY DEF RecordSuccess, RecordFailure, PathsKept, disk, hist, TypeInv, TypeOK
  <1>3. CASE backup' = backup
    <2>1. finished \subseteq finished'
      BY DEF RecordSuccess, RecordFailure, hist
    <2> QED
      BY <1>2, <1>3, <2>1 DEF Frame, IdentityKept, SuccessIsRecorded
  <1>4. CASE RecordSuccess(p) /\ backup' # backup
    <2>1. /\ backup[i].status # "none"
          /\ backup' = [backup EXCEPT ![i] = [backup[i] EXCEPT !.status = "success", !.path = q.path]]
          /\ finished' = finished \cup {[id |-> i, path |-> q.path, created |-> backup[i].created]}
      BY <1>4 DEF RecordSuccess, Update
    <2>2. \A k \in Id : k # i => backup'[k] = backup[k]
      BY <2>1 DEF TypeInv, TypeOK
    <2>3. backup'[i] = [backup[i] EXCEPT !.status = "success", !.path = q.path]
      BY <1>1, <2>1 DEF TypeInv, TypeOK
    <2>4. backup'[i].target = backup[i].target /\ backup'[i].created = backup[i].created
      BY <1>1, <2>3 DEF TypeInv, TypeOK, Row
    <2>5. Recorded(p, i)
      BY <1>4, <2>1, <2>3 DEF Recorded, RecordSuccess
    <2> QED
      BY <1>1, <1>2, <2>1, <2>2, <2>4, <2>5 DEF Frame, IdentityKept, SuccessIsRecorded
  <1>5. CASE RecordFailure(p) /\ backup' # backup
    <2>1. /\ backup[i].status # "none"
          /\ backup' = [backup EXCEPT ![i] = [backup[i] EXCEPT !.status = "failed"]]
          /\ finished' = finished
      BY <1>5 DEF RecordFailure, Update, hist
    <2>2. \A k \in Id : k # i => backup'[k] = backup[k]
      BY <2>1 DEF TypeInv, TypeOK
    <2>3. backup'[i] = [backup[i] EXCEPT !.status = "failed"]
      BY <1>1, <2>1 DEF TypeInv, TypeOK
    <2>4. /\ backup'[i].target = backup[i].target /\ backup'[i].created = backup[i].created
          /\ backup'[i].status = "failed"
      BY <1>1, <2>3 DEF TypeInv, TypeOK, Row
    <2> QED
      BY <1>1, <1>2, <2>1, <2>2, <2>4 DEF Frame, IdentityKept, SuccessIsRecorded
  <1> QED
    BY <1>3, <1>4, <1>5

LEMMA NextFrame ==
  ASSUME TypeInv, [Next]_vars
  PROVE  Frame
  <1> USE DEF db, disk, hist
  <1>1. CASE Tick \/ Schedule \/ UNCHANGED vars
    BY <1>1, QuietFrame DEF Tick, Schedule, Wake, SkipJob, BeginJob, vars, PathsKept
  <1>2. ASSUME NEW p \in Proc, Run(p) PROVE Frame
    <2>1. CASE BackUpTarget(p)
      BY <2>1, InsertFrame, QuietFrame DEF BackUpTarget, PathsKept
    <2>2. CASE StampJob(p) \/ WriteArchive(p) \/ FailArchive(p) \/ Publish(p)
               \/ PruneList(p) \/ RetainList(p) \/ RemoveDone(p)
      BY <2>2, QuietFrame DEF StampJob, WriteArchive, FailArchive, Publish, PruneList,
         RetainList, RemoveDone, PathsKept
    <2>3. CASE RecordSuccess(p) \/ RecordFailure(p)
      BY <2>3, RecordFrame
    <2>4. CASE RemoveFile(p) \/ ClearFile(p)
      BY <2>4, QuietFrame, RemoveKeepsPaths DEF RemoveFile, ClearFile
    <2>5. CASE RemoveRow(p) \/ ClearRows(p)
      <3>1. \A i \in Id : backup'[i] = backup[i] \/ backup'[i].status = "none"
        BY <2>5 DEF RemoveRow, ClearRows, DeleteRow, NoRow, TypeInv, TypeOK
      <3> QED
        BY <2>5, <3>1, DeleteFrame DEF RemoveRow, ClearRows
    <2> QED
      BY <1>2, <2>1, <2>2, <2>3, <2>4, <2>5 DEF Run
  <1>3. CASE ExpireFile
    BY <1>3, QuietFrame, RemoveKeepsPaths DEF ExpireFile
  <1>4. CASE ExpireRow
    <2>1. \A i \in Id : backup'[i] = backup[i] \/ backup'[i].status = "none"
      BY <1>4 DEF ExpireRow, DeleteRow, NoRow, TypeInv, TypeOK
    <2> QED
      BY <1>4, <2>1, DeleteFrame DEF ExpireRow
  <1>5. CASE Operate
    <2>1. ASSUME NEW p \in Exports, Export(p) PROVE Frame
      BY <2>1, InsertFrame DEF Export
    <2>2. CASE DeleteLocalFile
      BY <2>2, QuietFrame, RemoveKeepsPaths DEF DeleteLocalFile
    <2>3. CASE \/ \E p \in Triggers : TriggerJob(p)
               \/ \E p \in Admins : DeleteRequest(p) \/ ClearRequest(p)
               \/ EditJob \/ EditDestination
      BY <2>3, QuietFrame DEF TriggerJob, DeleteRequest, ClearRequest, EditJob,
         EditDestination, PathsKept
    <2> QED
      BY <1>5, <2>1, <2>2, <2>3 DEF Operate
  <1>6. CASE Restart
    BY <1>6, QuietFrame DEF Restart, PathsKept
  <1> QED
    BY <1>1, <1>2, <1>3, <1>4, <1>5, <1>6 DEF Next, Expire

-----------------------------------------------------------------------------
(* The catalogue and the goroutines: the invariant behind the safety         *)
(* properties.                                                               *)

\* A successful row is in the history of finished backups as it stands, is
\* about its own target, and its archive was put in place.
RowFinished(i) ==
  backup[i].status = "success" =>
    /\ [id |-> i, path |-> backup[i].path, created |-> backup[i].created] \in finished
    /\ backup[i].path.target = backup[i].target
    /\ backup[i].path \in files \cup removed

\* The row a goroutine will update is its own, or is gone.
RowIsOurs(p) ==
  proc[p].pc \in Making =>
    /\ proc[p].row < nextId
    /\ backup[proc[p].row].status = "none" \/ backup[proc[p].row].target = proc[p].target

PathIsOurs(p) ==
  proc[p].pc \in {"publish", "record"} => proc[p].path.target = proc[p].target

PublishedFirst(p) == proc[p].pc = "record" => proc[p].path \in files \cup removed

NoLeftovers(p) ==
  /\ proc[p].pc \notin {"remove", "unlist", "clear"} => proc[p].victims = {}
  /\ proc[p].pc # "unlist" => proc[p].victim = NoVictim

PruneHasLimit(p) == proc[p].pc = "prune" => Keep[proc[p].job] > 0

CleansFinished(p) ==
  p \notin Admins => \A v \in Victims(p) : \E f \in finished : f.id = v.id

SparesNewest(p) ==
  proc[p].mode = "prune" =>
    \A v \in Victims(p) :
      \E f \in finished : /\ f.id # v.id /\ f.path.target = proc[p].target
                          /\ f.created >= v.created

Good(p) ==
  /\ RowIsOurs(p) /\ PathIsOurs(p) /\ PublishedFirst(p) /\ NoLeftovers(p)
  /\ PruneHasLimit(p) /\ CleansFinished(p) /\ SparesNewest(p)

CatalogueInv ==
  /\ TypeInv
  /\ \A i \in Id : RowFinished(i)
  /\ \A p \in Proc : Good(p)

LEMMA InitCatalogue == Init => CatalogueInv
  <1> SUFFICES ASSUME Init PROVE CatalogueInv
    OBVIOUS
  <1>1. \A i \in Id : RowFinished(i)
    BY DEF Init, RowFinished, NoRow
  <1>2. \A p \in Proc : Good(p)
    BY DEF Init, Good, RowIsOurs, PathIsOurs, PublishedFirst, NoLeftovers, PruneHasLimit,
       CleansFinished, SparesNewest, Victims, Idle, Making
  <1> QED
    BY <1>1, <1>2, InitTypes DEF CatalogueInv

\* A goroutine that does not move stays as good as it was.
LEMMA OthersStayGood ==
  ASSUME CatalogueInv, Frame, NEW r \in Proc, proc'[r] = proc[r]
  PROVE  Good(r)'
  <1>1. Good(r) /\ WellFormed(proc[r]) /\ proc[r] \in Process
    BY DEF CatalogueInv, TypeInv, TypeOK
  <1>2. RowIsOurs(r)'
    <2> SUFFICES ASSUME proc[r].pc \in Making
                 PROVE  /\ proc[r].row < nextId'
                        /\ \/ backup'[proc[r].row].status = "none"
                           \/ backup'[proc[r].row].target = proc[r].target
      BY DEF RowIsOurs
    <2> DEFINE i == proc[r].row
    <2>1. i \in Id /\ i \in Int
      BY <1>1 DEF WellFormed, Id
    <2>2. i < nextId /\ (backup[i].status = "none" \/ backup[i].target = proc[r].target)
      BY <1>1 DEF Good, RowIsOurs
    <2>3. nextId \in Int /\ nextId <= nextId' /\ nextId' \in Int
      BY DEF Frame, IdentityKept, CatalogueInv, TypeInv, TypeOK
    <2>4. i < nextId'
      BY <2>1, <2>2, <2>3
    <2>5. backup'[i].status # "none" => backup'[i].target = proc[r].target
      BY <2>1, <2>2 DEF Frame, IdentityKept
    <2> QED
      BY <2>4, <2>5
  <1>3. PathIsOurs(r)' /\ PublishedFirst(r)' /\ NoLeftovers(r)' /\ PruneHasLimit(r)'
    BY <1>1 DEF Good, PathIsOurs, PublishedFirst, NoLeftovers, PruneHasLimit, Frame, PathsKept
  <1>4. CleansFinished(r)' /\ SparesNewest(r)'
    BY <1>1 DEF Good, CleansFinished, SparesNewest, Victims, Frame
  <1> QED
    BY <1>2, <1>3, <1>4 DEF Good

\* A goroutine with nothing in hand: idle, or between two targets.
LEMMA RestIsGood ==
  ASSUME NEW p \in Proc,
         proc'[p].victims = {}, proc'[p].victim = NoVictim,
         proc'[p].pc \notin Making \cup {"prune"}
  PROVE  Good(p)'
  BY DEF Good, RowIsOurs, PathIsOurs, PublishedFirst, NoLeftovers, PruneHasLimit,
     CleansFinished, SparesNewest, Victims, Making

\* A goroutine that makes an archive, given what is particular to the step.
LEMMA MakingIsGood ==
  ASSUME NEW p \in Proc,
         proc'[p].victims = {}, proc'[p].victim = NoVictim,
         proc'[p].pc \in Making,
         RowIsOurs(p)', PathIsOurs(p)', PublishedFirst(p)'
  PROVE  Good(p)'
  BY DEF Good, NoLeftovers, PruneHasLimit, CleansFinished, SparesNewest, Victims, Making

\* A clean-up loop that goes on with what it listed.
LEMMA CleaningIsGood ==
  ASSUME NEW p \in Proc, Good(p), finished \subseteq finished',
         proc'[p].pc \in {"remove", "unlist", "clear"},
         proc'[p].mode = proc[p].mode, proc'[p].target = proc[p].target,
         Victims(p)' \subseteq Victims(p),
         proc'[p].pc # "unlist" => proc'[p].victim = NoVictim
  PROVE  Good(p)'
  BY DEF Good, RowIsOurs, PathIsOurs, PublishedFirst, NoLeftovers, PruneHasLimit,
     CleansFinished, SparesNewest, Making

\* What keep-last lists finished, and so did something newer of the target.
LEMMA SurplusIsSpared ==
  ASSUME CatalogueInv, NEW t \in Target, NEW n \in Nat, n > 0,
         NEW v \in Surplus(t, n)
  PROVE  /\ \E f \in finished : f.id = v.id
         /\ \E f \in finished : f.id # v.id /\ f.path.target = t /\ f.created >= v.created
  <1> DEFINE Ahead(k) == {m \in Successes(t) : Newer(AsVictim(m), AsVictim(k))}
  <1>1. PICK k \in Successes(t) : v = AsVictim(k) /\ Cardinality(Ahead(k)) >= n
    BY DEF Surplus
  <1>2. Ahead(k) # {}
    <2> SUFFICES ASSUME Ahead(k) = {} PROVE FALSE
      OBVIOUS
    <2>1. Cardinality(Ahead(k)) = 0
      BY FS_EmptySet
    <2> QED
      BY <1>1, <2>1
  <1>3. PICK m \in Successes(t) : Newer(AsVictim(m), AsVictim(k))
    BY <1>2
  <1>4. k \in Id /\ m \in Id /\ RowFinished(k) /\ RowFinished(m)
    BY DEF Successes, Rows, CatalogueInv
  <1>5. backup[k].created \in Int /\ backup[m].created \in Int
    BY <1>4, ConstantsAssumption DEF CatalogueInv, TypeInv, TypeOK, Row, Time
  <1>6. m # k /\ backup[m].created >= backup[k].created
    BY <1>3, <1>4, <1>5 DEF Newer, AsVictim, Id
  <1> QED
    BY <1>1, <1>3, <1>4, <1>6 DEF RowFinished, Successes, AsVictim

LEMMA RunStaysGood ==
  ASSUME CatalogueInv, Frame, NEW p \in Proc, Run(p)
  PROVE  Good(p)'
  <1> USE DEF db, disk, hist
  <1> DEFINE q == proc[p]
  <1>1. Good(p) /\ WellFormed(q) /\ q \in Process /\ proc \in [Proc -> Process]
    BY DEF CatalogueInv, TypeInv, TypeOK
  <1>2. CASE BackUpTarget(p)
    <2>1. q.victims = {} /\ q.victim = NoVictim /\ q.pc = "next"
      BY <1>1, <1>2 DEF BackUpTarget, Good, NoLeftovers
    <2>2. PICK t \in q.todo :
            \/ /\ Insert(t)
               /\ proc'[p] = [q EXCEPT !.todo = q.todo \ {t}, !.pc = "write",
                                       !.target = t, !.row = nextId]
            \/ proc'[p] = [q EXCEPT !.todo = q.todo \ {t}]
      BY <1>1, <1>2 DEF BackUpTarget, Step
    <2>3. CASE Insert(t) /\ proc'[p].pc = "write" /\ proc'[p].target = t /\ proc'[p].row = nextId
               /\ proc'[p].victims = {} /\ proc'[p].victim = NoVictim
      <3>1. backup'[nextId].target = t /\ nextId < nextId'
        BY <2>3, ConstantsAssumption DEF Insert, Id, CatalogueInv, TypeInv, TypeOK
      <3> QED
        BY <2>3, <3>1, MakingIsGood DEF RowIsOurs, PathIsOurs, PublishedFirst, Making
    <2>4. CASE proc'[p].pc = "next" /\ proc'[p].victims = {} /\ proc'[p].victim = NoVictim
      BY <2>4, RestIsGood DEF Making
    <2>5. CASE /\ Insert(t)
               /\ proc'[p] = [q EXCEPT !.todo = q.todo \ {t}, !.pc = "write",
                                       !.target = t, !.row = nextId]
      <3> HIDE DEF q
      <3> QED
        BY <1>1, <2>1, <2>3, <2>5 DEF Process
    <2>6. CASE proc'[p] = [q EXCEPT !.todo = q.todo \ {t}]
      <3> HIDE DEF q
      <3> QED
        BY <1>1, <2>1, <2>4, <2>6 DEF Process
    <2> QED
      BY <2>2, <2>5, <2>6
  <1>3. CASE StampJob(p) \/ RecordFailure(p) \/ RemoveDone(p)
    <2>1. \/ proc'[p] = Idle \/ proc'[p] = NextTarget(q)
          \/ /\ q.pc = "remove" /\ q.victims = {}
             /\ proc'[p] = [q EXCEPT !.pc = "retain", !.mode = "none"]
      BY <1>1, <1>3 DEF StampJob, RecordFailure, RemoveDone, Step
    <2>2. q.pc = "remove" => q.victim = NoVictim
      BY <1>1 DEF Good, NoLeftovers
    <2>3. /\ proc'[p].victims = {} /\ proc'[p].victim = NoVictim
          /\ proc'[p].pc \in {"idle", "next", "retain"}
      <3> HIDE DEF q
      <3>1. CASE proc'[p] = Idle \/ proc'[p] = NextTarget(q)
        <4>1. /\ Idle.victims = {} /\ Idle.victim = NoVictim /\ Idle.pc = "idle"
              /\ NextTarget(q).victims = {} /\ NextTarget(q).victim = NoVictim
              /\ NextTarget(q).pc = "next"
          BY DEF Idle, NextTarget
        <4> QED
          BY <3>1, <4>1
      <3>2. CASE /\ q.pc = "remove" /\ q.victims = {}
                 /\ proc'[p] = [q EXCEPT !.pc = "retain", !.mode = "none"]
        BY <1>1, <2>2, <3>2 DEF Process
      <3> QED
        BY <2>1, <3>1, <3>2
    <2> QED
      BY <2>3, RestIsGood DEF Making
  <1>4. CASE WriteArchive(p) \/ FailArchive(p) \/ Publish(p)
    <2>1. q.victims = {} /\ q.victim = NoVictim /\ q.pc \in {"write", "publish"}
      BY <1>1, <1>4 DEF WriteArchive, FailArchive, Publish, Good, NoLeftovers
    <2>2. /\ proc'[p].victims = {} /\ proc'[p].victim = NoVictim
          /\ proc'[p].pc \in Making /\ proc'[p].row = q.row /\ proc'[p].target = q.target
      <3> DEFINE path == [dir |-> DirOf(q.kind), target |-> q.target, stamp |-> now]
      <3>1. \/ proc'[p] = [q EXCEPT !.pc = "publish", !.path = path]
            \/ \E pc \in {"record", "record_failed"} : proc'[p] = [q EXCEPT !.pc = pc]
        BY <1>1, <1>4 DEF WriteArchive, FailArchive, Publish, Step
      <3> HIDE DEF path
      <3> HIDE DEF q
      <3>2. CASE proc'[p] = [q EXCEPT !.pc = "publish", !.path = path]
        BY <1>1, <2>1, <3>2 DEF Process, Making
      <3>3. CASE \E pc \in {"record", "record_failed"} : proc'[p] = [q EXCEPT !.pc = pc]
        BY <1>1, <2>1, <3>3 DEF Process, Making
      <3> QED
        BY <3>1, <3>2, <3>3
    <2>3. RowIsOurs(p)'
      <3>1. UNCHANGED <<backup, nextId>> /\ RowIsOurs(p)
        BY <1>1, <1>4 DEF WriteArchive, FailArchive, Publish, Good
      <3> QED
        BY <2>1, <2>2, <3>1 DEF RowIsOurs, Making
    <2>4. PathIsOurs(p)' /\ PublishedFirst(p)'
      <3>1. CASE WriteArchive(p)
        BY <1>1, <3>1 DEF WriteArchive, Step, PathIsOurs, PublishedFirst, Process
      <3>2. CASE FailArchive(p)
        BY <1>1, <3>2 DEF FailArchive, Step, PathIsOurs, PublishedFirst, Process
      <3>3. CASE Publish(p)
        <4>1. proc'[p].path = q.path /\ q.path \in files' /\ q.path.target = q.target
          BY <1>1, <3>3 DEF Publish, Step, Process, Good, PathIsOurs
        <4> QED
          BY <2>2, <4>1 DEF PathIsOurs, PublishedFirst
      <3> QED
        BY <1>4, <3>1, <3>2, <3>3
    <2> QED
      BY <2>2, <2>3, <2>4, MakingIsGood
  <1>5. CASE RecordSuccess(p)
    <2>1. q.victims = {} /\ q.victim = NoVictim /\ q.pc = "record"
      BY <1>1, <1>5 DEF RecordSuccess, Good, NoLeftovers
    <2>2. proc'[p] = AfterRecord(p)
      BY <1>1, <1>5 DEF RecordSuccess, Step
    <2> DEFINE days == IF q.kind = "job" THEN Retention[q.job] ELSE q.days
    <2>3. \/ q.kind = "job" /\ Keep[q.job] > 0
             /\ proc'[p] = [q EXCEPT !.pc = "prune", !.days = days]
          \/ proc'[p] = [q EXCEPT !.pc = "retain", !.days = days]
          \/ proc'[p] = Idle
          \/ proc'[p] = NextTarget(q)
      BY <2>2 DEF AfterRecord
    <2> HIDE DEF days
    <2>4. /\ proc'[p].victims = {} /\ proc'[p].victim = NoVictim
          /\ \/ proc'[p].pc \in {"idle", "next", "retain"}
             \/ proc'[p].pc = "prune" /\ Keep[proc'[p].job] > 0
      <3> HIDE DEF q
      <3>1. CASE q.kind = "job" /\ Keep[q.job] > 0
                 /\ proc'[p] = [q EXCEPT !.pc = "prune", !.days = days]
        BY <1>1, <2>1, <3>1 DEF Process
      <3>2. CASE proc'[p] = [q EXCEPT !.pc = "retain", !.days = days]
        BY <1>1, <2>1, <3>2 DEF Process
      <3>3. CASE proc'[p] = Idle \/ proc'[p] = NextTarget(q)
        <4>1. /\ Idle.victims = {} /\ Idle.victim = NoVictim /\ Idle.pc = "idle"
              /\ NextTarget(q).victims = {} /\ NextTarget(q).victim = NoVictim
              /\ NextTarget(q).pc = "next"
          BY DEF Idle, NextTarget
        <4> QED
          BY <3>3, <4>1
      <3> QED
        BY <2>3, <3>1, <3>2, <3>3
    <2> QED
      BY <2>4 DEF Good, RowIsOurs, PathIsOurs, PublishedFirst, NoLeftovers, PruneHasLimit,
         CleansFinished, SparesNewest, Victims, Making
  <1>6. CASE PruneList(p)
    <2>1. q.victims = {} /\ q.victim = NoVictim /\ q.kind = "job" /\ Keep[q.job] > 0
      BY <1>1, <1>6 DEF PruneList, Good, NoLeftovers, PruneHasLimit, WellFormed
    <2>2. q.job \in Job /\ q.target \in Target \cup {None}
      BY <1>1, <2>1 DEF WellFormed, Process
    <2>3. /\ proc'[p].pc = "remove" /\ proc'[p].victim = NoVictim /\ proc'[p].target = q.target
          /\ \/ proc'[p].victims = {}
             \/ proc'[p].victims = Surplus(q.target, Keep[q.job])
      <3>1. \/ proc'[p] = [q EXCEPT !.pc = "remove", !.mode = "prune",
                                    !.victims = Surplus(q.target, Keep[q.job])]
            \/ proc'[p] = [q EXCEPT !.pc = "remove", !.mode = "prune"]
        BY <1>1, <1>6 DEF PruneList, Step
      <3> HIDE DEF q
      <3> QED
        BY <1>1, <2>1, <3>1 DEF Process
    <2>4. finished' = finished
      BY <1>6 DEF PruneList
    <2>5. Victims(p)' \subseteq Surplus(q.target, Keep[q.job])
      BY <2>3 DEF Victims
    <2>6. \A v \in Surplus(q.target, Keep[q.job]) :
            /\ \E f \in finished : f.id = v.id
            /\ \E f \in finished : /\ f.id # v.id /\ f.path.target = q.target
                                    /\ f.created >= v.created
      <3>1. q.target \in Target
        BY <1>1, <1>6 DEF PruneList, WellFormed
      <3>2. Keep[q.job] \in Nat
        BY <2>2, ConstantsAssumption
      <3> QED
        BY <2>1, <3>1, <3>2, SurplusIsSpared
    <2> QED
      BY <2>3, <2>4, <2>5, <2>6 DEF Good, RowIsOurs, PathIsOurs, PublishedFirst, NoLeftovers,
         PruneHasLimit, CleansFinished, SparesNewest, Making
  <1>7. CASE RetainList(p)
    <2>1. q.victims = {} /\ q.victim = NoVictim
      BY <1>1, <1>7 DEF RetainList, Good, NoLeftovers
    <2>2. /\ proc'[p].pc = "remove" /\ proc'[p].victim = NoVictim /\ proc'[p].mode = "retain"
          /\ \/ proc'[p].victims = {}
             \/ proc'[p].victims = {AsVictim(i) : i \in OldBackups(q.days)}
      <3>1. \/ proc'[p] = [q EXCEPT !.pc = "remove", !.mode = "retain",
                             !.victims = {AsVictim(i) : i \in OldBackups(q.days)}]
            \/ proc'[p] = [q EXCEPT !.pc = "remove", !.mode = "retain"]
        BY <1>1, <1>7 DEF RetainList, Step
      <3> HIDE DEF q
      <3> QED
        BY <1>1, <2>1, <3>1 DEF Process
    <2>3. finished' = finished
      BY <1>7 DEF RetainList
    <2>4. \A i \in OldBackups(q.days) : \E f \in finished : f.id = AsVictim(i).id
      BY DEF OldBackups, Rows, CatalogueInv, RowFinished, AsVictim
    <2>5. \A v \in Victims(p)' : \E f \in finished' : f.id = v.id
      BY <2>2, <2>3, <2>4 DEF Victims
    <2> QED
      BY <2>2, <2>5 DEF Good, RowIsOurs, PathIsOurs, PublishedFirst, NoLeftovers,
         PruneHasLimit, CleansFinished, SparesNewest, Making
  <1>8. CASE RemoveFile(p) \/ RemoveRow(p) \/ ClearFile(p)
    <2>1. /\ proc'[p].pc \in {"remove", "unlist", "clear"}
          /\ proc'[p].mode = q.mode /\ proc'[p].target = q.target
          /\ Victims(p)' \subseteq Victims(p)
          /\ proc'[p].pc # "unlist" => proc'[p].victim = NoVictim
      <3>1. \/ \E v \in q.victims :
                 proc'[p] = [q EXCEPT !.pc = "unlist", !.victim = v, !.victims = q.victims \ {v}]
            \/ proc'[p] = [q EXCEPT !.pc = "remove", !.victim = NoVictim]
            \/ /\ q.pc = "clear"
               /\ \E v \in q.victims : proc'[p] = [q EXCEPT !.victims = q.victims \ {v}]
        BY <1>1, <1>8 DEF RemoveFile, RemoveRow, ClearFile, Step
      <3>2. q.pc # "unlist" => q.victim = NoVictim
        BY <1>1 DEF Good, NoLeftovers
      <3>3. /\ Victims(p) = (q.victims \cup {q.victim}) \ {NoVictim}
            /\ Victims(p)' = (proc'[p].victims \cup {proc'[p].victim}) \ {NoVictim}
        BY DEF Victims
      <3> HIDE DEF q
      <3>4. CASE \E v \in q.victims :
                   proc'[p] = [q EXCEPT !.pc = "unlist", !.victim = v, !.victims = q.victims \ {v}]
        BY <1>1, <3>3, <3>4 DEF Process
      <3>5. CASE proc'[p] = [q EXCEPT !.pc = "remove", !.victim = NoVictim]
        BY <1>1, <3>3, <3>5 DEF Process
      <3>6. CASE /\ q.pc = "clear"
                 /\ \E v \in q.victims : proc'[p] = [q EXCEPT !.victims = q.victims \ {v}]
        BY <1>1, <3>2, <3>3, <3>6 DEF Process
      <3> QED
        BY <3>1, <3>4, <3>5, <3>6
    <2> QED
      BY <1>1, <2>1, CleaningIsGood DEF Frame
  <1>9. CASE ClearRows(p)
    BY <1>1, <1>9, RestIsGood DEF ClearRows, Step, Idle, Making
  <1> QED
    BY <1>2, <1>3, <1>4, <1>5, <1>6, <1>7, <1>8, <1>9 DEF Run

\* Goroutines that start, and everything that happens around them.
LEMMA EnvironmentStaysGood ==
  ASSUME CatalogueInv, Frame, NEW r \in Proc,
         Tick \/ Schedule \/ Expire \/ Operate \/ Restart \/ UNCHANGED vars
  PROVE  Good(r)'
  <1> USE DEF db, disk, hist
  <1> DEFINE Still == proc'[r] = proc[r]
  <1>1. proc \in [Proc -> Process]
    BY DEF CatalogueInv, TypeInv, TypeOK
  <1>2. CASE Still
    BY <1>2, OthersStayGood
  <1>3. CASE Tick \/ Expire \/ UNCHANGED vars
    BY <1>2, <1>3 DEF Tick, Expire, ExpireFile, ExpireRow, vars
  <1>4. CASE Schedule
    <2>1. CASE Wake \/ SkipJob
      BY <1>2, <2>1 DEF Wake, SkipJob
    <2>2. CASE BeginJob
      <3>1. PICK j, todo :
              Step(Scheduler, [Idle EXCEPT !.pc = "next", !.kind = "job", !.job = j, !.todo = todo])
        BY <2>2 DEF BeginJob
      <3>2. CASE r = Scheduler
        <4>1. proc'[r].pc = "next" /\ proc'[r].victims = {} /\ proc'[r].victim = NoVictim
          BY <1>1, <3>1, <3>2 DEF Step, Idle
        <4> QED
          BY <4>1, RestIsGood DEF Making
      <3> QED
        BY <1>1, <1>2, <3>1, <3>2 DEF Step
    <2> QED
      BY <1>4, <2>1, <2>2 DEF Schedule
  <1>5. CASE Operate
    <2>1. ASSUME NEW p \in Triggers, TriggerJob(p) PROVE Good(r)'
      <3>1. PICK j, todo :
              Step(p, [Idle EXCEPT !.pc = "next", !.kind = "job", !.job = j, !.todo = todo])
        BY <2>1 DEF TriggerJob
      <3>2. CASE r = p
        <4>1. proc'[r].pc = "next" /\ proc'[r].victims = {} /\ proc'[r].victim = NoVictim
          BY <1>1, <3>1, <3>2 DEF Step, Idle
        <4> QED
          BY <4>1, RestIsGood DEF Making
      <3> QED
        BY <1>1, <1>2, <3>1, <3>2 DEF Step
    <2>2. ASSUME NEW p \in Exports, Export(p) PROVE Good(r)'
      <3>1. PICK t \in Target, kind \in {"local", "download"}, d \in Days \cup {0} :
              /\ Insert(t)
              /\ Step(p, [Idle EXCEPT !.pc = "write", !.kind = kind, !.target = t,
                                      !.row = nextId, !.days = d])
        BY <2>2 DEF Export
      <3>2. CASE r = p
        <4>1. /\ proc'[r].pc = "write" /\ proc'[r].victims = {} /\ proc'[r].victim = NoVictim
              /\ proc'[r].target = t /\ proc'[r].row = nextId
          BY <1>1, <3>1, <3>2 DEF Step, Idle
        <4>2. backup'[nextId].target = t /\ nextId < nextId'
          BY <3>1, ConstantsAssumption DEF Insert, Id, CatalogueInv, TypeInv, TypeOK
        <4> QED
          BY <4>1, <4>2, MakingIsGood DEF RowIsOurs, PathIsOurs, PublishedFirst, Making
      <3> QED
        BY <1>1, <1>2, <3>1, <3>2 DEF Step
    <2>3. ASSUME NEW p \in Admins, DeleteRequest(p) \/ ClearRequest(p) PROVE Good(r)'
      <3>1. PICK S :
              \/ Step(p, [Idle EXCEPT !.pc = "remove", !.kind = "delete", !.victims = S])
              \/ Step(p, [Idle EXCEPT !.pc = "clear", !.kind = "delete", !.victims = S])
        BY <2>3 DEF DeleteRequest, ClearRequest
      <3>2. CASE r = p
        <4>1. /\ proc'[r].pc \in {"remove", "clear"} /\ proc'[r].victim = NoVictim
              /\ proc'[r].mode = "none"
          BY <1>1, <3>1, <3>2 DEF Step, Idle
        <4> QED
          BY <2>3, <3>2, <4>1 DEF Good, RowIsOurs, PathIsOurs, PublishedFirst, NoLeftovers,
             PruneHasLimit, CleansFinished, SparesNewest, Making
      <3> QED
        BY <1>1, <1>2, <3>1, <3>2 DEF Step
    <2>4. CASE DeleteLocalFile \/ EditJob \/ EditDestination
      BY <1>2, <2>4 DEF DeleteLocalFile, EditJob, EditDestination
    <2> QED
      BY <1>5, <2>1, <2>2, <2>3, <2>4 DEF Operate
  <1>6. CASE Restart
    <2>1. proc'[r] = Idle
      BY <1>6 DEF Restart
    <2>2. proc'[r].pc = "idle" /\ proc'[r].victims = {} /\ proc'[r].victim = NoVictim
      BY <2>1 DEF Idle
    <2> QED
      BY <2>2, RestIsGood DEF Making
  <1> QED
    BY <1>3, <1>4, <1>5, <1>6

LEMMA NextCatalogue == CatalogueInv /\ [Next]_vars => CatalogueInv'
  <1> SUFFICES ASSUME CatalogueInv, [Next]_vars PROVE CatalogueInv'
    OBVIOUS
  <1>1. TypeInv' /\ Frame
    BY NextTypes, NextFrame DEF CatalogueInv
  <1>2. \A r \in Proc : Good(r)'
    <2> SUFFICES ASSUME NEW r \in Proc PROVE Good(r)'
      OBVIOUS
    <2>1. ASSUME NEW p \in Proc, Run(p), p # r PROVE proc'[r] = proc[r]
      <3>1. proc \in [Proc -> Process]
        BY DEF CatalogueInv, TypeInv, TypeOK
      <3> QED
        BY <2>1, <3>1 DEF Run, BackUpTarget, StampJob, WriteArchive, FailArchive, Publish,
           RecordSuccess, RecordFailure, PruneList, RetainList, RemoveFile, RemoveRow,
           RemoveDone, ClearFile, ClearRows, Step
    <2>2. CASE \E p \in Proc : Run(p)
      BY <1>1, <2>1, <2>2, RunStaysGood, OthersStayGood
    <2>3. CASE Tick \/ Schedule \/ Expire \/ Operate \/ Restart \/ UNCHANGED vars
      BY <1>1, <2>3, EnvironmentStaysGood
    <2> QED
      BY <2>2, <2>3 DEF Next
  <1>3. \A i \in Id : RowFinished(i)'
    <2> SUFFICES ASSUME NEW i \in Id, backup'[i].status = "success" PROVE RowFinished(i)'
      BY DEF RowFinished
    <2>1. CASE backup'[i] = backup[i]
      BY <1>1, <2>1 DEF CatalogueInv, RowFinished, Frame, PathsKept
    <2>2. ASSUME NEW p \in Proc, Recorded(p, i) PROVE RowFinished(i)'
      <3>1. Good(p) /\ backup[i] \in Row
        BY DEF CatalogueInv, TypeInv, TypeOK
      <3>2. /\ backup'[i].path = proc[p].path /\ backup'[i].target = backup[i].target
            /\ backup'[i].created = backup[i].created
        BY <2>2, <3>1 DEF Recorded, Row
      <3>3. /\ proc[p].path.target = proc[p].target /\ backup[i].target = proc[p].target
            /\ proc[p].path \in files \cup removed
        BY <2>2, <3>1 DEF Recorded, Good, RowIsOurs, PathIsOurs, PublishedFirst, Making
      <3> QED
        BY <1>1, <2>2, <3>2, <3>3 DEF RowFinished, Recorded, Frame, PathsKept
    <2> QED
      BY <1>1, <2>1, <2>2 DEF Frame, SuccessIsRecorded
  <1> QED
    BY <1>1, <1>2, <1>3 DEF CatalogueInv

LEMMA CatalogueHolds == Spec => []CatalogueInv
  BY InitCatalogue, NextCatalogue, PTL DEF Spec

\* A successful row names an archive that was verified and put in place, for
\* any number of goroutines, restarts and failing statements.
THEOREM SuccessesAreArchives == Spec => []SuccessNamesAnArchive
  <1>1. CatalogueInv => SuccessNamesAnArchive
    BY DEF CatalogueInv, RowFinished, SuccessNamesAnArchive
  <1> QED
    BY <1>1, CatalogueHolds, PTL

\* Runs and exports clean up only what finished: neither a failed nor an
\* unfinished backup is ever listed for removal.
THEOREM OnlyFinishedRemoved == Spec => []OnlyFinishedAreCleanedUp
  <1>1. CatalogueInv => OnlyFinishedAreCleanedUp
    BY DEF CatalogueInv, Good, CleansFinished, OnlyFinishedAreCleanedUp
  <1> QED
    BY <1>1, CatalogueHolds, PTL

\* Keep-last never lists the newest backup of a target: another one that
\* finished is at least as new, however old the listing has become.
THEOREM NewestIsSpared == Spec => []PruneSparesNewest
  <1>1. CatalogueInv => PruneSparesNewest
    BY DEF CatalogueInv, Good, SparesNewest, PruneSparesNewest
  <1> QED
    BY <1>1, CatalogueHolds, PTL

-----------------------------------------------------------------------------
(* Once per slot: what the scheduler's listing, the job table and its own    *)
(* run say of when each job was last begun.                                  *)

\* A run of a job is a run of that job until its last step stamps it.
RunsAJob(p) == proc[p].kind = "job" /\ proc[p].pc \notin {"idle", "clear"}
Running(j) == proc[Scheduler].pc # "idle" /\ proc[Scheduler].job = j

SchedulerRunsJobs == proc[Scheduler].pc # "idle" => RunsAJob(Scheduler)
BegunBefore == \A j \in Job : begun[j] <= now
ListedOnce == \A e, f \in queue : e.job = f.job => e = f
ListedSince == \A e \in queue : begun[e.job] <= e.last /\ jobs[e.job].state # "new"
\* The stamp covers the last begun run, except while it is on its way.
StampedSince ==
  \A j \in Job : /\ jobs[j].state = "live" => begun[j] <= jobs[j].lastRun \/ Running(j)
                 /\ jobs[j].state = "new" => begun[j] = Never

SlotInv ==
  /\ TypeInv
  /\ SchedulerRunsJobs /\ BegunBefore /\ ListedOnce /\ ListedSince /\ StampedSince

LEMMA InitSlot == Init => SlotInv
  <1> SUFFICES ASSUME Init PROVE SlotInv
    OBVIOUS
  <1>1. TypeInv
    BY InitTypes
  <1>2. SchedulerRunsJobs
    BY DEF Init, SchedulerRunsJobs, Proc, Idle
  <1>3. BegunBefore /\ ListedOnce /\ ListedSince
    BY DEF Init, BegunBefore, ListedOnce, ListedSince, Never
  <1>4. StampedSince
    <2> SUFFICES ASSUME NEW j \in Job PROVE begun[j] <= jobs[j].lastRun /\ begun[j] = Never
      BY DEF StampedSince
    <2>1. PICK s \in {"new", "live"} : jobs[j] = [state |-> s, enabled |-> TRUE, lastRun |-> Never]
      BY DEF Init
    <2> QED
      BY <2>1 DEF Init, Never
  <1> QED
    BY <1>1, <1>2, <1>3, <1>4 DEF SlotInv

LEMMA JobRunGoesOn ==
  ASSUME TypeInv, NEW p \in Proc, RunsAJob(p), Run(p), ~StampJob(p)
  PROVE  RunsAJob(p)' /\ proc'[p].job = proc[p].job
  <1> DEFINE q == proc[p]
  <1>1. q \in Process /\ proc \in [Proc -> Process]
    BY DEF TypeInv, TypeOK
  <1>2. NextTarget(q).kind = "job" /\ NextTarget(q).pc = "next" /\ NextTarget(q).job = q.job
    BY DEF NextTarget, Idle
  <1>3. CASE BackUpTarget(p)
    <2>1. PICK t :
            \/ proc'[p] = [q EXCEPT !.todo = q.todo \ {t}, !.pc = "write",
                                    !.target = t, !.row = nextId]
            \/ proc'[p] = [q EXCEPT !.todo = q.todo \ {t}]
      BY <1>1, <1>3 DEF BackUpTarget, Step
    <2> HIDE DEF q
    <2> QED
      BY <1>1, <2>1 DEF RunsAJob, Process, q
  <1>4. CASE WriteArchive(p) \/ FailArchive(p) \/ Publish(p)
    <2>1. PICK path :
            \/ proc'[p] = [q EXCEPT !.pc = "publish", !.path = path]
            \/ \E pc \in {"record", "record_failed"} : proc'[p] = [q EXCEPT !.pc = pc]
      BY <1>1, <1>4 DEF WriteArchive, FailArchive, Publish, Step
    <2> QED
      BY <1>1, <2>1 DEF RunsAJob, Process
  <1>5. CASE RecordSuccess(p)
    <2>1. proc'[p] = AfterRecord(p)
      BY <1>1, <1>5 DEF RecordSuccess, Step
    <2> DEFINE days == IF q.kind = "job" THEN Retention[q.job] ELSE q.days
    <2>2. \/ \E pc \in {"prune", "retain"} : proc'[p] = [q EXCEPT !.pc = pc, !.days = days]
          \/ proc'[p] = NextTarget(q)
      BY <2>1 DEF AfterRecord, RunsAJob
    <2> HIDE DEF days
    <2> QED
      BY <1>1, <1>2, <2>2 DEF RunsAJob, Process
  <1>6. CASE RecordFailure(p)
    BY <1>1, <1>2, <1>6 DEF RecordFailure, Step, RunsAJob
  <1>7. CASE PruneList(p) \/ RetainList(p)
    <2>1. PICK mode, S :
            \/ proc'[p] = [q EXCEPT !.pc = "remove", !.mode = mode, !.victims = S]
            \/ proc'[p] = [q EXCEPT !.pc = "remove", !.mode = mode]
      BY <1>1, <1>7 DEF PruneList, RetainList, Step
    <2> QED
      BY <1>1, <2>1 DEF RunsAJob, Process
  <1>8. CASE RemoveFile(p) \/ RemoveRow(p)
    <2>1. \/ \E v \in q.victims :
               proc'[p] = [q EXCEPT !.pc = "unlist", !.victim = v, !.victims = q.victims \ {v}]
          \/ proc'[p] = [q EXCEPT !.pc = "remove", !.victim = NoVictim]
      BY <1>1, <1>8 DEF RemoveFile, RemoveRow, Step
    <2> QED
      BY <1>1, <2>1 DEF RunsAJob, Process
  <1>9. CASE RemoveDone(p)
    <2>1. \/ proc'[p] = NextTarget(q)
          \/ proc'[p] = [q EXCEPT !.pc = "retain", !.mode = "none"]
      BY <1>1, <1>9 DEF RemoveDone, Step, RunsAJob
    <2> QED
      BY <1>1, <1>2, <2>1 DEF RunsAJob, Process
  <1>10. CASE ClearFile(p) \/ ClearRows(p)
    BY <1>10 DEF ClearFile, ClearRows, RunsAJob
  <1> QED
    BY <1>3, <1>4, <1>5, <1>6, <1>7, <1>8, <1>9, <1>10 DEF Run

LEMMA ScheduleKeepsSlots ==
  ASSUME SlotInv, Tick \/ Schedule
  PROVE  SlotInv'
  <1> USE DEF db, disk, hist
  <1>1. TypeInv'
    BY SchedulerTypes DEF SlotInv
  <1>2. now \in Int /\ begun \in [Job -> Int] /\ jobs \in [Job -> JobRow]
        /\ proc \in [Proc -> Process] /\ Scheduler \in Proc
        /\ queue \subseteq [job : Job, last : Time \cup {Never}]
    BY ConstantsAssumption DEF SlotInv, TypeInv, TypeOK, Time, Never, Proc
  <1>3. CASE Tick
    BY <1>1, <1>2, <1>3 DEF Tick, SlotInv, SchedulerRunsJobs, RunsAJob, BegunBefore, ListedOnce,
       ListedSince, StampedSince, Running
  <1>4. CASE Wake
    <2>1. UNCHANGED <<now, jobs, begun, proc>> /\ proc[Scheduler].pc = "idle"
          /\ queue' = {[job |-> j, last |-> jobs[j].lastRun] :
                         j \in {k \in Job : Live(k) /\ jobs[k].enabled}}
      BY <1>4 DEF Wake
    <2>2. \A e \in queue' : e.job \in Job /\ Live(e.job) /\ e.last = jobs[e.job].lastRun
                            /\ e = [job |-> e.job, last |-> e.last]
      BY <2>1
    <2>3. ListedOnce'
      BY <2>2 DEF ListedOnce
    <2>4. ListedSince'
      BY <2>1, <2>2 DEF ListedSince, SlotInv, StampedSince, Running, Live
    <2> QED
      BY <1>1, <2>1, <2>3, <2>4 DEF SlotInv, SchedulerRunsJobs, RunsAJob, BegunBefore,
         StampedSince, Running
  <1>5. CASE SkipJob
    <2>1. UNCHANGED <<now, jobs, begun, proc>> /\ queue' \subseteq queue
      BY <1>5 DEF SkipJob
    <2> QED
      BY <1>1, <2>1 DEF SlotInv, SchedulerRunsJobs, RunsAJob, BegunBefore, ListedOnce,
         ListedSince, StampedSince, Running
  <1>6. CASE BeginJob
    <2>1. PICK e \in queue :
            /\ queue' = queue \ {e}
            /\ Step(Scheduler, [Idle EXCEPT !.pc = "next", !.kind = "job",
                                 !.job = e.job, !.todo = JobTargets[e.job]])
            /\ begun' = [begun EXCEPT ![e.job] = now]
      BY <1>6 DEF BeginJob
    <2>2. UNCHANGED <<now, jobs>> /\ proc[Scheduler].pc = "idle"
      BY <1>6 DEF BeginJob
    <2>3. /\ proc'[Scheduler].pc = "next" /\ proc'[Scheduler].kind = "job"
          /\ proc'[Scheduler].job = e.job
      BY <1>2, <2>1 DEF Step, Idle
    <2>4. e.job \in Job /\ jobs[e.job].state # "new"
      BY <1>2 DEF SlotInv, ListedSince
    <2>5. begun'[e.job] = now /\ \A j \in Job \ {e.job} : begun'[j] = begun[j]
      BY <1>2, <2>1, <2>4
    <2>6. \A f \in queue' : f \in queue /\ f.job # e.job /\ f.job \in Job
      BY <1>2, <2>1 DEF SlotInv, ListedOnce
    <2>7. SchedulerRunsJobs'
      BY <2>3 DEF SchedulerRunsJobs, RunsAJob
    <2>8. BegunBefore'
      BY <1>2, <2>2, <2>4, <2>5 DEF SlotInv, BegunBefore
    <2>9. ListedOnce' /\ ListedSince'
      BY <2>2, <2>5, <2>6 DEF SlotInv, ListedOnce, ListedSince
    <2>10. StampedSince'
      BY <2>2, <2>3, <2>4, <2>5 DEF SlotInv, StampedSince, Running
    <2> QED
      BY <1>1, <2>7, <2>8, <2>9, <2>10 DEF SlotInv
  <1> QED
    BY <1>3, <1>4, <1>5, <1>6 DEF Schedule

LEMMA RunKeepsSlots ==
  ASSUME SlotInv, NEW p \in Proc, Run(p)
  PROVE  SlotInv'
  <1> USE DEF db, disk, hist
  <1>1. TypeInv'
    BY NextTypes DEF SlotInv, Next
  <1>2. now \in Int /\ begun \in [Job -> Int] /\ jobs \in [Job -> JobRow]
        /\ proc \in [Proc -> Process] /\ Scheduler \in Proc
        /\ queue \subseteq [job : Job, last : Time \cup {Never}]
    BY ConstantsAssumption DEF SlotInv, TypeInv, TypeOK, Time, Never, Proc
  <1>3. \A r \in Proc \ {p} : proc'[r] = proc[r]
    BY <1>2 DEF Run, BackUpTarget, StampJob, WriteArchive, FailArchive, Publish, RecordSuccess,
       RecordFailure, PruneList, RetainList, RemoveFile, RemoveRow, RemoveDone, ClearFile,
       ClearRows, Step
  <1>4. UNCHANGED <<now, queue>>
    BY DEF Run, BackUpTarget, StampJob, WriteArchive, FailArchive, Publish, RecordSuccess,
       RecordFailure, PruneList, RetainList, RemoveFile, RemoveRow, RemoveDone, ClearFile,
       ClearRows
  <1>5. proc[p].pc # "idle"
    BY DEF Run, BackUpTarget, StampJob, WriteArchive, FailArchive, Publish, RecordSuccess,
       RecordFailure, PruneList, RetainList, RemoveFile, RemoveRow, RemoveDone, ClearFile,
       ClearRows
  <1>6. CASE ~StampJob(p)
    <2>1. UNCHANGED <<jobs, begun>>
      BY <1>6 DEF Run, BackUpTarget, WriteArchive, FailArchive, Publish, RecordSuccess,
         RecordFailure, PruneList, RetainList, RemoveFile, RemoveRow, RemoveDone, ClearFile,
         ClearRows
    <2>2. SchedulerRunsJobs' /\ \A j \in Job : Running(j) => Running(j)'
      <3>1. CASE p = Scheduler
        BY <1>5, <1>6, <3>1, JobRunGoesOn DEF SlotInv, SchedulerRunsJobs, Running, RunsAJob
      <3>2. CASE p # Scheduler
        BY <1>2, <1>3, <3>2 DEF SlotInv, SchedulerRunsJobs, Running, RunsAJob
      <3> QED
        BY <3>1, <3>2
    <2> QED
      BY <1>1, <1>4, <2>1, <2>2 DEF SlotInv, BegunBefore, ListedOnce, ListedSince, StampedSince
  <1>7. CASE StampJob(p)
    <2> DEFINE j == proc[p].job
    <2>1. /\ j \in Job /\ proc'[p] = Idle /\ Idle.pc = "idle"
      BY <1>2, <1>7 DEF StampJob, Step, Idle, SlotInv, TypeInv, WellFormed
    <2>2. SchedulerRunsJobs'
      BY <1>2, <1>3, <2>1 DEF SlotInv, SchedulerRunsJobs, RunsAJob
    <2>3. \A k \in Job \ {j} : Running(k) => Running(k)'
      BY <1>2, <1>3 DEF Running
    <2>4. CASE /\ jobs' = IF Live(j) THEN [jobs EXCEPT ![j].lastRun = now] ELSE jobs
               /\ begun' = begun
      <3>1. \A k \in Job : jobs'[k].state = jobs[k].state
        BY <1>2, <2>1, <2>4 DEF JobRow
      <3>2. jobs'[j].state = "live" => jobs'[j].lastRun = now
        BY <1>2, <2>1, <2>4 DEF JobRow, Live
      <3>3. \A k \in Job \ {j} : jobs'[k] = jobs[k]
        BY <1>2, <2>1, <2>4
      <3>4. StampedSince'
        BY <2>1, <2>3, <2>4, <3>1, <3>2, <3>3 DEF SlotInv, StampedSince, BegunBefore
      <3> QED
        BY <1>1, <1>2, <1>4, <2>2, <2>4, <3>1, <3>4 DEF SlotInv, BegunBefore, ListedOnce, ListedSince
    <2>5. CASE jobs' = jobs /\ begun' = [begun EXCEPT ![j] = Never]
      <3>1. begun'[j] = Never /\ \A k \in Job \ {j} : begun'[k] = begun[k]
        BY <1>2, <2>1, <2>5
      <3>2. \A k \in Job : begun'[k] <= begun[k]
        BY <1>2, <2>1, <3>1 DEF SlotInv, TypeInv, TypeOK, Time, Never
      <3>3. \A k \in Job : begun'[k] \in Int /\ begun[k] \in Int
        BY <1>1, <1>2, ConstantsAssumption DEF TypeInv, TypeOK, Time, Never
      <3>4. \A k \in Job : Never <= jobs[k].lastRun /\ jobs[k].lastRun \in Int
        BY <1>2, ConstantsAssumption DEF JobRow, Time, Never
      <3>5. StampedSince'
        BY <2>1, <2>3, <2>5, <3>1, <3>4 DEF SlotInv, StampedSince
      <3>6. \A e \in queue : e.job \in Job /\ e.last \in Int
        BY <1>2, ConstantsAssumption DEF Time, Never
      <3>7. BegunBefore' /\ ListedSince'
        BY <1>2, <1>4, <2>5, <3>2, <3>3, <3>6 DEF SlotInv, BegunBefore, ListedSince
      <3> QED
        BY <1>1, <1>4, <2>2, <3>5, <3>7 DEF SlotInv, ListedOnce
    <2> QED
      BY <1>7, <2>4, <2>5 DEF StampJob
  <1> QED
    BY <1>6, <1>7

LEMMA EnvironmentKeepsSlots ==
  ASSUME SlotInv, Expire \/ Operate \/ Restart \/ UNCHANGED vars
  PROVE  SlotInv'
  <1> USE DEF db, disk, hist
  <1>1. TypeInv'
    BY NextTypes DEF SlotInv, Next
  <1>2. now \in Int /\ begun \in [Job -> Int] /\ jobs \in [Job -> JobRow]
        /\ proc \in [Proc -> Process] /\ Scheduler \in Proc
        /\ \A k \in Job : Never <= jobs[k].lastRun
    BY ConstantsAssumption DEF SlotInv, TypeInv, TypeOK, Time, Never, Proc, JobRow
  <1>3. CASE Restart
    <2>1. /\ queue' = {} /\ proc'[Scheduler].pc = "idle" /\ UNCHANGED <<now, jobs>>
          /\ \A j \in Job : begun'[j] = Never
      BY <1>2, <1>3 DEF Restart, Idle
    <2>2. 0 <= now
      BY DEF SlotInv, TypeInv, TypeOK, Time
    <2> QED
      BY <1>1, <1>2, <2>1, <2>2 DEF SlotInv, SchedulerRunsJobs, BegunBefore, ListedOnce,
         ListedSince, StampedSince, Never
  <1>4. CASE EditJob
    <2>1. UNCHANGED <<now, begun, queue, proc>>
      BY <1>4 DEF EditJob
    <2>2. PICK j \in Job :
            \/ Live(j) /\ jobs' = [jobs EXCEPT ![j].enabled = ~@]
            \/ Live(j) /\ jobs' = [jobs EXCEPT ![j].state = "gone"]
            \/ jobs[j].state = "new" /\ jobs' = [jobs EXCEPT ![j].state = "live"]
      BY <1>4 DEF EditJob
    <2>3. \A k \in Job : /\ jobs'[k].lastRun = jobs[k].lastRun
                         /\ jobs'[k].state = "new" => jobs[k].state = "new"
                         /\ jobs'[k].state = "live" => jobs[k].state \in {"new", "live"}
      BY <1>2, <2>2 DEF JobRow, Live
    <2>4. StampedSince'
      BY <1>2, <2>1, <2>3 DEF SlotInv, StampedSince, Running
    <2>5. ListedSince'
      BY <2>1, <2>3 DEF SlotInv, ListedSince, TypeInv, TypeOK
    <2> QED
      BY <1>1, <2>1, <2>4, <2>5 DEF SlotInv, SchedulerRunsJobs, RunsAJob, BegunBefore, ListedOnce
  <1>5. CASE \/ Expire \/ UNCHANGED vars \/ DeleteLocalFile \/ EditDestination
             \/ \E p \in Triggers : TriggerJob(p)
             \/ \E p \in Exports : Export(p)
             \/ \E p \in Admins : DeleteRequest(p) \/ ClearRequest(p)
    <2>1. UNCHANGED <<now, begun, queue, jobs>>
      BY <1>5 DEF Expire, ExpireFile, ExpireRow, vars, DeleteLocalFile, EditDestination,
         TriggerJob, Export, DeleteRequest, ClearRequest
    <2>2. proc'[Scheduler] = proc[Scheduler]
      BY <1>2, <1>5, ConstantsAssumption DEF Expire, ExpireFile, ExpireRow, vars, DeleteLocalFile,
         EditDestination, TriggerJob, Export, DeleteRequest, ClearRequest, Step
    <2> QED
      BY <1>1, <2>1, <2>2 DEF SlotInv, SchedulerRunsJobs, RunsAJob, BegunBefore, ListedOnce,
         ListedSince, StampedSince, Running
  <1> QED
    BY <1>3, <1>4, <1>5 DEF Operate

LEMMA NextSlot == SlotInv /\ [Next]_vars => SlotInv'
  BY ScheduleKeepsSlots, RunKeepsSlots, EnvironmentKeepsSlots DEF Next

\* An older stamp is due whenever a newer one is.
LEMMA OlderIsDue ==
  ASSUME NEW j \in Job, NEW t \in Time, NEW u \in Time \cup {Never},
         NEW v \in Time \cup {Never}, u <= v, Due(j, v, t)
  PROVE  Due(j, u, t)
  <1>1. Slot(t) \in Int
    BY ConstantsAssumption DEF Slot, Time
  <1>2. v = Never => u = Never
    BY DEF Time, Never
  <1> QED
    BY <1>1, <1>2, ConstantsAssumption DEF Due, Time, Never

\* Only taking a job off the listing makes the scheduler's goroutine start.
LEMMA OnlyBeginJobBegins ==
  ASSUME SlotInv, [Next]_vars, proc[Scheduler].pc = "idle", proc'[Scheduler].pc # "idle"
  PROVE  BeginJob
  <1> USE DEF db, disk, hist
  <1>1. proc \in [Proc -> Process] /\ Scheduler \in Proc
    BY DEF SlotInv, TypeInv, TypeOK, Proc
  <1>2. ASSUME NEW p \in Proc, Run(p) PROVE FALSE
    <2>1. proc[p].pc # "idle"
      BY <1>2 DEF Run, BackUpTarget, StampJob, WriteArchive, FailArchive, Publish, RecordSuccess,
         RecordFailure, PruneList, RetainList, RemoveFile, RemoveRow, RemoveDone, ClearFile,
         ClearRows
    <2>2. \A r \in Proc \ {p} : proc'[r] = proc[r]
      BY <1>1, <1>2 DEF Run, BackUpTarget, StampJob, WriteArchive, FailArchive, Publish,
         RecordSuccess, RecordFailure, PruneList, RetainList, RemoveFile, RemoveRow, RemoveDone,
         ClearFile, ClearRows, Step
    <2> QED
      BY <1>1, <2>1, <2>2
  <1>3. CASE Expire \/ Tick \/ Wake \/ SkipJob \/ UNCHANGED vars
    BY <1>3 DEF Expire, ExpireFile, ExpireRow, Tick, Wake, SkipJob, vars
  <1>4. CASE Operate
    BY <1>1, <1>4, ConstantsAssumption DEF Operate, DeleteLocalFile, EditJob, EditDestination,
       TriggerJob, Export, DeleteRequest, ClearRequest, Step
  <1>5. CASE Restart
    BY <1>1, <1>5 DEF Restart, Idle
  <1> QED
    BY <1>2, <1>3, <1>4, <1>5 DEF Next, Schedule

\* The scheduler begins a job at most once per slot or interval, whatever its
\* listing, run-now goroutines, edits of the jobs and failing statements do
\* (backup/scheduler.go, checkAndRunJobs).
THEOREM JobsBeginOncePerSlot == Spec => OncePerSlot
  <1>1. SlotInv /\ [Next]_vars =>
          [\A j \in Job :
             /\ proc[Scheduler].pc = "idle"
             /\ proc'[Scheduler].pc = "next" /\ proc'[Scheduler].job = j
             => Due(j, begun[j], now)]_vars
    <2> SUFFICES ASSUME SlotInv, [Next]_vars, NEW j \in Job,
                        proc[Scheduler].pc = "idle",
                        proc'[Scheduler].pc = "next", proc'[Scheduler].job = j
                 PROVE  Due(j, begun[j], now)
      OBVIOUS
    <2>1. BeginJob
      BY OnlyBeginJobBegins
    <2>2. PICK e \in queue :
            /\ Due(e.job, e.last, now)
            /\ Step(Scheduler, [Idle EXCEPT !.pc = "next", !.kind = "job",
                                 !.job = e.job, !.todo = JobTargets[e.job]])
      BY <2>1 DEF BeginJob
    <2>3. e.job = j
      BY <2>2 DEF Step, Idle, SlotInv, TypeInv, TypeOK, Proc
    <2>4. /\ now \in Time /\ e.last \in Time \cup {Never} /\ begun[j] \in Time \cup {Never}
          /\ begun[j] <= e.last
      BY <2>3 DEF SlotInv, ListedSince, TypeInv, TypeOK
    <2> QED
      BY <2>2, <2>3, <2>4, OlderIsDue
  <1> QED
    BY <1>1, InitSlot, NextSlot, PTL DEF Spec, OncePerSlot

-----------------------------------------------------------------------------
(* Job runs by themselves: no operator requests yet, no exports, no retention. *)
(* Faults, restarts and any number of concurrent runs are still there.         *)

JobsOnly == Limit["export"] = 0 /\ \A j \in Job : Retention[j] = 0

Calm == used["op"] = 0

\* Without operator requests, exports and retention, every goroutine at work
\* runs a job that is there, and neither exports nor cleans up by age.
Plain(p) ==
  proc[p].pc # "idle" => /\ RunsAJob(p) /\ Live(proc[p].job)
                         /\ proc[p].pc # "retain" /\ proc[p].days = 0

PlainInv ==
  /\ \A p \in Proc : Plain(p)
  /\ \A e \in queue : Live(e.job)
  /\ timers = {}

LEMMA InitPlain == Init => PlainInv
  BY DEF Init, PlainInv, Plain, Idle

\* Budgets are only ever spent, and only while there is some left.
LEMMA UsedGrows ==
  ASSUME TypeInv, [Next]_vars, NEW c \in Budget
  PROVE  /\ used[c] <= used'[c] /\ used[c] \in Nat /\ used'[c] \in Nat
         /\ used'[c] = used[c] \/ used[c] < Limit[c]
  <1> USE DEF db, disk, hist
  <1>1. used' = used \/ \E b \in Budget : Spend(b)
    <2>1. ASSUME NEW p \in Proc, Run(p) PROVE used' = used \/ Spend("fault")
      BY <2>1 DEF Run, BackUpTarget, StampJob, WriteArchive, FailArchive, Publish, RecordSuccess,
         RecordFailure, PruneList, RetainList, RemoveFile, RemoveRow, RemoveDone, ClearFile,
         ClearRows, Works, Breaks
    <2>2. CASE Tick \/ Schedule \/ Expire \/ UNCHANGED vars
      BY <2>2 DEF Tick, Schedule, Wake, SkipJob, BeginJob, Expire, ExpireFile, ExpireRow, vars,
         Works, Breaks, Budget
    <2>3. CASE Operate \/ Restart
      BY <2>3 DEF Operate, TriggerJob, Export, DeleteRequest, ClearRequest, DeleteLocalFile,
         EditJob, EditDestination, Restart, Budget
    <2> QED
      BY <2>1, <2>2, <2>3 DEF Next, Budget
  <1>2. used' \in [Budget -> Nat] /\ used \in [Budget -> Nat]
    BY NextTypes DEF TypeInv, TypeOK
  <1> QED
    BY <1>1, <1>2 DEF Spend

\* What is left of the environment.
LEMMA CalmEnvironment ==
  ASSUME JobsOnly, TypeInv, timers = {}, Calm', Expire \/ Operate
  PROVE  \E p \in Triggers : TriggerJob(p)
  <1>1. used \in [Budget -> Nat] /\ used["op"] \in Nat /\ used["export"] \in Nat
    BY DEF TypeInv, TypeOK, Budget
  <1>2. ~Spend("op")
    BY <1>1 DEF Spend, Calm, Budget
  <1>3. ~Spend("export")
    BY <1>1 DEF Spend, JobsOnly
  <1>4. ~Expire
    BY DEF Expire, ExpireFile, ExpireRow
  <1> QED
    BY <1>2, <1>3, <1>4 DEF Operate, Export, DeleteRequest, ClearRequest, DeleteLocalFile,
       EditJob, EditDestination

LEMMA PlainRunGoesOn ==
  ASSUME JobsOnly, TypeInv, NEW p \in Proc, Plain(p), Run(p), ~StampJob(p)
  PROVE  proc'[p].pc # "retain" /\ proc'[p].days = 0
  <1> DEFINE q == proc[p]
  <1>1. q \in Process /\ proc \in [Proc -> Process] /\ WellFormed(q)
    BY DEF TypeInv, TypeOK
  <1>2. q.pc # "idle"
    BY DEF Run, BackUpTarget, StampJob, WriteArchive, FailArchive, Publish, RecordSuccess,
       RecordFailure, PruneList, RetainList, RemoveFile, RemoveRow, RemoveDone, ClearFile,
       ClearRows
  <1>3. q.kind = "job" /\ q.pc # "retain" /\ q.pc # "clear" /\ q.days = 0 /\ q.job \in Job
    BY <1>1, <1>2 DEF Plain, RunsAJob, WellFormed
  <1>4. NextTarget(q).pc = "next" /\ NextTarget(q).days = 0
    BY DEF NextTarget, Idle
  <1>5. CASE BackUpTarget(p)
    <2>1. PICK t :
            \/ proc'[p] = [q EXCEPT !.todo = q.todo \ {t}, !.pc = "write",
                                    !.target = t, !.row = nextId]
            \/ proc'[p] = [q EXCEPT !.todo = q.todo \ {t}]
      BY <1>1, <1>5 DEF BackUpTarget, Step
    <2> HIDE DEF q
    <2> QED
      BY <1>1, <1>3, <2>1 DEF Process
  <1>6. CASE WriteArchive(p) \/ FailArchive(p) \/ Publish(p)
    <2>1. PICK path :
            \/ proc'[p] = [q EXCEPT !.pc = "publish", !.path = path]
            \/ \E pc \in {"record", "record_failed"} : proc'[p] = [q EXCEPT !.pc = pc]
      BY <1>1, <1>6 DEF WriteArchive, FailArchive, Publish, Step
    <2> QED
      BY <1>1, <1>3, <2>1 DEF Process
  <1>7. CASE RecordSuccess(p)
    <2>1. proc'[p] = AfterRecord(p)
      BY <1>1, <1>7 DEF RecordSuccess, Step
    <2>2. Retention[q.job] = 0
      BY <1>3 DEF JobsOnly
    <2>3. CASE Keep[q.job] > 0
      <3>1. AfterRecord(p) = [q EXCEPT !.pc = "prune", !.days = Retention[q.job]]
        BY <1>3, <2>3 DEF AfterRecord
      <3> QED
        BY <1>1, <2>1, <2>2, <3>1 DEF Process
    <2>4. CASE ~(Keep[q.job] > 0)
      <3>1. AfterRecord(p) = NextTarget(q)
        BY <1>3, <2>2, <2>4 DEF AfterRecord
      <3> QED
        BY <1>4, <2>1, <3>1
    <2> QED
      BY <2>3, <2>4
  <1>8. CASE RecordFailure(p)
    BY <1>1, <1>3, <1>4, <1>8 DEF RecordFailure, Step
  <1>9. CASE PruneList(p)
    <2>1. PICK S :
            \/ proc'[p] = [q EXCEPT !.pc = "remove", !.mode = "prune", !.victims = S]
            \/ proc'[p] = [q EXCEPT !.pc = "remove", !.mode = "prune"]
      BY <1>1, <1>9 DEF PruneList, Step
    <2> QED
      BY <1>1, <1>3, <2>1 DEF Process
  <1>10. CASE RemoveFile(p) \/ RemoveRow(p)
    <2>1. \/ \E v \in q.victims :
               proc'[p] = [q EXCEPT !.pc = "unlist", !.victim = v, !.victims = q.victims \ {v}]
          \/ proc'[p] = [q EXCEPT !.pc = "remove", !.victim = NoVictim]
      BY <1>1, <1>10 DEF RemoveFile, RemoveRow, Step
    <2> QED
      BY <1>1, <1>3, <2>1 DEF Process
  <1>11. CASE RemoveDone(p)
    BY <1>1, <1>3, <1>4, <1>11 DEF RemoveDone, Step
  <1>12. CASE RetainList(p) \/ ClearFile(p) \/ ClearRows(p)
    BY <1>3, <1>12 DEF RetainList, ClearFile, ClearRows
  <1> QED
    BY <1>5, <1>6, <1>7, <1>8, <1>9, <1>10, <1>11, <1>12 DEF Run

LEMMA NextPlain ==
  ASSUME JobsOnly, TypeInv, PlainInv, [Next]_vars, Calm'
  PROVE  PlainInv'
  <1> USE DEF db, disk, hist
  <1>1. proc \in [Proc -> Process] /\ jobs \in [Job -> JobRow] /\ Scheduler \in Proc
        /\ Triggers \subseteq Proc
    BY DEF TypeInv, TypeOK, Proc
  <1>2. ASSUME NEW p \in Proc, Run(p) PROVE PlainInv'
    <2>1. \A r \in Proc \ {p} : proc'[r] = proc[r]
      BY <1>1, <1>2 DEF Run, BackUpTarget, StampJob, WriteArchive, FailArchive, Publish,
         RecordSuccess, RecordFailure, PruneList, RetainList, RemoveFile, RemoveRow, RemoveDone,
         ClearFile, ClearRows, Step
    <2>2. queue' = queue
      BY <1>2 DEF Run, BackUpTarget, StampJob, WriteArchive, FailArchive, Publish, RecordSuccess,
         RecordFailure, PruneList, RetainList, RemoveFile, RemoveRow, RemoveDone, ClearFile,
         ClearRows
    <2>3. \A j \in Job : Live(j) => Live(j)'
      <3>1. CASE StampJob(p)
        BY <1>1, <3>1 DEF StampJob, Live, JobRow
      <3>2. CASE ~StampJob(p)
        BY <1>2, <3>2 DEF Run, BackUpTarget, WriteArchive, FailArchive, Publish, RecordSuccess,
           RecordFailure, PruneList, RetainList, RemoveFile, RemoveRow, RemoveDone, ClearFile,
           ClearRows, Live
      <3> QED
        BY <3>1, <3>2
    <2>4. proc[p].pc # "idle"
      BY <1>2 DEF Run, BackUpTarget, StampJob, WriteArchive, FailArchive, Publish, RecordSuccess,
         RecordFailure, PruneList, RetainList, RemoveFile, RemoveRow, RemoveDone, ClearFile,
         ClearRows
    <2>5. RunsAJob(p) /\ Live(proc[p].job) /\ proc[p].job \in Job
      BY <2>4 DEF PlainInv, Plain, TypeInv, WellFormed, RunsAJob
    <2>6. timers' = timers
      BY <1>2, <2>5 DEF Run, BackUpTarget, StampJob, WriteArchive, FailArchive, Publish,
         RecordSuccess, RecordFailure, PruneList, RetainList, RemoveFile, RemoveRow, RemoveDone,
         ClearFile, ClearRows, RunsAJob
    <2>7. Plain(p)'
      <3>1. CASE StampJob(p)
        BY <1>1, <3>1 DEF StampJob, Step, Plain, Idle
      <3>2. CASE ~StampJob(p)
        BY <1>2, <2>3, <2>5, <3>2, JobRunGoesOn, PlainRunGoesOn DEF Plain, PlainInv
      <3> QED
        BY <3>1, <3>2
    <2>8. ASSUME NEW r \in Proc \ {p} PROVE Plain(r)'
      BY <2>1, <2>3 DEF PlainInv, Plain, RunsAJob, TypeInv, WellFormed
    <2>9. \A e \in queue' : Live(e.job)'
      BY <2>2, <2>3 DEF PlainInv, TypeInv, TypeOK
    <2> QED
      BY <2>6, <2>7, <2>8, <2>9 DEF PlainInv
  <1>3. CASE Tick \/ SkipJob \/ UNCHANGED vars
    <2>1. UNCHANGED <<jobs, proc, timers>> /\ queue' \subseteq queue
      BY <1>3 DEF Tick, SkipJob, vars
    <2> QED
      BY <2>1 DEF PlainInv, Plain, RunsAJob, Live
  <1>4. CASE Wake
    <2>1. UNCHANGED <<jobs, proc, timers>>
          /\ queue' = {[job |-> j, last |-> jobs[j].lastRun] :
                         j \in {k \in Job : Live(k) /\ jobs[k].enabled}}
      BY <1>4 DEF Wake
    <2> QED
      BY <2>1 DEF PlainInv, Plain, RunsAJob, Live
  <1>5. ASSUME NEW p \in Proc, NEW j, NEW todo, Live(j), UNCHANGED <<jobs, timers>>,
               queue' \subseteq queue,
               Step(p, [Idle EXCEPT !.pc = "next", !.kind = "job", !.job = j, !.todo = todo])
        PROVE  PlainInv'
    <2>1. /\ proc'[p].pc = "next" /\ proc'[p].kind = "job" /\ proc'[p].job = j
          /\ proc'[p].days = 0 /\ \A r \in Proc \ {p} : proc'[r] = proc[r]
      BY <1>1, <1>5 DEF Step, Idle
    <2> QED
      BY <1>5, <2>1 DEF PlainInv, Plain, RunsAJob, Live
  <1>6. CASE BeginJob
    BY <1>1, <1>5, <1>6 DEF BeginJob, PlainInv
  <1>7. ASSUME NEW p \in Triggers, TriggerJob(p) PROVE PlainInv'
    BY <1>1, <1>5, <1>7 DEF TriggerJob
  <1>8. CASE Restart
    BY <1>8 DEF Restart, PlainInv, Plain, Idle
  <1> QED
    BY <1>2, <1>3, <1>4, <1>6, <1>7, <1>8, CalmEnvironment DEF Next, Schedule, PlainInv

-----------------------------------------------------------------------------
(* Histories: what is newer than a finished backup.                          *)

Entry == [id : Id, path : Path, created : Time]
History(F) == F \subseteq Entry /\ \A f, g \in F : f.id = g.id => f = g

AheadIn(F, f) == {g \in F : g.path.target = f.path.target /\ Newer(g, f)}
\* Some job's keep-last has no room for f.
OvertakenIn(F, f) == \E j \in Job : Keep[j] > 0 /\ Cardinality(AheadIn(F, f)) >= Keep[j]

LEMMA NewerOrders ==
  ASSUME NEW f \in Entry, NEW g \in Entry
  PROVE  /\ ~Newer(f, f)
         /\ Newer(f, g) \/ Newer(g, f) \/ f.id = g.id
         /\ \A h \in Entry : Newer(f, g) /\ Newer(g, h) => Newer(f, h)
         /\ Newer(f, g) => f.created >= g.created
  BY DEF Entry, Newer, Id, Time

LEMMA HistoryIsFinite ==
  ASSUME NEW F, History(F)
  PROVE  IsFiniteSet(F)
  <1> DEFINE ids == [f \in F |-> f.id]
  <1>1. ids \in Injection(F, Id)
    BY DEF History, Entry, Injection, IsInjective
  <1>2. IsFiniteSet(Id)
    BY FS_Interval, ConstantsAssumption DEF Id
  <1> HIDE DEF ids
  <1> QED
    BY <1>1, <1>2, FS_Injection

LEMMA AheadIsFinite ==
  ASSUME NEW F, History(F), NEW f
  PROVE  IsFiniteSet(AheadIn(F, f)) /\ Cardinality(AheadIn(F, f)) \in Nat
  <1>1. AheadIn(F, f) \in SUBSET F
    BY DEF AheadIn
  <1>2. IsFiniteSet(AheadIn(F, f))
    BY <1>1, HistoryIsFinite, FS_Subset
  <1> QED
    BY <1>2, FS_CardinalityType

\* What was overtaken once stays overtaken.
LEMMA OvertakenStays ==
  ASSUME NEW F, NEW G, History(G), F \subseteq G, NEW f, OvertakenIn(F, f)
  PROVE  OvertakenIn(G, f)
  <1>1. PICK j \in Job : Keep[j] > 0 /\ Cardinality(AheadIn(F, f)) >= Keep[j]
    BY DEF OvertakenIn
  <1>2. History(F)
    BY DEF History
  <1>3. AheadIn(F, f) \in SUBSET AheadIn(G, f)
    BY DEF AheadIn
  <1>4. Cardinality(AheadIn(F, f)) <= Cardinality(AheadIn(G, f))
    BY <1>3, AheadIsFinite, FS_Subset
  <1>5. /\ Cardinality(AheadIn(F, f)) \in Nat /\ Cardinality(AheadIn(G, f)) \in Nat
        /\ Keep[j] \in Nat
    BY <1>2, AheadIsFinite, ConstantsAssumption
  <1> QED
    BY <1>1, <1>4, <1>5 DEF OvertakenIn

\* Among finished backups one has none of the others ahead of it.
LEMMA SomeoneLeads ==
  ASSUME NEW F, History(F), NEW T \in SUBSET F, T # {}
  PROVE  \E f \in T : \A g \in T : g \notin AheadIn(F, f)
  <1> DEFINE R == StrictSubsetOrdering(F)
             A == {AheadIn(F, f) : f \in T}
  <1>1. IsWellFoundedOn(R, FiniteSubsetsOf(F))
    BY FS_StrictSubsetOrderingWellFounded
  <1>2. A \subseteq FiniteSubsetsOf(F) /\ A # {}
    <2>1. \A f \in T : AheadIn(F, f) \in SUBSET F /\ IsFiniteSet(AheadIn(F, f))
      BY AheadIsFinite DEF AheadIn
    <2> QED
      BY <2>1 DEF FiniteSubsetsOf
  <1> HIDE DEF R
  <1>3. PICK a \in A : \A b \in A : <<b, a>> \notin R
    <2> HIDE DEF A
    <2> QED
      BY <1>1, <1>2, WFMin
  <1>4. PICK f \in T : a = AheadIn(F, f)
    BY <1>3
  <1>5. ASSUME NEW g \in T, g \in AheadIn(F, f) PROVE FALSE
    <2>1. f \in Entry /\ g \in Entry /\ F \subseteq Entry
      BY DEF History
    <2>2. Newer(g, f) /\ g.path.target = f.path.target
      BY <1>5 DEF AheadIn
    <2>3. AheadIn(F, g) \subseteq AheadIn(F, f)
      <3> SUFFICES ASSUME NEW h \in F, h.path.target = g.path.target, Newer(h, g)
                   PROVE  h.path.target = f.path.target /\ Newer(h, f)
        BY DEF AheadIn
      <3>1. h \in Entry
        BY <2>1
      <3> QED
        BY <2>1, <2>2, <3>1, NewerOrders
    <2>4. g \notin AheadIn(F, g)
      BY <2>1, NewerOrders DEF AheadIn
    <2>5. <<AheadIn(F, g), AheadIn(F, f)>> \in R
      <3>1. AheadIn(F, g) \in SUBSET F /\ AheadIn(F, f) \in SUBSET F
        BY DEF AheadIn
      <3>2. AheadIn(F, g) # AheadIn(F, f)
        BY <1>5, <2>4
      <3> DEFINE x == AheadIn(F, g)
                 y == AheadIn(F, f)
      <3>3. x \in SUBSET F /\ y \in SUBSET F /\ x \subseteq y /\ x # y
        BY <2>3, <3>1, <3>2
      <3> HIDE DEF x, y
      <3>4. <<x, y>> \in R
        BY <3>3 DEF R, StrictSubsetOrdering
      <3> QED
        BY <3>4 DEF x, y
    <2> QED
      BY <1>3, <1>4, <2>5
  <1> QED
    BY <1>5

\* What nothing is ahead of is not overtaken, and is as new as any.
LEMMA TheNewestStays ==
  ASSUME NEW F, History(F), NEW t, NEW g \in F, g.path.target = t
  PROVE  \E f \in F : /\ f.path.target = t /\ f.created >= g.created
                      /\ ~OvertakenIn(F, f)
  <1> DEFINE T == {f \in F : f.path.target = t}
  <1>1. T \in SUBSET F /\ T # {} /\ g \in T
    OBVIOUS
  <1>2. PICK f \in T : \A h \in T : h \notin AheadIn(F, f)
    <2> HIDE DEF T
    <2> QED
      BY <1>1, SomeoneLeads
  <1>3. AheadIn(F, f) = {}
    BY <1>2 DEF AheadIn
  <1>4. ~OvertakenIn(F, f)
    BY <1>3, FS_EmptySet, ConstantsAssumption DEF OvertakenIn
  <1>5. f \in Entry /\ g \in Entry
    BY DEF History
  <1>6. ~Newer(g, f)
    BY <1>2, <1>3 DEF AheadIn
  <1>7. f.created >= g.created
    <2>1. CASE f.id = g.id
      BY <1>1, <1>5, <2>1 DEF History, Entry, Time
    <2>2. CASE f.id # g.id
      BY <1>5, <1>6, <2>2, NewerOrders
    <2> QED
      BY <2>1, <2>2
  <1> QED
    BY <1>4, <1>7

-----------------------------------------------------------------------------
(* Rows and the history, while jobs run by themselves.                       *)

Overtaken(f) == OvertakenIn(finished, f)

\* A goroutine's row is still in progress, and nobody else's.
RowInHand(p) == proc[p].pc \in Making => backup[proc[p].row].status = "in_progress"
RowsApart ==
  \A p, r \in Proc : p # r /\ proc[p].pc \in Making /\ proc[r].pc \in Making
                       => proc[p].row # proc[r].row

\* What finished still has its row, as it was then, or none.
FinishedRow(f) ==
  /\ f.id < nextId
  /\ \/ backup[f.id].status = "none"
     \/ /\ backup[f.id].status = "success" /\ backup[f.id].path = f.path
        /\ backup[f.id].target = f.path.target /\ backup[f.id].created = f.created

\* Everything a goroutine holds for removal finished and was overtaken.
HoldsOvertaken(p) ==
  \A v \in Victims(p) :
    \E f \in finished : f.id = v.id /\ f.path = v.path /\ f.created = v.created /\ Overtaken(f)

\* A finished backup loses its row to keep-last only.
RowKept(f) == backup[f.id].status = "success" \/ Overtaken(f)

RowsInv ==
  /\ \A p \in Proc : RowInHand(p) /\ HoldsOvertaken(p)
  /\ RowsApart /\ History(finished)
  /\ \A f \in finished : FinishedRow(f) /\ RowKept(f)

LEMMA InitRows == Init => RowsInv
  BY DEF Init, RowsInv, RowInHand, HoldsOvertaken, Victims, RowsApart, History, Idle, Making

\* Nothing is inserted, settled, listed or deleted.
Uneventful ==
  /\ UNCHANGED <<backup, nextId, finished>>
  /\ \A r \in Proc : /\ proc'[r].pc \in Making => /\ proc[r].pc \in Making
                                                 /\ proc'[r].row = proc[r].row
                     /\ Victims(r)' \subseteq Victims(r)

LEMMA UneventfulKeepsRows ==
  ASSUME RowsInv, Uneventful
  PROVE  RowsInv'
  BY DEF RowsInv, Uneventful, RowInHand, HoldsOvertaken, Overtaken, RowsApart, FinishedRow, RowKept

\* Listed for keep-last, and so overtaken.
LEMMA SurplusIsOvertaken ==
  ASSUME CatalogueInv, RowsInv, NEW t \in Target, NEW j \in Job, Keep[j] > 0,
         NEW v \in Surplus(t, Keep[j])
  PROVE  \E f \in finished : f.id = v.id /\ f.path = v.path /\ f.created = v.created /\ Overtaken(f)
  <1> DEFINE Before(k) == {m \in Successes(t) : Newer(AsVictim(m), AsVictim(k))}
             entry(m) == [id |-> m, path |-> backup[m].path, created |-> backup[m].created]
  <1>1. PICK k \in Successes(t) : v = AsVictim(k) /\ Cardinality(Before(k)) >= Keep[j]
    BY DEF Surplus
  <1>2. \A m \in Successes(t) : entry(m) \in finished /\ entry(m).path.target = t
    BY DEF Successes, Rows, CatalogueInv, RowFinished
  <1>3. \A m \in Before(k) : entry(m) \in AheadIn(finished, entry(k))
    BY <1>1, <1>2 DEF AheadIn, Newer, AsVictim
  <1> DEFINE S == Before(k)
             e == [m \in S |-> entry(m)]
             A == AheadIn(finished, entry(k))
  <1>4. e \in Injection(S, A)
    BY <1>3 DEF Injection, IsInjective
  <1>5. IsFiniteSet(A) /\ Cardinality(A) \in Nat
    BY AheadIsFinite DEF RowsInv
  <1>6. Cardinality(S) <= Cardinality(A) /\ IsFiniteSet(S)
    <2> HIDE DEF S, e, A
    <2> QED
      BY <1>4, <1>5, FS_Injection
  <1>7. Cardinality(S) \in Nat /\ Keep[j] \in Nat
    BY <1>6, FS_CardinalityType, ConstantsAssumption
  <1>8. Overtaken(entry(k))
    <2> HIDE DEF S
    <2> QED
      BY <1>1, <1>5, <1>6, <1>7 DEF Overtaken, OvertakenIn, S
  <1> QED
    BY <1>1, <1>2, <1>8 DEF AsVictim

LEMMA OnlyItsLocals ==
  ASSUME TypeInv, NEW p \in Proc, Run(p)
  PROVE  \A r \in Proc \ {p} : proc'[r] = proc[r]
  <1>1. proc \in [Proc -> Process]
    BY DEF TypeInv, TypeOK
  <1> QED
    BY <1>1 DEF Run, BackUpTarget, StampJob, WriteArchive, FailArchive, Publish,
       RecordSuccess, RecordFailure, PruneList, RetainList, RemoveFile, RemoveRow, RemoveDone,
       ClearFile, ClearRows, Step

\* The steps of a run that leave rows and history alone.
LEMMA UneventfulRun ==
  ASSUME TypeInv, NEW p \in Proc, RunsAJob(p), NoLeftovers(p),
         \/ StampJob(p) \/ WriteArchive(p) \/ FailArchive(p) \/ Publish(p)
         \/ RemoveFile(p) \/ RemoveDone(p)
  PROVE  Uneventful
  <1> USE DEF db, disk, hist
  <1> DEFINE q == proc[p]
  <1>1. q \in Process /\ proc \in [Proc -> Process]
    BY DEF TypeInv, TypeOK
  <1>2. UNCHANGED <<backup, nextId, finished>>
    BY DEF StampJob, WriteArchive, FailArchive, Publish, RemoveFile, RemoveDone
  <1>3. \A r \in Proc \ {p} : proc'[r] = proc[r]
    BY OnlyItsLocals DEF Run
  <1>4. /\ Victims(p) = (q.victims \cup {q.victim}) \ {NoVictim}
        /\ Victims(p)' = (proc'[p].victims \cup {proc'[p].victim}) \ {NoVictim}
    BY DEF Victims
  <1>5. /\ proc'[p].pc \in Making => q.pc \in Making /\ proc'[p].row = q.row
        /\ Victims(p)' \subseteq Victims(p)
    <2>1. CASE WriteArchive(p) \/ FailArchive(p) \/ Publish(p)
      <3>1. q.pc \in {"write", "publish"}
        BY <2>1 DEF WriteArchive, FailArchive, Publish
      <3>2. PICK path :
              \/ proc'[p] = [q EXCEPT !.pc = "publish", !.path = path]
              \/ \E pc \in {"record", "record_failed"} : proc'[p] = [q EXCEPT !.pc = pc]
        BY <1>1, <2>1 DEF WriteArchive, FailArchive, Publish, Step
      <3> HIDE DEF q
      <3>3. proc'[p].row = q.row /\ proc'[p].victims = q.victims /\ proc'[p].victim = q.victim
        BY <1>1, <3>2 DEF Process
      <3> QED
        BY <1>4, <3>1, <3>3 DEF Making
    <2>2. CASE RemoveFile(p)
      <3>1. PICK v \in q.victims :
              proc'[p] = [q EXCEPT !.pc = "unlist", !.victim = v, !.victims = q.victims \ {v}]
        BY <1>1, <2>2 DEF RemoveFile, Step
      <3> HIDE DEF q
      <3>2. proc'[p].pc = "unlist" /\ proc'[p].victim = v /\ proc'[p].victims = q.victims \ {v}
        BY <1>1, <3>1 DEF Process
      <3> QED
        BY <1>4, <3>2 DEF Making
    <2>3. CASE StampJob(p) \/ RemoveDone(p)
      <3>1. \/ proc'[p] = Idle \/ proc'[p] = NextTarget(q)
            \/ q.pc = "remove" /\ proc'[p] = [q EXCEPT !.pc = "retain", !.mode = "none"]
        BY <1>1, <2>3 DEF StampJob, RemoveDone, Step
      <3> HIDE DEF q
      <3>2. CASE proc'[p] = Idle \/ proc'[p] = NextTarget(q)
        <4>1. /\ Idle.victims = {} /\ Idle.victim = NoVictim /\ Idle.pc = "idle"
              /\ NextTarget(q).victims = {} /\ NextTarget(q).victim = NoVictim
              /\ NextTarget(q).pc = "next"
          BY DEF Idle, NextTarget
        <4> QED
          BY <1>4, <3>2, <4>1 DEF Making
      <3>3. CASE q.pc = "remove" /\ proc'[p] = [q EXCEPT !.pc = "retain", !.mode = "none"]
        BY <1>1, <1>4, <3>3 DEF Process, Making
      <3> QED
        BY <3>1, <3>2, <3>3
    <2> QED
      BY <2>1, <2>2, <2>3
  <1>6. ASSUME NEW r \in Proc \ {p} PROVE Victims(r)' = Victims(r) /\ proc'[r] = proc[r]
    BY <1>3 DEF Victims
  <1> QED
    BY <1>2, <1>5, <1>6 DEF Uneventful

\* While jobs run by themselves a step is without event for the rows, or is
\* one of five.
LEMMA CalmCases ==
  ASSUME JobsOnly, CatalogueInv, PlainInv, [Next]_vars, Calm'
  PROVE  \/ Uneventful
         \/ \E p \in Proc : \/ BackUpTarget(p) \/ RecordSuccess(p) \/ RecordFailure(p)
                            \/ PruneList(p) \/ RemoveRow(p)
  <1> USE DEF db, disk, hist
  <1>1. TypeInv /\ proc \in [Proc -> Process] /\ Scheduler \in Proc /\ Triggers \subseteq Proc
    BY DEF CatalogueInv, TypeInv, TypeOK, Proc
  <1>2. ASSUME NEW p \in Proc, Run(p)
        PROVE  \/ Uneventful
               \/ \/ BackUpTarget(p) \/ RecordSuccess(p) \/ RecordFailure(p)
                  \/ PruneList(p) \/ RemoveRow(p)
    <2>1. proc[p].pc # "idle"
      BY <1>2 DEF Run, BackUpTarget, StampJob, WriteArchive, FailArchive, Publish, RecordSuccess,
         RecordFailure, PruneList, RetainList, RemoveFile, RemoveRow, RemoveDone, ClearFile,
         ClearRows
    <2>2. RunsAJob(p) /\ proc[p].pc # "retain" /\ NoLeftovers(p)
      BY <2>1 DEF PlainInv, Plain, CatalogueInv, Good
    <2>3. ~(RetainList(p) \/ ClearFile(p) \/ ClearRows(p))
      BY <2>2 DEF RunsAJob, RetainList, ClearFile, ClearRows
    <2> QED
      BY <1>1, <1>2, <2>2, <2>3, UneventfulRun DEF Run
  <1>3. CASE Tick \/ Wake \/ SkipJob \/ UNCHANGED vars
    BY <1>3 DEF Tick, Wake, SkipJob, vars, Uneventful, Victims
  <1>4. ASSUME NEW p \in Proc, NEW j, NEW todo, UNCHANGED <<backup, nextId, finished>>,
               Step(p, [Idle EXCEPT !.pc = "next", !.kind = "job", !.job = j, !.todo = todo])
        PROVE  Uneventful
    <2>1. /\ proc'[p].pc = "next" /\ proc'[p].victims = {} /\ proc'[p].victim = NoVictim
          /\ \A r \in Proc \ {p} : proc'[r] = proc[r]
      BY <1>1, <1>4 DEF Step, Idle
    <2> QED
      BY <1>4, <2>1 DEF Uneventful, Victims, Making
  <1>5. CASE BeginJob
    BY <1>1, <1>4, <1>5 DEF BeginJob
  <1>6. ASSUME NEW p \in Triggers, TriggerJob(p) PROVE Uneventful
    BY <1>1, <1>4, <1>6 DEF TriggerJob
  <1>7. CASE Restart
    BY <1>7 DEF Restart, Uneventful, Victims, Idle, Making
  <1> QED
    BY <1>1, <1>2, <1>3, <1>5, <1>6, <1>7, CalmEnvironment DEF Next, Schedule, PlainInv

\* What every step about p's row needs of the invariants.
LEMMA RowFacts ==
  ASSUME CatalogueInv, RowsInv, NEW p \in Proc, proc[p].pc \in Making
  PROVE  /\ proc[p].row \in Id /\ proc[p].row < nextId
         /\ backup[proc[p].row].status = "in_progress"
         /\ backup[proc[p].row].target = proc[p].target
         /\ \A f \in finished : f.id # proc[p].row
         /\ \A r \in Proc \ {p} : proc[r].pc \in Making => proc[r].row # proc[p].row
  <1>1. Good(p) /\ WellFormed(proc[p]) /\ RowInHand(p)
    BY DEF CatalogueInv, TypeInv, RowsInv
  <1> QED
    BY <1>1 DEF Good, RowIsOurs, WellFormed, RowInHand, RowsInv, FinishedRow, RowsApart

LEMMA InsertKeepsRows ==
  ASSUME CatalogueInv, PlainInv, RowsInv, NEW p \in Proc, BackUpTarget(p)
  PROVE  RowsInv'
  <1> USE DEF disk, hist
  <1> DEFINE q == proc[p]
  <1>1. /\ q \in Process /\ proc \in [Proc -> Process] /\ Good(p) /\ TypeInv
        /\ nextId \in Int /\ backup \in [Id -> Row]
    BY DEF CatalogueInv, TypeInv, TypeOK
  <1>2. \A r \in Proc \ {p} : proc'[r] = proc[r]
    BY <1>1, OnlyItsLocals DEF Run
  <1>3. PICK t \in q.todo :
          \/ /\ Insert(t)
             /\ proc'[p] = [q EXCEPT !.todo = q.todo \ {t}, !.pc = "write",
                                     !.target = t, !.row = nextId]
          \/ /\ proc'[p] = [q EXCEPT !.todo = q.todo \ {t}]
             /\ UNCHANGED <<backup, nextId>>
    BY <1>1 DEF BackUpTarget, Step
  <1>4. finished' = finished /\ q.pc = "next"
    BY DEF BackUpTarget
  <1>5. /\ Victims(p) = (q.victims \cup {q.victim}) \ {NoVictim}
        /\ Victims(p)' = (proc'[p].victims \cup {proc'[p].victim}) \ {NoVictim}
        /\ \A r \in Proc \ {p} : Victims(r)' = Victims(r)
    BY <1>2 DEF Victims
  <1>6. CASE proc'[p] = [q EXCEPT !.todo = q.todo \ {t}] /\ UNCHANGED <<backup, nextId>>
    <2>1. proc'[p].pc = "next" /\ Victims(p)' = Victims(p)
      <3> HIDE DEF q
      <3> QED
        BY <1>1, <1>4, <1>5, <1>6 DEF Process
    <2>2. Uneventful
      BY <1>2, <1>4, <1>5, <1>6, <2>1 DEF Uneventful, Making
    <2> QED
      BY <2>2, UneventfulKeepsRows
  <1>7. CASE /\ Insert(t)
             /\ proc'[p] = [q EXCEPT !.todo = q.todo \ {t}, !.pc = "write",
                                     !.target = t, !.row = nextId]
    <2>1. proc'[p].pc = "write" /\ proc'[p].row = nextId /\ Victims(p)' = Victims(p)
      <3> HIDE DEF q
      <3> QED
        BY <1>1, <1>5, <1>7 DEF Process
    <2>2. /\ nextId \in Id /\ nextId' = nextId + 1
          /\ backup'[nextId].status = "in_progress"
          /\ \A i \in Id \ {nextId} : backup'[i] = backup[i]
      BY <1>1, <1>7 DEF Insert
    <2>3. \A r \in Proc \ {p} : proc[r].pc \in Making => proc[r].row \in Id \ {nextId}
      BY <1>1, RowFacts DEF Id
    <2>4. \A f \in finished : f.id \in Id \ {nextId} /\ f.id < nextId /\ f.id < nextId'
      BY <1>1, <2>2 DEF RowsInv, FinishedRow, History, Entry, Id
    <2>5. \A r \in Proc : RowInHand(r)'
      BY <1>2, <2>1, <2>2, <2>3 DEF RowsInv, RowInHand
    <2>6. \A r \in Proc : HoldsOvertaken(r)'
      BY <1>4, <1>5, <2>1 DEF RowsInv, HoldsOvertaken, Overtaken
    <2>7. RowsApart'
      BY <1>2, <2>1, <2>3 DEF RowsInv, RowsApart
    <2>8. \A f \in finished' : FinishedRow(f)' /\ RowKept(f)'
      BY <1>4, <2>2, <2>4 DEF RowsInv, FinishedRow, RowKept, Overtaken
    <2> QED
      BY <1>4, <2>5, <2>6, <2>7, <2>8 DEF RowsInv
  <1> QED
    BY <1>3, <1>6, <1>7

\* A goroutine that settled its row has nothing in hand.
LEMMA SettledLocals ==
  ASSUME CatalogueInv, NEW p \in Proc, RecordSuccess(p) \/ RecordFailure(p)
  PROVE  /\ proc[p].pc \in Making /\ proc'[p].pc \notin Making /\ Victims(p)' = {}
         /\ \A r \in Proc \ {p} : proc'[r] = proc[r] /\ Victims(r)' = Victims(r)
  <1> DEFINE q == proc[p]
  <1>1. q \in Process /\ proc \in [Proc -> Process] /\ Good(p) /\ TypeInv
    BY DEF CatalogueInv, TypeInv, TypeOK
  <1>2. q.pc \in {"record", "record_failed"} /\ q.victims = {} /\ q.victim = NoVictim
    BY <1>1 DEF RecordSuccess, RecordFailure, Good, NoLeftovers
  <1>3. \A r \in Proc \ {p} : proc'[r] = proc[r]
    BY <1>1, OnlyItsLocals DEF Run
  <1>4. Victims(p)' = (proc'[p].victims \cup {proc'[p].victim}) \ {NoVictim}
    BY DEF Victims
  <1> DEFINE days == IF q.kind = "job" THEN Retention[q.job] ELSE q.days
  <1>5. \/ proc'[p] = Idle \/ proc'[p] = NextTarget(q)
        \/ \E pc \in {"prune", "retain"} : proc'[p] = [q EXCEPT !.pc = pc, !.days = days]
    BY <1>1 DEF RecordSuccess, RecordFailure, AfterRecord, Step
  <1> HIDE DEF days
  <1>6. CASE proc'[p] = Idle \/ proc'[p] = NextTarget(q)
    <2>1. /\ Idle.victims = {} /\ Idle.victim = NoVictim /\ Idle.pc = "idle"
          /\ NextTarget(q).victims = {} /\ NextTarget(q).victim = NoVictim
          /\ NextTarget(q).pc = "next"
      BY DEF Idle, NextTarget
    <2>2. proc'[p].pc \in {"idle", "next"} /\ proc'[p].victims = {} /\ proc'[p].victim = NoVictim
      BY <1>6, <2>1
    <2> QED
      BY <1>2, <1>3, <1>4, <2>2 DEF Making, Victims
  <1>7. CASE \E pc \in {"prune", "retain"} : proc'[p] = [q EXCEPT !.pc = pc, !.days = days]
    <2>1. proc'[p].pc \in {"prune", "retain"} /\ proc'[p].victims = q.victims
          /\ proc'[p].victim = q.victim
      <3> HIDE DEF q
      <3> QED
        BY <1>1, <1>7 DEF Process
    <2> QED
      BY <1>2, <1>3, <1>4, <2>1 DEF Making, Victims
  <1> QED
    BY <1>5, <1>6, <1>7

LEMMA SettlingKeepsRows ==
  ASSUME CatalogueInv, RowsInv, NEW p \in Proc, RecordSuccess(p) \/ RecordFailure(p)
  PROVE  RowsInv'
  <1> USE DEF disk, hist
  <1> DEFINE q == proc[p]
             i == q.row
  <1>0. PICK f : f = [id |-> i, path |-> q.path, created |-> backup[i].created]
    OBVIOUS
  <1>1. TypeInv /\ Good(p) /\ backup \in [Id -> Row] /\ finished \subseteq Entry
        /\ nextId' = nextId
    BY DEF CatalogueInv, TypeInv, TypeOK, Entry, RecordSuccess, RecordFailure
  <1>2. /\ q.pc \in Making /\ proc'[p].pc \notin Making /\ Victims(p)' = {}
        /\ \A r \in Proc \ {p} : proc'[r] = proc[r] /\ Victims(r)' = Victims(r)
    BY SettledLocals
  <1>3. /\ i \in Id /\ i < nextId /\ backup[i].status = "in_progress"
        /\ backup[i].target = q.target /\ \A g \in finished : g.id # i
        /\ \A r \in Proc \ {p} : proc[r].pc \in Making => proc[r].row # i
    BY <1>2, RowFacts
  <1>4. \A r \in Proc \ {p} : proc[r].pc \in Making => proc[r].row \in Id
    BY <1>1 DEF TypeInv, WellFormed
  <1>5. CASE backup' = backup /\ finished' = finished
    <2>1. Uneventful
      BY <1>1, <1>2, <1>5 DEF Uneventful
    <2> QED
      BY <2>1, UneventfulKeepsRows
  <1>6. CASE ~(backup' = backup /\ finished' = finished)
    <2>1. \/ /\ backup' = [backup EXCEPT ![i] = [backup[i] EXCEPT !.status = "success", !.path = q.path]]
             /\ finished' = finished \cup {f} /\ q.pc = "record"
          \/ /\ backup' = [backup EXCEPT ![i] = [backup[i] EXCEPT !.status = "failed"]]
             /\ finished' = finished
      BY <1>0, <1>3, <1>6 DEF RecordSuccess, RecordFailure, Update
    <2>2. \A k \in Id \ {i} : backup'[k] = backup[k]
      BY <1>1, <2>1
    <2>3. \A g \in finished : g.id \in Id \ {i}
      BY <1>1, <1>3 DEF Entry
    <2>4. \A r \in Proc : RowInHand(r)'
      BY <1>2, <1>3, <1>4, <2>2 DEF RowsInv, RowInHand
    <2>5. RowsApart'
      BY <1>2 DEF RowsInv, RowsApart
    <2>6. History(finished') /\ finished \subseteq finished'
      <3>1. CASE finished' = finished
        BY <3>1 DEF RowsInv
      <3>2. CASE finished' = finished \cup {f}
        <4>1. f \in Entry
          <5>1. TypeInv'
            BY <1>1, NextTypes DEF Next, Run
          <5>2. finished' \subseteq Entry
            BY <5>1 DEF TypeInv, TypeOK, Entry
          <5> QED
            BY <3>2, <5>2
        <4>2. f.id = i
          BY <1>0
        <4> QED
          BY <1>1, <1>3, <3>2, <4>1, <4>2 DEF RowsInv, History
      <3> QED
        BY <2>1, <3>1, <3>2
    <2>7. \A g \in finished : Overtaken(g) => Overtaken(g)'
      BY <2>6, OvertakenStays DEF Overtaken
    <2>8. \A r \in Proc : HoldsOvertaken(r)'
      BY <1>2, <2>6, <2>7 DEF RowsInv, HoldsOvertaken
    <2>9. \A g \in finished : FinishedRow(g)' /\ RowKept(g)'
      BY <1>1, <2>2, <2>3, <2>7 DEF RowsInv, FinishedRow, RowKept
    <2>10. CASE finished' = finished
      BY <2>4, <2>5, <2>6, <2>8, <2>9, <2>10 DEF RowsInv
    <2>11. CASE /\ backup' = [backup EXCEPT ![i] = [backup[i] EXCEPT !.status = "success", !.path = q.path]]
                /\ finished' = finished \cup {f} /\ q.pc = "record"
      <3> DEFINE path == q.path
                 old == backup[i]
      <3>1. old \in Row /\ backup'[i] = [old EXCEPT !.status = "success", !.path = path]
        BY <1>1, <1>3, <2>11
      <3>2. /\ backup'[i].status = "success" /\ backup'[i].path = path
            /\ backup'[i].target = old.target /\ backup'[i].created = old.created
        <4> HIDE DEF old, path
        <4> QED
          BY <3>1 DEF Row
      <3>3. q.path.target = q.target
        BY <1>1, <2>11 DEF Good, PathIsOurs
      <3>4. f.id = i /\ f.path = path /\ f.created = old.created
        BY <1>0
      <3>5. FinishedRow(f)' /\ RowKept(f)'
        <4>1. /\ f.id < nextId' /\ backup'[f.id].status = "success"
              /\ backup'[f.id].path = f.path /\ backup'[f.id].target = f.path.target
              /\ backup'[f.id].created = f.created
          BY <1>1, <1>3, <3>2, <3>3, <3>4
        <4> QED
          BY <4>1 DEF FinishedRow, RowKept
      <3> QED
        BY <2>4, <2>5, <2>6, <2>8, <2>9, <2>11, <3>5 DEF RowsInv
    <2> QED
      BY <2>1, <2>10, <2>11
  <1> QED
    BY <1>5, <1>6

LEMMA ListingKeepsRows ==
  ASSUME CatalogueInv, RowsInv, NEW p \in Proc, PruneList(p)
  PROVE  RowsInv'
  <1> USE DEF db, disk, hist
  <1> DEFINE q == proc[p]
  <1>1. /\ q \in Process /\ proc \in [Proc -> Process] /\ Good(p) /\ TypeInv /\ WellFormed(q)
    BY DEF CatalogueInv, TypeInv, TypeOK
  <1>2. \A r \in Proc \ {p} : proc'[r] = proc[r] /\ Victims(r)' = Victims(r)
    BY <1>1, OnlyItsLocals DEF Run, Victims
  <1>3. /\ q.pc = "prune" /\ q.victims = {} /\ q.victim = NoVictim /\ q.kind = "job"
        /\ Keep[q.job] > 0 /\ q.job \in Job /\ q.target \in Target
    BY <1>1 DEF PruneList, Good, NoLeftovers, PruneHasLimit, WellFormed
  <1> DEFINE S == Surplus(q.target, Keep[q.job])
  <1>4. proc'[p].pc = "remove" /\ proc'[p].victim = NoVictim /\ proc'[p].victims \in {{}, S}
    <2>1. \/ proc'[p] = [q EXCEPT !.pc = "remove", !.mode = "prune", !.victims = S]
          \/ proc'[p] = [q EXCEPT !.pc = "remove", !.mode = "prune"]
      BY <1>1 DEF PruneList, Step
    <2> HIDE DEF q, S
    <2> QED
      BY <1>1, <1>3, <2>1 DEF Process
  <1>5. UNCHANGED <<backup, nextId, finished>>
    BY DEF PruneList
  <1>6. Victims(p)' \subseteq S
    BY <1>4 DEF Victims
  <1>7. HoldsOvertaken(p)'
    <2>1. \A v \in S : \E f \in finished :
             f.id = v.id /\ f.path = v.path /\ f.created = v.created /\ Overtaken(f)
      BY <1>3, SurplusIsOvertaken
    <2> HIDE DEF S
    <2> QED
      BY <1>5, <1>6, <2>1 DEF HoldsOvertaken, Overtaken
  <1>8. \A r \in Proc \ {p} : HoldsOvertaken(r)'
    BY <1>2, <1>5 DEF RowsInv, HoldsOvertaken, Overtaken
  <1>9. \A r \in Proc : proc'[r].pc \in Making => proc[r].pc \in Making /\ proc'[r].row = proc[r].row
    BY <1>2, <1>4 DEF Making
  <1> QED
    BY <1>5, <1>7, <1>8, <1>9 DEF RowsInv, RowInHand, RowsApart, FinishedRow, RowKept, Overtaken

\* The victim in hand, if any, finished and was overtaken.
LEMMA VictimInHand ==
  ASSUME CatalogueInv, RowsInv, NEW p \in Proc, proc[p].victim.id \in Id
  PROVE  \E f \in finished : /\ f.id = proc[p].victim.id /\ f.path = proc[p].victim.path
                             /\ Overtaken(f)
  <1>1. proc[p].victim \in Victims(p)
    BY DEF Victims, NoVictim, Id
  <1> QED
    BY <1>1 DEF RowsInv, HoldsOvertaken

LEMMA UnlistingKeepsRows ==
  ASSUME CatalogueInv, RowsInv, NEW p \in Proc, RemoveRow(p)
  PROVE  RowsInv'
  <1> USE DEF disk, hist
  <1> DEFINE q == proc[p]
             i == q.victim.id
  <1>1. q \in Process /\ proc \in [Proc -> Process] /\ TypeInv /\ backup \in [Id -> Row]
    BY DEF CatalogueInv, TypeInv, TypeOK
  <1>2. \A r \in Proc \ {p} : proc'[r] = proc[r] /\ Victims(r)' = Victims(r)
    BY <1>1, OnlyItsLocals DEF Run, Victims
  <1>3. nextId' = nextId /\ finished' = finished /\ q.pc = "unlist"
    BY DEF RemoveRow
  <1>4. proc'[p].pc = "remove" /\ Victims(p)' \subseteq Victims(p)
    <2>1. proc'[p] = [q EXCEPT !.pc = "remove", !.victim = NoVictim]
      BY <1>1 DEF RemoveRow, Step
    <2>2. /\ Victims(p) = (q.victims \cup {q.victim}) \ {NoVictim}
          /\ Victims(p)' = (proc'[p].victims \cup {proc'[p].victim}) \ {NoVictim}
      BY DEF Victims
    <2> HIDE DEF q
    <2>3. proc'[p].pc = "remove" /\ proc'[p].victim = NoVictim /\ proc'[p].victims = q.victims
      BY <1>1, <2>1 DEF Process
    <2> QED
      BY <2>2, <2>3
  <1>5. CASE backup' = backup
    <2>1. Uneventful
      BY <1>2, <1>3, <1>4, <1>5 DEF Uneventful, Making
    <2> QED
      BY <2>1, UneventfulKeepsRows
  <1>6. CASE backup' # backup
    <2>1. i \in Id /\ backup' = [backup EXCEPT ![i] = NoRow]
      BY <1>6 DEF RemoveRow, DeleteRow
    <2>2. PICK v \in finished : v.id = i /\ Overtaken(v)
      BY <2>1, VictimInHand
    <2>3. /\ backup'[i].status = "none" /\ \A k \in Id \ {i} : backup'[k] = backup[k]
          /\ backup[i].status # "in_progress"
      BY <1>1, <2>1, <2>2 DEF NoRow, RowsInv, FinishedRow
    <2>4. \A r \in Proc : proc'[r].pc \in Making => /\ proc[r].pc \in Making
                                                    /\ proc'[r].row = proc[r].row
                                                    /\ proc[r].row \in Id \ {i}
      BY <1>1, <1>2, <1>4, <2>3, RowFacts DEF Making
    <2>5. (\A r \in Proc : RowInHand(r)') /\ RowsApart'
      BY <2>3, <2>4 DEF RowsInv, RowInHand, RowsApart
    <2>6. \A r \in Proc : HoldsOvertaken(r)'
      BY <1>2, <1>3, <1>4 DEF RowsInv, HoldsOvertaken, Overtaken
    <2>7. \A f \in finished : f.id \in Id /\ (f.id = i => f = v)
      BY <2>2 DEF RowsInv, History, Entry
    <2>8. \A f \in finished : FinishedRow(f)' /\ RowKept(f)'
      BY <1>3, <2>2, <2>3, <2>7 DEF RowsInv, FinishedRow, RowKept, Overtaken
    <2> QED
      BY <1>3, <2>5, <2>6, <2>8 DEF RowsInv
  <1> QED
    BY <1>5, <1>6

LEMMA NextRows ==
  ASSUME JobsOnly, CatalogueInv, PlainInv, RowsInv, [Next]_vars, Calm'
  PROVE  RowsInv'
  BY CalmCases, UneventfulKeepsRows, InsertKeepsRows, SettlingKeepsRows, ListingKeepsRows,
     UnlistingKeepsRows

\* All of it, as long as no operator's request has been served.
CalmInv == CatalogueInv /\ SlotInv /\ (Calm => PlainInv /\ RowsInv)

LEMMA InitCalm == Init => CalmInv
  BY InitCatalogue, InitSlot, InitPlain, InitRows DEF CalmInv

LEMMA StaysCalm ==
  ASSUME TypeInv, [Next]_vars, Calm'
  PROVE  Calm
  BY UsedGrows DEF Calm, Budget

LEMMA NextCalm == ASSUME JobsOnly, CalmInv, [Next]_vars PROVE CalmInv'
  <1>1. CatalogueInv' /\ SlotInv'
    BY NextCatalogue, NextSlot DEF CalmInv
  <1>2. ASSUME Calm' PROVE PlainInv' /\ RowsInv'
    BY <1>2, StaysCalm, NextPlain, NextRows DEF CalmInv, CatalogueInv
  <1> QED
    BY <1>1, <1>2 DEF CalmInv

-----------------------------------------------------------------------------
(* Every target is tried, as long as no request was served and no statement  *)
(* failed.                                                                   *)

Faultless == used["fault"] = 0

FreshIds == \A i \in Id : backup[i].status # "none" => i < nextId

Tried(t, since) ==
  \E i \in Rows : /\ backup[i].target = t /\ backup[i].status \in {"success", "failed"}
                  /\ backup[i].created >= since

\* What the scheduler's run has left behind it was tried since it began.
RunTried ==
  proc[Scheduler].pc # "idle" =>
    LET q == proc[Scheduler]
    IN  /\ q.pc \in Making => backup[q.row].created >= begun[q.job]
        /\ \A t \in JobTargets[q.job] \ q.todo :
             (q.pc \in Making /\ q.target = t) \/ Tried(t, begun[q.job])

TriedInv == CalmInv /\ (Calm => FreshIds) /\ (Calm /\ Faultless => RunTried)

LEMMA InitTried == Init => TriedInv
  <1> SUFFICES ASSUME Init PROVE TriedInv
    OBVIOUS
  <1>1. FreshIds
    BY DEF Init, FreshIds, NoRow
  <1>2. RunTried
    BY DEF Init, RunTried, Idle, Proc
  <1> QED
    BY <1>1, <1>2, InitCalm DEF TriedInv

LEMMA IdsStayFresh ==
  ASSUME JobsOnly, CatalogueInv, PlainInv, RowsInv, FreshIds, [Next]_vars, Calm'
  PROVE  FreshIds'
  <1> USE DEF disk, hist
  <1>1. backup \in [Id -> Row] /\ nextId \in Int /\ TypeInv
    BY DEF CatalogueInv, TypeInv, TypeOK
  <1>2. CASE Uneventful
    BY <1>2 DEF Uneventful, FreshIds
  <1>3. ASSUME NEW p \in Proc,
               BackUpTarget(p) \/ RecordSuccess(p) \/ RecordFailure(p) \/ PruneList(p) \/ RemoveRow(p)
        PROVE  FreshIds'
    <2>1. CASE BackUpTarget(p)
      <3>1. \/ UNCHANGED <<backup, nextId>>
            \/ /\ nextId' = nextId + 1 /\ nextId \in Id
               /\ \A i \in Id \ {nextId} : backup'[i] = backup[i]
        BY <1>1, <2>1 DEF BackUpTarget, Insert
      <3>2. Id \subseteq Int
        BY DEF Id
      <3> QED
        BY <1>1, <3>1, <3>2 DEF FreshIds
    <2>2. CASE RecordSuccess(p) \/ RecordFailure(p)
      <3>1. proc[p].row < nextId /\ proc[p].row \in Id /\ nextId' = nextId
        BY <2>2, SettledLocals, RowFacts DEF RecordSuccess, RecordFailure
      <3>2. \A i \in Id \ {proc[p].row} : backup'[i] = backup[i]
        BY <1>1, <2>2 DEF RecordSuccess, RecordFailure, Update
      <3> QED
        BY <3>1, <3>2 DEF FreshIds
    <2>3. CASE PruneList(p)
      BY <2>3 DEF PruneList, db, FreshIds
    <2>4. CASE RemoveRow(p)
      <3>1. nextId' = nextId /\ \A i \in Id : backup'[i] = backup[i] \/ backup'[i].status = "none"
        BY <1>1, <2>4 DEF RemoveRow, DeleteRow, NoRow
      <3> QED
        BY <3>1 DEF FreshIds
    <2> QED
      BY <1>3, <2>1, <2>2, <2>3, <2>4
  <1> QED
    BY <1>2, <1>3, CalmCases

\* Keep-last may take the row that shows a target was tried, but then a newer
\* one shows it.
LEMMA TriedStays ==
  ASSUME JobsOnly, CatalogueInv, PlainInv, RowsInv, FreshIds, RowsInv', [Next]_vars, Calm',
         NEW t, NEW since \in Int, Tried(t, since)
  PROVE  Tried(t, since)'
  <1> USE DEF disk, hist
  <1>1. PICK i \in Rows : /\ backup[i].target = t /\ backup[i].status \in {"success", "failed"}
                          /\ backup[i].created >= since
    BY DEF Tried
  <1>2. i \in Id /\ backup \in [Id -> Row] /\ nextId \in Int /\ i < nextId
    BY <1>1 DEF Rows, CatalogueInv, TypeInv, TypeOK, FreshIds
  <1>3. CASE backup'[i] = backup[i]
    BY <1>1, <1>2, <1>3 DEF Tried, Rows
  <1>4. CASE backup'[i] # backup[i]
    <2>1. ~Uneventful
      BY <1>4 DEF Uneventful
    <2>2. PICK p \in Proc : \/ BackUpTarget(p) \/ RecordSuccess(p) \/ RecordFailure(p)
                            \/ PruneList(p) \/ RemoveRow(p)
      BY <2>1, CalmCases
    <2>3. ~BackUpTarget(p) /\ ~PruneList(p)
      <3>1. ASSUME BackUpTarget(p)
            PROVE  backup' = backup \/ \A k \in Id \ {nextId} : backup'[k] = backup[k]
        BY <1>2, <3>1 DEF BackUpTarget, Insert
      <3>2. i # nextId
        BY <1>2 DEF Id
      <3>3. ~PruneList(p)
        BY <1>4 DEF PruneList, db
      <3> QED
        BY <1>2, <1>4, <3>1, <3>2, <3>3
    <2>4. ~(RecordSuccess(p) \/ RecordFailure(p))
      BY <1>1, <1>2, <1>4, SettledLocals, RowFacts DEF RecordSuccess, RecordFailure, Update
    <2>5. RemoveRow(p) /\ proc[p].victim.id = i /\ finished' = finished
      BY <1>2, <1>4, <2>2, <2>3, <2>4 DEF RemoveRow, DeleteRow
    <2>6. PICK v \in finished : v.id = i /\ Overtaken(v)
      BY <1>2, <2>5, VictimInHand
    <2>7. v.path.target = t /\ v.created >= since /\ v.created \in Int
      BY <1>1, <2>6 DEF RowsInv, FinishedRow, History, Entry, Time
    <2>8. PICK f \in finished : f.path.target = t /\ f.created >= v.created /\ ~Overtaken(f)
      BY <2>7, TheNewestStays DEF RowsInv, Overtaken
    <2>9. /\ f \in Entry /\ f.created \in Int /\ f.id \in Id
          /\ FinishedRow(f)' /\ RowKept(f)' /\ ~Overtaken(f)'
      BY <2>5, <2>8 DEF RowsInv, History, Entry, Time, Overtaken
    <2>10. /\ backup'[f.id].status = "success" /\ backup'[f.id].target = t
           /\ backup'[f.id].created >= since
      BY <2>7, <2>8, <2>9 DEF FinishedRow, RowKept
    <2> QED
      BY <2>9, <2>10 DEF Tried, Rows
  <1> QED
    BY <1>3, <1>4

LEMMA NoFaults ==
  ASSUME TypeInv, Faultless'
  PROVE  ~Breaks
  BY DEF TypeInv, TypeOK, Faultless, Breaks, Spend, Budget

\* A step of a run that neither begins nor ends with a target.
LEMMA RestOfRun ==
  ASSUME TypeInv, NEW p \in Proc, RunsAJob(p), Run(p), ~StampJob(p), ~BackUpTarget(p)
  PROVE  /\ proc'[p].todo = proc[p].todo
         /\ proc'[p].pc \in Making => /\ proc[p].pc \in Making /\ proc'[p].row = proc[p].row
                                     /\ proc'[p].target = proc[p].target
         /\ \/ proc[p].pc \in Making /\ proc'[p].pc \in Making
            \/ proc[p].pc \notin Making
            \/ RecordSuccess(p) \/ RecordFailure(p)
  <1> DEFINE q == proc[p]
  <1>1. q \in Process /\ proc \in [Proc -> Process]
    BY DEF TypeInv, TypeOK
  <1>2. NextTarget(q).pc = "next" /\ NextTarget(q).todo = q.todo
    BY DEF NextTarget, Idle
  <1>3. CASE WriteArchive(p) \/ FailArchive(p) \/ Publish(p)
    <2>1. PICK path :
            \/ proc'[p] = [q EXCEPT !.pc = "publish", !.path = path]
            \/ \E pc \in {"record", "record_failed"} : proc'[p] = [q EXCEPT !.pc = pc]
      BY <1>1, <1>3 DEF WriteArchive, FailArchive, Publish, Step
    <2>2. q.pc \in {"write", "publish"}
      BY <1>3 DEF WriteArchive, FailArchive, Publish
    <2> QED
      BY <1>1, <2>1, <2>2 DEF Process, Making
  <1>4. CASE RecordSuccess(p)
    <2>1. proc'[p] = AfterRecord(p)
      BY <1>1, <1>4 DEF RecordSuccess, Step
    <2> DEFINE days == IF q.kind = "job" THEN Retention[q.job] ELSE q.days
    <2>2. \/ \E pc \in {"prune", "retain"} : proc'[p] = [q EXCEPT !.pc = pc, !.days = days]
          \/ proc'[p] = NextTarget(q)
      BY <2>1 DEF AfterRecord, RunsAJob
    <2> HIDE DEF days
    <2> QED
      BY <1>1, <1>2, <1>4, <2>2 DEF Process, Making
  <1>5. CASE RecordFailure(p)
    BY <1>1, <1>2, <1>5 DEF RecordFailure, Step, RunsAJob, Making
  <1>6. CASE PruneList(p) \/ RetainList(p)
    <2>1. PICK mode, S :
            \/ proc'[p] = [q EXCEPT !.pc = "remove", !.mode = mode, !.victims = S]
            \/ proc'[p] = [q EXCEPT !.pc = "remove", !.mode = mode]
      BY <1>1, <1>6 DEF PruneList, RetainList, Step
    <2>2. q.pc \in {"prune", "retain"}
      BY <1>6 DEF PruneList, RetainList
    <2> QED
      BY <1>1, <2>1, <2>2 DEF Process, Making
  <1>7. CASE RemoveFile(p) \/ RemoveRow(p)
    <2>1. \/ \E v \in q.victims :
               proc'[p] = [q EXCEPT !.pc = "unlist", !.victim = v, !.victims = q.victims \ {v}]
          \/ proc'[p] = [q EXCEPT !.pc = "remove", !.victim = NoVictim]
      BY <1>1, <1>7 DEF RemoveFile, RemoveRow, Step
    <2>2. q.pc \in {"remove", "unlist"}
      BY <1>7 DEF RemoveFile, RemoveRow
    <2> QED
      BY <1>1, <2>1, <2>2 DEF Process, Making
  <1>8. CASE RemoveDone(p)
    <2>1. \/ proc'[p] = NextTarget(q)
          \/ proc'[p] = [q EXCEPT !.pc = "retain", !.mode = "none"]
      BY <1>1, <1>8 DEF RemoveDone, Step, RunsAJob
    <2>2. q.pc = "remove"
      BY <1>8 DEF RemoveDone
    <2> QED
      BY <1>1, <1>2, <2>1, <2>2 DEF Process, Making
  <1>9. CASE ClearFile(p) \/ ClearRows(p)
    BY <1>9 DEF ClearFile, ClearRows, RunsAJob
  <1> QED
    BY <1>3, <1>4, <1>5, <1>6, <1>7, <1>8, <1>9 DEF Run

LEMMA NextRunTried ==
  ASSUME JobsOnly, CatalogueInv, SlotInv, PlainInv, RowsInv, FreshIds, RunTried,
         CatalogueInv', RowsInv', [Next]_vars, Calm', Faultless'
  PROVE  RunTried'
  <1> USE DEF db, disk, hist
  <1> DEFINE S == Scheduler
             q == proc[S]
             r == proc'[S]
             j == q.job
  <1>1. /\ TypeInv /\ TypeInv' /\ proc \in [Proc -> Process] /\ S \in Proc /\ Frame
        /\ begun \in [Job -> Int] /\ now \in Int /\ ~Breaks /\ backup \in [Id -> Row]
    BY NextFrame, NoFaults, ConstantsAssumption
       DEF CatalogueInv, TypeInv, TypeOK, Proc, Time, Never
  <1>2. CASE r.pc = "idle"
    BY <1>2 DEF RunTried
  <1>3. CASE q.pc = "idle" /\ r.pc # "idle"
    <2>1. BeginJob
      BY <1>3, OnlyBeginJobBegins
    <2>2. PICK k : r = [Idle EXCEPT !.pc = "next", !.kind = "job", !.job = k, !.todo = JobTargets[k]]
      BY <1>1, <2>1 DEF BeginJob, Step
    <2>3. r.pc = "next" /\ r.job = k /\ r.todo = JobTargets[k]
      BY <2>2 DEF Idle
    <2> QED
      BY <2>3 DEF RunTried, Making
  <1>4. CASE q.pc # "idle" /\ r.pc # "idle"
    <2>1. RunsAJob(S) /\ j \in Job /\ Live(j) /\ begun[j] \in Int
      BY <1>1, <1>4 DEF PlainInv, Plain, RunsAJob, TypeInv, WellFormed
    <2>0. ~BeginJob /\ ~Restart
      <3>1. ~BeginJob
        BY <1>4 DEF BeginJob
      <3>2. ~Restart
        BY <1>1, <1>4 DEF Restart, Idle
      <3> QED
        BY <3>1, <3>2
    <2>2. begun' = begun
      <3>2. ASSUME NEW p \in Proc, Run(p) PROVE begun' = begun
        <4>1. CASE StampJob(p)
          BY <1>1, <4>1 DEF StampJob
        <4>2. CASE ~StampJob(p)
          BY <3>2, <4>2 DEF Run, BackUpTarget, WriteArchive, FailArchive, Publish,
             RecordSuccess, RecordFailure, PruneList, RetainList, RemoveFile, RemoveRow,
             RemoveDone, ClearFile, ClearRows
        <4> QED
          BY <4>1, <4>2
      <3>3. ASSUME Expire \/ Operate PROVE begun' = begun
        BY <1>1, <3>3, CalmEnvironment DEF TriggerJob, PlainInv
      <3>4. ASSUME Tick \/ Wake \/ SkipJob \/ UNCHANGED vars PROVE begun' = begun
        BY <3>4 DEF Tick, Wake, SkipJob, vars
      <3> QED
        BY <2>0, <3>2, <3>3, <3>4 DEF Next, Schedule
    <2>3. PICK since \in Int : since = begun[j]
      BY <2>1
    <2>4. \A t : Tried(t, since) => Tried(t, since)'
      BY <2>3, TriedStays
    <2>5. /\ q.pc \in Making => backup[q.row].created >= since
          /\ \A t \in JobTargets[j] \ q.todo :
               (q.pc \in Making /\ q.target = t) \/ Tried(t, since)
      BY <1>4, <2>3 DEF RunTried
    <2>6. ASSUME q.pc \in Making, r.pc \in Making, r.row = q.row
          PROVE  backup'[r.row].created >= since
      <3>1. q.row < nextId /\ q.row \in Id
        BY <1>1, <2>6, RowFacts
      <3>2. backup'[q.row].status = "in_progress"
        BY <1>1, <2>6 DEF RowsInv, RowInHand
      <3>3. backup'[q.row].created = backup[q.row].created
        BY <1>1, <3>1, <3>2 DEF Frame, IdentityKept
      <3> QED
        BY <2>5, <2>6, <3>3
    <2>A. SUFFICES /\ r.job = j
                   /\ r.pc \in Making => backup'[r.row].created >= since
                   /\ \A t \in JobTargets[j] \ r.todo :
                        (r.pc \in Making /\ r.target = t) \/ Tried(t, since)'
      BY <2>2, <2>3 DEF RunTried, Tried
    <2>7. CASE r = q
      BY <2>4, <2>5, <2>6, <2>7
    <2>8. CASE BackUpTarget(S)
      <3>1. Works
        BY <1>1, <2>1, <2>8 DEF BackUpTarget
      <3>2. PICK t \in q.todo :
              /\ Insert(t)
              /\ r = [q EXCEPT !.todo = q.todo \ {t}, !.pc = "write", !.target = t,
                              !.row = nextId]
        BY <1>1, <2>1, <2>8 DEF BackUpTarget, Step
      <3>3. /\ r.job = j /\ r.todo = q.todo \ {t} /\ r.pc = "write" /\ r.target = t
            /\ r.row = nextId
        BY <1>1, <3>2 DEF Process
      <3>4. backup'[nextId].created = now
        BY <1>1, <3>2 DEF Insert
      <3>5. since <= now
        BY <2>1, <2>3 DEF SlotInv, BegunBefore
      <3>6. q.pc \notin Making
        BY <2>8 DEF BackUpTarget, Making
      <3> QED
        BY <1>1, <2>3, <2>4, <2>5, <3>3, <3>4, <3>5, <3>6 DEF Making
    <2>9. CASE RecordSuccess(S) \/ RecordFailure(S)
      <3>1. Run(S) /\ ~StampJob(S) /\ ~BackUpTarget(S)
        BY <2>9 DEF Run, StampJob, BackUpTarget, RecordSuccess, RecordFailure
      <3>2. r.job = j /\ r.todo = q.todo
        BY <1>1, <2>1, <3>1, JobRunGoesOn, RestOfRun
      <3>3. q.pc \in Making /\ r.pc \notin Making
        BY <1>1, <2>9, SettledLocals
      <3>4. /\ q.row \in Id /\ backup[q.row].status = "in_progress"
            /\ backup[q.row].target = q.target
        BY <1>1, <3>3, RowFacts
      <3>5. /\ backup'[q.row].status \in {"success", "failed"}
            /\ backup'[q.row].target = q.target
            /\ backup'[q.row].created = backup[q.row].created
        <4>1. backup[q.row] \in Row
          BY <1>1, <3>4
        <4>2. CASE RecordSuccess(S)
          <5>1. Update(q.row, [backup[q.row] EXCEPT !.status = "success", !.path = q.path])
            BY <1>1, <4>2 DEF RecordSuccess
          <5> QED
            BY <1>1, <3>4, <4>1, <5>1 DEF Update, Row
        <4>3. CASE RecordFailure(S)
          <5>1. Update(q.row, [backup[q.row] EXCEPT !.status = "failed"])
            BY <1>1, <4>3 DEF RecordFailure
          <5> QED
            BY <1>1, <3>4, <4>1, <5>1 DEF Update, Row
        <4> QED
          BY <2>9, <4>2, <4>3
      <3>6. PICK u : u = q.target
        OBVIOUS
      <3>7. Tried(u, since)'
        <4>1. backup'[q.row].created >= since
          BY <2>5, <3>3, <3>5
        <4>2. q.row \in Id /\ backup'[q.row].status # "none"
          BY <3>4, <3>5
        <4> QED
          BY <3>5, <3>6, <4>1, <4>2 DEF Tried, Rows
      <3> QED
        BY <2>4, <2>5, <3>2, <3>3, <3>6, <3>7
    <2>10. CASE /\ Run(S) /\ ~BackUpTarget(S) /\ ~RecordSuccess(S) /\ ~RecordFailure(S)
      <3>1. ~StampJob(S)
        BY <1>1, <1>4 DEF StampJob, Step, Idle
      <3>2. r.job = j /\ r.todo = q.todo
        BY <1>1, <2>1, <2>10, <3>1, JobRunGoesOn, RestOfRun
      <3>3. /\ r.pc \in Making => q.pc \in Making /\ r.row = q.row /\ r.target = q.target
            /\ q.pc \in Making => r.pc \in Making
        BY <1>1, <2>1, <2>10, <3>1, RestOfRun
      <3> QED
        BY <2>4, <2>5, <2>6, <3>2, <3>3
    <2>11. r = q \/ Run(S)
      <3>1. ASSUME NEW p \in Proc, Run(p) PROVE r = q \/ Run(S)
        BY <1>1, <3>1, OnlyItsLocals
      <3>2. ASSUME Expire \/ Operate PROVE r = q
        BY <1>1, <3>2, CalmEnvironment, ConstantsAssumption DEF TriggerJob, PlainInv, Step
      <3>3. ASSUME Tick \/ Wake \/ SkipJob \/ UNCHANGED vars PROVE r = q
        BY <3>3 DEF Tick, Wake, SkipJob, vars
      <3> QED
        BY <2>0, <3>1, <3>2, <3>3 DEF Next, Schedule
    <2> QED
      BY <2>7, <2>8, <2>9, <2>10, <2>11
  <1> QED
    BY <1>2, <1>3, <1>4

LEMMA NextTried == ASSUME JobsOnly, TriedInv, [Next]_vars PROVE TriedInv'
  <1>1. CalmInv'
    BY NextCalm DEF TriedInv
  <1>2. TypeInv /\ CatalogueInv /\ SlotInv /\ CatalogueInv'
    BY <1>1 DEF TriedInv, CalmInv, CatalogueInv
  <1>3. ASSUME Calm' PROVE FreshIds'
    BY <1>2, <1>3, StaysCalm, IdsStayFresh DEF TriedInv, CalmInv
  <1>4. ASSUME Calm', Faultless' PROVE RunTried'
    <2>1. Calm /\ Faultless
      BY <1>2, <1>4, UsedGrows, StaysCalm DEF Faultless, Budget
    <2>2. PlainInv /\ RowsInv /\ FreshIds /\ RunTried /\ RowsInv'
      BY <1>1, <1>4, <2>1 DEF TriedInv, CalmInv
    <2> QED
      BY <1>2, <1>4, <2>2, NextRunTried
  <1> QED
    BY <1>1, <1>3, <1>4 DEF TriedInv

\* When the scheduler stamps a job, each of its targets has a finished or
\* failed row from this run on, whatever the run-now goroutines beside it and
\* restarts before it did, unless a statement failed or an operator stepped in
\* (backup/scheduler.go, executeBackupJob).  Downloads and retention are left
\* out: their clean-up may take the row that showed it.
THEOREM EveryTargetIsTried ==
  ASSUME JobsOnly
  PROVE  Spec => EveryTargetTried
  <1>1. ASSUME TriedInv, [Next]_vars, NEW j \in Job,
               proc[Scheduler].pc = "next", proc[Scheduler].job = j,
               proc'[Scheduler].pc = "idle", begun'[j] # Never,
               NEW t \in JobTargets[j], ~(used["fault"] + used["op"] > 0)
        PROVE  Tried(t, begun[j])
    <2> USE DEF db, disk, hist
    <2>1. /\ TypeInv /\ CatalogueInv /\ proc \in [Proc -> Process] /\ Scheduler \in Proc
          /\ used["fault"] \in Nat /\ used["op"] \in Nat
      BY <1>1 DEF TriedInv, CalmInv, CatalogueInv, TypeInv, TypeOK, Proc, Budget
    <2>2. RunTried /\ PlainInv
      BY <1>1, <2>1 DEF TriedInv, CalmInv, Calm, Faultless
    <2>3. proc[Scheduler].todo = {}
      <3>1. ASSUME NEW p \in Proc, Run(p) PROVE proc[Scheduler].todo = {}
        <4>1. CASE p = Scheduler
          <5>1. StampJob(Scheduler) \/ BackUpTarget(Scheduler)
            BY <1>1, <3>1, <4>1 DEF Run, WriteArchive, FailArchive, Publish, RecordSuccess,
               RecordFailure, PruneList, RetainList, RemoveFile, RemoveRow, RemoveDone,
               ClearFile, ClearRows
          <5>2. ASSUME BackUpTarget(Scheduler) PROVE FALSE
            <6>1. \E u \in proc[Scheduler].todo :
                    \/ proc'[Scheduler] = [proc[Scheduler] EXCEPT
                         !.todo = proc[Scheduler].todo \ {u}, !.pc = "write", !.target = u,
                         !.row = nextId]
                    \/ proc'[Scheduler] = [proc[Scheduler] EXCEPT
                         !.todo = proc[Scheduler].todo \ {u}]
              BY <2>1, <5>2 DEF BackUpTarget, Step
            <6> QED
              BY <1>1, <2>1, <6>1 DEF Process
          <5> QED
            BY <5>1, <5>2 DEF StampJob
        <4>2. CASE p # Scheduler
          BY <1>1, <2>1, <3>1, <4>2, OnlyItsLocals
        <4> QED
          BY <4>1, <4>2
      <3>2. ~Restart
        BY <1>1 DEF Restart
      <3>3. ASSUME Expire \/ Operate PROVE FALSE
        <4>1. PICK p \in Proc : \/ proc' = [proc EXCEPT ![p] = proc'[p]] /\ proc[p].pc = "idle"
                                \/ proc' = proc
          BY <2>1, <3>3 DEF Expire, ExpireFile, ExpireRow, Operate, TriggerJob, Export,
             DeleteRequest, ClearRequest, DeleteLocalFile, EditJob, EditDestination, Step, Proc
        <4> QED
          BY <1>1, <2>1, <4>1
      <3>4. ~Tick /\ ~Schedule /\ ~UNCHANGED vars
        BY <1>1 DEF Tick, Schedule, Wake, SkipJob, BeginJob, vars
      <3> QED
        BY <1>1, <3>1, <3>2, <3>3, <3>4 DEF Next
    <2> QED
      BY <1>1, <2>2, <2>3 DEF RunTried, Making
  <1>2. TriedInv /\ [Next]_vars =>
          [\A j \in Job :
             /\ proc[Scheduler].pc = "next" /\ proc[Scheduler].job = j
             /\ proc'[Scheduler].pc = "idle" /\ begun'[j] # Never
             => \A t \in JobTargets[j] :
                  \/ \E i \in Rows : /\ backup[i].target = t
                                    /\ backup[i].status \in {"success", "failed"}
                                    /\ backup[i].created >= begun[j]
                  \/ used["fault"] + used["op"] > 0]_vars
    BY <1>1 DEF Tried
  <1>3. TriedInv /\ [Next]_vars => TriedInv'
    BY NextTried
  <1> QED
    BY <1>2, <1>3, InitTried, PTL DEF Spec, EveryTargetTried

-----------------------------------------------------------------------------
(* Keep-last keeps N: archives being made and archives that finished never   *)
(* share a name, and a finished one loses its file to keep-last only.        *)

Unpublished(p) ==
  proc[p].pc = "publish" =>
    /\ TempOf(proc[p].path) \in partial /\ proc[p].path.dir = "kept"
    /\ \A g \in files \cup removed : TempOf(g) # TempOf(proc[p].path)

Unrecorded(p) ==
  proc[p].pc = "record" =>
    /\ proc[p].path \in files /\ proc[p].path.dir = "kept"
    /\ \A f \in finished : TempOf(f.path) # TempOf(proc[p].path)

Held(p) == proc[p].pc \in {"publish", "record"}

NamesApart ==
  /\ \A p \in Proc : Unpublished(p) /\ Unrecorded(p)
  /\ \A p, r \in Proc : p # r /\ Held(p) /\ Held(r) => TempOf(proc[p].path) # TempOf(proc[r].path)
  /\ \A f \in finished : f.path \in files \cup removed /\ f.path.dir = "kept"
  /\ \A f, g \in finished : f.path = g.path => f = g

FilesKept == \A f \in finished : f.path \in files \/ Overtaken(f)

LEMMA InitNames == Init => NamesApart /\ FilesKept
  BY DEF Init, NamesApart, FilesKept, Unpublished, Unrecorded, Held, Idle

\* No archive is begun, finished, given up or removed.
NothingMoves ==
  /\ UNCHANGED <<files, partial, removed, finished>>
  /\ \A r \in Proc : Held(r)' => proc'[r].pc = proc[r].pc /\ proc'[r].path = proc[r].path

LEMMA NothingMovesKeepsNames ==
  ASSUME NamesApart, FilesKept, NothingMoves
  PROVE  NamesApart' /\ FilesKept'
  <1>1. \A p \in Proc : Unpublished(p)' /\ Unrecorded(p)'
    BY DEF NamesApart, NothingMoves, Unpublished, Unrecorded, Held, TempOf
  <1>2. \A p, r \in Proc : p # r /\ Held(p)' /\ Held(r)'
                           => TempOf(proc'[p].path) # TempOf(proc'[r].path)
    BY DEF NamesApart, NothingMoves, Held
  <1>3. FilesKept'
    BY DEF FilesKept, NothingMoves, Overtaken
  <1> QED
    BY <1>1, <1>2, <1>3 DEF NamesApart, NothingMoves, TempOf, Held

\* Which steps of job runs touch archives.
LEMMA ArchiveCases ==
  ASSUME JobsOnly, CatalogueInv, PlainInv, [Next]_vars, Calm'
  PROVE  \/ NothingMoves
         \/ \E p \in Proc : /\ proc[p].kind = "job"
                            /\ \/ WriteArchive(p) \/ FailArchive(p) \/ Publish(p)
                               \/ RecordSuccess(p) \/ RemoveFile(p)
  <1> USE DEF db, disk, hist
  <1>1. /\ TypeInv /\ proc \in [Proc -> Process] /\ Scheduler \in Proc /\ Triggers \subseteq Proc
        /\ Idle.pc = "idle"
    BY DEF CatalogueInv, TypeInv, TypeOK, Proc, Idle
  <1>2. ASSUME NEW p \in Proc, Run(p)
        PROVE  \/ NothingMoves
               \/ /\ proc[p].kind = "job"
                  /\ \/ WriteArchive(p) \/ FailArchive(p) \/ Publish(p)
                     \/ RecordSuccess(p) \/ RemoveFile(p)
    <2> DEFINE q == proc[p]
    <2>1. q \in Process /\ q.pc # "idle"
      BY <1>1, <1>2 DEF Run, BackUpTarget, StampJob, WriteArchive, FailArchive, Publish,
         RecordSuccess, RecordFailure, PruneList, RetainList, RemoveFile, RemoveRow, RemoveDone,
         ClearFile, ClearRows
    <2>2. RunsAJob(p) /\ q.kind = "job"
      BY <2>1 DEF PlainInv, Plain, RunsAJob
    <2>3. \A r \in Proc \ {p} : proc'[r] = proc[r]
      BY <1>1, <1>2, OnlyItsLocals
    <2>4. NextTarget(q).pc = "next"
      BY DEF NextTarget, Idle
    <2>5. SUFFICES ASSUME \/ BackUpTarget(p) \/ StampJob(p) \/ RecordFailure(p) \/ PruneList(p)
                          \/ RetainList(p) \/ RemoveRow(p) \/ RemoveDone(p)
                   PROVE  NothingMoves
      BY <1>2, <2>2 DEF Run, RunsAJob, ClearFile, ClearRows
    <2>6. UNCHANGED <<files, partial, removed, finished>>
      BY <2>5 DEF BackUpTarget, StampJob, RecordFailure, PruneList, RetainList, RemoveRow,
         RemoveDone
    <2>7. proc'[p].pc \notin {"publish", "record"}
      <3>1. CASE BackUpTarget(p)
        <4>1. \E t \in q.todo :
                \/ proc'[p] = [q EXCEPT !.todo = q.todo \ {t}, !.pc = "write", !.target = t,
                                        !.row = nextId]
                \/ proc'[p] = [q EXCEPT !.todo = q.todo \ {t}]
          BY <1>1, <3>1 DEF BackUpTarget, Step
        <4>2. q.pc = "next"
          BY <3>1 DEF BackUpTarget
        <4> QED
          BY <2>1, <4>1, <4>2 DEF Process
      <3>2. CASE StampJob(p)
        BY <1>1, <3>2 DEF StampJob, Step
      <3>3. CASE RecordFailure(p)
        BY <1>1, <2>2, <2>4, <3>3 DEF RecordFailure, Step
      <3>4. CASE PruneList(p) \/ RetainList(p)
        <4>1. PICK mode, S :
                \/ proc'[p] = [q EXCEPT !.pc = "remove", !.mode = mode, !.victims = S]
                \/ proc'[p] = [q EXCEPT !.pc = "remove", !.mode = mode]
          BY <1>1, <3>4 DEF PruneList, RetainList, Step
        <4> QED
          BY <2>1, <4>1 DEF Process
      <3>5. CASE RemoveRow(p)
        BY <1>1, <2>1, <3>5 DEF RemoveRow, Step, Process
      <3>6. CASE RemoveDone(p)
        <4>1. \/ proc'[p] = NextTarget(q)
              \/ proc'[p] = [q EXCEPT !.pc = "retain", !.mode = "none"]
          BY <1>1, <2>2, <3>6 DEF RemoveDone, Step
        <4> QED
          BY <2>1, <2>4, <4>1 DEF Process
      <3> QED
        BY <2>5, <3>1, <3>2, <3>3, <3>4, <3>5, <3>6
    <2> QED
      BY <2>3, <2>6, <2>7 DEF NothingMoves, Held
  <1>3. ASSUME NEW p \in Triggers, TriggerJob(p) PROVE NothingMoves
    <2>1. UNCHANGED <<files, partial, removed, finished>>
      BY <1>3 DEF TriggerJob
    <2>2. PICK k : Step(p, [Idle EXCEPT !.pc = "next", !.kind = "job", !.job = k,
                                        !.todo = JobTargets[k]])
      BY <1>3 DEF TriggerJob
    <2>3. proc'[p].pc = "next" /\ \A r \in Proc \ {p} : proc'[r] = proc[r]
      BY <1>1, <2>2 DEF Step, Idle
    <2> QED
      BY <2>1, <2>3 DEF NothingMoves, Held
  <1>4. CASE BeginJob
    <2>1. UNCHANGED <<files, partial, removed, finished>>
      BY <1>4 DEF BeginJob
    <2>2. PICK k : Step(Scheduler, [Idle EXCEPT !.pc = "next", !.kind = "job", !.job = k,
                                                !.todo = JobTargets[k]])
      BY <1>4 DEF BeginJob
    <2>3. proc'[Scheduler].pc = "next" /\ \A r \in Proc \ {Scheduler} : proc'[r] = proc[r]
      BY <1>1, <2>2 DEF Step, Idle
    <2> QED
      BY <2>1, <2>3 DEF NothingMoves, Held
  <1>5. CASE Restart
    BY <1>1, <1>5 DEF Restart, NothingMoves, Held
  <1>6. CASE Tick \/ Wake \/ SkipJob \/ UNCHANGED vars
    BY <1>6 DEF Tick, Wake, SkipJob, vars, NothingMoves, Held
  <1> QED
    BY <1>1, <1>2, <1>3, <1>4, <1>5, <1>6, CalmEnvironment DEF Next, Schedule, PlainInv

LEMMA WritingKeepsNames ==
  ASSUME ~SameSecond, TypeInv, NamesApart, FilesKept,
         NEW p \in Proc, proc[p].kind = "job", WriteArchive(p)
  PROVE  NamesApart' /\ FilesKept'
  <1> USE DEF hist
  <1> DEFINE q == proc[p]
             path == [dir |-> "kept", target |-> q.target, stamp |-> now]
  <1>1. q \in Process /\ proc \in [Proc -> Process] /\ q.pc = "write"
    BY DEF TypeInv, TypeOK, WriteArchive
  <1>2. /\ Fresh(q.target) /\ partial' = partial \cup {TempOf(path)}
        /\ proc'[p] = [q EXCEPT !.pc = "publish", !.path = path]
        /\ UNCHANGED <<files, removed, finished>>
    BY <1>1 DEF WriteArchive, Step, DirOf
  <1>3. \A r \in Proc \ {p} : proc'[r] = proc[r]
    BY <1>1, OnlyItsLocals DEF Run
  <1>4. /\ TempOf(path) \notin partial
        /\ \A g \in files \cup removed : TempOf(g) # TempOf(path)
    BY <1>2 DEF Fresh, TempOf
  <1>5. proc'[p].pc = "publish" /\ proc'[p].path = path /\ path.dir = "kept"
    BY <1>1, <1>2 DEF Process
  <1> HIDE DEF path
  <1>6. Unpublished(p)' /\ Unrecorded(p)'
    BY <1>2, <1>4, <1>5 DEF Unpublished, Unrecorded, TempOf
  <1>7. ASSUME NEW r \in Proc \ {p}
        PROVE  /\ Unpublished(r)' /\ Unrecorded(r)'
               /\ Held(r)' => TempOf(proc'[r].path) # TempOf(path)
    <2>1. proc'[r] = proc[r] /\ Unpublished(r) /\ Unrecorded(r)
      BY <1>3 DEF NamesApart
    <2> QED
      BY <1>2, <1>4, <2>1 DEF Unpublished, Unrecorded, Held, TempOf
  <1>8. \A r, s \in Proc : r # s /\ Held(r)' /\ Held(s)'
                           => TempOf(proc'[r].path) # TempOf(proc'[s].path)
    BY <1>3, <1>5, <1>7 DEF NamesApart, Held
  <1> QED
    BY <1>2, <1>6, <1>7, <1>8 DEF NamesApart, FilesKept, Overtaken, TempOf, Held

LEMMA GivingUpKeepsNames ==
  ASSUME TypeInv, NamesApart, FilesKept, NEW p \in Proc, FailArchive(p)
  PROVE  NamesApart' /\ FilesKept'
  <1> USE DEF hist
  <1> DEFINE q == proc[p]
  <1>1. /\ q \in Process /\ proc \in [Proc -> Process]
        /\ UNCHANGED <<files, removed, finished>>
    BY DEF TypeInv, TypeOK, FailArchive
  <1>2. \A r \in Proc \ {p} : proc'[r] = proc[r]
    BY <1>1, OnlyItsLocals DEF Run
  <1>3. proc'[p].pc = "record_failed"
    BY <1>1 DEF FailArchive, Step, Process
  <1>4. \/ partial' = partial
        \/ Held(p) /\ partial' = partial \ {TempOf(q.path)}
    BY DEF FailArchive, Held
  <1>5. ASSUME NEW r \in Proc PROVE Unpublished(r)' /\ Unrecorded(r)'
    <2>1. CASE r = p
      BY <1>3, <2>1 DEF Unpublished, Unrecorded
    <2>2. CASE r # p
      <3>1. /\ proc'[r] = proc[r] /\ Unpublished(r) /\ Unrecorded(r)
            /\ Held(p) /\ Held(r) => TempOf(q.path) # TempOf(proc[r].path)
        BY <1>2, <2>2 DEF NamesApart
      <3> QED
        BY <1>1, <1>4, <3>1 DEF Unpublished, Unrecorded, Held, TempOf
    <2> QED
      BY <2>1, <2>2
  <1>6. \A r, s \in Proc : r # s /\ Held(r)' /\ Held(s)'
                           => TempOf(proc'[r].path) # TempOf(proc'[s].path)
    BY <1>2, <1>3 DEF NamesApart, Held
  <1> QED
    BY <1>1, <1>5, <1>6 DEF NamesApart, FilesKept, Overtaken, TempOf, Held

LEMMA PublishingKeepsNames ==
  ASSUME TypeInv, NamesApart, FilesKept, NEW p \in Proc, Publish(p)
  PROVE  NamesApart' /\ FilesKept'
  <1> USE DEF hist
  <1> DEFINE q == proc[p]
  <1>1. /\ q \in Process /\ proc \in [Proc -> Process] /\ q.pc = "publish" /\ Held(p)
        /\ UNCHANGED <<removed, finished>>
        /\ files' = files \cup {q.path} /\ partial' = partial \ {TempOf(q.path)}
    BY DEF TypeInv, TypeOK, Publish, Held
  <1>2. \A r \in Proc \ {p} : proc'[r] = proc[r]
    BY <1>1, OnlyItsLocals DEF Run
  <1>3. proc'[p].pc \in {"record", "record_failed"} /\ proc'[p].path = q.path
    BY <1>1 DEF Publish, Step, Process
  <1>4. /\ q.path.dir = "kept"
        /\ \A g \in files \cup removed : TempOf(g) # TempOf(q.path)
    BY <1>1 DEF NamesApart, Unpublished
  <1>5. Unpublished(p)' /\ Unrecorded(p)'
    BY <1>1, <1>3, <1>4 DEF NamesApart, Unpublished, Unrecorded, TempOf
  <1>6. ASSUME NEW r \in Proc \ {p} PROVE Unpublished(r)' /\ Unrecorded(r)'
    <2>1. /\ proc'[r] = proc[r] /\ Unpublished(r) /\ Unrecorded(r)
          /\ Held(r) => TempOf(q.path) # TempOf(proc[r].path)
      BY <1>1, <1>2 DEF NamesApart
    <2> QED
      BY <1>1, <2>1 DEF Unpublished, Unrecorded, Held, TempOf
  <1>7. \A r, s \in Proc : r # s /\ Held(r)' /\ Held(s)'
                           => TempOf(proc'[r].path) # TempOf(proc'[s].path)
    BY <1>1, <1>2, <1>3 DEF NamesApart, Held
  <1> QED
    BY <1>1, <1>5, <1>6, <1>7 DEF NamesApart, FilesKept, Overtaken, TempOf, Held

\* More finished, and the rest as it was: who was overtaken still is.
LEMMA OvertakenForGood ==
  ASSUME RowsInv', finished \subseteq finished', NEW f, Overtaken(f)
  PROVE  Overtaken(f)'
  <1>1. OvertakenIn(finished', f)
    BY OvertakenStays DEF Overtaken, RowsInv
  <1>2. \A g : OvertakenIn(finished, g)' <=> OvertakenIn(finished', g)
    BY DEF OvertakenIn, AheadIn
  <1> QED
    BY <1>1, <1>2 DEF Overtaken, OvertakenIn, AheadIn

LEMMA RecordingKeepsNames ==
  ASSUME CatalogueInv, RowsInv, RowsInv', NamesApart, FilesKept,
         NEW p \in Proc, proc[p].kind = "job", RecordSuccess(p)
  PROVE  NamesApart' /\ FilesKept'
  <1> USE DEF disk
  <1> DEFINE q == proc[p]
  <1>1. /\ TypeInv /\ q \in Process /\ proc \in [Proc -> Process]
        /\ q.pc = "record" /\ Held(p) /\ UNCHANGED <<files, partial, removed>>
    BY DEF CatalogueInv, TypeInv, TypeOK, RecordSuccess, Held
  <1>2. /\ proc'[p].pc \notin Making
        /\ \A r \in Proc \ {p} : proc'[r] = proc[r]
    BY SettledLocals
  <1>3. PICK e : e = [id |-> q.row, path |-> q.path, created |-> backup[q.row].created]
    OBVIOUS
  <1>4. finished' = finished \/ finished' = finished \cup {e}
    BY <1>3 DEF RecordSuccess
  <1>5. /\ e.path = q.path /\ q.path \in files /\ q.path.dir = "kept"
        /\ \A f \in finished : TempOf(f.path) # TempOf(q.path)
    BY <1>1, <1>3 DEF NamesApart, Unrecorded
  <1>6. ASSUME NEW r \in Proc PROVE Unpublished(r)' /\ Unrecorded(r)'
    <2>1. CASE r = p
      BY <1>2, <2>1 DEF Unpublished, Unrecorded, Making
    <2>2. CASE r # p
      <3>1. /\ proc'[r] = proc[r] /\ Unpublished(r) /\ Unrecorded(r)
            /\ Held(r) => TempOf(q.path) # TempOf(proc[r].path)
        BY <1>1, <1>2, <2>2 DEF NamesApart
      <3> QED
        BY <1>1, <1>4, <1>5, <3>1 DEF Unpublished, Unrecorded, Held, TempOf
    <2> QED
      BY <2>1, <2>2
  <1>7. \A r, s \in Proc : r # s /\ Held(r)' /\ Held(s)'
                           => TempOf(proc'[r].path) # TempOf(proc'[s].path)
    BY <1>2 DEF NamesApart, Held, Making
  <1>8. \A f \in finished' : f.path \in files' \cup removed' /\ f.path.dir = "kept"
    BY <1>1, <1>4, <1>5 DEF NamesApart
  <1>9. \A f, g \in finished' : f.path = g.path => f = g
    BY <1>4, <1>5 DEF NamesApart
  <1>10. FilesKept'
    <2> SUFFICES ASSUME NEW f \in finished' PROVE f.path \in files' \/ Overtaken(f)'
      BY DEF FilesKept
    <2>1. finished \subseteq finished'
      BY <1>4
    <2>2. CASE f \in finished
      BY <1>1, <2>1, <2>2, OvertakenForGood DEF FilesKept
    <2>3. CASE f \notin finished
      BY <1>1, <1>4, <1>5, <2>3
    <2> QED
      BY <2>2, <2>3
  <1> QED
    BY <1>6, <1>7, <1>8, <1>9, <1>10 DEF NamesApart, TempOf, Held

LEMMA RemovingKeepsNames ==
  ASSUME TypeInv, RowsInv, NamesApart, FilesKept, NEW p \in Proc, RemoveFile(p),
         proc[p].victims \subseteq Victims(p)
  PROVE  NamesApart' /\ FilesKept'
  <1> USE DEF db
  <1> DEFINE q == proc[p]
  <1>1. q \in Process /\ proc \in [Proc -> Process] /\ UNCHANGED <<partial, finished>>
    BY DEF TypeInv, TypeOK, RemoveFile
  <1>2. \A r \in Proc \ {p} : proc'[r] = proc[r]
    BY <1>1, OnlyItsLocals DEF Run
  <1>3. PICK v \in q.victims :
          /\ RemoveArtifacts(v.path)
          /\ proc'[p] = [q EXCEPT !.pc = "unlist", !.victim = v, !.victims = q.victims \ {v}]
    BY <1>1 DEF RemoveFile, Step
  <1>4. proc'[p].pc = "unlist"
    BY <1>1, <1>3 DEF Process
  <1>5. PICK f \in finished : f.path = v.path /\ Overtaken(f)
    BY <1>3 DEF RowsInv, HoldsOvertaken
  <1>6. /\ files' = files \ {f.path} /\ files' \cup removed' \subseteq files \cup removed
        /\ files \cup removed \subseteq files' \cup removed'
    <2>1. f.path \in files \cup removed /\ f.path # None
      BY ConstantsAssumption DEF NamesApart, TypeInv, TypeOK
    <2> QED
      BY <1>3, <1>5, <2>1 DEF RemoveArtifacts
  <1>7. ASSUME NEW r \in Proc PROVE Unpublished(r)' /\ Unrecorded(r)'
    <2>1. CASE r = p
      BY <1>4, <2>1 DEF Unpublished, Unrecorded
    <2>2. CASE r # p
      <3>1. proc'[r] = proc[r] /\ Unpublished(r) /\ Unrecorded(r)
        BY <1>2, <2>2 DEF NamesApart
      <3>2. Unpublished(r)'
        BY <1>1, <1>6, <3>1 DEF Unpublished, TempOf
      <3>3. Unrecorded(r)'
        BY <1>1, <1>5, <1>6, <3>1 DEF Unrecorded, TempOf
      <3> QED
        BY <3>2, <3>3
    <2> QED
      BY <2>1, <2>2
  <1>8. \A r, s \in Proc : r # s /\ Held(r)' /\ Held(s)'
                           => TempOf(proc'[r].path) # TempOf(proc'[s].path)
    BY <1>2, <1>4 DEF NamesApart, Held
  <1>9. \A g \in finished' : g.path \in files' \cup removed' /\ g.path.dir = "kept"
    BY <1>1, <1>6 DEF NamesApart
  <1>10. FilesKept'
    <2> SUFFICES ASSUME NEW g \in finished PROVE g.path \in files' \/ Overtaken(g)
      BY <1>1 DEF FilesKept, Overtaken
    <2>1. CASE g.path = f.path
      BY <1>5, <2>1 DEF NamesApart
    <2>2. CASE g.path # f.path
      BY <1>6, <2>2 DEF FilesKept
    <2> QED
      BY <2>1, <2>2
  <1> QED
    BY <1>1, <1>7, <1>8, <1>9, <1>10 DEF NamesApart, TempOf, Held

KeepInv == CalmInv /\ Calm /\ NamesApart /\ FilesKept

LEMMA InitKeep == Init => KeepInv
  BY InitCalm, InitNames DEF KeepInv, Init, Calm, Budget

LEMMA NextKeep ==
  ASSUME JobsOnly, Limit["op"] = 0, ~SameSecond, KeepInv, [Next]_vars
  PROVE  KeepInv'
  <1>1. CatalogueInv /\ TypeInv /\ PlainInv /\ RowsInv /\ CalmInv'
    BY NextCalm DEF KeepInv, CalmInv, CatalogueInv
  <1>2. Calm'
    BY <1>1, UsedGrows DEF KeepInv, Calm, Budget
  <1>3. RowsInv'
    BY <1>1, <1>2 DEF CalmInv
  <1>4. ASSUME NEW p \in Proc PROVE proc[p].victims \subseteq Victims(p)
    <2>1. proc[p].victims \subseteq Victim
      BY <1>1 DEF TypeInv, TypeOK, Process
    <2>2. NoVictim \notin Victim
      BY DEF NoVictim, Victim, Id
    <2> QED
      BY <2>1, <2>2 DEF Victims
  <1>5. NamesApart' /\ FilesKept'
    BY <1>1, <1>2, <1>3, <1>4, ArchiveCases, NothingMovesKeepsNames, WritingKeepsNames,
       GivingUpKeepsNames, PublishingKeepsNames, RecordingKeepsNames, RemovingKeepsNames
       DEF KeepInv
  <1> QED
    BY <1>1, <1>2, <1>5 DEF KeepInv

\* Finished backups of t whose archives can be restored from their rows count
\* as copies, one each.
LEMMA CopiesCount ==
  ASSUME KeepInv, NEW t, NEW F \in SUBSET finished,
         \A f \in F : /\ f.path.target = t
                      /\ backup[f.id].status = "success" /\ f.path \in files
  PROVE  /\ Cardinality(Copies(t)) >= Cardinality(F)
         /\ Cardinality(Copies(t)) \in Nat /\ Cardinality(F) \in Nat
  <1> DEFINE ids == [f \in F |-> f.id]
             C == Copies(t)
  <1>1. History(finished) /\ finished \subseteq Entry
    BY DEF KeepInv, CalmInv, RowsInv, History
  <1>2. \A f \in F : f.id \in C
    <2> SUFFICES ASSUME NEW f \in F PROVE f.id \in C
      OBVIOUS
    <2>1. FinishedRow(f) /\ f.path.dir = "kept" /\ f.id \in Id
      BY <1>1 DEF KeepInv, CalmInv, RowsInv, NamesApart, Entry
    <2> QED
      BY <2>1 DEF FinishedRow, Copies, Successes, Rows
  <1>3. ids \in Injection(F, C)
    BY <1>1, <1>2 DEF Injection, IsInjective, History
  <1>4. IsFiniteSet(C)
    <2>1. C \in SUBSET Id /\ IsFiniteSet(Id)
      BY FS_Interval, ConstantsAssumption DEF Copies, Successes, Rows, Id
    <2> QED
      BY <2>1, FS_Subset
  <1> HIDE DEF ids, C
  <1>5. Cardinality(F) <= Cardinality(C) /\ IsFiniteSet(F)
    BY <1>3, <1>4, FS_Injection
  <1>6. Cardinality(F) \in Nat /\ Cardinality(C) \in Nat
    BY <1>4, <1>5, FS_CardinalityType
  <1> QED
    BY <1>5, <1>6 DEF C

LEMMA KeptCopies ==
  ASSUME KeepInv, Job # {}
  PROVE  KeepLastHonoured
  <1> SUFFICES ASSUME NEW t \in Target
               PROVE  LET n == Cardinality({f \in finished : f.path.target = t /\ f.path.dir = "kept"})
                      IN  \E j \in Job : \/ Cardinality(Copies(t)) >= Keep[j]
                                         \/ Cardinality(Copies(t)) >= n
    BY DEF KeepLastHonoured
  <1> DEFINE Copied(f) == backup[f.id].status = "success" /\ f.path \in files
             F == {f \in finished : f.path.target = t /\ f.path.dir = "kept"}
             Lost == {f \in finished : f.path.target = t /\ ~Copied(f)}
  <1>1. History(finished) /\ \A f \in finished : RowKept(f)
    BY DEF KeepInv, CalmInv, RowsInv
  <1>2. CASE Lost = {}
    <2>1. \A f \in F : /\ f.path.target = t
                       /\ backup[f.id].status = "success" /\ f.path \in files
      BY <1>2
    <2>2. F \in SUBSET finished
      OBVIOUS
    <2>3. Cardinality(Copies(t)) >= Cardinality(F)
      <3> HIDE DEF F
      <3> QED
        BY <2>1, <2>2, CopiesCount
    <2> QED
      BY <2>3
  <1>3. CASE Lost # {}
    <2>1. PICK f \in Lost : \A g \in Lost : g \notin AheadIn(finished, f)
      <3>1. Lost \in SUBSET finished
        OBVIOUS
      <3> HIDE DEF Lost
      <3> QED
        BY <1>1, <1>3, <3>1, SomeoneLeads
    <2>2. Overtaken(f)
      BY <1>1 DEF KeepInv, FilesKept, RowKept
    <2>3. PICK j \in Job : Keep[j] > 0 /\ Cardinality(AheadIn(finished, f)) >= Keep[j]
      BY <2>2 DEF Overtaken, OvertakenIn
    <2> DEFINE A == AheadIn(finished, f)
    <2>4. /\ A \in SUBSET finished
          /\ \A g \in A : /\ g.path.target = t
                          /\ backup[g.id].status = "success" /\ g.path \in files
      BY <2>1 DEF AheadIn
    <2>5. /\ Cardinality(Copies(t)) >= Cardinality(A)
          /\ Cardinality(Copies(t)) \in Nat /\ Cardinality(A) \in Nat
      <3> HIDE DEF A
      <3> QED
        BY <2>4, CopiesCount
    <2>6. Keep[j] \in Nat
      BY ConstantsAssumption
    <2>7. Cardinality(Copies(t)) >= Keep[j]
      BY <2>3, <2>5, <2>6
    <2> QED
      BY <2>7
  <1> QED
    BY <1>2, <1>3

\* "Keep only the N newest" keeps N: once n backups of a target finished,
\* min(n, N) of them are on the disk with their rows, whatever the scheduler
\* and run-now goroutines do to each other, whichever statements fail and
\* wherever the agent stops (backup/cleanup.go, pruneKeepLast).  Two archives of
\* a target must not carry the same second, and nobody else may clean up.
THEOREM KeepLastKeeps ==
  ASSUME JobsOnly, Limit["op"] = 0, ~SameSecond, Job # {}
  PROVE  Spec => []KeepLastHonoured
  <1>1. KeepInv /\ [Next]_vars => KeepInv'
    BY NextKeep
  <1>2. KeepInv => KeepLastHonoured
    BY KeptCopies
  <1> QED
    BY <1>1, <1>2, InitKeep, PTL DEF Spec
=============================================================================
