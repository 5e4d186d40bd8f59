------------------------------ MODULE Restore ------------------------------
(***************************************************************************)
(* Restoring a site backup (backup/restore.go:114-217) into the folder of  *)
(* a site that may be running: the safety copy, the staging folder next to *)
(* the site, the swap by renames and its undo, the site's own writes,      *)
(* failing file operations, several restores at once and agent restarts.   *)
(*                                                                         *)
(* A folder is a function from top-level entry names to their contents: a  *)
(* rename moves a whole entry, so nothing below the top level matters to   *)
(* the swap.  Directory listings are walked in any order.                  *)
(***************************************************************************)
EXTENDS Naturals, FiniteSets

CONSTANTS
  Requests,       \* in-flight restore requests
  Name,           \* top-level entry names
  Old,            \* ".old", the name of the folder old contents are put aside in
  Content,        \* contents of an entry
  Written,        \* what the site may write
  NoFile,         \* no such entry
  Archives,       \* backups that passed InspectSiteArchive
  NoArchive,      \* what an idle request restores
  NoCopy,         \* no safety copy of that name
  Damaged,        \* a safety copy two requests wrote into at once
  NoStage,        \* no staging folder of that name
  Initially,      \* what the site's folder may hold at first
  Unreadable,     \* entries the agent may rename but not read
  Faulty,         \* operations that may fail
  Overlap,        \* BOOLEAN: may a restore begin while another runs?
  SameSecond,     \* BOOLEAN: may two safety copies carry one second?
  WriteAnyTime,   \* BOOLEAN: does the site write while a restore runs?
  MaxTime,        \* bound: the clock stops here
  Limit           \* bound: how many restores, writes, faults, restarts

Operation == {"check", "look", "save", "stage", "unpack", "aside", "list", "move",
              "relist", "place", "clear", "return"}
Time == 0 .. MaxTime
Contents == [Name -> Content \cup {NoFile}]
Stage == [fresh : Contents, aside : Contents]
Budget == {"restore", "write", "fault", "restart"}

ASSUME RestoreAssumption ==
  /\ Old \in Name /\ NoFile \notin Content /\ Written \subseteq Content
  /\ Archives \subseteq Contents /\ NoArchive \notin Contents
  /\ Initially \subseteq Contents /\ Unreadable \subseteq Name
  /\ NoCopy \notin Contents /\ Damaged \notin Contents \cup {NoCopy}
  /\ NoStage \notin Stage
  /\ Faulty \subseteq Operation
  /\ Overlap \in BOOLEAN /\ SameSecond \in BOOLEAN /\ WriteAnyTime \in BOOLEAN
  /\ MaxTime \in Nat /\ Limit \in [Budget -> Nat]

VARIABLES
  now,        \* the clock, in seconds; names of copies and stages carry it
  site,       \* the site's folder
  safety,     \* safety copies, by the second in their name
  stage,      \* staging folders next to the site, by the second in their name
  proc,       \* what each request is doing
  had,        \* history: the site's folder when each request's restore began,
              \* less what the site itself wrote over since
  used        \* how much of each Limit is spent

vars == <<now, site, safety, stage, proc, had, used>>

Empty == [n \in Name |-> NoFile]

PC == {"idle", "check", "save", "stage", "unpack", "aside", "list", "move", "place",
       "undo", "clear", "return"}
Process == [pc : PC, archive : Contents \cup {NoArchive}, todo : SUBSET Name,
            copy : Contents, saved : Time, at : Time, moved : SUBSET Name,
            old : Contents, result : {"none", "ok", "failed", "lost"}]
Idle == [pc |-> "idle", archive |-> NoArchive, todo |-> {}, copy |-> Empty,
         saved |-> 0, at |-> 0, moved |-> {}, old |-> Empty, result |-> "none"]

-----------------------------------------------------------------------------
Present(c) == {n \in Name : c[n] # NoFile}
Running(r) == proc[r].pc # "idle"
Swapping(r) == proc[r].pc \in {"move", "place", "undo", "clear", "return"}

Step(r, q) == proc' = [proc EXCEPT ![r] = q]
\* The handler answers; the next request starts from nothing.
Reply(r, result) == Step(r, [Idle EXCEPT !.result = result])

Spend(b) ==
  /\ used[b] < Limit[b]
  /\ used' = [used EXCEPT ![b] = @ + 1]
Works == UNCHANGED used
Breaks(op) == op \in Faulty /\ Spend("fault")

\* defer os.RemoveAll(stage)
DropStage(r) == stage' = [stage EXCEPT ![proc[r].at] = NoStage]

-----------------------------------------------------------------------------
Init ==
  /\ now = 0
  /\ site \in Initially
  /\ safety = [t \in Time |-> NoCopy]
  /\ stage = [t \in Time |-> NoStage]
  /\ proc = [r \in Requests |-> Idle]
  /\ had = [r \in Requests |-> Empty]
  /\ used = [b \in Budget |-> 0]

Tick ==
  /\ now < MaxTime
  /\ now' = now + 1
  /\ UNCHANGED <<site, safety, stage, proc, had, used>>

\* The site's container has the folder mounted and goes on using it.
SiteWrites ==
  /\ WriteAnyTime \/ \A r \in Requests : ~Running(r)
  /\ Spend("write")
  /\ \E n \in Name, c \in Written \cup {NoFile} :
       /\ site' = [site EXCEPT ![n] = c]
       /\ had' = [r \in Requests |-> [had[r] EXCEPT ![n] = NoFile]]
  /\ UNCHANGED <<now, safety, stage, proc>>

-----------------------------------------------------------------------------
(* The request and the safety copy *)

Unused(t) ==
  safety[t] = NoCopy /\ \A r \in Requests : proc[r].pc = "save" => proc[r].saved # t

\* Mutant: an archive that is none is accepted.
AskAny(r) ==
  /\ ~Running(r) /\ Spend("restore")
  /\ \E a \in Archives \cup {NoArchive} : Step(r, [Idle EXCEPT !.pc = "check", !.archive = a])
  /\ UNCHANGED <<now, site, safety, stage, had>>
Ask(r) ==
  /\ ~Running(r) /\ Spend("restore")
  /\ Overlap \/ \A s \in Requests : ~Running(s)
  /\ \E a \in Archives : Step(r, [Idle EXCEPT !.pc = "check", !.archive = a])
  /\ UNCHANGED <<now, site, safety, stage, had>>

\* The backup is read through, the site's folder has to be there and the disk to
\* have room.  What the folder holds is then saved first, unless it is empty;
\* os.Create truncates a copy of that name.  hasContents takes a folder it fails
\* to list for an empty one: the restore goes on without a copy.
Check(r) ==
  /\ proc[r].pc = "check"
  /\ \/ /\ Works
        /\ had' = [had EXCEPT ![r] = site]
        /\ IF Present(site) = {}
           THEN Step(r, [proc[r] EXCEPT !.pc = "stage"]) /\ UNCHANGED safety
           ELSE /\ SameSecond \/ Unused(now)
                /\ Step(r, [proc[r] EXCEPT !.pc = "save", !.saved = now, !.todo = Present(site)])
                /\ safety' = [safety EXCEPT ![now] = NoCopy]
     \/ /\ Breaks("look")
        /\ had' = [had EXCEPT ![r] = site]
        /\ Step(r, [proc[r] EXCEPT !.pc = "stage"])
        /\ UNCHANGED safety
     \/ /\ Breaks("check")
        /\ Reply(r, "failed")
        /\ UNCHANGED <<safety, had>>
  /\ UNCHANGED <<now, site, stage>>

\* Entries that cannot be read, or are gone by now, are skipped with a warning.
SaveEntry(r) ==
  /\ proc[r].pc = "save"
  /\ \E n \in proc[r].todo :
       Step(r, [proc[r] EXCEPT !.todo = @ \ {n},
                  !.copy[n] = IF n \in Unreadable THEN @ ELSE site[n]])
  /\ UNCHANGED <<now, site, safety, stage, had, used>>

SaveDone(r) ==
  /\ proc[r].pc = "save" /\ proc[r].todo = {}
  /\ LET t == proc[r].saved
         shared == \/ safety[t] # NoCopy
                   \/ \E s \in Requests \ {r} : proc[s].pc = "save" /\ proc[s].saved = t
     IN  safety' = [safety EXCEPT ![t] = IF shared THEN Damaged ELSE proc[r].copy]
  /\ Step(r, [proc[r] EXCEPT !.pc = "stage", !.copy = Empty, !.saved = 0])
  /\ UNCHANGED <<now, site, stage, had, used>>

\* Mutant: the error is not looked at.
GoOnWithoutCopy(r) ==
  /\ proc[r].pc = "save" /\ Breaks("save")
  /\ safety' = [safety EXCEPT ![proc[r].saved] = NoCopy]
  /\ Step(r, [proc[r] EXCEPT !.pc = "stage", !.copy = Empty, !.saved = 0])
  /\ UNCHANGED <<now, site, stage, had>>
\* The disk is full or the client hung up: the copy is removed again.
SaveFails(r) ==
  /\ proc[r].pc = "save" /\ Breaks("save")
  /\ safety' = [safety EXCEPT ![proc[r].saved] = NoCopy]
  /\ Reply(r, "failed")
  /\ UNCHANGED <<now, site, stage, had>>

-----------------------------------------------------------------------------
(* The staging folder *)

\* Mutant: os.MkdirAll, which is content with a folder that is there.
MakeStageAll(r) ==
  /\ proc[r].pc = "stage"
  /\ stage' = [stage EXCEPT ![now] = IF @ = NoStage THEN [fresh |-> Empty, aside |-> Empty] ELSE @]
  /\ Step(r, [proc[r] EXCEPT !.pc = "unpack", !.at = now])
  /\ UNCHANGED <<now, site, safety, had, used>>
\* os.Mkdir fails when there is a folder of that second.
MakeStage(r) ==
  /\ proc[r].pc = "stage"
  /\ \/ /\ stage[now] = NoStage /\ Works
        /\ stage' = [stage EXCEPT ![now] = [fresh |-> Empty, aside |-> Empty]]
        /\ Step(r, [proc[r] EXCEPT !.pc = "unpack", !.at = now])
     \/ /\ IF stage[now] = NoStage THEN Breaks("stage") ELSE Works
        /\ Reply(r, "failed")
        /\ UNCHANGED stage
  /\ UNCHANGED <<now, site, safety, had>>

Unpack(r) ==
  /\ proc[r].pc = "unpack"
  /\ \/ /\ Works
        /\ stage' = [stage EXCEPT ![proc[r].at].fresh = proc[r].archive]
        /\ Step(r, [proc[r] EXCEPT !.pc = "aside"])
     \/ /\ Breaks("unpack")
        /\ DropStage(r)
        /\ Reply(r, "failed")
  /\ UNCHANGED <<now, site, safety, had>>

\* The folder for the old contents lies among the new ones, so a backup with
\* an entry of that name is never restored.
MakeAside(r) ==
  /\ proc[r].pc = "aside"
  /\ \/ /\ proc[r].archive[Old] = NoFile /\ Works
        /\ Step(r, [proc[r] EXCEPT !.pc = "list"])
        /\ UNCHANGED stage
     \/ /\ IF proc[r].archive[Old] = NoFile THEN Breaks("aside") ELSE Works
        /\ DropStage(r)
        /\ Reply(r, "failed")
  /\ UNCHANGED <<now, site, safety, had>>

-----------------------------------------------------------------------------
(* swapContents *)

ListOld(r) ==
  /\ proc[r].pc = "list"
  /\ \/ /\ Works
        /\ Step(r, [proc[r] EXCEPT !.pc = "move", !.todo = Present(site), !.old = site])
        /\ UNCHANGED stage
     \/ /\ Breaks("list")
        /\ DropStage(r)
        /\ Reply(r, "failed")
  /\ UNCHANGED <<now, site, safety, had>>

\* One rename of the first loop; it fails when the entry is gone by now.
MoveAside(r) ==
  /\ proc[r].pc = "move"
  /\ \E n \in proc[r].todo :
       \/ /\ site[n] # NoFile /\ Works
          /\ stage' = [stage EXCEPT ![proc[r].at].aside[n] = site[n]]
          /\ site' = [site EXCEPT ![n] = NoFile]
          /\ Step(r, [proc[r] EXCEPT !.todo = @ \ {n}, !.moved = @ \cup {n}])
       \/ /\ IF site[n] # NoFile THEN Breaks("move") ELSE Works
          /\ Step(r, [proc[r] EXCEPT !.pc = "undo"])
          /\ UNCHANGED <<site, stage>>
  /\ UNCHANGED <<now, safety, had>>

ListFresh(r) ==
  /\ proc[r].pc = "move" /\ proc[r].todo = {}
  /\ \/ /\ Works
        /\ Step(r, [proc[r] EXCEPT !.pc = "place",
                      !.todo = Present(stage[proc[r].at].fresh)])
     \/ /\ Breaks("relist")
        /\ Step(r, [proc[r] EXCEPT !.pc = "undo"])
  /\ UNCHANGED <<now, site, safety, stage, had>>

\* One rename of the second loop; it fails onto a folder that is not empty.
Place(r) ==
  /\ proc[r].pc = "place"
  /\ \E n \in proc[r].todo :
       \/ /\ Works
          /\ site' = [site EXCEPT ![n] = stage[proc[r].at].fresh[n]]
          /\ stage' = [stage EXCEPT ![proc[r].at].fresh[n] = NoFile]
          /\ Step(r, [proc[r] EXCEPT !.todo = @ \ {n}])
       \/ /\ IF site[n] = NoFile THEN Breaks("place") ELSE Works
          /\ Step(r, [proc[r] EXCEPT !.pc = "undo"])
          /\ UNCHANGED <<site, stage>>
  /\ UNCHANGED <<now, safety, had>>

Finish(r) ==
  /\ proc[r].pc = "place" /\ proc[r].todo = {}
  /\ DropStage(r)
  /\ Reply(r, "ok")
  /\ UNCHANGED <<now, site, safety, had, used>>

-----------------------------------------------------------------------------
(* undo: remove whatever is in the folder, bring back what was moved aside *)

\* Mutant: new entries that made it in are left where they are.
LeaveNewEntries(r) ==
  /\ proc[r].pc = "undo"
  /\ Works /\ Step(r, [proc[r] EXCEPT !.pc = "clear", !.todo = {}])
  /\ UNCHANGED <<now, site, safety, stage, had>>
Undo(r) ==
  /\ proc[r].pc = "undo"
  /\ \/ Works /\ Step(r, [proc[r] EXCEPT !.pc = "clear", !.todo = Present(site)])
     \/ Breaks("clear") /\ Step(r, [proc[r] EXCEPT !.pc = "clear", !.todo = {}])
  /\ UNCHANGED <<now, site, safety, stage, had>>

ClearEntry(r) ==
  /\ proc[r].pc = "clear"
  /\ \E n \in proc[r].todo :
       /\ \/ Works /\ site' = [site EXCEPT ![n] = NoFile]
          \/ Breaks("clear") /\ UNCHANGED site
       /\ Step(r, [proc[r] EXCEPT !.todo = @ \ {n}])
  /\ UNCHANGED <<now, safety, stage, had>>

ClearDone(r) ==
  /\ proc[r].pc = "clear" /\ proc[r].todo = {}
  /\ Step(r, [proc[r] EXCEPT !.pc = "return", !.todo = proc[r].moved])
  /\ UNCHANGED <<now, site, safety, stage, had, used>>

\* Errors of these renames are ignored.
Return(r) ==
  /\ proc[r].pc = "return"
  /\ \E n \in proc[r].todo :
       /\ \/ /\ Works
             /\ site' = [site EXCEPT ![n] = stage[proc[r].at].aside[n]]
             /\ stage' = [stage EXCEPT ![proc[r].at].aside[n] = NoFile]
          \/ /\ IF site[n] = NoFile THEN Breaks("return") ELSE Works
             /\ UNCHANGED <<site, stage>>
       /\ Step(r, [proc[r] EXCEPT !.todo = @ \ {n}])
  /\ UNCHANGED <<now, safety, had>>

ReturnDone(r) ==
  /\ proc[r].pc = "return" /\ proc[r].todo = {}
  /\ DropStage(r)
  /\ Reply(r, "failed")
  /\ UNCHANGED <<now, site, safety, had, used>>

-----------------------------------------------------------------------------
\* The agent stops: deferred calls never run, the disk stays as it is, and
\* nothing looks for staging folders when it starts again.
Restart ==
  /\ Spend("restart")
  /\ proc' = [r \in Requests |-> IF Running(r) THEN [Idle EXCEPT !.result = "lost"] ELSE proc[r]]
  /\ UNCHANGED <<now, site, safety, stage, had>>

Save(r) == Check(r) \/ SaveEntry(r) \/ SaveDone(r) \/ SaveFails(r)
Prepare(r) == MakeStage(r) \/ Unpack(r) \/ MakeAside(r)
Swap(r) == ListOld(r) \/ MoveAside(r) \/ ListFresh(r) \/ Place(r) \/ Finish(r)
PutBack(r) == Undo(r) \/ ClearEntry(r) \/ ClearDone(r) \/ Return(r) \/ ReturnDone(r)
Run(r) == Save(r) \/ Prepare(r) \/ Swap(r) \/ PutBack(r)

Next == Tick \/ SiteWrites \/ Restart \/ \E r \in Requests : Ask(r) \/ Run(r)

Spec == Init /\ [][Next]_vars

\* A request's goroutine keeps running; nobody has to ask, write or restart.
FairSpec == Spec /\ \A r \in Requests : WF_vars(Run(r))

-----------------------------------------------------------------------------
\* Every variable keeps its type: copies and staging folders are whole folders
\* or absent, a request's fields are the locals of RestoreSiteArchive.
RestoreTypeOK ==
  /\ now \in Time
  /\ site \in Contents
  /\ safety \in [Time -> Contents \cup {NoCopy, Damaged}]
  /\ stage \in [Time -> Stage \cup {NoStage}]
  /\ proc \in [Requests -> Process]
  /\ had \in [Requests -> Contents]
  /\ used \in [Budget -> Nat]

HasStage(r) == proc[r].pc \in {"unpack", "aside", "list"} \/ Swapping(r)

\* A request works in a staging folder of its own, which is there as long as it
\* needs it: os.Mkdir refuses the second of two requests in one second, and no
\* request's deferred clean-up takes another's folder (backup/restore.go:153-158).
StageIsPrivate ==
  \A r \in Requests : HasStage(r) =>
    /\ stage[proc[r].at] # NoStage
    /\ \A s \in Requests \ {r} : HasStage(s) => proc[s].at # proc[r].at

InSafetyCopy(n, c) == \E t \in Time : safety[t] \in Contents /\ safety[t][n] = c
PutAside(n, c) == \E t \in Time : stage[t] # NoStage /\ stage[t].aside[n] = c

\* "What was there before was saved first, so this can be undone"
\* (handlers/backups_restore.go:130): what the folder held when a restore began,
\* and no backup holds, is in the folder, put aside or in a safety copy at every
\* moment, whoever else restores meanwhile, wherever a restore fails but in that
\* first listing ("look": its error is swallowed and no copy is made), and also
\* after a restart in the middle of the swap.  The entries have to be readable,
\* the copies to carry different seconds, and the site to be quiet meanwhile.
OriginalsRecoverable ==
  \A r \in Requests, n \in Name :
    LET c == had[r][n]
    IN  \/ c = NoFile \/ \E a \in Archives : a[n] = c
        \/ site[n] = c \/ PutAside(n, c) \/ InSafetyCopy(n, c)

\* "If the swap fails part way the old contents are put back"
\* (backup/restore.go:117-118), and the answer says "nothing was changed": what a
\* failed swap leaves different is not more than what the site itself wrote.
FailedSwapChangesNothing ==
  [][\A r \in Requests :
       /\ Swapping(r) /\ proc'[r].pc = "idle" /\ proc'[r].result = "failed"
       => Cardinality({n \in Name : site'[n] # proc[r].old[n]}) <= used["write"]]_vars

-----------------------------------------------------------------------------
(* A request is one step of AtomicReplace, taken when it is answered: while   *)
(* entries are being moved the folder counts as what it was before.          *)
Promised ==
  IF \E r \in Requests : Swapping(r)
  THEN proc[CHOOSE r \in Requests : Swapping(r)].old
  ELSE site

Promise == INSTANCE AtomicReplace WITH
  contents <- Promised,
  asked    <- [r \in Requests |-> proc[r].archive],
  answer   <- [r \in Requests |-> proc[r].result]

\* Every request is answered, and either the folder then holds exactly what the
\* backup does or it holds what it did before (backup/restore.go:114-119).
ReplacesAtomically == Promise!Spec
=============================================================================
