--------------------------- MODULE RestoreProofs ---------------------------
(***************************************************************************)
(* Proofs about Restore for any number of requests, entries and failures:  *)
(* types, then that staging folders are private, then that what a folder   *)
(* held before a restore can always be found again, then that a restore    *)
(* left alone is one step of AtomicReplace.                                *)
(***************************************************************************)
EXTENDS Restore, TLAPS

-----------------------------------------------------------------------------
(* Types and staging folders: each needs the other, as a request without its *)
(* folder would write into NoStage.                                          *)

Asked(q) == q.pc # "idle" => q.archive \in Archives
StageInv == RestoreTypeOK /\ StageIsPrivate /\ \A r \in Requests : Asked(proc[r])

Staged == {"unpack", "aside", "list", "move", "place", "undo", "clear", "return"}

LEMMA HasStageIff == \A r \in Requests : HasStage(r) <=> proc[r].pc \in Staged
  BY DEF HasStage, Swapping, Staged

LEMMA EmptyIsAFolder == Empty \in Contents
  BY DEF Empty, Contents

LEMMA IdleIsAProcess ==
  ASSUME NEW result \in {"none", "ok", "failed", "lost"}
  PROVE  /\ [Idle EXCEPT !.result = result] \in Process
         /\ [Idle EXCEPT !.result = result].pc = "idle"
         /\ Idle \in Process
  BY EmptyIsAFolder, RestoreAssumption DEF Idle, Process, PC, Time

LEMMA StepFacts ==
  ASSUME RestoreTypeOK, NEW r \in Requests, NEW q \in Process, Step(r, q)
  PROVE  /\ proc' \in [Requests -> Process]
         /\ proc'[r] = q
         /\ \A s \in Requests \ {r} : proc'[s] = proc[s]
  BY DEF RestoreTypeOK, Step

LEMMA ReplyFacts ==
  ASSUME RestoreTypeOK, NEW r \in Requests, NEW result \in {"ok", "failed"}, Reply(r, result)
  PROVE  /\ proc' \in [Requests -> Process]
         /\ proc'[r].pc = "idle"
         /\ \A s \in Requests \ {r} : proc'[s] = proc[s]
  BY IdleIsAProcess, StepFacts DEF Reply

\* A fault or not, the budgets stay natural numbers.
LEMMA UsedFacts ==
  ASSUME RestoreTypeOK, Works \/ (\E b \in Budget : Spend(b)) \/ (\E op \in Operation : Breaks(op))
  PROVE  used' \in [Budget -> Nat]
  BY DEF RestoreTypeOK, Works, Spend, Breaks, Budget

\* What a step of request r has to show for its part of the invariant.
LEMMA Assemble ==
  ASSUME StageInv, NEW r \in Requests,
         now' \in Time, site' \in Contents,
         safety' \in [Time -> Contents \cup {NoCopy, Damaged}],
         stage' \in [Time -> Stage \cup {NoStage}],
         had' \in [Requests -> Contents], used' \in [Budget -> Nat],
         proc' \in [Requests -> Process], Asked(proc'[r]),
         \A s \in Requests \ {r} : proc'[s] = proc[s],
         \A s \in Requests \ {r} : HasStage(s) => stage'[proc[s].at] # NoStage,
         proc'[r].pc \in Staged =>
           /\ stage'[proc'[r].at] # NoStage
           /\ \A s \in Requests \ {r} : HasStage(s) => proc[s].at # proc'[r].at
  PROVE  StageInv'
  <1>1. RestoreTypeOK'
    BY DEF RestoreTypeOK
  <1>2. \A s \in Requests : Asked(proc[s])'
    BY DEF StageInv, Asked
  <1>3. \A s \in Requests \ {r} : HasStage(s)' <=> HasStage(s)
    BY DEF HasStage, Swapping
  <1>4. HasStage(r)' <=> proc'[r].pc \in Staged
    BY DEF HasStage, Swapping, Staged
  <1>5. StageIsPrivate'
    BY <1>3, <1>4 DEF StageIsPrivate, StageInv
  <1> QED
    BY <1>1, <1>2, <1>5 DEF StageInv

\* A step within the request's own staging folder, or without one.
LEMMA OwnStep ==
  ASSUME StageInv, NEW r \in Requests, NEW q \in Process, Step(r, q), Asked(q),
         UNCHANGED now, site' \in Contents,
         safety' \in [Time -> Contents \cup {NoCopy, Damaged}],
         had' \in [Requests -> Contents],
         Works \/ (\E b \in Budget : Spend(b)) \/ (\E op \in Operation : Breaks(op)),
         q.pc \in Staged => HasStage(r) /\ q.at = proc[r].at,
         \/ UNCHANGED stage
         \/ HasStage(r) /\ \E g \in Stage : stage' = [stage EXCEPT ![proc[r].at] = g]
  PROVE  StageInv'
  <1> USE DEF StageInv
  <1>1. now' \in Time /\ stage' \in [Time -> Stage \cup {NoStage}]
    BY DEF RestoreTypeOK
  <1>2. used' \in [Budget -> Nat]
    BY UsedFacts
  <1>3. /\ proc' \in [Requests -> Process] /\ proc'[r] = q
        /\ \A s \in Requests \ {r} : proc'[s] = proc[s]
    BY StepFacts
  <1>4. \A s \in Requests : HasStage(s) => proc[s].at \in Time /\ stage'[proc[s].at] # NoStage
    BY RestoreAssumption DEF StageIsPrivate, RestoreTypeOK, Process
  <1>5. q.pc \in Staged => /\ stage'[q.at] # NoStage
                           /\ \A s \in Requests \ {r} : HasStage(s) => proc[s].at # q.at
    BY <1>4 DEF StageIsPrivate
  <1> QED
    BY <1>1, <1>2, <1>3, <1>4, <1>5, Assemble

\* The deferred clean-up takes the request's own folder and nobody else's.
LEMMA AnswerStep ==
  ASSUME StageInv, NEW r \in Requests, NEW result \in {"ok", "failed"}, Reply(r, result),
         UNCHANGED <<now, site, had>>,
         safety' \in [Time -> Contents \cup {NoCopy, Damaged}],
         Works \/ (\E op \in Operation : Breaks(op)),
         UNCHANGED stage \/ (DropStage(r) /\ HasStage(r))
  PROVE  StageInv'
  <1> USE DEF StageInv
  <1>1. /\ now' \in Time /\ site' \in Contents /\ had' \in [Requests -> Contents]
        /\ stage' \in [Time -> Stage \cup {NoStage}]
    BY DEF RestoreTypeOK, DropStage
  <1>2. used' \in [Budget -> Nat]
    BY UsedFacts
  <1>3. /\ proc' \in [Requests -> Process] /\ proc'[r].pc = "idle"
        /\ \A s \in Requests \ {r} : proc'[s] = proc[s]
    BY ReplyFacts
  <1>4. \A s \in Requests \ {r} : HasStage(s) => stage'[proc[s].at] # NoStage
    BY DEF StageIsPrivate, RestoreTypeOK, Process, DropStage
  <1> QED
    BY <1>1, <1>2, <1>3, <1>4, Assemble DEF Asked, Staged

LEMMA SaveSteps ==
  ASSUME StageInv, NEW r \in Requests, Ask(r) \/ Save(r)
  PROVE  StageInv'
  <1> USE DEF StageInv
  <1>0. /\ proc[r] \in Process /\ Asked(proc[r]) /\ site \in Contents /\ now \in Time
        /\ safety \in [Time -> Contents \cup {NoCopy, Damaged}] /\ had \in [Requests -> Contents]
    BY DEF RestoreTypeOK
  <1>1. CASE Ask(r)
    <2>1. PICK a \in Archives : Step(r, [Idle EXCEPT !.pc = "check", !.archive = a])
      BY <1>1 DEF Ask
    <2> DEFINE q == [Idle EXCEPT !.pc = "check", !.archive = a]
    <2>2. q \in Process /\ Asked(q) /\ q.pc = "check"
      BY RestoreAssumption, IdleIsAProcess DEF Process, PC, Asked, Idle
    <2> HIDE DEF q
    <2> QED
      BY <1>0, <1>1, <2>1, <2>2, OwnStep DEF q, Ask, Staged, Budget
  <1>2. CASE Check(r)
    <2>1. CASE (Works \/ Breaks("look")) /\ had' = [had EXCEPT ![r] = site]
               /\ UNCHANGED safety /\ Step(r, [proc[r] EXCEPT !.pc = "stage"])
      <3> DEFINE q == [proc[r] EXCEPT !.pc = "stage"]
      <3>1. q \in Process /\ Asked(q) /\ q.pc = "stage"
        BY <1>0, <1>2 DEF Check, Process, PC, Asked
      <3>2. had' \in [Requests -> Contents]
        BY <1>0, <2>1
      <3>3. UNCHANGED <<now, site, stage>>
        BY <1>2 DEF Check
      <3>4. Works \/ (\E op \in Operation : Breaks(op))
        BY <2>1 DEF Operation
      <3> HIDE DEF q
      <3> QED
        BY <1>0, <2>1, <3>1, <3>2, <3>3, <3>4, OwnStep DEF q, Staged
    <2>2. CASE Works /\ had' = [had EXCEPT ![r] = site]
               /\ safety' = [safety EXCEPT ![now] = NoCopy]
               /\ Step(r, [proc[r] EXCEPT !.pc = "save", !.saved = now, !.todo = Present(site)])
      <3> DEFINE q == [proc[r] EXCEPT !.pc = "save", !.saved = now, !.todo = Present(site)]
      <3>1. q \in Process /\ Asked(q) /\ q.pc = "save"
        BY <1>0, <1>2 DEF Check, Process, PC, Asked, Present
      <3>2. had' \in [Requests -> Contents] /\ safety' \in [Time -> Contents \cup {NoCopy, Damaged}]
        BY <1>0, <2>2
      <3> HIDE DEF q
      <3> QED
        BY <1>0, <1>2, <2>2, <3>1, <3>2, OwnStep DEF q, Check, Staged
    <2>3. CASE Breaks("check") /\ Reply(r, "failed") /\ UNCHANGED <<safety, had>>
      BY <1>0, <1>2, <2>3, AnswerStep DEF Check, Operation
    <2> QED
      BY <1>2, <2>1, <2>2, <2>3 DEF Check
  <1>3. CASE SaveEntry(r)
    <2>1. PICK n \in proc[r].todo :
            Step(r, [proc[r] EXCEPT !.todo = @ \ {n},
                       !.copy[n] = IF n \in Unreadable THEN @ ELSE site[n]])
      BY <1>3 DEF SaveEntry
    <2> DEFINE q == [proc[r] EXCEPT !.todo = @ \ {n},
                       !.copy[n] = IF n \in Unreadable THEN @ ELSE site[n]]
    <2>2. q \in Process /\ Asked(q) /\ q.pc = "save"
      BY <1>0, <1>3 DEF SaveEntry, Process, Asked, Contents
    <2> HIDE DEF q
    <2> QED
      BY <1>0, <1>3, <2>1, <2>2, OwnStep DEF q, SaveEntry, Staged, Works
  <1>4. CASE SaveDone(r)
    <2> DEFINE q == [proc[r] EXCEPT !.pc = "stage", !.copy = Empty, !.saved = 0]
    <2>0. proc[r].pc = "save" /\ 0 \in Time
      BY <1>4, RestoreAssumption DEF SaveDone, Time
    <2>1. q \in Process /\ Asked(q) /\ q.pc = "stage"
      BY <1>0, <2>0, EmptyIsAFolder DEF Process, PC, Asked
    <2>2. safety' \in [Time -> Contents \cup {NoCopy, Damaged}]
      BY <1>0, <1>4 DEF SaveDone, Process
    <2>3. Step(r, q)
      BY <1>4 DEF SaveDone
    <2> HIDE DEF q
    <2> QED
      BY <1>0, <1>4, <2>1, <2>2, <2>3, OwnStep DEF SaveDone, Staged, Works
  <1>5. CASE SaveFails(r)
    <2>1. safety' \in [Time -> Contents \cup {NoCopy, Damaged}]
      BY <1>0, <1>5 DEF SaveFails
    <2> QED
      BY <1>0, <1>5, <2>1, AnswerStep DEF SaveFails, Operation
  <1> QED
    BY <1>1, <1>2, <1>3, <1>4, <1>5 DEF Save

LEMMA PrepareSteps ==
  ASSUME StageInv, NEW r \in Requests, Prepare(r)
  PROVE  StageInv'
  <1> USE DEF StageInv
  <1>0. /\ proc[r] \in Process /\ Asked(proc[r]) /\ site \in Contents /\ now \in Time
        /\ safety \in [Time -> Contents \cup {NoCopy, Damaged}] /\ had \in [Requests -> Contents]
        /\ stage \in [Time -> Stage \cup {NoStage}]
    BY DEF RestoreTypeOK
  <1>1. CASE MakeStage(r)
    <2>1. CASE /\ stage[now] = NoStage /\ Works
               /\ stage' = [stage EXCEPT ![now] = [fresh |-> Empty, aside |-> Empty]]
               /\ Step(r, [proc[r] EXCEPT !.pc = "unpack", !.at = now])
      <3> DEFINE q == [proc[r] EXCEPT !.pc = "unpack", !.at = now]
                 g == [fresh |-> Empty, aside |-> Empty]
      <3>1. q \in Process /\ Asked(q) /\ q.pc = "unpack" /\ q.at = now
        BY <1>0, <1>1 DEF MakeStage, Process, PC, Asked
      <3>2. g \in Stage
        BY EmptyIsAFolder DEF Stage
      <3>3. stage' \in [Time -> Stage \cup {NoStage}] /\ stage'[now] # NoStage
        BY <1>0, <2>1, <3>2, RestoreAssumption
      <3> HIDE DEF q, g
      <3>4. /\ proc' \in [Requests -> Process] /\ proc'[r] = q
            /\ \A s \in Requests \ {r} : proc'[s] = proc[s]
        BY <2>1, <3>1, StepFacts DEF q
      <3>5. \A s \in Requests : HasStage(s) =>
              /\ proc[s].at \in Time /\ proc[s].at # now /\ stage'[proc[s].at] # NoStage
        BY <1>0, <2>1 DEF StageIsPrivate, RestoreTypeOK, Process
      <3>6. used' \in [Budget -> Nat]
        BY <2>1 DEF Works, RestoreTypeOK
      <3> QED
        BY <1>0, <1>1, <3>1, <3>3, <3>4, <3>5, <3>6, Assemble DEF MakeStage
    <2>2. CASE (Works \/ Breaks("stage")) /\ Reply(r, "failed") /\ UNCHANGED stage
      BY <1>0, <1>1, <2>2, AnswerStep DEF MakeStage, Operation
    <2> QED
      BY <1>1, <2>1, <2>2 DEF MakeStage
  <1>2. CASE Unpack(r)
    <2>1. HasStage(r)
      BY <1>2 DEF Unpack, HasStage
    <2>2. CASE /\ Works
               /\ stage' = [stage EXCEPT ![proc[r].at].fresh = proc[r].archive]
               /\ Step(r, [proc[r] EXCEPT !.pc = "aside"])
      <3> DEFINE q == [proc[r] EXCEPT !.pc = "aside"]
                 g == [stage[proc[r].at] EXCEPT !.fresh = proc[r].archive]
      <3>1. q \in Process /\ Asked(q) /\ q.pc = "aside" /\ q.at = proc[r].at
        BY <1>0, <1>2 DEF Unpack, Process, PC, Asked
      <3>2. g \in Stage
        BY <1>0, <1>2, <2>1, RestoreAssumption DEF StageIsPrivate, Process, Asked, Stage, Unpack
      <3>3. stage' = [stage EXCEPT ![proc[r].at] = g]
        BY <2>2
      <3> HIDE DEF q, g
      <3> QED
        BY <1>0, <1>2, <2>1, <2>2, <3>1, <3>2, <3>3, OwnStep DEF q, Unpack
    <2>3. CASE Breaks("unpack") /\ DropStage(r) /\ Reply(r, "failed")
      BY <1>0, <1>2, <2>1, <2>3, AnswerStep DEF Unpack, Operation
    <2> QED
      BY <1>2, <2>2, <2>3 DEF Unpack
  <1>3. CASE MakeAside(r)
    <2>1. HasStage(r)
      BY <1>3 DEF MakeAside, HasStage
    <2>2. CASE Works /\ UNCHANGED stage /\ Step(r, [proc[r] EXCEPT !.pc = "list"])
      <3> DEFINE q == [proc[r] EXCEPT !.pc = "list"]
      <3>1. q \in Process /\ Asked(q) /\ q.at = proc[r].at
        BY <1>0, <1>3 DEF MakeAside, Process, PC, Asked
      <3> HIDE DEF q
      <3> QED
        BY <1>0, <1>3, <2>1, <2>2, <3>1, OwnStep DEF q, MakeAside
    <2>3. CASE (Works \/ Breaks("aside")) /\ DropStage(r) /\ Reply(r, "failed")
      BY <1>0, <1>3, <2>1, <2>3, AnswerStep DEF MakeAside, Operation
    <2> QED
      BY <1>3, <2>2, <2>3 DEF MakeAside
  <1> QED
    BY <1>1, <1>2, <1>3 DEF Prepare

\* The steps of the swap and of its undo leave the request in its folder.
LEMMA SwapSteps ==
  ASSUME StageInv, NEW r \in Requests, Swap(r)
  PROVE  StageInv'
  <1> USE DEF StageInv
  <1>0. /\ proc[r] \in Process /\ Asked(proc[r]) /\ site \in Contents
        /\ safety \in [Time -> Contents \cup {NoCopy, Damaged}] /\ had \in [Requests -> Contents]
        /\ stage \in [Time -> Stage \cup {NoStage}]
    BY DEF RestoreTypeOK
  <1>1. HasStage(r) /\ proc[r].pc # "idle" /\ proc[r].at \in Time
    BY <1>0 DEF Swap, ListOld, MoveAside, ListFresh, Place, Finish, HasStage, Swapping, Process
  <1>2. stage[proc[r].at] \in Stage
    BY <1>0, <1>1 DEF StageIsPrivate
  <1>3. CASE ListOld(r)
    <2>1. CASE /\ Works /\ UNCHANGED stage
               /\ Step(r, [proc[r] EXCEPT !.pc = "move", !.todo = Present(site), !.old = site])
      <3> DEFINE q == [proc[r] EXCEPT !.pc = "move", !.todo = Present(site), !.old = site]
      <3>1. q \in Process /\ Asked(q) /\ q.at = proc[r].at
        BY <1>0, <1>1 DEF Process, PC, Asked, Present
      <3> HIDE DEF q
      <3> QED
        BY <1>0, <1>1, <1>3, <2>1, <3>1, OwnStep DEF q, ListOld
    <2>2. CASE Breaks("list") /\ DropStage(r) /\ Reply(r, "failed")
      BY <1>0, <1>1, <1>3, <2>2, AnswerStep DEF ListOld, Operation
    <2> QED
      BY <1>3, <2>1, <2>2 DEF ListOld
  <1>4. CASE MoveAside(r)
    <2>1. PICK n \in proc[r].todo :
            \/ /\ Works
               /\ stage' = [stage EXCEPT ![proc[r].at].aside[n] = site[n]]
               /\ site' = [site EXCEPT ![n] = NoFile]
               /\ Step(r, [proc[r] EXCEPT !.todo = @ \ {n}, !.moved = @ \cup {n}])
            \/ /\ Works \/ Breaks("move")
               /\ Step(r, [proc[r] EXCEPT !.pc = "undo"])
               /\ UNCHANGED <<site, stage>>
      BY <1>4 DEF MoveAside
    <2>2. n \in Name
      BY <1>0 DEF Process
    <2>3. CASE /\ Works
               /\ stage' = [stage EXCEPT ![proc[r].at].aside[n] = site[n]]
               /\ site' = [site EXCEPT ![n] = NoFile]
               /\ Step(r, [proc[r] EXCEPT !.todo = @ \ {n}, !.moved = @ \cup {n}])
      <3> DEFINE q == [proc[r] EXCEPT !.todo = @ \ {n}, !.moved = @ \cup {n}]
                 g == [stage[proc[r].at] EXCEPT !.aside[n] = site[n]]
      <3>1. q \in Process /\ Asked(q) /\ q.at = proc[r].at
        BY <1>0, <1>1, <2>2 DEF Process, Asked
      <3>2. g \in Stage
        BY <1>0, <1>2, <2>2 DEF Stage, Contents
      <3>3. stage' = [stage EXCEPT ![proc[r].at] = g] /\ site' \in Contents
        BY <1>0, <2>3 DEF Contents
      <3> HIDE DEF q, g
      <3> QED
        BY <1>0, <1>1, <1>4, <2>3, <3>1, <3>2, <3>3, OwnStep DEF q, MoveAside
    <2>4. CASE /\ Works \/ Breaks("move")
               /\ Step(r, [proc[r] EXCEPT !.pc = "undo"])
               /\ UNCHANGED <<site, stage>>
      <3> DEFINE q == [proc[r] EXCEPT !.pc = "undo"]
      <3>1. q \in Process /\ Asked(q) /\ q.at = proc[r].at
        BY <1>0, <1>1 DEF Process, PC, Asked
      <3> HIDE DEF q
      <3> QED
        BY <1>0, <1>1, <1>4, <2>4, <3>1, OwnStep DEF q, MoveAside, Operation
    <2> QED
      BY <2>1, <2>3, <2>4
  <1>5. CASE ListFresh(r)
    <2>1. stage[proc[r].at].fresh \in Contents
      BY <1>2 DEF Stage
    <2>2. PICK q : /\ q \in {[proc[r] EXCEPT !.pc = "place", !.todo = Present(stage[proc[r].at].fresh)],
                             [proc[r] EXCEPT !.pc = "undo"]}
                   /\ Step(r, q) /\ (Works \/ Breaks("relist"))
      BY <1>5 DEF ListFresh
    <2>3. q \in Process /\ Asked(q) /\ q.at = proc[r].at
      <3>1. Present(stage[proc[r].at].fresh) \in SUBSET Name
        BY DEF Present
      <3>2. CASE q = [proc[r] EXCEPT !.pc = "place", !.todo = Present(stage[proc[r].at].fresh)]
        BY <1>0, <1>1, <3>1, <3>2 DEF Process, PC, Asked
      <3>3. CASE q = [proc[r] EXCEPT !.pc = "undo"]
        BY <1>0, <1>1, <3>3 DEF Process, PC, Asked
      <3> QED
        BY <2>2, <3>2, <3>3
    <2> QED
      BY <1>0, <1>1, <1>5, <2>2, <2>3, OwnStep DEF ListFresh, Operation
  <1>6. CASE Place(r)
    <2>1. PICK n \in proc[r].todo :
            \/ /\ Works
               /\ site' = [site EXCEPT ![n] = stage[proc[r].at].fresh[n]]
               /\ stage' = [stage EXCEPT ![proc[r].at].fresh[n] = NoFile]
               /\ Step(r, [proc[r] EXCEPT !.todo = @ \ {n}])
            \/ /\ Works \/ Breaks("place")
               /\ Step(r, [proc[r] EXCEPT !.pc = "undo"])
               /\ UNCHANGED <<site, stage>>
      BY <1>6 DEF Place
    <2>2. n \in Name
      BY <1>0 DEF Process
    <2>3. CASE /\ Works
               /\ site' = [site EXCEPT ![n] = stage[proc[r].at].fresh[n]]
               /\ stage' = [stage EXCEPT ![proc[r].at].fresh[n] = NoFile]
               /\ Step(r, [proc[r] EXCEPT !.todo = @ \ {n}])
      <3> DEFINE q == [proc[r] EXCEPT !.todo = @ \ {n}]
                 g == [stage[proc[r].at] EXCEPT !.fresh[n] = NoFile]
      <3>1. q \in Process /\ Asked(q) /\ q.at = proc[r].at
        BY <1>0, <1>1, <2>2 DEF Process, Asked
      <3>2. g \in Stage
        BY <1>0, <1>2, <2>2 DEF Stage, Contents
      <3>3. stage' = [stage EXCEPT ![proc[r].at] = g] /\ site' \in Contents
        BY <1>0, <1>2, <2>2, <2>3 DEF Contents, Stage
      <3> HIDE DEF q, g
      <3> QED
        BY <1>0, <1>1, <1>6, <2>3, <3>1, <3>2, <3>3, OwnStep DEF q, Place
    <2>4. CASE /\ Works \/ Breaks("place")
               /\ Step(r, [proc[r] EXCEPT !.pc = "undo"])
               /\ UNCHANGED <<site, stage>>
      <3> DEFINE q == [proc[r] EXCEPT !.pc = "undo"]
      <3>1. q \in Process /\ Asked(q) /\ q.at = proc[r].at
        BY <1>0, <1>1 DEF Process, PC, Asked
      <3> HIDE DEF q
      <3> QED
        BY <1>0, <1>1, <1>6, <2>4, <3>1, OwnStep DEF q, Place, Operation
    <2> QED
      BY <2>1, <2>3, <2>4
  <1>7. CASE Finish(r)
    BY <1>0, <1>1, <1>7, AnswerStep DEF Finish, Works
  <1> QED
    BY <1>3, <1>4, <1>5, <1>6, <1>7 DEF Swap

LEMMA PutBackSteps ==
  ASSUME StageInv, NEW r \in Requests, PutBack(r)
  PROVE  StageInv'
  <1> USE DEF StageInv
  <1>0. /\ proc[r] \in Process /\ Asked(proc[r]) /\ site \in Contents
        /\ safety \in [Time -> Contents \cup {NoCopy, Damaged}] /\ had \in [Requests -> Contents]
        /\ stage \in [Time -> Stage \cup {NoStage}]
    BY DEF RestoreTypeOK
  <1>1. HasStage(r) /\ proc[r].pc # "idle" /\ proc[r].at \in Time
    BY <1>0 DEF PutBack, Undo, ClearEntry, ClearDone, Return, ReturnDone, HasStage, Swapping, Process
  <1>2. stage[proc[r].at] \in Stage
    BY <1>0, <1>1 DEF StageIsPrivate
  <1>3. CASE Undo(r)
    <2>1. PICK q : /\ q \in {[proc[r] EXCEPT !.pc = "clear", !.todo = Present(site)],
                             [proc[r] EXCEPT !.pc = "clear", !.todo = {}]}
                   /\ Step(r, q) /\ (Works \/ Breaks("clear"))
      BY <1>3 DEF Undo
    <2>2. q \in Process /\ Asked(q) /\ q.at = proc[r].at
      BY <1>0, <1>1, <2>1 DEF Process, PC, Asked, Present
    <2> QED
      BY <1>0, <1>1, <1>3, <2>1, <2>2, OwnStep DEF Undo, Operation
  <1>4. CASE ClearEntry(r)
    <2>1. PICK n \in proc[r].todo :
            /\ \/ Works /\ site' = [site EXCEPT ![n] = NoFile]
               \/ Breaks("clear") /\ UNCHANGED site
            /\ Step(r, [proc[r] EXCEPT !.todo = @ \ {n}])
      BY <1>4 DEF ClearEntry
    <2> DEFINE q == [proc[r] EXCEPT !.todo = @ \ {n}]
    <2>2. q \in Process /\ Asked(q) /\ q.at = proc[r].at
      BY <1>0, <1>1 DEF Process, Asked
    <2>3. site' \in Contents
      BY <1>0, <2>1 DEF Contents
    <2> HIDE DEF q
    <2> QED
      BY <1>0, <1>1, <1>4, <2>1, <2>2, <2>3, OwnStep DEF q, ClearEntry, Operation
  <1>5. CASE ClearDone(r)
    <2> DEFINE q == [proc[r] EXCEPT !.pc = "return", !.todo = proc[r].moved]
    <2>1. q \in Process /\ Asked(q) /\ q.at = proc[r].at
      BY <1>0, <1>1 DEF Process, PC, Asked
    <2>2. Step(r, q)
      BY <1>5 DEF ClearDone
    <2> HIDE DEF q
    <2> QED
      BY <1>0, <1>1, <1>5, <2>1, <2>2, OwnStep DEF ClearDone, Works
  <1>6. CASE Return(r)
    <2>1. PICK n \in proc[r].todo :
            /\ \/ /\ Works
                  /\ site' = [site EXCEPT ![n] = stage[proc[r].at].aside[n]]
                  /\ stage' = [stage EXCEPT ![proc[r].at].aside[n] = NoFile]
               \/ (Works \/ Breaks("return")) /\ UNCHANGED <<site, stage>>
            /\ Step(r, [proc[r] EXCEPT !.todo = @ \ {n}])
      BY <1>6 DEF Return
    <2>2. n \in Name
      BY <1>0 DEF Process
    <2> DEFINE q == [proc[r] EXCEPT !.todo = @ \ {n}]
               g == [stage[proc[r].at] EXCEPT !.aside[n] = NoFile]
    <2>3. q \in Process /\ Asked(q) /\ q.at = proc[r].at
      BY <1>0, <1>1 DEF Process, Asked
    <2>4. g \in Stage
      BY <1>0, <1>2, <2>2 DEF Stage, Contents
    <2>5. \/ site' \in Contents /\ stage' = [stage EXCEPT ![proc[r].at] = g]
          \/ UNCHANGED <<site, stage>>
      BY <1>0, <1>2, <2>1, <2>2 DEF Contents, Stage
    <2> HIDE DEF q, g
    <2> QED
      BY <1>0, <1>1, <1>6, <2>1, <2>3, <2>4, <2>5, OwnStep DEF q, Return, Operation
  <1>7. CASE ReturnDone(r)
    BY <1>0, <1>1, <1>7, AnswerStep DEF ReturnDone, Works
  <1> QED
    BY <1>3, <1>4, <1>5, <1>6, <1>7 DEF PutBack

LEMMA OutsideSteps ==
  ASSUME StageInv, Tick \/ SiteWrites \/ Restart \/ UNCHANGED vars
  PROVE  StageInv'
  <1> USE DEF StageInv
  <1>1. CASE Tick
    BY <1>1, RestoreAssumption
       DEF Tick, RestoreTypeOK, Time, StageIsPrivate, HasStage, Swapping, Asked
  <1>2. CASE SiteWrites
    <2>1. site' \in Contents /\ had' \in [Requests -> Contents]
      BY <1>2, RestoreAssumption DEF SiteWrites, RestoreTypeOK, Contents
    <2>2. used' \in [Budget -> Nat]
      BY <1>2, UsedFacts DEF SiteWrites, Budget
    <2> QED
      BY <1>2, <2>1, <2>2
         DEF SiteWrites, RestoreTypeOK, StageIsPrivate, HasStage, Swapping, Asked
  <1>3. CASE Restart
    <2>1. used' \in [Budget -> Nat]
      BY <1>3, UsedFacts DEF Restart, Budget
    <2>2. \A r \in Requests : proc'[r] \in Process /\ proc'[r].pc = "idle"
      BY <1>3, IdleIsAProcess DEF Restart, RestoreTypeOK, Running
    <2>3. proc' \in [Requests -> Process]
      BY <1>3, <2>2 DEF Restart
    <2> QED
      BY <1>3, <2>1, <2>2, <2>3
         DEF Restart, RestoreTypeOK, StageIsPrivate, HasStage, Swapping, Asked
  <1>4. CASE UNCHANGED vars
    BY <1>4 DEF vars, RestoreTypeOK, StageIsPrivate, HasStage, Swapping, Asked
  <1> QED
    BY <1>1, <1>2, <1>3, <1>4

LEMMA StageInvHolds == Spec => []StageInv
  <1>1. Init => StageInv
    <2> SUFFICES ASSUME Init PROVE StageInv
      OBVIOUS
    <2>1. RestoreTypeOK
      BY EmptyIsAFolder, IdleIsAProcess, RestoreAssumption DEF Init, RestoreTypeOK, Time
    <2>2. \A r \in Requests : proc[r].pc = "idle"
      BY DEF Init, Idle
    <2> QED
      BY <2>1, <2>2 DEF StageInv, StageIsPrivate, HasStage, Swapping, Asked
  <1>2. StageInv /\ [Next]_vars => StageInv'
    <2> SUFFICES ASSUME StageInv, [Next]_vars PROVE StageInv'
      OBVIOUS
    <2>1. CASE \E r \in Requests : Ask(r) \/ Run(r)
      BY <2>1, SaveSteps, PrepareSteps, SwapSteps, PutBackSteps DEF Run
    <2> QED
      BY <2>1, OutsideSteps DEF Next
  <1> QED
    BY <1>1, <1>2, PTL DEF Spec

\* In every reachable state, for all constants, each variable has its type.
THEOREM RestoreTypeCorrect == Spec => []RestoreTypeOK
  <1>1. StageInv => RestoreTypeOK
    BY DEF StageInv
  <1> QED
    BY <1>1, StageInvHolds, PTL

\* However many restores of one site run at once, and however they fail, none
\* works in the staging folder of another and none loses its own.
THEOREM StagesArePrivate == Spec => []StageIsPrivate
  <1>1. StageInv => StageIsPrivate
    BY DEF StageInv
  <1> QED
    BY <1>1, StageInvHolds, PTL

-----------------------------------------------------------------------------
(* Nothing is lost.  A restore moves entries only after its safety copy is   *)
(* complete, and until somebody's copy is, nobody moves anything: so content *)
(* no backup holds is either still untouched in the folder or in a copy, and *)
(* no later step takes a copy away.                                          *)

Origin(n, c) == c \in Content /\ \A a \in Archives : a[n] # c

\* n still holds c, and whoever copies the folder has n ahead or has copied c.
Untouched(n, c) ==
  /\ site[n] = c
  /\ \A r \in Requests :
       \/ proc[r].pc \in {"idle", "check"}
       \/ proc[r].pc = "save" /\ (n \in proc[r].todo \/ proc[r].copy[n] = c)
Safe(n, c) == InSafetyCopy(n, c) \/ Untouched(n, c)

CopyInv ==
  \A r \in Requests : proc[r].pc = "save" =>
    /\ safety[proc[r].saved] = NoCopy
    /\ \A s \in Requests \ {r} : proc[s].pc = "save" => proc[s].saved # proc[r].saved

FreshInv ==
  \A t \in Time, n \in Name : stage[t] # NoStage =>
    \/ stage[t].fresh[n] = NoFile
    \/ \E a \in Archives : stage[t].fresh[n] = a[n]

SavedFirst ==
  \A n \in Name, c \in Content : Origin(n, c) =>
    /\ PutAside(n, c) => InSafetyCopy(n, c)
    /\ site[n] = c => Safe(n, c)
    /\ \A r \in Requests : had[r][n] = c => Safe(n, c)

RecoverInv == StageInv /\ CopyInv /\ FreshInv /\ SavedFirst

LEMMA NothingLost == RecoverInv => OriginalsRecoverable
  <1> SUFFICES ASSUME RecoverInv, NEW r \in Requests, NEW n \in Name,
                      had[r][n] # NoFile, \A a \in Archives : a[n] # had[r][n]
               PROVE  site[n] = had[r][n] \/ InSafetyCopy(n, had[r][n])
    BY DEF OriginalsRecoverable
  <1>1. had[r][n] \in Content
    BY DEF RecoverInv, StageInv, RestoreTypeOK, Contents
  <1> QED
    BY <1>1 DEF RecoverInv, SavedFirst, Origin, Safe, Untouched

LEMMA CopiesStay ==
  ASSUME NEW n \in Name, NEW c, InSafetyCopy(n, c),
         \A t \in Time : safety[t] # NoCopy => safety'[t] = safety[t]
  PROVE  InSafetyCopy(n, c)'
  BY RestoreAssumption DEF InSafetyCopy

(* The request and the safety copy *)

LEMMA CopyInvKept ==
  ASSUME RecoverInv, ~SameSecond, NEW r \in Requests, Ask(r) \/ Save(r)
  PROVE  /\ CopyInv'
         /\ \A t \in Time : safety[t] # NoCopy => safety'[t] = safety[t]
  <1> USE DEF RecoverInv, StageInv, Idle
  <1>0. /\ proc \in [Requests -> Process] /\ now \in Time
        /\ safety \in [Time -> Contents \cup {NoCopy, Damaged}]
        /\ \A s \in Requests : proc[s].saved \in Time
    BY DEF RestoreTypeOK, Process
  <1>1. CASE Ask(r)
    <2>1. /\ proc'[r].pc = "check" /\ UNCHANGED safety
          /\ \A s \in Requests \ {r} : proc'[s] = proc[s]
      BY <1>0, <1>1 DEF Ask, Step
    <2> QED
      BY <2>1 DEF CopyInv
  <1>2. CASE Check(r)
    <2>1. \A s \in Requests \ {r} : proc'[s] = proc[s]
      BY <1>0, <1>2 DEF Check, Step, Reply
    <2>2. \/ proc'[r].pc # "save" /\ UNCHANGED safety
          \/ /\ proc'[r].pc = "save" /\ proc'[r].saved = now /\ Unused(now)
             /\ safety' = [safety EXCEPT ![now] = NoCopy]
      <3>1. CASE UNCHANGED safety /\ Step(r, [proc[r] EXCEPT !.pc = "stage"])
        BY <1>0, <3>1 DEF Step, Process
      <3>2. CASE /\ Unused(now) /\ safety' = [safety EXCEPT ![now] = NoCopy]
                 /\ Step(r, [proc[r] EXCEPT !.pc = "save", !.saved = now, !.todo = Present(site)])
        BY <1>0, <3>2 DEF Step, Process
      <3>3. CASE UNCHANGED safety /\ Reply(r, "failed")
        BY <1>0, <3>3 DEF Reply, Step
      <3> QED
        BY <1>2, <3>1, <3>2, <3>3 DEF Check
    <2> QED
      BY <1>0, <2>1, <2>2 DEF CopyInv, Unused
  <1>3. CASE SaveEntry(r)
    <2>1. /\ \A s \in Requests \ {r} : proc'[s] = proc[s]
          /\ proc[r].pc = "save" /\ proc'[r].saved = proc[r].saved /\ UNCHANGED safety
      BY <1>0, <1>3 DEF SaveEntry, Step, Process
    <2> QED
      BY <2>1 DEF CopyInv
  <1>4. CASE SaveDone(r) \/ SaveFails(r)
    <2>1. /\ \A s \in Requests \ {r} : proc'[s] = proc[s]
          /\ proc[r].pc = "save" /\ proc'[r].pc # "save"
      <3>1. proc[r].pc = "save"
        BY <1>4 DEF SaveDone, SaveFails
      <3>2. \/ Step(r, [proc[r] EXCEPT !.pc = "stage", !.copy = Empty, !.saved = 0])
            \/ Reply(r, "failed")
        BY <1>4 DEF SaveDone, SaveFails
      <3>3. CASE Step(r, [proc[r] EXCEPT !.pc = "stage", !.copy = Empty, !.saved = 0])
        BY <1>0, <3>1, <3>3 DEF Step, Process
      <3>4. CASE Reply(r, "failed")
        BY <1>0, <3>1, <3>4 DEF Step, Reply
      <3> QED
        BY <3>2, <3>3, <3>4
    <2>2. \A t \in Time \ {proc[r].saved} : safety'[t] = safety[t]
      BY <1>0, <1>4 DEF SaveDone, SaveFails
    <2>3. safety[proc[r].saved] = NoCopy
      BY <2>1 DEF CopyInv
    <2> QED
      BY <1>0, <2>1, <2>2, <2>3 DEF CopyInv
  <1> QED
    BY <1>1, <1>2, <1>3, <1>4 DEF Save

LEMMA SavingIsSafe ==
  ASSUME RecoverInv, ~SameSecond, Unreadable = {}, "look" \notin Faulty,
         NEW r \in Requests, Ask(r) \/ Save(r),
         NEW n \in Name, NEW c \in Content, Safe(n, c)
  PROVE  Safe(n, c)'
  <1> USE DEF RecoverInv, StageInv, Idle
  <1>0. /\ proc \in [Requests -> Process] /\ proc[r] \in Process /\ site \in Contents
        /\ safety \in [Time -> Contents \cup {NoCopy, Damaged}]
        /\ proc[r].saved \in Time /\ proc[r].copy \in Contents
    BY DEF RestoreTypeOK, Process
  <1>1. CASE InSafetyCopy(n, c)
    BY <1>1, CopyInvKept, CopiesStay DEF Safe
  <1>2. CASE Untouched(n, c)
    <2>1. site'[n] = c /\ c # NoFile
      BY <1>2, RestoreAssumption
         DEF Untouched, Ask, Save, Check, SaveEntry, SaveDone, SaveFails
    <2>2. \A s \in Requests \ {r} : proc'[s] = proc[s]
      BY <1>0 DEF Ask, Save, Check, SaveEntry, SaveDone, SaveFails, Step, Reply
    <2>3. SUFFICES \/ InSafetyCopy(n, c)'
                   \/ proc'[r].pc \in {"idle", "check"}
                   \/ proc'[r].pc = "save" /\ (n \in proc'[r].todo \/ proc'[r].copy[n] = c)
      BY <1>2, <2>1, <2>2 DEF Safe, Untouched
    <2>4. CASE Ask(r) \/ SaveFails(r)
      <3>1. \/ \E a : Step(r, [Idle EXCEPT !.pc = "check", !.archive = a])
            \/ Reply(r, "failed")
        BY <2>4 DEF Ask, SaveFails
      <3> QED
        BY <1>0, <3>1 DEF Step, Reply
    <2>5. CASE Check(r)
      <3>1. n \in Present(site)
        BY <1>2, <2>1 DEF Untouched, Present
      <3>2. \/ Step(r, [proc[r] EXCEPT !.pc = "save", !.saved = now, !.todo = Present(site)])
            \/ Reply(r, "failed")
        BY <2>5, <3>1 DEF Check, Breaks
      <3>3. \/ proc'[r].pc = "save" /\ proc'[r].todo = Present(site)
            \/ proc'[r].pc = "idle"
        <4>1. CASE Step(r, [proc[r] EXCEPT !.pc = "save", !.saved = now, !.todo = Present(site)])
          BY <1>0, <4>1 DEF Step, Process
        <4>2. CASE Reply(r, "failed")
          BY <1>0, <4>2 DEF Step, Reply
        <4> QED
          BY <3>2, <4>1, <4>2
      <3> QED
        BY <1>0, <2>5, <3>1, <3>2, <3>3
    <2>6. CASE SaveEntry(r)
      <3>1. PICK m \in proc[r].todo :
              Step(r, [proc[r] EXCEPT !.todo = @ \ {m},
                         !.copy[m] = IF m \in Unreadable THEN @ ELSE site[m]])
        BY <2>6 DEF SaveEntry
      <3>2. /\ proc'[r].pc = proc[r].pc
            /\ proc'[r].todo = proc[r].todo \ {m}
            /\ proc'[r].copy = [proc[r].copy EXCEPT ![m] = site[m]]
        BY <1>0, <3>1 DEF Step, Process
      <3>3. n \in proc[r].todo \/ proc[r].copy[n] = c
        BY <1>2, <2>6 DEF Untouched, SaveEntry
      <3>4. site[n] = c /\ proc[r].pc = "save"
        BY <1>2, <2>6 DEF Untouched, SaveEntry
      <3> QED
        BY <1>0, <3>2, <3>3, <3>4 DEF Contents
    <2>7. CASE SaveDone(r)
      <3> DEFINE t == proc[r].saved
      <3>1. proc[r].pc = "save" /\ proc[r].copy[n] = c
        BY <1>2, <2>7 DEF Untouched, SaveDone
      <3>2. safety[t] = NoCopy
            /\ ~ \E s \in Requests \ {r} : proc[s].pc = "save" /\ proc[s].saved = t
        BY <3>1 DEF CopyInv
      <3>3. safety'[t] = proc[r].copy
        BY <1>0, <2>7, <3>2 DEF SaveDone
      <3> QED
        BY <1>0, <3>1, <3>3 DEF InSafetyCopy
    <2> QED
      BY <2>4, <2>5, <2>6, <2>7 DEF Save
  <1> QED
    BY <1>1, <1>2 DEF Safe

LEMMA SavingKeeps ==
  ASSUME RecoverInv, ~SameSecond, Unreadable = {}, "look" \notin Faulty,
         NEW r \in Requests, Ask(r) \/ Save(r)
  PROVE  RecoverInv'
  <1>1. StageInv' /\ CopyInv'
    BY SaveSteps, CopyInvKept DEF RecoverInv
  <1>2. UNCHANGED <<site, stage>>
    BY DEF Ask, Save, Check, SaveEntry, SaveDone, SaveFails
  <1>3. FreshInv'
    BY <1>2 DEF RecoverInv, FreshInv
  <1>4. had' = had \/ had' = [had EXCEPT ![r] = site]
    BY DEF Ask, Save, Check, SaveEntry, SaveDone, SaveFails
  <1>5. SavedFirst'
    <2> SUFFICES ASSUME NEW n \in Name, NEW c \in Content, Origin(n, c)
                 PROVE  /\ PutAside(n, c)' => InSafetyCopy(n, c)'
                        /\ site'[n] = c => Safe(n, c)'
                        /\ \A s \in Requests : had'[s][n] = c => Safe(n, c)'
      BY DEF SavedFirst, Origin
    <2>1. PutAside(n, c)' => InSafetyCopy(n, c)'
      BY <1>2, CopyInvKept, CopiesStay DEF RecoverInv, SavedFirst, PutAside
    <2>2. \A s \in Requests : had'[s][n] = c => had[s][n] = c \/ site[n] = c
      BY <1>4 DEF RecoverInv, StageInv, RestoreTypeOK
    <2> QED
      BY <1>2, <2>1, <2>2, SavingIsSafe DEF RecoverInv, SavedFirst
  <1> QED
    BY <1>1, <1>3, <1>5 DEF RecoverInv

(* The swap and its undo *)

\* Where an entry of the site's folder comes from.
SiteFrom(t) ==
  \A n \in Name : \/ site'[n] \in {site[n], NoFile}
                  \/ stage[t] # NoStage /\ site'[n] = stage[t].aside[n]
                  \/ stage[t] # NoStage /\ site'[n] = stage[t].fresh[n]
\* Where what a staging folder holds comes from.
StageFrom(t) ==
  stage'[t] # NoStage => \A n \in Name :
    /\ \/ stage'[t].aside[n] \in {NoFile, site[n]}
       \/ stage[t] # NoStage /\ stage'[t].aside[n] = stage[t].aside[n]
    /\ \/ stage'[t].fresh[n] = NoFile
       \/ \E a \in Archives : stage'[t].fresh[n] = a[n]
       \/ stage[t] # NoStage /\ stage'[t].fresh[n] = stage[t].fresh[n]

LEMMA SwapMoves ==
  ASSUME StageInv, NEW r \in Requests, Prepare(r) \/ Swap(r) \/ PutBack(r)
  PROVE  /\ UNCHANGED <<safety, had>>
         /\ proc[r].pc \notin {"idle", "check", "save"}
         /\ proc'[r].pc # "save" /\ \A s \in Requests \ {r} : proc'[s] = proc[s]
         /\ SiteFrom(proc[r].at)
         /\ \A t \in Time : StageFrom(t)
  <1> USE DEF StageInv
  <1>0. /\ proc[r] \in Process /\ Asked(proc[r]) /\ site \in Contents /\ proc \in [Requests -> Process]
        /\ stage \in [Time -> Stage \cup {NoStage}] /\ proc[r].at \in Time
    BY DEF RestoreTypeOK, Process
  <1>1. HasStage(r) => stage[proc[r].at] \in Stage
    BY <1>0 DEF StageIsPrivate
  <1> DEFINE t0 == proc[r].at
  <1>2. UNCHANGED <<safety, had>> /\ proc[r].pc \notin {"idle", "check", "save"}
    BY DEF Prepare, MakeStage, Unpack, MakeAside,
           Swap, ListOld, MoveAside, ListFresh, Place, Finish,
           PutBack, Undo, ClearEntry, ClearDone, Return, ReturnDone
  <1>3. CASE MakeStage(r)
    <2>1. UNCHANGED site
      BY <1>3 DEF MakeStage
    <2>2. proc'[r].pc # "save" /\ \A s \in Requests \ {r} : proc'[s] = proc[s]
      BY <1>0, <1>3 DEF MakeStage, Step, Reply, Idle, Process
    <2>3. \A t \in Time : StageFrom(t)
      BY <1>0, <1>3 DEF MakeStage, StageFrom, Empty, Stage
    <2> QED
      BY <1>2, <2>1, <2>2, <2>3 DEF SiteFrom
  <1>4. CASE Unpack(r)
    <2>1. UNCHANGED site /\ HasStage(r) /\ proc[r].archive \in Archives
      BY <1>0, <1>4 DEF Unpack, HasStage, Asked
    <2>2. proc'[r].pc # "save" /\ \A s \in Requests \ {r} : proc'[s] = proc[s]
      BY <1>0, <1>4 DEF Unpack, Step, Reply, Idle, Process
    <2>3. CASE stage' = [stage EXCEPT ![t0].fresh = proc[r].archive]
      <3>1. \A t \in Time \ {t0} : stage'[t] = stage[t]
        BY <1>0, <2>3
      <3>2. stage'[t0].fresh = proc[r].archive /\ stage'[t0].aside = stage[t0].aside
        BY <1>0, <1>1, <2>1, <2>3 DEF Stage
      <3> QED
        BY <1>1, <1>2, <2>1, <2>2, <3>1, <3>2, RestoreAssumption DEF SiteFrom, StageFrom
    <2>4. CASE DropStage(r)
      BY <1>0, <1>2, <2>1, <2>2, <2>4 DEF DropStage, SiteFrom, StageFrom
    <2> QED
      BY <1>4, <2>3, <2>4 DEF Unpack
  <1>5. CASE UNCHANGED site /\ (UNCHANGED stage \/ DropStage(r))
             /\ (MakeAside(r) \/ ListOld(r) \/ ListFresh(r) \/ Finish(r) \/ Undo(r)
                 \/ ClearDone(r) \/ ReturnDone(r))
    <2>1. proc'[r].pc # "save" /\ \A s \in Requests \ {r} : proc'[s] = proc[s]
      <3>1. CASE \E result : Reply(r, result)
        BY <1>0, <3>1 DEF Reply, Step, Idle
      <3>2. CASE \E todo, old :
                   \/ Step(r, [proc[r] EXCEPT !.pc = "move", !.todo = todo, !.old = old])
                   \/ Step(r, [proc[r] EXCEPT !.pc = "place", !.todo = todo])
                   \/ Step(r, [proc[r] EXCEPT !.pc = "clear", !.todo = todo])
                   \/ Step(r, [proc[r] EXCEPT !.pc = "return", !.todo = todo])
        BY <1>0, <3>2 DEF Step, Process
      <3>3. CASE \/ Step(r, [proc[r] EXCEPT !.pc = "list"])
                 \/ Step(r, [proc[r] EXCEPT !.pc = "undo"])
        BY <1>0, <3>3 DEF Step, Process
      <3> QED
        <4>1. CASE MakeAside(r) \/ Finish(r) \/ ReturnDone(r)
          BY <4>1, <3>1, <3>3 DEF MakeAside, Finish, ReturnDone
        <4>2. CASE ListOld(r)
          BY <4>2, <3>1, <3>2 DEF ListOld
        <4>3. CASE ListFresh(r)
          BY <4>3, <3>2, <3>3 DEF ListFresh
        <4>4. CASE Undo(r) \/ ClearDone(r)
          BY <4>4, <3>2 DEF Undo, ClearDone
        <4> QED
          BY <1>5, <4>1, <4>2, <4>3, <4>4
    <2> QED
      BY <1>0, <1>2, <1>5, <2>1 DEF DropStage, SiteFrom, StageFrom
  <1>6. CASE MoveAside(r) \/ Place(r) \/ ClearEntry(r) \/ Return(r)
    <2>1. HasStage(r) /\ proc[r].todo \subseteq Name
      BY <1>0, <1>6 DEF MoveAside, Place, ClearEntry, Return, HasStage, Swapping, Process
    <2>2. stage[t0] \in Stage /\ stage[t0] # NoStage
      BY <1>1, <2>1, RestoreAssumption
    <2>3. proc'[r].pc # "save" /\ \A s \in Requests \ {r} : proc'[s] = proc[s]
      <3>1. \E n \in Name :
              \/ Step(r, [proc[r] EXCEPT !.todo = @ \ {n}, !.moved = @ \cup {n}])
              \/ Step(r, [proc[r] EXCEPT !.todo = @ \ {n}])
              \/ Step(r, [proc[r] EXCEPT !.pc = "undo"])
        BY <1>6, <2>1 DEF MoveAside, Place, ClearEntry, Return
      <3> QED
        BY <1>0, <1>2, <3>1 DEF Step, Process
    <2>4. PICK n \in Name :
            \/ UNCHANGED <<site, stage>>
            \/ UNCHANGED stage /\ site' = [site EXCEPT ![n] = NoFile]
            \/ /\ stage' = [stage EXCEPT ![t0].aside[n] = site[n]]
               /\ site' = [site EXCEPT ![n] = NoFile]
            \/ /\ stage' = [stage EXCEPT ![t0].fresh[n] = NoFile]
               /\ site' = [site EXCEPT ![n] = stage[t0].fresh[n]]
            \/ /\ stage' = [stage EXCEPT ![t0].aside[n] = NoFile]
               /\ site' = [site EXCEPT ![n] = stage[t0].aside[n]]
      BY <1>6, <2>1 DEF MoveAside, Place, ClearEntry, Return
    <2>5. SiteFrom(t0)
      BY <1>0, <2>2, <2>4 DEF SiteFrom, Contents
    <2>6. \A t \in Time \ {t0} : stage'[t] = stage[t]
      BY <1>0, <2>4
    <2>7. \/ stage'[t0] = stage[t0]
          \/ stage'[t0] = [stage[t0] EXCEPT !.aside[n] = site[n]]
          \/ stage'[t0] = [stage[t0] EXCEPT !.fresh[n] = NoFile]
          \/ stage'[t0] = [stage[t0] EXCEPT !.aside[n] = NoFile]
      BY <1>0, <2>4
    <2>8. StageFrom(t0)
      BY <1>0, <2>2, <2>7 DEF StageFrom, Stage, Contents
    <2> QED
      BY <1>2, <2>3, <2>5, <2>6, <2>8 DEF StageFrom
  <1> QED
    BY <1>3, <1>4, <1>5, <1>6
       DEF Prepare, MakeAside, Swap, ListOld, ListFresh, Finish,
           PutBack, Undo, ClearDone, ReturnDone

LEMMA SwappingKeeps ==
  ASSUME RecoverInv, NEW r \in Requests, Prepare(r) \/ Swap(r) \/ PutBack(r)
  PROVE  RecoverInv'
  <1> USE DEF RecoverInv
  <1>1. StageInv'
    BY PrepareSteps, SwapSteps, PutBackSteps
  <1>2. /\ UNCHANGED <<safety, had>>
        /\ proc[r].pc \notin {"idle", "check", "save"}
        /\ proc'[r].pc # "save" /\ \A s \in Requests \ {r} : proc'[s] = proc[s]
        /\ SiteFrom(proc[r].at) /\ \A t \in Time : StageFrom(t)
    BY SwapMoves
  <1>3. proc[r].at \in Time
    BY DEF StageInv, RestoreTypeOK, Process
  <1>4. CopyInv'
    BY <1>2 DEF CopyInv
  <1>5. FreshInv'
    BY <1>2 DEF FreshInv, StageFrom
  <1>6. SavedFirst'
    <2> SUFFICES ASSUME NEW n \in Name, NEW c \in Content, Origin(n, c)
                 PROVE  /\ PutAside(n, c)' => InSafetyCopy(n, c)'
                        /\ site'[n] = c => Safe(n, c)'
                        /\ \A s \in Requests : had'[s][n] = c => Safe(n, c)'
      BY DEF SavedFirst, Origin
    <2>1. c # NoFile /\ \A a \in Archives : a[n] # c
      BY RestoreAssumption DEF Origin
    <2>2. Safe(n, c) => InSafetyCopy(n, c)
      BY <1>2 DEF Safe, Untouched
    <2>3. /\ PutAside(n, c) => InSafetyCopy(n, c)
          /\ site[n] = c => InSafetyCopy(n, c)
          /\ \A s \in Requests : had[s][n] = c => InSafetyCopy(n, c)
      BY <2>2 DEF SavedFirst
    <2>4. InSafetyCopy(n, c) => InSafetyCopy(n, c)' /\ Safe(n, c)'
      BY <1>2 DEF InSafetyCopy, Safe
    <2>5. PutAside(n, c)' => PutAside(n, c) \/ site[n] = c
      BY <1>2, <2>1 DEF PutAside, StageFrom
    <2>6. site'[n] = c => site[n] = c \/ PutAside(n, c)
      BY <1>2, <1>3, <2>1 DEF SiteFrom, PutAside, FreshInv
    <2> QED
      BY <1>2, <2>3, <2>4, <2>5, <2>6
  <1> QED
    BY <1>1, <1>4, <1>5, <1>6

LEMMA OutsideKeeps ==
  ASSUME RecoverInv, ~WriteAnyTime, Tick \/ SiteWrites \/ Restart \/ UNCHANGED vars
  PROVE  RecoverInv'
  <1> USE DEF RecoverInv
  <1>1. StageInv'
    BY OutsideSteps
  <1>2. CASE Tick \/ UNCHANGED vars
    BY <1>1, <1>2 DEF Tick, vars, CopyInv, FreshInv, SavedFirst, Origin, Safe, PutAside,
                      InSafetyCopy, Untouched
  <1>3. CASE SiteWrites
    <2>1. PICK m \in Name, d \in Written \cup {NoFile} :
            /\ site' = [site EXCEPT ![m] = d]
            /\ had' = [r \in Requests |-> [had[r] EXCEPT ![m] = NoFile]]
      BY <1>3 DEF SiteWrites
    <2>2. /\ UNCHANGED <<safety, stage, proc>>
          /\ \A r \in Requests : proc'[r].pc = "idle"
      BY <1>3 DEF SiteWrites, Running
    <2>3. CopyInv' /\ FreshInv'
      BY <2>2 DEF CopyInv, FreshInv
    <2>4. SavedFirst'
      <3> SUFFICES ASSUME NEW n \in Name, NEW c \in Content, Origin(n, c)
                   PROVE  /\ PutAside(n, c)' => InSafetyCopy(n, c)'
                          /\ site'[n] = c => Safe(n, c)'
                          /\ \A s \in Requests : had'[s][n] = c => Safe(n, c)'
        BY DEF SavedFirst, Origin
      <3>1. c # NoFile /\ site \in Contents /\ had \in [Requests -> Contents]
        BY RestoreAssumption DEF StageInv, RestoreTypeOK
      <3>2. PutAside(n, c)' => InSafetyCopy(n, c)'
        BY <2>2 DEF SavedFirst, PutAside, InSafetyCopy
      <3>3. site'[n] = c => Safe(n, c)'
        BY <2>2 DEF Safe, Untouched
      <3>4. ASSUME NEW s \in Requests, had'[s][n] = c PROVE Safe(n, c)'
        <4>1. n # m /\ had[s][n] = c
          BY <2>1, <3>1, <3>4 DEF Contents
        <4>2. Safe(n, c)
          BY <4>1 DEF SavedFirst
        <4>3. site'[n] = site[n]
          BY <2>1, <3>1, <4>1 DEF Contents
        <4> QED
          BY <2>2, <4>2, <4>3 DEF Safe, Untouched, InSafetyCopy
      <3> QED
        BY <3>2, <3>3, <3>4
    <2> QED
      BY <1>1, <2>3, <2>4
  <1>4. CASE Restart
    <2>1. /\ UNCHANGED <<site, safety, stage, had>>
          /\ \A r \in Requests : proc'[r].pc = "idle"
      BY <1>4 DEF Restart, Running, Idle
    <2>2. CopyInv' /\ FreshInv'
      BY <2>1 DEF CopyInv, FreshInv
    <2>3. SavedFirst'
      BY <2>1 DEF SavedFirst, Origin, Safe, PutAside, InSafetyCopy, Untouched
    <2> QED
      BY <1>1, <2>2, <2>3
  <1> QED
    BY <1>2, <1>3, <1>4

\* However many restores overlap, whichever other file operations fail and whenever
\* the agent is restarted, what the folder held and no backup holds can be found,
\* under four assumptions the code does not guarantee: every entry can be read, no
\* two safety copies share a second, the site is quiet while a restore runs, and
\* the listing that decides whether a copy is made does not fail (hasContents,
\* backup/restore.go:300-303, takes a failure for an empty folder).  The run
\* restore_undo shows what happens without the third.
THEOREM OriginalsAreRecoverable ==
  ASSUME Unreadable = {}, ~SameSecond, ~WriteAnyTime, "look" \notin Faulty
  PROVE  Spec => []OriginalsRecoverable
  <1>1. Init => RecoverInv
    <2> SUFFICES ASSUME Init PROVE RecoverInv
      OBVIOUS
    <2>1. StageInv
      <3>1. RestoreTypeOK
        BY EmptyIsAFolder, IdleIsAProcess, RestoreAssumption DEF Init, RestoreTypeOK, Time
      <3> QED
        BY <3>1 DEF Init, Idle, StageInv, StageIsPrivate, HasStage, Swapping, Asked
    <2>2. /\ \A r \in Requests : proc[r].pc = "idle" /\ had[r] = Empty
          /\ \A t \in Time : stage[t] = NoStage
      BY DEF Init, Idle
    <2>3. CopyInv /\ FreshInv
      BY <2>2 DEF CopyInv, FreshInv
    <2>4. SavedFirst
      BY <2>2, RestoreAssumption DEF SavedFirst, Origin, Safe, PutAside, Untouched, Empty
    <2> QED
      BY <2>1, <2>3, <2>4 DEF RecoverInv
  <1>2. RecoverInv /\ [Next]_vars => RecoverInv'
    <2> SUFFICES ASSUME RecoverInv, [Next]_vars PROVE RecoverInv'
      OBVIOUS
    <2>1. CASE \E r \in Requests : Ask(r) \/ Run(r)
      BY <2>1, SavingKeeps, SwappingKeeps DEF Run
    <2> QED
      BY <2>1, OutsideKeeps DEF Next
  <1> QED
    BY <1>1, <1>2, NothingLost, PTL DEF Spec

-----------------------------------------------------------------------------
(* All or nothing: a restore on its own takes one step of AtomicReplace, the *)
(* one it is answered by.                                                    *)

\* One restore at a time, a site that does not write meanwhile, no restart, and
\* no failing rename while entries are moved aside, removed or put back.
Undisturbed ==
  /\ ~Overlap /\ ~WriteAnyTime /\ Limit["restart"] = 0
  /\ Faulty \cap {"move", "clear", "return"} = {}

\* One request runs, and what it was asked is a backup.
Serial ==
  /\ \A r, s \in Requests : Running(r) /\ Running(s) => r = s
  /\ \A r \in Requests : IF Running(r) THEN proc[r].archive \in Archives /\ proc[r].result = "none"
                                       ELSE proc[r].archive = NoArchive

Aside(r) == stage[proc[r].at].aside
New(r) == stage[proc[r].at].fresh

\* All of what the folder held is put aside.
AllAside(r) == Aside(r) = proc[r].old /\ proc[r].moved = Present(proc[r].old)

\* How far the swap has got, entry by entry.
Moving(r) ==
  /\ New(r) = proc[r].archive
  /\ proc[r].todo = Present(proc[r].old) \ proc[r].moved
  /\ proc[r].moved \subseteq Present(proc[r].old)
  /\ \A n \in Name : IF n \in proc[r].moved
                     THEN site[n] = NoFile /\ Aside(r)[n] = proc[r].old[n]
                     ELSE site[n] = proc[r].old[n] /\ Aside(r)[n] = NoFile
Placing(r) ==
  /\ AllAside(r)
  /\ \A n \in Name : IF n \in proc[r].todo
                     THEN site[n] = NoFile /\ New(r)[n] = proc[r].archive[n]
                     ELSE site[n] = proc[r].archive[n]
Returning(r) ==
  \A n \in Name : IF n \in proc[r].todo
                  THEN site[n] = NoFile /\ Aside(r)[n] = proc[r].old[n]
                  ELSE site[n] = proc[r].old[n]

InPlace(r) ==
  /\ proc[r].pc \in {"check", "save", "stage", "unpack", "aside", "list"} => proc[r].moved = {}
  /\ proc[r].pc \in {"unpack", "aside", "list"} => Aside(r) = Empty
  /\ proc[r].pc \in {"aside", "list"} => New(r) = proc[r].archive
  /\ proc[r].pc = "move" => Moving(r)
  /\ proc[r].pc = "place" => Placing(r)
  /\ proc[r].pc = "undo" => AllAside(r)
  /\ proc[r].pc = "clear" => AllAside(r) /\ Present(site) \subseteq proc[r].todo
  /\ proc[r].pc = "return" => Returning(r)

AtomicInv == StageInv /\ Serial /\ \A r \in Requests : InPlace(r)

\* What the folder counts as while r runs, and what a step of r may be: work,
\* or an answer with the folder as it was, or as the backup has it.
Held(r) == IF Swapping(r) THEN proc[r].old ELSE site
GoesOn(r) ==
  /\ Running(r)' /\ Held(r)' = Held(r)
  /\ proc'[r].archive = proc[r].archive /\ proc'[r].result = proc[r].result
Fails(r) == proc'[r] = [Idle EXCEPT !.result = "failed"] /\ site' = Held(r)
Succeeds(r) == proc'[r] = [Idle EXCEPT !.result = "ok"] /\ site' = proc[r].archive
OneStep(r) == InPlace(r)' /\ (GoesOn(r) \/ Fails(r) \/ Succeeds(r))

LEMMA RunFacts ==
  ASSUME StageInv, NEW r \in Requests, Run(r)
  PROVE  /\ Running(r) /\ proc[r] \in Process /\ proc \in [Requests -> Process]
         /\ site \in Contents /\ proc[r].at \in Time /\ proc[r].archive \in Contents
         /\ proc[r].old \in Contents /\ stage \in [Time -> Stage \cup {NoStage}]
         /\ HasStage(r) => stage[proc[r].at] \in Stage
  <1>1. Running(r)
    BY DEF Run, Save, Check, SaveEntry, SaveDone, SaveFails, Prepare, MakeStage, Unpack, MakeAside,
       Swap, ListOld, MoveAside, ListFresh, Place, Finish, PutBack, Undo, ClearEntry, ClearDone,
       Return, ReturnDone, Running
  <1>2. proc[r].archive \in Archives
    BY <1>1 DEF StageInv, Asked, Running
  <1> QED
    BY <1>1, <1>2, RestoreAssumption DEF StageInv, RestoreTypeOK, StageIsPrivate, Process

\* An answer that nothing was changed, when nothing was.
LEMMA FailedStep ==
  ASSUME RestoreTypeOK, NEW r \in Requests, Reply(r, "failed"), UNCHANGED site, site = Held(r)
  PROVE  OneStep(r)
  <1>1. proc'[r] = [Idle EXCEPT !.result = "failed"]
    BY DEF RestoreTypeOK, Reply, Step
  <1>2. proc'[r].pc = "idle"
    BY <1>1 DEF Idle
  <1> QED
    BY <1>1, <1>2 DEF OneStep, InPlace, Fails

LEMMA SavingSteps ==
  ASSUME AtomicInv, NEW r \in Requests, Save(r)
  PROVE  OneStep(r)
  <1> DEFINE q == proc[r]
  <1>1. RestoreTypeOK /\ Running(r) /\ q \in Process /\ proc \in [Requests -> Process]
    BY RunFacts DEF AtomicInv, StageInv, Run
  <1>2. q.pc \in {"check", "save"} /\ q.moved = {} /\ site' = site
    BY <1>1 DEF Save, Check, SaveEntry, SaveDone, SaveFails, AtomicInv, InPlace
  <1>3. ~Swapping(r)
    BY <1>2 DEF Swapping
  <1>4. CASE Reply(r, "failed")
    BY <1>1, <1>2, <1>3, <1>4, FailedStep DEF Held
  <1>5. CASE ~Reply(r, "failed")
    <2>1. /\ proc'[r].pc \in {"save", "stage"} /\ proc'[r].moved = {}
          /\ proc'[r].archive = q.archive /\ proc'[r].result = q.result
      <3>1. CASE Check(r)
        <4>1. \/ proc'[r] = [q EXCEPT !.pc = "stage"]
              \/ proc'[r] = [q EXCEPT !.pc = "save", !.saved = now, !.todo = Present(site)]
          BY <1>1, <1>5, <3>1 DEF Check, Step
        <4> QED
          BY <1>1, <1>2, <4>1 DEF Process
      <3>2. CASE SaveEntry(r)
        <4>1. PICK n \in q.todo :
                proc'[r] = [q EXCEPT !.todo = @ \ {n},
                                     !.copy[n] = IF n \in Unreadable THEN @ ELSE site[n]]
          BY <1>1, <3>2 DEF SaveEntry, Step
        <4>2. q.pc = "save"
          BY <3>2 DEF SaveEntry
        <4> QED
          BY <1>1, <1>2, <4>1, <4>2 DEF Process
      <3>3. CASE SaveDone(r)
        BY <1>1, <1>2, <3>3 DEF SaveDone, Step, Process
      <3> QED
        BY <1>5, <3>1, <3>2, <3>3 DEF Save, SaveFails
    <2> QED
      BY <1>2, <1>3, <2>1 DEF OneStep, InPlace, GoesOn, Held, Running, Swapping
  <1> QED
    BY <1>4, <1>5

LEMMA PreparingSteps ==
  ASSUME AtomicInv, NEW r \in Requests, Prepare(r)
  PROVE  OneStep(r)
  <1> DEFINE q == proc[r]
  <1>1. /\ RestoreTypeOK /\ Running(r) /\ q \in Process /\ proc \in [Requests -> Process]
        /\ now \in Time /\ q.at \in Time
        /\ stage \in [Time -> Stage \cup {NoStage}]
        /\ HasStage(r) => stage[q.at] \in Stage
    BY RunFacts DEF AtomicInv, StageInv, Run, RestoreTypeOK
  <1>2. q.pc \in {"stage", "unpack", "aside"} /\ q.moved = {} /\ site' = site /\ InPlace(r)
    BY <1>1 DEF Prepare, MakeStage, Unpack, MakeAside, AtomicInv, InPlace
  <1>3. ~Swapping(r)
    BY <1>2 DEF Swapping
  <1>4. CASE Reply(r, "failed")
    BY <1>1, <1>2, <1>3, <1>4, FailedStep DEF Held
  <1>5. CASE ~Reply(r, "failed")
    <2>1. /\ proc'[r].pc \in {"unpack", "aside", "list"} /\ proc'[r].moved = {}
          /\ proc'[r].archive = q.archive /\ proc'[r].result = q.result
          /\ Aside(r)' = Empty
          /\ proc'[r].pc \in {"aside", "list"} => New(r)' = q.archive
      <3>1. CASE MakeStage(r)
        <4>1. /\ proc'[r] = [q EXCEPT !.pc = "unpack", !.at = now]
              /\ stage' = [stage EXCEPT ![now] = [fresh |-> Empty, aside |-> Empty]]
          BY <1>1, <1>5, <3>1 DEF MakeStage, Step
        <4>2. proc'[r].at = now /\ proc'[r].pc = "unpack"
          BY <1>1, <4>1 DEF Process
        <4>3. stage'[now].aside = Empty
          BY <1>1, <4>1
        <4> QED
          BY <1>1, <1>2, <4>1, <4>2, <4>3 DEF Aside, Process
      <3>2. CASE Unpack(r)
        <4>1. /\ proc'[r] = [q EXCEPT !.pc = "aside"]
              /\ stage' = [stage EXCEPT ![q.at].fresh = q.archive]
          BY <1>1, <1>5, <3>2 DEF Unpack, Step
        <4>2. proc'[r].at = q.at
          BY <1>1, <4>1 DEF Process
        <4>3. HasStage(r) /\ q.pc = "unpack"
          BY <3>2 DEF Unpack, HasStage
        <4>4. stage'[q.at].aside = stage[q.at].aside /\ stage'[q.at].fresh = q.archive
          BY <1>1, <4>1, <4>3 DEF Stage
        <4>5. stage[q.at].aside = Empty
          BY <1>2, <4>3 DEF InPlace, Aside
        <4> QED
          BY <1>1, <1>2, <4>1, <4>2, <4>4, <4>5 DEF Aside, New, Process
      <3>3. CASE MakeAside(r)
        <4>1. proc'[r] = [q EXCEPT !.pc = "list"] /\ stage' = stage
          BY <1>1, <1>5, <3>3 DEF MakeAside, Step
        <4>2. proc'[r].at = q.at
          BY <1>1, <4>1 DEF Process
        <4>3. q.pc = "aside"
          BY <3>3 DEF MakeAside
        <4>4. Aside(r)' = Empty /\ New(r)' = q.archive
          BY <1>2, <4>1, <4>2, <4>3 DEF InPlace, Aside, New
        <4> QED
          BY <1>1, <1>2, <4>1, <4>4 DEF Process
      <3> QED
        BY <3>1, <3>2, <3>3 DEF Prepare
    <2> QED
      BY <1>2, <1>3, <2>1 DEF OneStep, InPlace, GoesOn, Held, Running, Swapping
  <1> QED
    BY <1>4, <1>5

LEMMA ForgivingRenames ==
  ASSUME Undisturbed
  PROVE  ~Breaks("move") /\ ~Breaks("clear") /\ ~Breaks("return")
  BY DEF Undisturbed, Breaks

LEMMA ListOldStep ==
  ASSUME AtomicInv, NEW r \in Requests, ListOld(r)
  PROVE  OneStep(r)
  <1> DEFINE q == proc[r]
  <1>1. /\ RestoreTypeOK /\ Running(r) /\ q \in Process /\ proc \in [Requests -> Process]
        /\ site \in Contents /\ q.pc = "list" /\ site' = site /\ InPlace(r)
    BY RunFacts DEF AtomicInv, StageInv, Run, Swap, ListOld
  <1>2. ~Swapping(r) /\ Held(r) = site
    BY <1>1 DEF Swapping, Held
  <1>3. CASE Reply(r, "failed")
    BY <1>1, <1>2, <1>3, FailedStep
  <1>4. CASE ~Reply(r, "failed")
    <2>1. /\ proc'[r] = [q EXCEPT !.pc = "move", !.todo = Present(site), !.old = site]
          /\ stage' = stage
      BY <1>1, <1>4 DEF ListOld, Step
    <2>2. /\ proc'[r].pc = "move" /\ proc'[r].todo = Present(site) /\ proc'[r].old = site
          /\ proc'[r].moved = {} /\ proc'[r].at = q.at /\ proc'[r].archive = q.archive
          /\ proc'[r].result = q.result
      BY <1>1, <2>1 DEF Process, InPlace
    <2>3. Aside(r)' = Empty /\ New(r)' = q.archive
      BY <1>1, <2>1, <2>2 DEF InPlace, Aside, New
    <2>4. Moving(r)'
      BY <1>1, <2>2, <2>3 DEF Moving, Present, Empty
    <2> QED
      BY <1>2, <2>2, <2>4 DEF OneStep, InPlace, GoesOn, Held, Running, Swapping
  <1> QED
    BY <1>3, <1>4

LEMMA MoveAsideStep ==
  ASSUME AtomicInv, Undisturbed, NEW r \in Requests, MoveAside(r)
  PROVE  OneStep(r)
  <1> DEFINE q == proc[r]
             t == q.at
  <1>1. /\ q \in Process /\ proc \in [Requests -> Process] /\ site \in Contents /\ t \in Time
        /\ q.pc = "move" /\ Moving(r) /\ HasStage(r) /\ stage[t] \in Stage
        /\ stage \in [Time -> Stage \cup {NoStage}]
    BY RunFacts DEF AtomicInv, Run, Swap, MoveAside, InPlace, HasStage, Swapping
  <1>2. PICK n \in q.todo :
          \/ /\ stage' = [stage EXCEPT ![t].aside[n] = site[n]]
             /\ site' = [site EXCEPT ![n] = NoFile]
             /\ proc'[r] = [q EXCEPT !.todo = @ \ {n}, !.moved = @ \cup {n}]
          \/ site[n] = NoFile \/ Breaks("move")
    BY <1>1 DEF MoveAside, Step
  <1>3. n \in Name /\ n \notin q.moved /\ site[n] = q.old[n] /\ site[n] # NoFile
    BY <1>1 DEF Moving, Present
  <1>4. /\ stage' = [stage EXCEPT ![t].aside[n] = site[n]]
        /\ site' = [site EXCEPT ![n] = NoFile]
        /\ proc'[r] = [q EXCEPT !.todo = @ \ {n}, !.moved = @ \cup {n}]
    BY <1>2, <1>3, ForgivingRenames
  <1>5. /\ proc'[r].pc = "move" /\ proc'[r].todo = q.todo \ {n} /\ proc'[r].old = q.old
        /\ proc'[r].moved = q.moved \cup {n} /\ proc'[r].at = t /\ proc'[r].archive = q.archive
        /\ proc'[r].result = q.result
    BY <1>1, <1>4 DEF Process
  <1>6. /\ stage'[t].fresh = stage[t].fresh
        /\ \A m \in Name : stage'[t].aside[m] = IF m = n THEN site[n] ELSE stage[t].aside[m]
    BY <1>1, <1>3, <1>4 DEF Stage, Contents
  <1>7. \A m \in Name : site'[m] = IF m = n THEN NoFile ELSE site[m]
    BY <1>1, <1>3, <1>4 DEF Contents
  <1>8. Moving(r)'
    <2>1. New(r)' = q.archive
      BY <1>1, <1>5, <1>6 DEF Moving, New
    <2>2. /\ q.todo \ {n} = Present(q.old) \ (q.moved \cup {n})
          /\ q.moved \cup {n} \subseteq Present(q.old)
      BY <1>1, <1>3 DEF Moving, Present
    <2>3. \A m \in Name : IF m \in q.moved \cup {n}
                          THEN site'[m] = NoFile /\ stage'[t].aside[m] = q.old[m]
                          ELSE site'[m] = q.old[m] /\ stage'[t].aside[m] = NoFile
      BY <1>1, <1>3, <1>6, <1>7 DEF Moving, Aside
    <2> QED
      BY <1>5, <2>1, <2>2, <2>3 DEF Moving, Aside, New, Present
  <1> QED
    BY <1>1, <1>5, <1>8 DEF OneStep, InPlace, GoesOn, Held, Running, Swapping

LEMMA ListFreshStep ==
  ASSUME AtomicInv, NEW r \in Requests, ListFresh(r)
  PROVE  OneStep(r)
  <1> DEFINE q == proc[r]
  <1>1. /\ q \in Process /\ proc \in [Requests -> Process] /\ site \in Contents
        /\ q.old \in Contents /\ q.archive \in Contents /\ q.todo = {}
        /\ q.pc = "move" /\ Moving(r) /\ HasStage(r) /\ stage[q.at] \in Stage
        /\ UNCHANGED <<site, stage>>
    BY RunFacts DEF AtomicInv, Run, Swap, ListFresh, InPlace, HasStage, Swapping
  <1>2. q.moved = Present(q.old) /\ New(r) = q.archive
    BY <1>1 DEF Moving
  <1>3. \A n \in Name : site[n] = NoFile /\ Aside(r)[n] = q.old[n]
    BY <1>1, <1>2 DEF Moving, Present
  <1>4. Aside(r) = q.old
    BY <1>1, <1>3 DEF Aside, Stage, Contents
  <1>5. \/ proc'[r] = [q EXCEPT !.pc = "place", !.todo = Present(New(r))]
        \/ proc'[r] = [q EXCEPT !.pc = "undo"]
    BY <1>1 DEF ListFresh, Step, New
  <1>6. /\ proc'[r].old = q.old /\ proc'[r].moved = q.moved /\ proc'[r].at = q.at
        /\ proc'[r].archive = q.archive /\ proc'[r].result = q.result
        /\ \/ proc'[r].pc = "undo"
           \/ proc'[r].pc = "place" /\ proc'[r].todo = Present(q.archive)
    <2> DEFINE todo == Present(New(r))
    <2>1. todo = Present(q.archive)
      BY <1>2
    <2>2. \/ proc'[r] = [q EXCEPT !.pc = "place", !.todo = todo]
          \/ proc'[r] = [q EXCEPT !.pc = "undo"]
      BY <1>5
    <2> HIDE DEF todo
    <2> QED
      BY <1>1, <2>1, <2>2 DEF Process
  <1>7. AllAside(r)'
    BY <1>1, <1>2, <1>4, <1>6 DEF AllAside, Aside, Present
  <1>8. proc'[r].pc = "place" => Placing(r)'
    <2>1. \A n \in Name : n \notin Present(q.archive) => q.archive[n] = NoFile
      BY DEF Present
    <2>2. New(r)' = q.archive
      BY <1>1, <1>2, <1>6 DEF New
    <2>3. \A n \in Name : site'[n] = NoFile
      BY <1>1, <1>3
    <2> QED
      BY <1>6, <1>7, <2>1, <2>2, <2>3 DEF Placing
  <1> QED
    BY <1>1, <1>6, <1>7, <1>8 DEF OneStep, InPlace, GoesOn, Held, Running, Swapping

LEMMA PlaceStep ==
  ASSUME AtomicInv, NEW r \in Requests, Place(r)
  PROVE  OneStep(r)
  <1> DEFINE q == proc[r]
             t == q.at
  <1>1. /\ q \in Process /\ proc \in [Requests -> Process] /\ site \in Contents /\ t \in Time
        /\ q.pc = "place" /\ Placing(r) /\ HasStage(r) /\ stage[t] \in Stage
        /\ stage \in [Time -> Stage \cup {NoStage}]
    BY RunFacts DEF AtomicInv, Run, Swap, Place, InPlace, HasStage, Swapping
  <1>2. PICK n \in q.todo :
          \/ /\ site' = [site EXCEPT ![n] = stage[t].fresh[n]]
             /\ stage' = [stage EXCEPT ![t].fresh[n] = NoFile]
             /\ proc'[r] = [q EXCEPT !.todo = @ \ {n}]
          \/ proc'[r] = [q EXCEPT !.pc = "undo"] /\ UNCHANGED <<site, stage>>
    BY <1>1 DEF Place, Step
  <1>3. CASE proc'[r] = [q EXCEPT !.pc = "undo"] /\ UNCHANGED <<site, stage>>
    <2>1. /\ proc'[r].pc = "undo" /\ proc'[r].old = q.old /\ proc'[r].moved = q.moved
          /\ proc'[r].at = t /\ proc'[r].archive = q.archive /\ proc'[r].result = q.result
      BY <1>1, <1>3 DEF Process
    <2>2. AllAside(r)'
      BY <1>1, <1>3, <2>1 DEF Placing, AllAside, Aside, Present
    <2> QED
      BY <1>1, <2>1, <2>2 DEF OneStep, InPlace, GoesOn, Held, Running, Swapping
  <1>4. CASE /\ site' = [site EXCEPT ![n] = stage[t].fresh[n]]
             /\ stage' = [stage EXCEPT ![t].fresh[n] = NoFile]
             /\ proc'[r] = [q EXCEPT !.todo = @ \ {n}]
    <2>1. n \in Name /\ New(r)[n] = q.archive[n]
      BY <1>1 DEF Placing, Process
    <2>2. /\ proc'[r].pc = "place" /\ proc'[r].todo = q.todo \ {n} /\ proc'[r].old = q.old
          /\ proc'[r].moved = q.moved /\ proc'[r].at = t /\ proc'[r].archive = q.archive
          /\ proc'[r].result = q.result
      BY <1>1, <1>4 DEF Process
    <2>3. /\ stage'[t].aside = stage[t].aside
          /\ \A m \in Name : stage'[t].fresh[m] = IF m = n THEN NoFile ELSE stage[t].fresh[m]
      BY <1>1, <1>4, <2>1 DEF Stage, Contents
    <2>4. \A m \in Name : site'[m] = IF m = n THEN q.archive[n] ELSE site[m]
      BY <1>1, <1>4, <2>1 DEF Contents, New
    <2>5. AllAside(r)'
      BY <1>1, <2>2, <2>3 DEF Placing, AllAside, Aside, Present
    <2>6. \A m \in Name : IF m \in q.todo \ {n}
                          THEN site'[m] = NoFile /\ stage'[t].fresh[m] = q.archive[m]
                          ELSE site'[m] = q.archive[m]
      BY <1>1, <2>3, <2>4 DEF Placing, New
    <2>7. Placing(r)'
      BY <2>2, <2>5, <2>6 DEF Placing, New
    <2> QED
      BY <1>1, <2>2, <2>7 DEF OneStep, InPlace, GoesOn, Held, Running, Swapping
  <1> QED
    BY <1>2, <1>3, <1>4

LEMMA FinishStep ==
  ASSUME AtomicInv, NEW r \in Requests, Finish(r)
  PROVE  OneStep(r)
  <1>1. /\ proc \in [Requests -> Process] /\ site \in Contents /\ proc[r].archive \in Contents
        /\ Placing(r) /\ proc[r].todo = {} /\ site' = site
    BY RunFacts DEF AtomicInv, Run, Swap, Finish, InPlace
  <1>2. site = proc[r].archive
    BY <1>1 DEF Placing, Contents
  <1>3. proc'[r] = [Idle EXCEPT !.result = "ok"]
    BY <1>1 DEF Finish, Reply, Step
  <1>4. proc'[r].pc = "idle"
    BY <1>3 DEF Idle
  <1> QED
    BY <1>1, <1>2, <1>3, <1>4 DEF OneStep, InPlace, Succeeds

LEMMA UndoingSteps ==
  ASSUME AtomicInv, Undisturbed, NEW r \in Requests, Undo(r) \/ ClearEntry(r) \/ ClearDone(r)
  PROVE  OneStep(r)
  <1> DEFINE q == proc[r]
  <1>1. /\ q \in Process /\ proc \in [Requests -> Process] /\ site \in Contents
        /\ q.old \in Contents
        /\ q.pc \in {"undo", "clear"} /\ AllAside(r) /\ stage' = stage
        /\ q.pc = "clear" => Present(site) \subseteq q.todo
    BY RunFacts DEF AtomicInv, Run, PutBack, Undo, ClearEntry, ClearDone, InPlace
  <1>2. ASSUME proc'[r].old = q.old, proc'[r].moved = q.moved, proc'[r].at = q.at,
               proc'[r].archive = q.archive, proc'[r].result = q.result,
               \/ proc'[r].pc = "clear" /\ Present(site') \subseteq proc'[r].todo
               \/ /\ proc'[r].pc = "return" /\ Present(site') = {} /\ proc'[r].todo = q.moved
        PROVE  OneStep(r)
    <2>1. AllAside(r)' /\ \A n \in Name : Aside(r)'[n] = q.old[n]
      BY <1>1, <1>2 DEF AllAside, Aside, Present
    <2>2. CASE proc'[r].pc = "clear"
      BY <1>1, <1>2, <2>1, <2>2 DEF OneStep, InPlace, GoesOn, Held, Running, Swapping, Present
    <2>3. CASE proc'[r].pc = "return"
      <3>1. Returning(r)'
        BY <1>1, <1>2, <2>1, <2>3 DEF Returning, Present, AllAside
      <3> QED
        BY <1>1, <1>2, <2>3, <3>1 DEF OneStep, InPlace, GoesOn, Held, Running, Swapping
    <2> QED
      BY <1>2, <2>2, <2>3
  <1>3. CASE Undo(r)
    <2>1. proc'[r] = [q EXCEPT !.pc = "clear", !.todo = Present(site)] /\ site' = site
      BY <1>1, <1>3, ForgivingRenames DEF Undo, Step
    <2> QED
      BY <1>1, <1>2, <2>1 DEF Process
  <1>4. CASE ClearEntry(r)
    <2>1. PICK n \in q.todo : /\ site' = [site EXCEPT ![n] = NoFile]
                              /\ proc'[r] = [q EXCEPT !.todo = @ \ {n}]
      BY <1>1, <1>4, ForgivingRenames DEF ClearEntry, Step
    <2>2. q.pc = "clear" /\ n \in Name
      BY <1>1, <1>4 DEF ClearEntry, Process
    <2>3. Present(site') \subseteq q.todo \ {n}
      BY <1>1, <2>1, <2>2 DEF Present, Contents
    <2> QED
      BY <1>1, <1>2, <2>1, <2>2, <2>3 DEF Process
  <1>5. CASE ClearDone(r)
    <2>1. /\ proc'[r] = [q EXCEPT !.pc = "return", !.todo = q.moved] /\ site' = site
          /\ q.pc = "clear" /\ q.todo = {}
      BY <1>1, <1>5 DEF ClearDone, Step
    <2>2. Present(site') = {}
      BY <1>1, <2>1
    <2> QED
      BY <1>1, <1>2, <2>1, <2>2 DEF Process
  <1> QED
    BY <1>3, <1>4, <1>5

LEMMA ReturningSteps ==
  ASSUME AtomicInv, Undisturbed, NEW r \in Requests, Return(r) \/ ReturnDone(r)
  PROVE  OneStep(r)
  <1> DEFINE q == proc[r]
             t == q.at
  <1>1. /\ q \in Process /\ proc \in [Requests -> Process] /\ site \in Contents /\ t \in Time
        /\ q.old \in Contents /\ q.pc = "return" /\ Returning(r)
        /\ HasStage(r) /\ stage[t] \in Stage /\ stage \in [Time -> Stage \cup {NoStage}]
    BY RunFacts DEF AtomicInv, Run, PutBack, Return, ReturnDone, InPlace, HasStage, Swapping
  <1>2. CASE Return(r)
    <2>1. PICK n \in q.todo :
            /\ \/ /\ site' = [site EXCEPT ![n] = stage[t].aside[n]]
                  /\ stage' = [stage EXCEPT ![t].aside[n] = NoFile]
               \/ IF site[n] = NoFile THEN Breaks("return") ELSE TRUE
            /\ proc'[r] = [q EXCEPT !.todo = @ \ {n}]
      BY <1>1, <1>2 DEF Return, Step
    <2>2. n \in Name /\ site[n] = NoFile /\ stage[t].aside[n] = q.old[n]
      BY <1>1 DEF Returning, Aside, Process
    <2>3. /\ site' = [site EXCEPT ![n] = stage[t].aside[n]]
          /\ stage' = [stage EXCEPT ![t].aside[n] = NoFile]
      BY <2>1, <2>2, ForgivingRenames
    <2>4. /\ proc'[r].pc = "return" /\ proc'[r].todo = q.todo \ {n} /\ proc'[r].old = q.old
          /\ proc'[r].at = t /\ proc'[r].archive = q.archive /\ proc'[r].result = q.result
      BY <1>1, <2>1 DEF Process
    <2>5. \A m \in Name : stage'[t].aside[m] = IF m = n THEN NoFile ELSE stage[t].aside[m]
      BY <1>1, <2>2, <2>3 DEF Stage, Contents
    <2>6. \A m \in Name : site'[m] = IF m = n THEN q.old[n] ELSE site[m]
      BY <1>1, <2>2, <2>3 DEF Contents
    <2>7. \A m \in Name : IF m \in q.todo \ {n}
                          THEN site'[m] = NoFile /\ stage'[t].aside[m] = q.old[m]
                          ELSE site'[m] = q.old[m]
      BY <1>1, <2>5, <2>6 DEF Returning, Aside
    <2>8. Returning(r)'
      BY <2>4, <2>7 DEF Returning, Aside
    <2> QED
      BY <1>1, <2>4, <2>8 DEF OneStep, InPlace, GoesOn, Held, Running, Swapping
  <1>3. CASE ReturnDone(r)
    <2>1. q.todo = {} /\ site' = site /\ Reply(r, "failed")
      BY <1>3 DEF ReturnDone
    <2>2. site = q.old
      BY <1>1, <2>1 DEF Returning, Contents
    <2> QED
      BY <1>1, <2>1, <2>2, FailedStep DEF AtomicInv, StageInv, Held
  <1> QED
    BY <1>2, <1>3

\* Every step of a running request is work or its answer.
LEMMA RunIsOneStep ==
  ASSUME AtomicInv, Undisturbed, NEW r \in Requests, Run(r)
  PROVE  OneStep(r) /\ \A s \in Requests \ {r} : proc'[s] = proc[s]
  <1>1. OneStep(r)
    BY SavingSteps, PreparingSteps, ListOldStep, MoveAsideStep, ListFreshStep, PlaceStep,
       FinishStep, UndoingSteps, ReturningSteps DEF Run, Swap, PutBack
  <1>2. proc \in [Requests -> Process]
    BY RunFacts DEF AtomicInv
  <1> QED
    BY <1>1, <1>2 DEF Run, Save, Check, SaveEntry, SaveDone, SaveFails, Prepare, MakeStage, Unpack,
       MakeAside, Swap, ListOld, MoveAside, ListFresh, Place, Finish, PutBack, Undo, ClearEntry,
       ClearDone, Return, ReturnDone, Step, Reply

AskedBy == [r \in Requests |-> proc[r].archive]
Answers == [r \in Requests |-> proc[r].result]

LEMMA RunRefines ==
  ASSUME AtomicInv, Undisturbed, NEW r \in Requests, Run(r)
  PROVE  /\ Serial' /\ \A s \in Requests : InPlace(s)'
         /\ Promise!Replace(r) \/ Promise!Refuse(r) \/ UNCHANGED Promise!vars
  <1>1. /\ Running(r) /\ proc[r].archive \in Archives /\ proc[r].result = "none"
        /\ \A s \in Requests \ {r} : ~Running(s)
        /\ proc[r].archive # NoArchive
    BY RunFacts, RestoreAssumption DEF AtomicInv, Serial
  <1>2. OneStep(r) /\ \A s \in Requests \ {r} : proc'[s] = proc[s]
    BY RunIsOneStep
  <1>3. \A s \in Requests \ {r} : ~Running(s)' /\ ~Swapping(s) /\ ~Swapping(s)' /\ InPlace(s)'
    BY <1>1, <1>2 DEF Running, Swapping, InPlace
  <1>4. Promised = Held(r)
    <2>1. CASE Swapping(r)
      <3>1. r = CHOOSE s \in Requests : Swapping(s)
        BY <1>3, <2>1
      <3> QED
        BY <2>1, <3>1 DEF Promised, Held
    <2>2. CASE ~Swapping(r)
      BY <1>3, <2>2 DEF Promised, Held
    <2> QED
      BY <2>1, <2>2
  <1>5. Promised' = Held(r)'
    <2>1. CASE Swapping(r)'
      <3>1. r = CHOOSE s \in Requests : Swapping(s)'
        BY <1>3, <2>1
      <3> QED
        BY <2>1, <3>1 DEF Promised, Held
    <2>2. CASE ~Swapping(r)'
      BY <1>3, <2>2 DEF Promised, Held
    <2> QED
      BY <2>1, <2>2
  <1>6. CASE GoesOn(r)
    <2>1. Serial'
      BY <1>1, <1>2, <1>3, <1>6 DEF AtomicInv, Serial, GoesOn, Running
    <2>2. UNCHANGED <<Promised, AskedBy, Answers>>
      BY <1>2, <1>4, <1>5, <1>6 DEF GoesOn, AskedBy, Answers
    <2> QED
      BY <1>2, <1>3, <2>1, <2>2 DEF OneStep, Promise!vars, AskedBy, Answers
  <1>7. CASE Fails(r) \/ Succeeds(r)
    <2>1. /\ proc'[r].pc = "idle" /\ proc'[r].archive = NoArchive
          /\ Fails(r) => proc'[r].result = "failed"
          /\ Succeeds(r) => proc'[r].result = "ok"
      BY <1>7 DEF Fails, Succeeds, Idle
    <2>2. Serial'
      BY <1>1, <1>2, <1>3, <2>1 DEF AtomicInv, Serial, Running
    <2>3. Promised' = site'
      BY <1>5, <2>1 DEF Held, Swapping
    <2>4. AskedBy' = [AskedBy EXCEPT ![r] = NoArchive]
      BY <1>2, <2>1 DEF AskedBy
    <2>5. CASE Fails(r)
      <3>1. Answers' = [Answers EXCEPT ![r] = "failed"]
        BY <1>2, <2>1, <2>5 DEF Answers
      <3>2. Promise!Refuse(r)
        BY <1>1, <1>4, <2>3, <2>4, <2>5, <3>1 DEF Promise!Refuse, AskedBy, Answers, Fails
      <3> QED
        BY <1>2, <1>3, <2>2, <3>2 DEF OneStep
    <2>6. CASE Succeeds(r)
      <3>1. Answers' = [Answers EXCEPT ![r] = "ok"]
        BY <1>2, <2>1, <2>6 DEF Answers
      <3>2. Promise!Replace(r)
        BY <1>1, <2>3, <2>4, <2>6, <3>1 DEF Promise!Replace, AskedBy, Answers, Succeeds
      <3> QED
        BY <1>2, <1>3, <2>2, <3>2 DEF OneStep
    <2> QED
      BY <1>7, <2>5, <2>6
  <1> QED
    BY <1>2, <1>6, <1>7 DEF OneStep

LEMMA AskRefines ==
  ASSUME AtomicInv, Undisturbed, NEW r \in Requests, Ask(r)
  PROVE  /\ Serial' /\ \A s \in Requests : InPlace(s)'
         /\ Promise!Ask(r)
  <1>1. proc \in [Requests -> Process] /\ \A s \in Requests : ~Running(s)
    BY DEF AtomicInv, StageInv, RestoreTypeOK, Ask, Undisturbed
  <1>2. PICK a \in Archives : proc' = [proc EXCEPT ![r] = [Idle EXCEPT !.pc = "check", !.archive = a]]
    BY DEF Ask, Step
  <1>3. /\ proc'[r].pc = "check" /\ proc'[r].archive = a /\ proc'[r].result = "none"
        /\ proc'[r].moved = {} /\ \A s \in Requests \ {r} : proc'[s] = proc[s]
        /\ site' = site
    BY <1>1, <1>2 DEF Idle, Ask
  <1>4. Serial' /\ \A s \in Requests : InPlace(s)'
    BY <1>1, <1>3 DEF AtomicInv, Serial, InPlace, Running
  <1>5. Promised = site /\ Promised' = site
    BY <1>1, <1>3 DEF Promised, Swapping, Running
  <1>6. /\ AskedBy[r] = NoArchive /\ AskedBy' = [AskedBy EXCEPT ![r] = a]
        /\ Answers' = [Answers EXCEPT ![r] = "none"]
    BY <1>1, <1>3 DEF AskedBy, Answers, AtomicInv, Serial
  <1>7. Promise!Ask(r)
    BY <1>5, <1>6 DEF Promise!Ask, AskedBy, Answers
  <1> QED
    BY <1>4, <1>7

LEMMA OutsideRefines ==
  ASSUME AtomicInv, Undisturbed, Tick \/ SiteWrites \/ Restart \/ UNCHANGED vars
  PROVE  /\ Serial' /\ \A s \in Requests : InPlace(s)'
         /\ Promise!Edit \/ UNCHANGED Promise!vars
  <1>1. /\ proc \in [Requests -> Process] /\ site \in Contents
        /\ used["restart"] \in Nat
    BY DEF AtomicInv, StageInv, RestoreTypeOK, Budget
  <1>2. CASE Tick \/ UNCHANGED vars
    <2>1. UNCHANGED <<site, stage, proc>>
      BY <1>2 DEF Tick, vars
    <2>2. Serial' /\ \A s \in Requests : InPlace(s)'
      BY <2>1 DEF AtomicInv, Serial, InPlace, Running, Moving, Placing, Returning, AllAside, Aside,
         New, Present
    <2>3. UNCHANGED <<Promised, AskedBy, Answers>>
      BY <2>1 DEF Promised, AskedBy, Answers, Swapping
    <2> QED
      BY <2>2, <2>3 DEF Promise!vars, AskedBy, Answers
  <1>3. CASE SiteWrites
    <2>1. \A s \in Requests : ~Running(s)
      BY <1>3 DEF SiteWrites, Undisturbed
    <2>2. PICK n \in Name, c \in Written \cup {NoFile} : site' = [site EXCEPT ![n] = c]
      BY <1>3 DEF SiteWrites
    <2>3. proc' = proc /\ c \in Content \cup {NoFile}
      BY <1>3, RestoreAssumption DEF SiteWrites
    <2>4. Serial' /\ \A s \in Requests : InPlace(s)'
      BY <2>1, <2>3 DEF AtomicInv, Serial, InPlace, Running
    <2>5. Promised = site /\ Promised' = site'
      BY <2>1, <2>3 DEF Promised, Swapping, Running
    <2>6. Promise!Edit
      BY <2>2, <2>3, <2>5 DEF Promise!Edit
    <2> QED
      BY <2>4, <2>6
  <1>4. ~Restart
    BY <1>1 DEF Restart, Spend, Undisturbed
  <1> QED
    BY <1>2, <1>3, <1>4

\* A restore is atomic: what the folder counts as changes in one step, from
\* what it held to exactly what the backup holds, when the request is told
\* "ok", and not at all when it is told "failed", however the check, the copy,
\* the unpacking or the placing of an entry fails (backup/restore.go,
\* RestoreSiteArchive and swapContents).  That it is answered at all needs
\* fairness and is left to the run.
THEOREM RestoreIsAtomic ==
  ASSUME Undisturbed
  PROVE  Spec => Promise!Init /\ [][Promise!Next]_Promise!vars
  <1> DEFINE Rest == Serial /\ \A r \in Requests : InPlace(r)
  <1>1. Init => Rest
    <2> SUFFICES ASSUME Init PROVE Rest
      OBVIOUS
    <2>1. \A r \in Requests : proc[r].pc = "idle" /\ proc[r].archive = NoArchive
      BY DEF Init, Idle
    <2> QED
      BY <2>1 DEF Serial, InPlace, Running
  <1>2. Init => Promise!Init
    <2> SUFFICES ASSUME Init PROVE Promise!Init
      OBVIOUS
    <2>1. \A r \in Requests : /\ proc[r].pc = "idle" /\ proc[r].archive = NoArchive
                              /\ proc[r].result = "none"
      BY DEF Init, Idle
    <2>2. Promised = site /\ site \in Contents
      BY <2>1, RestoreAssumption DEF Init, Promised, Swapping
    <2> QED
      BY <2>1, <2>2 DEF Promise!Init, Promise!Contents, Contents
  <1>3. StageInv /\ Rest /\ [Next]_vars => Rest' /\ [Promise!Next]_Promise!vars
    <2> SUFFICES ASSUME StageInv, Rest, [Next]_vars
                 PROVE  Rest' /\ [Promise!Next]_Promise!vars
      OBVIOUS
    <2>1. AtomicInv
      BY DEF AtomicInv
    <2>2. CASE \E r \in Requests : Run(r)
      BY <2>1, <2>2, RunRefines DEF Promise!Next, Promise!Answer
    <2>3. CASE \E r \in Requests : Ask(r)
      BY <2>1, <2>3, AskRefines DEF Promise!Next
    <2>4. CASE Tick \/ SiteWrites \/ Restart \/ UNCHANGED vars
      BY <2>1, <2>4, OutsideRefines DEF Promise!Next
    <2> QED
      BY <2>2, <2>3, <2>4 DEF Next
  <1> HIDE DEF Rest
  <1> QED
    BY <1>1, <1>2, <1>3, StageInvHolds, PTL DEF Spec
=============================================================================
