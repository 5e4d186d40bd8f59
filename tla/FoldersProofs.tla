--------------------------- MODULE FoldersProofs ---------------------------
(***************************************************************************)
(* Proofs about Folders, for any number of requests, users, folders and    *)
(* containers: types; the order of filed containers, whatever overlaps;    *)
(* and, when requests that create or move folders do not overlap and no    *)
(* user is an administrator, the shape of the folder tree.                 *)
(***************************************************************************)
EXTENDS Folders, FiniteSetTheorems, TLAPS

-----------------------------------------------------------------------------
(* Types *)

Serial == {"create", "move", "assign"}

\* What a request carries at each place of its handler.
WellFormed(q) ==
  /\ q.kind \in Serial /\ q.pc # "file" => q.owner \in Users
  /\ q.kind = "move" => q.folder \in Id /\ q.user \in Users
  /\ q.kind = "assign" => q.container \in Container
  /\ q.pc \in {"parent", "list", "read", "descend"} => q.kind = "move"
  /\ q.pc \in {"depth", "position", "write"} => q.kind \in Serial
  /\ q.pc = "default" => q.kind = "assign"
  /\ q.pc = "delete" => q.folder \in Id /\ q.kind = "delete"
  /\ q.pc \in {"file", "unlink", "reorder"} => q.folder \in Id /\ q.container \in Container
  /\ q.kind = "move" /\ q.pc \in {"depth", "position", "write", "descend"} => q.from \in Row

TypeInv == FoldersTypeOK /\ \A r \in Requests : WellFormed(proc[r])

LEMMA IdleIsAProcess == Idle \in Process /\ WellFormed(Idle)
  BY DEF Idle, Process, PC, Kind, WellFormed, Serial

LEMMA RowsAreRows ==
  ASSUME FoldersTypeOK
  PROVE  \A f \in Rows : f \in Id /\ folder[f] \in Row
  BY DEF FoldersTypeOK, Rows, Table

\* A step of one request that leaves a proper process behind.
LEMMA StepKeepsTypes ==
  ASSUME TypeInv, NEW r \in Requests, NEW q \in Process, WellFormed(q), Step(r, q)
  PROVE  proc' \in [Requests -> Process] /\ \A s \in Requests : WellFormed(proc'[s])
  BY DEF TypeInv, FoldersTypeOK, Step

LEMMA ReplyKeepsTypes ==
  ASSUME TypeInv, NEW r \in Requests, Reply(r)
  PROVE  proc' \in [Requests -> Process] /\ \A s \in Requests : WellFormed(proc'[s])
  BY IdleIsAProcess, StepKeepsTypes DEF Reply

LEMMA SpendKeepsTypes ==
  ASSUME FoldersTypeOK, NEW b \in Budget, Spend(b)
  PROVE  used' \in [Budget -> Nat]
  BY DEF FoldersTypeOK, Spend, Budget

\* A step sets one request and leaves the others.
LEMMA StepSetsOne ==
  ASSUME TypeInv, NEW r \in Requests, NEW q, Step(r, q)
  PROVE  proc'[r] = q /\ \A s \in Requests \ {r} : proc'[s] = proc[s]
  BY DEF TypeInv, FoldersTypeOK, Step

LEMMA ReplySetsOne ==
  ASSUME TypeInv, NEW r \in Requests, Reply(r)
  PROVE  /\ proc'[r] = Idle /\ proc'[r].pc = "idle"
         /\ \A s \in Requests \ {r} : proc'[s] = proc[s]
  BY DEF TypeInv, FoldersTypeOK, Step, Reply, Idle

\* A request that is well formed and in no transaction.
Outside(q) == WellFormed(q) /\ q.pc # "descend"

\* One request has taken a step outside the transaction.
StepsOutside(r) ==
  /\ TypeInv'
  /\ proc'[r].pc # "descend"
  /\ \A s \in Requests \ {r} : proc'[s] = proc[s]

LEMMA AskTypes ==
  ASSUME TypeInv, NEW r \in Requests, Ask(r)
  PROVE  StepsOutside(r)
  <1>1. ASSUME \E q \in Process : Outside(q) /\ Step(r, q),
               used' \in [Budget -> Nat], UNCHANGED <<folder, nextId, place, tx>>
        PROVE  StepsOutside(r)
    BY <1>1, StepKeepsTypes, StepSetsOne DEF TypeInv, FoldersTypeOK, Outside, StepsOutside
  <1>2. CASE AskCreate(r)
    <2>1. PICK u \in Users, p \in Rows \cup {None}, dflt \in BOOLEAN :
            Step(r, [Idle EXCEPT !.pc = "depth", !.kind = "create", !.owner = u,
                       !.parent = p, !.dflt = dflt])
      BY <1>2 DEF AskCreate
    <2>2. p \in Id \cup {None}
      BY <2>1 DEF Rows
    <2>3. [Idle EXCEPT !.pc = "depth", !.kind = "create", !.owner = u,
             !.parent = p, !.dflt = dflt] \in Process
      BY <2>2, IdleIsAProcess DEF Process, PC, Kind
    <2>4. Outside([Idle EXCEPT !.pc = "depth", !.kind = "create", !.owner = u,
                     !.parent = p, !.dflt = dflt])
      BY IdleIsAProcess DEF Process, Outside, WellFormed, Serial
    <2>9. used' \in [Budget -> Nat] /\ UNCHANGED <<folder, nextId, place, tx>>
      <3>1. "create" \in Budget /\ Spend("create")
        BY <1>2 DEF AskCreate, Budget
      <3> QED
        BY <1>2, <3>1, SpendKeepsTypes DEF AskCreate, TypeInv
    <2> QED
      BY <1>1, <2>1, <2>3, <2>4, <2>9
  <1>3. CASE AskMove(r)
    <2>1. PICK u \in Users, f \in Rows, p \in Rows \cup {None} :
            Step(r, [Idle EXCEPT !.pc = "parent", !.kind = "move", !.user = u, !.folder = f,
                       !.parent = p, !.owner = folder[f].owner])
      BY <1>3 DEF AskMove
    <2>2. f \in Id /\ p \in Id \cup {None} /\ folder[f].owner \in Users
      BY <2>1, RowsAreRows DEF Rows, TypeInv, Row
    <2>3. [Idle EXCEPT !.pc = "parent", !.kind = "move", !.user = u, !.folder = f,
             !.parent = p, !.owner = folder[f].owner] \in Process
      BY <2>2, IdleIsAProcess DEF Process, PC, Kind
    <2>4. Outside([Idle EXCEPT !.pc = "parent", !.kind = "move", !.user = u, !.folder = f,
                     !.parent = p, !.owner = folder[f].owner])
      BY <2>2, IdleIsAProcess DEF Process, Outside, WellFormed, Serial
    <2>9. used' \in [Budget -> Nat] /\ UNCHANGED <<folder, nextId, place, tx>>
      <3>1. "move" \in Budget /\ Spend("move")
        BY <1>3 DEF AskMove, Budget
      <3> QED
        BY <1>3, <3>1, SpendKeepsTypes DEF AskMove, TypeInv
    <2> QED
      BY <1>1, <2>1, <2>3, <2>4, <2>9
  <1>4. CASE AskDelete(r)
    <2>1. PICK f \in Rows :
            Step(r, [Idle EXCEPT !.pc = "delete", !.kind = "delete", !.folder = f])
      BY <1>4 DEF AskDelete
    <2>2. f \in Id
      BY <2>1 DEF Rows
    <2>3. [Idle EXCEPT !.pc = "delete", !.kind = "delete", !.folder = f] \in Process
      BY <2>2, IdleIsAProcess DEF Process, PC, Kind
    <2>4. Outside([Idle EXCEPT !.pc = "delete", !.kind = "delete", !.folder = f])
      BY <2>2, IdleIsAProcess DEF Process, Outside, WellFormed, Serial
    <2>9. used' \in [Budget -> Nat] /\ UNCHANGED <<folder, nextId, place, tx>>
      <3>1. "delete" \in Budget /\ Spend("delete")
        BY <1>4 DEF AskDelete, Budget
      <3> QED
        BY <1>4, <3>1, SpendKeepsTypes DEF AskDelete, TypeInv
    <2> QED
      BY <1>1, <2>1, <2>3, <2>4, <2>9
  <1>5. CASE AskContainer(r)
    <2>1. IsFiniteSet(Container) /\ Cardinality(Container) \in Nat
      BY FoldersAssumption, FS_CardinalityType
    <2>2. PICK pc \in {"file", "unlink", "reorder"}, f \in Rows, c \in Container :
            \E k \in IF pc = "reorder" THEN -1 .. Cardinality(Container) ELSE {0} :
              Step(r, [Idle EXCEPT !.pc = pc, !.kind = pc, !.folder = f,
                      !.container = c, !.index = k])
      BY <1>5 DEF AskContainer
    <2>3. PICK k \in IF pc = "reorder" THEN -1 .. Cardinality(Container) ELSE {0} :
            Step(r, [Idle EXCEPT !.pc = pc, !.kind = pc, !.folder = f,
                       !.container = c, !.index = k])
      BY <2>2
    <2>6. k \in Int
      BY <2>1
    <2>4. [Idle EXCEPT !.pc = pc, !.kind = pc, !.folder = f,
             !.container = c, !.index = k] \in Process
      <3>1. f \in Id /\ pc \in PC /\ pc \in Kind
        BY DEF Rows, PC, Kind
      <3> QED
        BY <2>6, <3>1, IdleIsAProcess DEF Process
    <2>5. Outside([Idle EXCEPT !.pc = pc, !.kind = pc, !.folder = f,
                     !.container = c, !.index = k])
      BY <2>2, <2>3, IdleIsAProcess DEF Rows, Process, Outside, WellFormed, Serial
    <2>9. used' \in [Budget -> Nat] /\ UNCHANGED <<folder, nextId, place, tx>>
      <3>1. "file" \in Budget /\ Spend("file")
        BY <1>5 DEF AskContainer, Budget
      <3> QED
        BY <1>5, <3>1, SpendKeepsTypes DEF AskContainer, TypeInv
    <2> QED
      BY <1>1, <2>3, <2>4, <2>5, <2>9
  <1>6. CASE AskAssign(r)
    <2>1. PICK u \in Users, c \in Container :
            Step(r, [Idle EXCEPT !.pc = "default", !.kind = "assign", !.owner = u,
                       !.container = c])
      BY <1>6 DEF AskAssign
    <2>3. [Idle EXCEPT !.pc = "default", !.kind = "assign", !.owner = u,
             !.container = c] \in Process
      BY IdleIsAProcess DEF Process, PC, Kind
    <2>4. Outside([Idle EXCEPT !.pc = "default", !.kind = "assign", !.owner = u,
                     !.container = c])
      BY IdleIsAProcess DEF Process, Outside, WellFormed, Serial
    <2>9. used' \in [Budget -> Nat] /\ UNCHANGED <<folder, nextId, place, tx>>
      <3>1. "file" \in Budget /\ Spend("file")
        BY <1>6 DEF AskAssign, Budget
      <3> QED
        BY <1>6, <3>1, SpendKeepsTypes DEF AskAssign, TypeInv
    <2> QED
      BY <1>1, <2>1, <2>3, <2>4, <2>9
  <1> QED
    BY <1>2, <1>3, <1>4, <1>5, <1>6 DEF Ask

\* The steps that only look something up.
LEMMA LookTypes ==
  ASSUME TypeInv, NEW r \in Requests,
         \/ ReadDepth(r) \/ ReadPosition(r) \/ CheckParent(r) \/ CheckMove(r)
         \/ ReadFolder(r) \/ FindDefault(r)
  PROVE  StepsOutside(r)
  <1>1. proc[r] \in Process /\ WellFormed(proc[r])
    BY DEF TypeInv, FoldersTypeOK
  <1>2. ASSUME UNCHANGED <<folder, nextId, place, tx, used>>,
               \/ Reply(r)
               \/ \E q \in Process : Outside(q) /\ Step(r, q)
        PROVE  StepsOutside(r)
    BY <1>2, StepKeepsTypes, ReplyKeepsTypes, StepSetsOne, ReplySetsOne
       DEF TypeInv, FoldersTypeOK, Outside, StepsOutside
  <1>3. CASE ReadDepth(r)
    <2>1. proc[r].parent \in Rows => folder[proc[r].parent].depth \in Nat
      BY RowsAreRows DEF TypeInv, Row
    <2>2. ASSUME NEW d \in Nat, proc[r].pc = "depth"
          PROVE  /\ [proc[r] EXCEPT !.pc = "position", !.depth = d] \in Process
                 /\ Outside([proc[r] EXCEPT !.pc = "position", !.depth = d])
      BY <1>1, <2>2 DEF Process, PC, Outside, WellFormed
    <2>3. \/ Reply(r)
          \/ Step(r, [proc[r] EXCEPT !.pc = "position", !.depth = 0])
          \/ /\ proc[r].parent \in Rows
             /\ Step(r, [proc[r] EXCEPT !.pc = "position",
                        !.depth = folder[proc[r].parent].depth + 1])
      BY <1>3 DEF ReadDepth
    <2>4. proc[r].parent \in Rows => folder[proc[r].parent].depth + 1 \in Nat
      BY <2>1
    <2>5. proc[r].pc = "depth" /\ UNCHANGED <<folder, nextId, place, tx, used>>
      BY <1>3 DEF ReadDepth
    <2> QED
      BY <1>2, <2>2, <2>3, <2>4, <2>5
  <1>4. CASE ReadPosition(r)
    <2>1. PICK n \in NextPosition(Siblings(proc[r].owner, proc[r].parent)) :
            Step(r, [proc[r] EXCEPT !.pc = "write", !.position = n])
      BY <1>4 DEF ReadPosition
    <2>2. n \in Nat
      BY <2>1, RowsAreRows DEF NextPosition, Siblings, TypeInv, Row
    <2>3. /\ [proc[r] EXCEPT !.pc = "write", !.position = n] \in Process
          /\ Outside([proc[r] EXCEPT !.pc = "write", !.position = n])
      BY <1>1, <1>4, <2>2 DEF ReadPosition, Process, PC, Outside, WellFormed
    <2> QED
      BY <1>2, <1>4, <2>1, <2>3 DEF ReadPosition
  <1>5. CASE CheckParent(r)
    <2>1. /\ [proc[r] EXCEPT !.pc = "list"] \in Process
          /\ Outside([proc[r] EXCEPT !.pc = "list"])
      BY <1>1, <1>5 DEF CheckParent, Process, PC, Outside, WellFormed, Serial
    <2> QED
      BY <1>2, <1>5, <2>1 DEF CheckParent
  <1>6. CASE CheckMove(r)
    <2>1. /\ [proc[r] EXCEPT !.pc = "read"] \in Process
          /\ Outside([proc[r] EXCEPT !.pc = "read"])
      BY <1>1, <1>6 DEF CheckMove, Process, PC, Outside, WellFormed, Serial
    <2> QED
      BY <1>2, <1>6, <2>1 DEF CheckMove
  <1>7. CASE ReadFolder(r)
    <2>1. CASE proc[r].folder \in Rows
      <3>1. folder[proc[r].folder] \in Row
        BY <2>1, RowsAreRows DEF TypeInv
      <3>2. /\ [proc[r] EXCEPT !.pc = "depth", !.from = folder[proc[r].folder]] \in Process
            /\ Outside([proc[r] EXCEPT !.pc = "depth", !.from = folder[proc[r].folder]])
        BY <1>1, <1>7, <3>1 DEF ReadFolder, Process, PC, Outside, WellFormed, Serial
      <3> QED
        BY <1>2, <1>7, <2>1, <3>2 DEF ReadFolder
    <2> QED
      BY <1>2, <1>7, <2>1 DEF ReadFolder
  <1>8. CASE FindDefault(r)
    <2>1. ASSUME NEW f \in Id, proc[r].pc = "default"
          PROVE  /\ [proc[r] EXCEPT !.pc = "file", !.folder = f] \in Process
                 /\ Outside([proc[r] EXCEPT !.pc = "file", !.folder = f])
      BY <1>1, <2>1 DEF Process, PC, Outside, WellFormed, Serial
    <2>2. proc[r].pc = "default" =>
            /\ [proc[r] EXCEPT !.pc = "depth", !.dflt = TRUE] \in Process
            /\ Outside([proc[r] EXCEPT !.pc = "depth", !.dflt = TRUE])
      BY <1>1 DEF Process, PC, Outside, WellFormed, Serial
    <2>3. \/ \E f \in Id : Step(r, [proc[r] EXCEPT !.pc = "file", !.folder = f])
          \/ Step(r, [proc[r] EXCEPT !.pc = "depth", !.dflt = TRUE])
      BY <1>8 DEF FindDefault, Rows
    <2> QED
      BY <1>2, <1>8, <2>1, <2>2, <2>3 DEF FindDefault
  <1> QED
    BY <1>3, <1>4, <1>5, <1>6, <1>7, <1>8

-----------------------------------------------------------------------------
(* The transaction and the foreign key of the table *)

\* A request that descends has the transaction.
TxInv == \A r \in Requests : proc[r].pc = "descend" => tx # NoTx /\ tx.by = r

\* The parent of a folder in table t is in it.
ParentsExist(t) ==
  \A f \in Id : t[f] # NoRow /\ t[f].parent # None => t[f].parent \in Id /\ t[t[f].parent] # NoRow

CoreInv ==
  /\ TypeInv /\ TxInv
  /\ ParentsExist(folder)
  /\ tx # NoTx => ParentsExist(tx.before)

LEMMA TablesAreTables ==
  ASSUME FoldersTypeOK, tx # NoTx
  PROVE  tx.before \in Table
  BY DEF FoldersTypeOK

\* Steps outside the transaction do not touch it.
LEMMA OutsideKeepsTx ==
  ASSUME TxInv, NEW r \in Requests, tx' = tx,
         proc[r].pc # "descend", proc'[r].pc # "descend",
         \A s \in Requests \ {r} : proc'[s] = proc[s]
  PROVE  TxInv'
  BY DEF TxInv

LEMMA AskKeepsCore ==
  ASSUME CoreInv, NEW r \in Requests, Ask(r)
  PROVE  CoreInv'
  <1>1. UNCHANGED <<folder, tx>> /\ proc[r].pc = "idle"
    BY DEF Ask, AskCreate, AskMove, AskDelete, AskContainer, AskAssign, Running
  <1>2. StepsOutside(r)
    BY AskTypes DEF CoreInv
  <1>3. TxInv'
    BY <1>1, <1>2, OutsideKeepsTx DEF CoreInv, StepsOutside
  <1> QED
    BY <1>1, <1>2, <1>3 DEF CoreInv, ParentsExist, StepsOutside

LEMMA LookKeepsCore ==
  ASSUME CoreInv, NEW r \in Requests,
         \/ ReadDepth(r) \/ ReadPosition(r) \/ CheckParent(r) \/ CheckMove(r)
         \/ ReadFolder(r) \/ FindDefault(r)
  PROVE  CoreInv'
  <1>1. UNCHANGED <<folder, tx>> /\ proc[r].pc # "descend"
    BY DEF ReadDepth, ReadPosition, CheckParent, CheckMove, ReadFolder, FindDefault
  <1>2. StepsOutside(r)
    BY LookTypes DEF CoreInv
  <1>3. TxInv'
    BY <1>1, <1>2, OutsideKeepsTx DEF CoreInv, StepsOutside
  <1> QED
    BY <1>1, <1>2, <1>3 DEF CoreInv, ParentsExist, StepsOutside

LEMMA ReplyStepsOutside ==
  ASSUME TypeInv, NEW r \in Requests, Reply(r), FoldersTypeOK'
  PROVE  StepsOutside(r)
  BY ReplyKeepsTypes, ReplySetsOne DEF StepsOutside, TypeInv

LEMMA InsertKeepsCore ==
  ASSUME CoreInv, NEW r \in Requests, Insert(r)
  PROVE  CoreInv'
  <1> DEFINE q == proc[r]
             row == [owner |-> q.owner, parent |-> q.parent, depth |-> q.depth,
                     position |-> q.position, dflt |-> q.dflt]
  <1>1. q \in Process /\ WellFormed(q) /\ q.pc = "write" /\ q.kind \in {"create", "assign"}
    BY DEF CoreInv, TypeInv, FoldersTypeOK, Insert
  <1>2. UNCHANGED <<place, tx, used>>
    BY DEF Insert
  <1>3. CASE Reply(r) /\ UNCHANGED <<folder, nextId>>
    <2>1. StepsOutside(r)
      BY <1>2, <1>3, ReplyKeepsTypes, ReplyStepsOutside DEF CoreInv, TypeInv, FoldersTypeOK
    <2>2. TxInv'
      BY <1>1, <1>2, <2>1, OutsideKeepsTx DEF CoreInv, StepsOutside
    <2> QED
      BY <1>2, <1>3, <2>1, <2>2 DEF CoreInv, ParentsExist, StepsOutside
  <1>4. CASE /\ q.parent \in Rows \cup {None} /\ nextId \in Id
             /\ folder' = [folder EXCEPT ![nextId] = row] /\ nextId' = nextId + 1
             /\ IF q.kind = "create" THEN Reply(r)
                ELSE Step(r, [Idle EXCEPT !.pc = "file", !.kind = "assign", !.folder = nextId,
                                !.container = q.container])
    <2>1. row \in Row
      BY <1>1 DEF Process, Row, WellFormed, Serial
    <2>2. FoldersTypeOK'
      <3>1. folder' \in Table
        BY <1>4, <2>1 DEF CoreInv, TypeInv, FoldersTypeOK, Table
      <3>2. nextId' \in 1 .. (MaxFolders + 1)
        BY <1>4, FoldersAssumption DEF Id
      <3>3. proc' \in [Requests -> Process]
        <4>1. CASE Reply(r)
          BY <4>1, ReplyKeepsTypes DEF CoreInv
        <4>2. CASE q.kind = "assign"
          <5>1. [Idle EXCEPT !.pc = "file", !.kind = "assign", !.folder = nextId,
                   !.container = q.container] \in Process
            BY <1>1, <1>4, IdleIsAProcess DEF Process, PC, Kind
          <5>2. Step(r, [Idle EXCEPT !.pc = "file", !.kind = "assign", !.folder = nextId,
                           !.container = q.container])
            BY <1>4, <4>2
          <5> QED
            BY <5>1, <5>2 DEF Step, CoreInv, TypeInv, FoldersTypeOK
        <4> QED
          BY <1>1, <1>4, <4>1, <4>2
      <3> QED
        BY <1>2, <3>1, <3>2, <3>3 DEF CoreInv, TypeInv, FoldersTypeOK
    <2>3. StepsOutside(r)
      <3>1. CASE Reply(r)
        BY <2>2, <3>1, ReplyStepsOutside DEF CoreInv
      <3>2. CASE q.kind = "assign"
        <4> DEFINE p == [Idle EXCEPT !.pc = "file", !.kind = "assign", !.folder = nextId,
                                     !.container = q.container]
        <4>1. p \in Process
          BY <1>1, <1>4, IdleIsAProcess DEF Process, PC, Kind
        <4>2. q.container \in Container
          BY <1>1, <3>2 DEF WellFormed
        <4>3. Outside(p)
          BY <1>4, <4>2, IdleIsAProcess DEF Process, WellFormed, Serial, Outside
        <4>4. Step(r, p)
          BY <1>4, <3>2
        <4> QED
          BY <2>2, <4>1, <4>3, <4>4, StepKeepsTypes, StepSetsOne
             DEF CoreInv, TypeInv, StepsOutside, Outside
      <3> QED
        BY <1>1, <1>4, <3>1, <3>2
    <2>4. TxInv'
      BY <1>1, <1>2, <2>3, OutsideKeepsTx DEF CoreInv, StepsOutside
    <2>5. ParentsExist(folder')
      BY <1>4, <2>1, FoldersAssumption
         DEF CoreInv, TypeInv, FoldersTypeOK, Table, ParentsExist, Rows
    <2> QED
      BY <1>2, <2>3, <2>4, <2>5 DEF CoreInv, StepsOutside, ParentsExist
  <1> QED
    BY <1>3, <1>4 DEF Insert

LEMMA BeginMoveKeepsCore ==
  ASSUME CoreInv, NEW r \in Requests, BeginMove(r)
  PROVE  CoreInv'
  <1> DEFINE q == proc[r]
  <1>1. /\ q \in Process /\ WellFormed(q) /\ q.pc = "write" /\ q.kind = "move"
        /\ q.folder \in Id /\ tx = NoTx
    BY DEF CoreInv, TypeInv, FoldersTypeOK, BeginMove, WellFormed, Free
  <1>2. UNCHANGED <<nextId, place, used>>
    BY DEF BeginMove
  <1>3. CASE Reply(r) /\ UNCHANGED <<folder, tx>>
    <2>1. StepsOutside(r)
      BY <1>2, <1>3, ReplyKeepsTypes, ReplyStepsOutside DEF CoreInv, TypeInv, FoldersTypeOK
    <2>2. TxInv'
      BY <1>1, <1>3, <2>1, OutsideKeepsTx DEF CoreInv, StepsOutside
    <2> QED
      BY <1>1, <1>3, <2>1, <2>2 DEF CoreInv, ParentsExist, StepsOutside
  <1>4. CASE /\ q.folder \notin Rows \/ q.parent \in Rows \cup {None}
             /\ tx' = [by |-> r, before |-> folder]
             /\ folder' = IF q.folder \notin Rows THEN folder
                          ELSE [folder EXCEPT ![q.folder].parent = q.parent,
                                              ![q.folder].depth = q.depth,
                                              ![q.folder].position = q.position]
             /\ Step(r, [q EXCEPT !.pc = "descend", !.todo = {q.folder}])
    <2> DEFINE p == [q EXCEPT !.pc = "descend", !.todo = {q.folder}]
    <2>1. p \in Process
      BY <1>1 DEF Process, PC
    <2>2. WellFormed(p) /\ p.pc = "descend"
      BY <1>1 DEF Process, WellFormed, Serial
    <2>3. proc' \in [Requests -> Process] /\ \A s \in Requests : WellFormed(proc'[s])
      BY <1>4, <2>1, <2>2, StepKeepsTypes DEF CoreInv
    <2>4. tx' \in [by : Requests, before : Table] /\ tx' # NoTx
      BY <1>4, FoldersAssumption DEF CoreInv, TypeInv, FoldersTypeOK
    <2>5. /\ folder' \in Table /\ ParentsExist(folder')
      <3>1. CASE q.folder \notin Rows
        BY <1>4, <3>1 DEF CoreInv, TypeInv, FoldersTypeOK
      <3>2. CASE q.folder \in Rows
        <4>1. folder[q.folder] \in Row /\ q.parent \in Rows \cup {None}
          BY <1>4, <3>2, RowsAreRows DEF CoreInv, TypeInv
        <4> DEFINE row == [folder[q.folder] EXCEPT !.parent = q.parent, !.depth = q.depth,
                                                   !.position = q.position]
        <4>2. row \in Row /\ row.parent = q.parent
          BY <1>1, <4>1 DEF Row, Process, Rows
        <4>3. folder' = [folder EXCEPT ![q.folder] = row]
          BY <1>1, <1>4, <3>2, <4>1 DEF CoreInv, TypeInv, FoldersTypeOK, Table, Row
        <4>4. folder' \in Table
          BY <1>1, <4>2, <4>3 DEF CoreInv, TypeInv, FoldersTypeOK, Table
        <4>5. ParentsExist(folder')
          BY <1>1, <4>1, <4>2, <4>3, FoldersAssumption
             DEF CoreInv, TypeInv, FoldersTypeOK, Table, ParentsExist, Rows
        <4> QED
          BY <4>4, <4>5
      <3> QED
        BY <3>1, <3>2
    <2>6. TxInv'
      <3>1. proc'[r] = p /\ \A s \in Requests \ {r} : proc'[s] = proc[s]
        BY <1>4, StepSetsOne DEF CoreInv
      <3>2. \A s \in Requests \ {r} : proc'[s].pc # "descend"
        BY <1>1, <3>1 DEF CoreInv, TxInv
      <3>3. tx' # NoTx /\ tx'.by = r
        BY <1>4, <2>4
      <3>4. proc'[r].pc = "descend"
        BY <2>2, <3>1
      <3> QED
        BY <3>2, <3>3, <3>4 DEF TxInv
    <2>7. ParentsExist(tx'.before)
      BY <1>4 DEF CoreInv
    <2>8. TypeInv'
      BY <1>2, <2>3, <2>4, <2>5 DEF CoreInv, TypeInv, FoldersTypeOK
    <2> QED
      BY <2>5, <2>6, <2>7, <2>8 DEF CoreInv, ParentsExist
  <1> QED
    BY <1>3, <1>4 DEF BeginMove

\* The request in the transaction is the one it belongs to.
LEMMA InsideIsAlone ==
  ASSUME CoreInv, NEW r \in Requests, proc[r].pc = "descend"
  PROVE  /\ tx # NoTx /\ tx.by = r /\ tx.before \in Table
         /\ \A s \in Requests \ {r} : proc[s].pc # "descend"
  BY DEF CoreInv, TypeInv, FoldersTypeOK, TxInv

LEMMA DescendKeepsCore ==
  ASSUME CoreInv, NEW r \in Requests, Descend(r)
  PROVE  CoreInv'
  <1>1. PICK f \in proc[r].todo :
          /\ folder' = [g \in Id |-> IF g \in Children(f)
                                     THEN [folder[g] EXCEPT !.depth = folder[f].depth + 1]
                                     ELSE folder[g]]
          /\ Step(r, [proc[r] EXCEPT !.todo = (@ \ {f}) \cup Children(f)])
    BY DEF Descend
  <1>2. proc[r] \in Process /\ WellFormed(proc[r]) /\ proc[r].pc = "descend"
    BY DEF CoreInv, TypeInv, FoldersTypeOK, Descend
  <1>3. f \in Id /\ Children(f) \subseteq Id
    BY <1>2 DEF Process, Children, Rows
  <1>4. ASSUME NEW g \in Children(f)
        PROVE  /\ [folder[g] EXCEPT !.depth = folder[f].depth + 1] \in Row
               /\ [folder[g] EXCEPT !.depth = folder[f].depth + 1].parent = folder[g].parent
    <2>1. g \in Rows /\ folder[g].parent = f /\ folder[g] \in Row
      BY RowsAreRows DEF Children, CoreInv, TypeInv
    <2>2. f \in Rows
      BY <1>3, <2>1, FoldersAssumption DEF CoreInv, ParentsExist, Rows
    <2>3. folder[f].depth \in Nat
      BY <2>2, RowsAreRows DEF Row, CoreInv, TypeInv
    <2> QED
      BY <2>1, <2>3 DEF Row
  <1>5. folder' \in Table
    BY <1>1, <1>4 DEF CoreInv, TypeInv, FoldersTypeOK, Table
  <1>6. ParentsExist(folder')
    <2>1. NoRow \notin Row
      BY FoldersAssumption
    <2>2. \A g \in Id : /\ folder'[g] # NoRow => folder[g] # NoRow /\ folder'[g].parent = folder[g].parent
                        /\ folder[g] # NoRow => folder'[g] # NoRow
      BY <1>1, <1>4, <2>1 DEF Children, Rows
    <2> QED
      BY <2>2 DEF CoreInv, ParentsExist
  <1> DEFINE p == [proc[r] EXCEPT !.todo = (@ \ {f}) \cup Children(f)]
  <1>7. p \in Process /\ WellFormed(p) /\ p.pc = "descend"
    <2>1. (proc[r].todo \ {f}) \cup Children(f) \in SUBSET Id
      BY <1>2, <1>3 DEF Process
    <2> QED
      BY <1>2, <2>1 DEF Process, WellFormed, Serial
  <1>8. UNCHANGED <<nextId, place, tx, used>>
    BY DEF Descend
  <1>9. TypeInv'
    BY <1>1, <1>5, <1>7, <1>8, StepKeepsTypes DEF CoreInv, TypeInv, FoldersTypeOK
  <1>10. TxInv'
    BY <1>1, <1>2, <1>7, <1>8, StepSetsOne DEF CoreInv, TxInv
  <1> QED
    BY <1>6, <1>8, <1>9, <1>10 DEF CoreInv, ParentsExist

\* The transaction ends, with the tables it leaves behind.
LEMMA EndKeepsCore ==
  ASSUME CoreInv, NEW r \in Requests, proc[r].pc = "descend", Reply(r), tx' = NoTx,
         folder' \in Table, ParentsExist(folder'), UNCHANGED <<nextId, place>>,
         used' \in [Budget -> Nat]
  PROVE  CoreInv'
  <1>1. TypeInv'
    BY ReplyKeepsTypes DEF CoreInv, TypeInv, FoldersTypeOK
  <1>2. TxInv'
    BY InsideIsAlone, ReplySetsOne DEF CoreInv, TxInv
  <1> QED
    BY <1>1, <1>2 DEF CoreInv, ParentsExist

LEMMA CommitMoveKeepsCore ==
  ASSUME CoreInv, NEW r \in Requests, CommitMove(r)
  PROVE  CoreInv'
  <1> DEFINE was == proc[r].from
             shifted == {g \in Siblings(was.owner, was.parent) :
                           folder[g].position > was.position}
  <1>1. was \in Row /\ proc[r].pc = "descend"
    BY DEF CoreInv, TypeInv, CommitMove, WellFormed
  <1>2. folder' = [g \in Id |-> IF g \in shifted THEN [folder[g] EXCEPT !.position = @ - 1]
                                ELSE folder[g]]
    BY DEF CommitMove
  <1>3. ASSUME NEW g \in shifted
        PROVE  /\ [folder[g] EXCEPT !.position = @ - 1] \in Row
               /\ [folder[g] EXCEPT !.position = @ - 1].parent = folder[g].parent
    <2>1. folder[g] \in Row /\ folder[g].position > was.position
      BY RowsAreRows DEF Siblings, CoreInv, TypeInv
    <2>2. folder[g].position - 1 \in Nat
      BY <1>1, <2>1 DEF Row
    <2> QED
      BY <2>1, <2>2 DEF Row
  <1>4. folder' \in Table
    BY <1>2, <1>3 DEF CoreInv, TypeInv, FoldersTypeOK, Table
  <1>5. \A g \in Id : /\ folder'[g] # NoRow => folder[g] # NoRow /\ folder'[g].parent = folder[g].parent
                      /\ folder[g] # NoRow => folder'[g] # NoRow
    BY <1>2, <1>3, FoldersAssumption DEF Siblings, Rows
  <1>6. ParentsExist(folder')
    BY <1>5 DEF CoreInv, ParentsExist
  <1>7. Reply(r) /\ tx' = NoTx /\ UNCHANGED <<nextId, place, used>>
    BY DEF CommitMove
  <1> QED
    BY <1>1, <1>4, <1>6, <1>7, EndKeepsCore DEF CoreInv, TypeInv, FoldersTypeOK

\* What a deletion takes away is closed under sub-folders.
LEMMA GoneWithChildren ==
  ASSUME TypeInv, NEW d, NEW g \in Rows, folder[g].parent # None,
         IsDescendant(folder[g].parent, d, Rows)
  PROVE  IsDescendant(g, d, Rows)
  BY DEF IsDescendant

LEMMA DeleteKeepsCore ==
  ASSUME CoreInv, NEW r \in Requests, DeleteFolder(r)
  PROVE  CoreInv'
  <1> DEFINE gone == {g \in Rows : IsDescendant(g, proc[r].folder, Rows)}
  <1>1. /\ folder' = [g \in Id |-> IF g \in gone THEN NoRow ELSE folder[g]]
        /\ place' = [c \in Container |->
             IF place[c] # None /\ place[c].folder \in gone THEN None ELSE place[c]]
        /\ Reply(r) /\ UNCHANGED <<nextId, tx, used>>
        /\ proc[r].pc = "delete"
    BY DEF DeleteFolder
  <1>2. folder' \in Table /\ place' \in [Container -> Place \cup {None}]
    BY <1>1 DEF CoreInv, TypeInv, FoldersTypeOK, Table
  <1>3. StepsOutside(r)
    BY <1>1, <1>2, ReplyKeepsTypes, ReplyStepsOutside DEF CoreInv, TypeInv, FoldersTypeOK
  <1>4. TxInv'
    BY <1>1, <1>3, OutsideKeepsTx DEF CoreInv, StepsOutside
  <1>5. ParentsExist(folder')
    <2> SUFFICES ASSUME NEW g \in Id, folder'[g] # NoRow, folder'[g].parent # None
                 PROVE  folder'[g].parent \in Id /\ folder'[folder'[g].parent] # NoRow
      BY DEF ParentsExist
    <2>1. g \in Rows /\ g \notin gone /\ folder'[g] = folder[g]
      BY <1>1 DEF Rows
    <2>2. folder[g].parent \in Rows
      BY <2>1 DEF CoreInv, ParentsExist, Rows
    <2>3. folder[g].parent \notin gone
      BY <2>1, GoneWithChildren DEF CoreInv
    <2> QED
      BY <1>1, <2>1, <2>2, <2>3 DEF Rows
  <1> QED
    BY <1>1, <1>3, <1>4, <1>5 DEF CoreInv, StepsOutside, ParentsExist

-----------------------------------------------------------------------------
(* The table of filed containers *)

\* The steps of the handlers that touch only where containers are filed.
LEMMA FilingKeepsCore ==
  ASSUME CoreInv, NEW r \in Requests, proc[r].pc # "descend", Reply(r),
         place' \in [Container -> Place \cup {None}], UNCHANGED <<folder, nextId, tx, used>>
  PROVE  CoreInv'
  <1>1. StepsOutside(r)
    BY ReplyKeepsTypes, ReplyStepsOutside DEF CoreInv, TypeInv, FoldersTypeOK
  <1>2. TxInv'
    BY <1>1, OutsideKeepsTx DEF CoreInv, StepsOutside
  <1> QED
    BY <1>1, <1>2 DEF CoreInv, ParentsExist, StepsOutside

\* No two containers of a folder share a position in table t.
Differ(t) ==
  \A c, d \in Container :
    c # d /\ t[c] # None /\ t[d] # None /\ t[c].folder = t[d].folder
    => t[c].position # t[d].position

LEMMA WithoutType ==
  ASSUME CoreInv, NEW c \in Container
  PROVE  /\ Without(c) \in [Container -> Place \cup {None}]
         /\ \A d \in Container \ {c} : /\ Without(c)[d] = None <=> place[d] = None
                                       /\ place[d] # None => Without(c)[d].folder = place[d].folder
  <1> DEFINE behind(d) == /\ place[c] # None /\ place[d] # None
                          /\ place[d].folder = place[c].folder
                          /\ place[d].position > place[c].position
  <1>1. ASSUME NEW d \in Container, behind(d)
        PROVE  /\ [place[d] EXCEPT !.position = @ - 1] \in Place
               /\ [place[d] EXCEPT !.position = @ - 1].folder = place[d].folder
    <2>1. place[c] \in Place /\ place[d] \in Place
      BY <1>1 DEF CoreInv, TypeInv, FoldersTypeOK
    <2>2. place[d].position - 1 \in Nat
      BY <1>1, <2>1 DEF Place
    <2> QED
      BY <2>1, <2>2 DEF Place
  <1>2. Without(c) = [d \in Container |->
                        IF d = c THEN None
                        ELSE IF behind(d) THEN [place[d] EXCEPT !.position = @ - 1]
                        ELSE place[d]]
    BY DEF Without
  <1>3. None \notin Place
    BY FoldersAssumption
  <1> HIDE DEF behind
  <1>4. \A d \in Container : behind(d) => place[d] # None
    BY DEF behind
  <1> QED
    BY <1>1, <1>2, <1>3, <1>4 DEF CoreInv, TypeInv, FoldersTypeOK

LEMMA WithoutDiffers ==
  ASSUME CoreInv, Differ(place), NEW c \in Container
  PROVE  Differ(Without(c))
  <1> SUFFICES ASSUME NEW d \in Container, NEW e \in Container, d # e,
                      Without(c)[d] # None, Without(c)[e] # None,
                      Without(c)[d].folder = Without(c)[e].folder
               PROVE  Without(c)[d].position # Without(c)[e].position
    BY DEF Differ
  <1>1. d # c /\ e # c
    BY DEF Without
  <1>2. /\ place[d] \in Place /\ place[e] \in Place /\ place[d].folder = place[e].folder
        /\ place[d] # None /\ place[e] # None
    BY <1>1, WithoutType DEF CoreInv, TypeInv, FoldersTypeOK
  <1>3. place[d].position # place[e].position
    BY <1>2 DEF Differ
  <1>4. CASE place[c] = None
    BY <1>1, <1>3, <1>4 DEF Without
  <1>5. CASE place[c] # None /\ place[c].folder # place[d].folder
    BY <1>1, <1>2, <1>3, <1>5 DEF Without
  <1>6. CASE place[c] # None /\ place[c].folder = place[d].folder
    <2>1. place[c] \in Place
      BY <1>6 DEF CoreInv, TypeInv, FoldersTypeOK
    <2>2. place[c].position # place[d].position /\ place[c].position # place[e].position
      BY <1>1, <1>2, <1>6 DEF Differ
    <2>3. ASSUME NEW x \in {d, e}
          PROVE  Without(c)[x].position = IF place[x].position > place[c].position
                                          THEN place[x].position - 1 ELSE place[x].position
      BY <1>1, <1>2, <1>6 DEF Without, Place
    <2> QED
      BY <1>2, <1>3, <2>1, <2>2, <2>3 DEF Place
  <1> QED
    BY <1>4, <1>5, <1>6

LEMMA FileKeeps ==
  ASSUME CoreInv, Differ(place), NEW r \in Requests, File(r)
  PROVE  CoreInv' /\ Differ(place')
  <1> DEFINE f == proc[r].folder
             c == proc[r].container
  <1>1. /\ proc[r].pc = "file" /\ Reply(r) /\ UNCHANGED <<folder, nextId, tx, used>>
        /\ f \in Id /\ c \in Container
    BY DEF File, CoreInv, TypeInv, WellFormed
  <1>2. CASE UNCHANGED place
    BY <1>1, <1>2, FilingKeepsCore DEF CoreInv, TypeInv, FoldersTypeOK, Differ
  <1>3. ASSUME NEW n \in NextPlace(f, Without(c)),
               place' = [Without(c) EXCEPT ![c] = [folder |-> f, position |-> n]]
        PROVE  CoreInv' /\ Differ(place')
    <2>1. Without(c) \in [Container -> Place \cup {None}] /\ Differ(Without(c))
      BY <1>1, WithoutType, WithoutDiffers
    <2>2. /\ n \in Nat
          /\ \A d \in Container : Without(c)[d] # None /\ Without(c)[d].folder = f
                                  => Without(c)[d].position < n
      BY <1>1, <2>1 DEF NextPlace, Filed, Place
    <2>3. place' \in [Container -> Place \cup {None}]
      BY <1>1, <1>3, <2>1, <2>2 DEF Place
    <2>4. Differ(place')
      <3> SUFFICES ASSUME NEW d \in Container, NEW e \in Container, d # e,
                          place'[d] # None, place'[e] # None,
                          place'[d].folder = place'[e].folder
                   PROVE  place'[d].position # place'[e].position
        BY DEF Differ
      <3>1. ASSUME NEW x \in Container \ {c}, place'[x] # None, place'[x].folder = f
            PROVE  place'[x].position < n /\ place'[x].position \in Nat
        BY <1>3, <2>1, <2>2, <3>1 DEF Place
      <3>2. place'[c].folder = f /\ place'[c].position = n
        BY <1>1, <1>3, <2>1
      <3>3. CASE d = c \/ e = c
        BY <2>2, <3>1, <3>2, <3>3
      <3>4. CASE d # c /\ e # c
        BY <1>3, <2>1, <3>4 DEF Differ
      <3> QED
        BY <3>3, <3>4
    <2> QED
      BY <1>1, <2>3, <2>4, FilingKeepsCore
  <1> QED
    BY <1>2, <1>3 DEF File

LEMMA UnlinkKeeps ==
  ASSUME CoreInv, Differ(place), NEW r \in Requests, Unlink(r)
  PROVE  CoreInv' /\ Differ(place')
  <1>1. /\ proc[r].pc # "descend" /\ Reply(r) /\ UNCHANGED <<folder, nextId, tx, used>>
        /\ \/ place' = place
           \/ \E c \in Container : place' = [place EXCEPT ![c] = None]
    BY DEF Unlink, Filed
  <1>2. place' \in [Container -> Place \cup {None}] /\ Differ(place')
    BY <1>1 DEF CoreInv, TypeInv, FoldersTypeOK, Differ
  <1> QED
    BY <1>1, <1>2, FilingKeepsCore

\* Making way for a container that goes from old to new keeps the others apart,
\* and off the new position.
LEMMA MakeWayKeepsApart ==
  ASSUME NEW old \in Nat, NEW new \in Nat, NEW p \in Nat, p # old
  PROVE  /\ MakeWay(old, new, p) \in Nat /\ MakeWay(old, new, p) # new
         /\ \A q \in Nat : q # old /\ q # p => MakeWay(old, new, q) # MakeWay(old, new, p)
  BY DEF MakeWay

LEMMA ReorderKeeps ==
  ASSUME CoreInv, Differ(place), NEW r \in Requests, Reorder(r)
  PROVE  CoreInv' /\ Differ(place')
  <1> DEFINE c == proc[r].container
             filed == Filed(proc[r].folder, place)
             last == Cardinality(filed) - 1
             k == IF proc[r].index < 0 THEN 0
                  ELSE IF proc[r].index > last THEN last ELSE proc[r].index
  <1>1. /\ proc[r].pc = "reorder" /\ Reply(r) /\ UNCHANGED <<folder, nextId, tx, used>>
        /\ c \in Container /\ proc[r].index \in Int
    BY DEF Reorder, CoreInv, TypeInv, FoldersTypeOK, WellFormed, Process
  <1>2. CASE UNCHANGED place
    BY <1>1, <1>2, FilingKeepsCore DEF CoreInv, TypeInv, FoldersTypeOK, Differ
  <1>3. CASE /\ c \in filed
             /\ place' = [d \in Container |->
                  IF d = c THEN [place[d] EXCEPT !.position = k]
                  ELSE IF d \in filed
                  THEN [place[d] EXCEPT !.position = MakeWay(place[c].position, k, @)]
                  ELSE place[d]]
    <2>1. last \in Nat
      <3>1. IsFiniteSet(filed)
        BY FoldersAssumption, FS_Subset DEF Filed
      <3>2. Cardinality(filed) \in Nat /\ Cardinality(filed) # 0
        BY <1>3, <3>1, FS_CardinalityType, FS_EmptySet
      <3> QED
        BY <3>2
    <2>2. k \in Nat
      BY <1>1, <2>1
    <2>3. \A d \in filed : d \in Container /\ place[d] \in Place /\ place[d] # None
                           /\ place[d].folder = proc[r].folder
      BY DEF Filed, CoreInv, TypeInv, FoldersTypeOK
    <2> HIDE DEF k, filed
    <2>4. place[c].position \in Nat
      BY <1>3, <2>3 DEF Place
    <2>5. ASSUME NEW d \in filed, d # c
          PROVE  /\ place'[d] \in Place /\ place'[d].folder = proc[r].folder
                 /\ place'[d].position = MakeWay(place[c].position, k, place[d].position)
                 /\ place[d].position \in Nat /\ place[d].position # place[c].position
      <3>1. place[d].position \in Nat /\ place[d].position # place[c].position
        BY <1>1, <1>3, <2>3, <2>5 DEF Place, Differ
      <3>2. MakeWay(place[c].position, k, place[d].position) \in Nat
        BY <2>2, <2>4, <3>1, MakeWayKeepsApart
      <3>3. place'[d] = [place[d] EXCEPT
                           !.position = MakeWay(place[c].position, k, place[d].position)]
        BY <1>3, <2>3, <2>5
      <3> QED
        BY <2>3, <3>1, <3>2, <3>3 DEF Place
    <2>6. place'[c] \in Place /\ place'[c].folder = proc[r].folder /\ place'[c].position = k
      BY <1>1, <1>3, <2>2, <2>3 DEF Place
    <2>7. \A d \in Container : d \notin filed => place'[d] = place[d]
      BY <1>3
    <2>8. place' \in [Container -> Place \cup {None}]
      <3>1. \A d \in Container : place'[d] \in Place \cup {None}
        BY <2>5, <2>6, <2>7 DEF CoreInv, TypeInv, FoldersTypeOK
      <3>2. place' = [d \in Container |-> place'[d]]
        BY <1>3
      <3> QED
        BY <3>1, <3>2
    <2>9. Differ(place')
      <3> SUFFICES ASSUME NEW d \in Container, NEW e \in Container, d # e,
                          place'[d] # None, place'[e] # None,
                          place'[d].folder = place'[e].folder
                   PROVE  place'[d].position # place'[e].position
        BY DEF Differ
      <3>1. CASE d \notin filed /\ e \notin filed
        BY <2>7, <3>1 DEF Differ
      <3>2. \A x \in Container \ filed : place[x] = None \/ place[x].folder # proc[r].folder
        BY DEF filed, Filed
      <3>3. d \in filed <=> e \in filed
        BY <2>5, <2>6, <2>7, <3>2
      <3>4. CASE d = c \/ e = c
        <4>1. ASSUME NEW x \in filed, x # c
              PROVE  place'[x].position # k
          <5>1. /\ place'[x].position = MakeWay(place[c].position, k, place[x].position)
                /\ place[x].position \in Nat /\ place[x].position # place[c].position
            BY <2>5, <4>1
          <5>2. MakeWay(place[c].position, k, place[x].position) # k
            BY <2>2, <2>4, <5>1, MakeWayKeepsApart
          <5> QED
            BY <5>1, <5>2
        <4>2. c \in filed /\ d \in filed /\ e \in filed
          BY <1>3, <3>3, <3>4
        <4>3. CASE d = c
          BY <2>6, <4>1, <4>2, <4>3
        <4>4. CASE e = c
          BY <2>6, <4>1, <4>2, <4>4
        <4> QED
          BY <3>4, <4>3, <4>4
      <3>5. CASE d \in filed /\ e \in filed /\ d # c /\ e # c
        <4>1. place[d].position # place[e].position
          BY <2>3, <3>5 DEF Differ
        <4>2. /\ place'[d].position = MakeWay(place[c].position, k, place[d].position)
              /\ place'[e].position = MakeWay(place[c].position, k, place[e].position)
              /\ place[d].position \in Nat /\ place[d].position # place[c].position
              /\ place[e].position \in Nat /\ place[e].position # place[c].position
          BY <2>5, <3>5
        <4> QED
          BY <2>2, <2>4, <4>1, <4>2, MakeWayKeepsApart
      <3> QED
        BY <3>1, <3>3, <3>4, <3>5
    <2> QED
      BY <1>1, <2>8, <2>9, FilingKeepsCore
  <1> QED
    BY <1>2, <1>3 DEF Reorder

LEMMA RemoveKeeps ==
  ASSUME CoreInv, Differ(place), RemoveContainer
  PROVE  CoreInv' /\ Differ(place')
  <1>1. PICK c \in Container : place' = [place EXCEPT ![c] = None]
    BY DEF RemoveContainer
  <1>2. place' \in [Container -> Place \cup {None}] /\ Differ(place')
    BY <1>1 DEF CoreInv, TypeInv, FoldersTypeOK, Differ
  <1>3. UNCHANGED <<folder, nextId, tx, proc>>
    BY DEF RemoveContainer
  <1>4. used' \in [Budget -> Nat]
    BY SpendKeepsTypes DEF RemoveContainer, CoreInv, TypeInv, Budget
  <1> QED
    BY <1>2, <1>3, <1>4 DEF CoreInv, TypeInv, FoldersTypeOK, TxInv, ParentsExist

LEMMA FailKeepsCore ==
  ASSUME CoreInv, NEW r \in Requests, StatementFails(r)
  PROVE  CoreInv'
  <1>1. Reply(r) /\ UNCHANGED <<nextId, place>>
    BY DEF StatementFails
  <1>2. used' \in [Budget -> Nat]
    BY SpendKeepsTypes DEF StatementFails, CoreInv, TypeInv, Budget
  <1>3. CASE Free /\ UNCHANGED <<folder, tx>>
    <2>1. proc[r].pc # "descend"
      BY <1>3 DEF CoreInv, TxInv, Free
    <2>2. StepsOutside(r)
      BY <1>1, <1>2, <1>3, ReplyKeepsTypes, ReplyStepsOutside
         DEF CoreInv, TypeInv, FoldersTypeOK
    <2>3. TxInv'
      BY <1>3, <2>1, <2>2, OutsideKeepsTx DEF CoreInv, StepsOutside
    <2> QED
      BY <1>3, <2>2, <2>3 DEF CoreInv, ParentsExist, StepsOutside
  <1>4. CASE proc[r].pc = "descend" /\ folder' = tx.before /\ tx' = NoTx
    BY <1>1, <1>2, <1>4, InsideIsAlone, EndKeepsCore DEF CoreInv
  <1>5. CASE Free /\ tx' = [by |-> r, before |-> folder] /\ UNCHANGED folder
    <2>1. StepsOutside(r)
      BY <1>1, <1>2, <1>5, ReplyKeepsTypes, ReplyStepsOutside
         DEF CoreInv, TypeInv, FoldersTypeOK
    <2>2. \A s \in Requests : proc'[s].pc # "descend"
      BY <1>5, <2>1 DEF CoreInv, TxInv, Free, StepsOutside
    <2> QED
      BY <1>5, <2>1, <2>2 DEF CoreInv, TxInv, ParentsExist, StepsOutside
  <1> QED
    BY <1>3, <1>4, <1>5 DEF StatementFails

LEMMA RestartKeepsCore ==
  ASSUME CoreInv, Restart
  PROVE  CoreInv'
  <1>1. /\ folder' = IF tx = NoTx THEN folder ELSE tx.before
        /\ tx' = NoTx /\ proc' = [r \in Requests |-> Idle]
        /\ UNCHANGED <<nextId, place>>
    BY DEF Restart
  <1>2. used' \in [Budget -> Nat]
    BY SpendKeepsTypes DEF Restart, CoreInv, TypeInv, Budget
  <1>3. folder' \in Table /\ ParentsExist(folder')
    BY <1>1, TablesAreTables DEF CoreInv, TypeInv, FoldersTypeOK
  <1>4. TypeInv'
    BY <1>1, <1>2, <1>3, IdleIsAProcess DEF CoreInv, TypeInv, FoldersTypeOK
  <1>5. TxInv'
    BY <1>1 DEF TxInv, Idle
  <1> QED
    BY <1>1, <1>3, <1>4, <1>5 DEF CoreInv

-----------------------------------------------------------------------------
(* Any step *)

CoreStep == CoreInv /\ Differ(place)

LEMMA RequestKeepsCore ==
  ASSUME CoreStep, NEW r \in Requests, Ask(r) \/ Run(r) \/ StatementFails(r)
  PROVE  CoreStep'
  <1> USE DEF CoreStep
  <1>1. CASE Ask(r)
    <2>1. place' = place
      BY <1>1 DEF Ask, AskCreate, AskMove, AskDelete, AskContainer, AskAssign
    <2> QED
      BY <1>1, <2>1, AskKeepsCore DEF Differ
  <1>2. CASE Create(r)
    <2>1. place' = place
      BY <1>2 DEF Create, ReadDepth, ReadPosition, Insert
    <2> QED
      BY <1>2, <2>1, LookKeepsCore, InsertKeepsCore DEF Create, Differ
  <1>3. CASE Move(r)
    <2>1. place' = place
      BY <1>3 DEF Move, CheckParent, CheckMove, ReadFolder, BeginMove, Descend, CommitMove
    <2>2. CoreInv'
      BY <1>3, LookKeepsCore, BeginMoveKeepsCore, DescendKeepsCore, CommitMoveKeepsCore DEF Move
    <2> QED
      BY <2>1, <2>2 DEF Differ
  <1>4. CASE DeleteFolder(r)
    <2>1. \A c \in Container : place'[c] = None \/ place'[c] = place[c]
      BY <1>4 DEF DeleteFolder
    <2> QED
      BY <1>4, <2>1, DeleteKeepsCore DEF Differ
  <1>5. CASE FindDefault(r)
    <2>1. place' = place
      BY <1>5 DEF FindDefault
    <2> QED
      BY <1>5, <2>1, LookKeepsCore DEF Differ
  <1>6. CASE File(r) \/ Unlink(r) \/ Reorder(r)
    BY <1>6, FileKeeps, UnlinkKeeps, ReorderKeeps
  <1>7. CASE StatementFails(r)
    <2>1. place' = place
      BY <1>7 DEF StatementFails
    <2> QED
      BY <1>7, <2>1, FailKeepsCore DEF Differ
  <1> QED
    BY <1>1, <1>2, <1>3, <1>4, <1>5, <1>6, <1>7 DEF Run, Arrange

LEMMA NextKeepsCore == CoreStep /\ [Next]_vars => CoreStep'
  <1> SUFFICES ASSUME CoreStep, [Next]_vars
               PROVE  CoreStep'
    OBVIOUS
  <1>1. CASE \E r \in Requests : Ask(r) \/ Run(r) \/ StatementFails(r)
    BY <1>1, RequestKeepsCore
  <1>2. CASE RemoveContainer
    BY <1>2, RemoveKeeps DEF CoreStep
  <1>3. CASE Restart
    <2>1. place' = place
      BY <1>3 DEF Restart
    <2> QED
      BY <1>3, <2>1, RestartKeepsCore DEF CoreStep, Differ
  <1>4. CASE UNCHANGED vars
    BY <1>4 DEF vars, CoreStep, CoreInv, TypeInv, FoldersTypeOK, TxInv, ParentsExist, Differ
  <1> QED
    BY <1>1, <1>2, <1>3, <1>4 DEF Next

LEMMA InitIsCore == Init => CoreStep
  <1> SUFFICES ASSUME Init
               PROVE  CoreStep
    OBVIOUS
  <1>1. FoldersTypeOK
    <2>1. nextId \in 1 .. (MaxFolders + 1)
      BY FoldersAssumption DEF Init
    <2>2. folder \in Table /\ place \in [Container -> Place \cup {None}]
      <3>1. \A u \in Users : DefaultOf(u) \in Row
        BY DEF DefaultOf, Row
      <3>2. /\ place = [c \in Container |-> None]
            /\ \/ folder = [f \in Id |-> NoRow]
               \/ \E u \in Users : folder = [f \in Id |-> IF f = 1 THEN DefaultOf(u) ELSE NoRow]
        BY DEF Init
      <3> QED
        BY <3>1, <3>2 DEF Table
    <2>3. tx = NoTx /\ proc \in [Requests -> Process] /\ used \in [Budget -> Nat]
      BY IdleIsAProcess DEF Init
    <2> QED
      BY <2>1, <2>2, <2>3 DEF FoldersTypeOK
  <1>2. TypeInv
    BY <1>1, IdleIsAProcess DEF Init, TypeInv
  <1>3. TxInv
    BY DEF Init, TxInv, Idle
  <1>4. \A f \in Id : folder[f] # NoRow => folder[f].parent = None
    BY DEF Init, DefaultOf
  <1> QED
    BY <1>2, <1>3, <1>4 DEF CoreStep, CoreInv, Init, ParentsExist, Differ

-----------------------------------------------------------------------------
(* The folder tree, when requests that create or move folders do not overlap *)
(* and nobody may use another user's folders                                 *)

Ids(t) == {f \in Id : t[f] # NoRow}

\* Ids are not used again.
Fresh(t) == \A f \in Ids(t) : f < nextId

TreeIn(t) == \A S \in SUBSET Ids(t) : S # {} => \E f \in S : t[f].parent \notin S

Alike(a, b) == a.owner = b.owner /\ a.parent = b.parent

PositionsIn(t) ==
  \A f, g \in Ids(t) : Alike(t[f], t[g]) /\ t[f].position = t[g].position => f = g

\* Every depth is right, except directly below a folder that is open.
DepthsIn(t, open) ==
  \A f \in Ids(t) :
    IF t[f].parent = None THEN t[f].depth = 0
    ELSE t[f].parent \in open \/ t[f].depth = t[t[f].parent].depth + 1

OneSerial ==
  \A r, s \in Requests : proc[r].kind \in Serial /\ proc[s].kind \in Serial => r = s

\* What a move under way has checked and read still holds: its folder and the
\* new parent are the user's; the new parent lies at the top; the folder it has
\* read is still there as it was, and nobody else is at its place.
MoveHolds(t, q) ==
  /\ q.user = q.owner
  /\ q.folder \in Ids(t) => t[q.folder].owner = q.owner
  /\ q.pc \in {"list", "read", "depth", "position", "write"} /\ q.parent \in Ids(t)
       => t[q.parent].owner = q.owner
  /\ q.pc \in {"read", "depth", "position", "write"} =>
       /\ q.parent # q.folder
       /\ q.parent \in Ids(t) => t[q.parent].parent = None
  /\ q.pc \in {"depth", "position", "write"} =>
       /\ q.folder \in Ids(t) => Alike(t[q.folder], q.from)
                                 /\ t[q.folder].position = q.from.position
       /\ \A g \in Ids(t) : Alike(t[g], q.from) /\ t[g].position = q.from.position
                            => g = q.folder

\* The depth and the position read for a new place are still right.
PlaceHolds(t, q) ==
  /\ q.pc \in {"position", "write"} =>
       /\ q.parent = None => q.depth = 0
       /\ q.parent \in Ids(t) => q.depth = t[q.parent].depth + 1
  /\ q.pc = "write" =>
       \A g \in Ids(t) : t[g].owner = q.owner /\ t[g].parent = q.parent
                         => t[g].position < q.position

Holds(t, q) ==
  (q.kind = "move" => MoveHolds(t, q)) /\ (q.kind \in Serial => PlaceHolds(t, q))

\* In the transaction: depths are wrong only below the folders to descend into,
\* and nobody is where the folder was.
Descends(t, q) ==
  /\ DepthsIn(t, q.todo)
  /\ \A g \in Ids(t) : ~(Alike(t[g], q.from) /\ t[g].position = q.from.position)

ShapeInv ==
  /\ OneSerial
  /\ Fresh(folder) /\ TreeIn(folder) /\ PositionsIn(folder)
  /\ tx # NoTx => /\ Fresh(tx.before) /\ TreeIn(tx.before)
                  /\ PositionsIn(tx.before) /\ DepthsIn(tx.before, {})
  /\ (\A r \in Requests : proc[r].pc # "descend") => DepthsIn(folder, {})
  /\ \A r \in Requests : IF proc[r].pc = "descend" THEN Descends(folder, proc[r])
                         ELSE Holds(folder, proc[r])

TreeInv == CoreInv /\ ShapeInv

LEMMA OthersAreNotSerial ==
  ASSUME TreeInv, NEW r \in Requests, proc[r].kind \in Serial
  PROVE  \A s \in Requests \ {r} : /\ proc[s].kind \notin Serial /\ proc[s].pc # "descend"
  BY DEF TreeInv, ShapeInv, OneSerial, CoreInv, TypeInv, WellFormed, Serial

\* A request that is not serial relies on nothing, whatever the table becomes.
LEMMA NothingToHold ==
  ASSUME NEW q, q.kind \notin Serial, NEW t
  PROVE  Holds(t, q)
  BY DEF Holds, Serial

LEMMA IdleIsNotSerial == Idle.kind \notin Serial /\ Idle.pc # "descend"
  BY DEF Idle, Serial

\* A step of r that leaves the table alone keeps the shape if r's own share is
\* kept and r was alone when it became serial.
LEMMA SameTableKeepsShape ==
  ASSUME TreeInv, NEW r \in Requests, UNCHANGED <<folder, nextId>>,
         proc[r].pc # "descend", proc'[r].pc # "descend",
         \A s \in Requests \ {r} : proc'[s] = proc[s],
         proc'[r].kind \in Serial =>
           proc[r].kind \in Serial \/ \A s \in Requests \ {r} : proc[s].kind \notin Serial,
         Holds(folder, proc'[r]),
         \/ tx' = tx
         \/ tx' = [by |-> r, before |-> folder] /\ \A s \in Requests : proc[s].pc # "descend"
  PROVE  ShapeInv'
  <1>1. OneSerial'
    BY DEF TreeInv, ShapeInv, OneSerial
  <1>2. Fresh(folder)' /\ TreeIn(folder)' /\ PositionsIn(folder)'
    BY DEF TreeInv, ShapeInv, Fresh, TreeIn, PositionsIn, Ids
  <1>3. (\A s \in Requests : proc'[s].pc # "descend") => DepthsIn(folder, {})'
    BY DEF TreeInv, ShapeInv, DepthsIn, Ids
  <1>4. \A s \in Requests : IF proc'[s].pc = "descend" THEN Descends(folder', proc'[s])
                            ELSE Holds(folder', proc'[s])
    BY DEF TreeInv, ShapeInv
  <1>5. tx' # NoTx => /\ Fresh(tx.before)' /\ TreeIn(tx.before)'
                      /\ PositionsIn(tx.before)' /\ DepthsIn(tx.before, {})'
    BY DEF TreeInv, ShapeInv, Fresh, TreeIn, PositionsIn, DepthsIn, Ids
  <1> QED
    BY <1>1, <1>2, <1>3, <1>4, <1>5 DEF ShapeInv

LEMMA ReplyKeepsShape ==
  ASSUME TreeInv, NEW r \in Requests, Reply(r), UNCHANGED <<folder, nextId>>,
         proc[r].pc # "descend",
         \/ tx' = tx
         \/ tx' = [by |-> r, before |-> folder] /\ \A s \in Requests : proc[s].pc # "descend"
  PROVE  ShapeInv'
  <1>1. proc'[r] = Idle /\ \A s \in Requests \ {r} : proc'[s] = proc[s]
    BY ReplySetsOne DEF TreeInv, CoreInv
  <1>2. Holds(folder, proc'[r])
    BY <1>1, IdleIsNotSerial, NothingToHold
  <1> QED
    BY <1>1, <1>2, IdleIsNotSerial, SameTableKeepsShape

\* Requests that create or move folders do not overlap, and a user moves his
\* own folders only.
LEMMA AskKeepsShape ==
  ASSUME TreeInv, ~Overlap, Admins = {}, NEW r \in Requests, Ask(r)
  PROVE  ShapeInv'
  <1>1. /\ UNCHANGED <<folder, nextId, tx>> /\ proc[r].pc = "idle"
        /\ proc \in [Requests -> Process]
    BY DEF Ask, AskCreate, AskMove, AskDelete, AskContainer, AskAssign, Running, TreeInv,
           CoreInv, TypeInv, FoldersTypeOK
  <1>2. ASSUME NEW q, Step(r, q), q.pc # "descend", Holds(folder, q),
               q.kind \in Serial => \A s \in Requests \ {r} : proc[s].kind \notin Serial
        PROVE  ShapeInv'
    <2>1. proc'[r] = q /\ \A s \in Requests \ {r} : proc'[s] = proc[s]
      BY <1>1, <1>2 DEF Step
    <2> QED
      BY <1>1, <1>2, <2>1, SameTableKeepsShape
  <1>3. CASE AskCreate(r)
    <2>1. PICK u \in Users, p \in Rows \cup {None}, dflt \in BOOLEAN :
            Step(r, [Idle EXCEPT !.pc = "depth", !.kind = "create", !.owner = u,
                       !.parent = p, !.dflt = dflt])
      BY <1>3 DEF AskCreate
    <2> DEFINE q == [Idle EXCEPT !.pc = "depth", !.kind = "create", !.owner = u,
                       !.parent = p, !.dflt = dflt]
    <2>2. q.pc = "depth" /\ q.kind = "create"
      BY DEF Idle
    <2>3. Holds(folder, q)
      BY <2>2 DEF Holds, PlaceHolds
    <2> QED
      BY <1>2, <1>3, <2>1, <2>2, <2>3 DEF AskCreate, Alone, Serial
  <1>4. CASE AskMove(r)
    <2>1. PICK u \in Users, f \in Rows, p \in Rows \cup {None} :
            /\ MayUse(u, f)
            /\ Step(r, [Idle EXCEPT !.pc = "parent", !.kind = "move", !.user = u, !.folder = f,
                          !.parent = p, !.owner = folder[f].owner])
      BY <1>4 DEF AskMove
    <2> DEFINE q == [Idle EXCEPT !.pc = "parent", !.kind = "move", !.user = u, !.folder = f,
                       !.parent = p, !.owner = folder[f].owner]
    <2>2. /\ q.pc = "parent" /\ q.kind = "move" /\ q.user = u /\ q.folder = f
          /\ q.owner = folder[f].owner
      BY DEF Idle
    <2>3. Holds(folder, q)
      BY <2>1, <2>2 DEF Holds, MoveHolds, PlaceHolds, MayUse
    <2> QED
      BY <1>2, <1>4, <2>1, <2>2, <2>3 DEF AskMove, Alone, Serial
  <1>5. CASE AskDelete(r)
    <2>1. PICK f \in Rows : Step(r, [Idle EXCEPT !.pc = "delete", !.kind = "delete", !.folder = f])
      BY <1>5 DEF AskDelete
    <2> DEFINE q == [Idle EXCEPT !.pc = "delete", !.kind = "delete", !.folder = f]
    <2>2. q.pc = "delete" /\ q.kind \notin Serial
      BY DEF Idle, Serial
    <2> QED
      BY <1>2, <2>1, <2>2, NothingToHold
  <1>6. CASE AskContainer(r)
    <2>1. PICK pc \in {"file", "unlink", "reorder"}, f \in Rows, c \in Container :
            \E k \in IF pc = "reorder" THEN -1 .. Cardinality(Container) ELSE {0} :
              Step(r, [Idle EXCEPT !.pc = pc, !.kind = pc, !.folder = f, !.container = c, !.index = k])
      BY <1>6 DEF AskContainer
    <2>2. PICK k : Step(r, [Idle EXCEPT !.pc = pc, !.kind = pc, !.folder = f, !.container = c,
                                        !.index = k])
      BY <2>1
    <2> DEFINE q == [Idle EXCEPT !.pc = pc, !.kind = pc, !.folder = f, !.container = c, !.index = k]
    <2>3. q.pc # "descend" /\ q.kind \notin Serial
      BY DEF Idle, Serial
    <2> QED
      BY <1>2, <2>2, <2>3, NothingToHold
  <1>7. CASE AskAssign(r)
    <2>1. PICK u \in Users, c \in Container :
            Step(r, [Idle EXCEPT !.pc = "default", !.kind = "assign", !.owner = u, !.container = c])
      BY <1>7 DEF AskAssign
    <2> DEFINE q == [Idle EXCEPT !.pc = "default", !.kind = "assign", !.owner = u, !.container = c]
    <2>2. q.pc = "default" /\ q.kind = "assign"
      BY DEF Idle
    <2>3. Holds(folder, q)
      BY <2>2 DEF Holds, PlaceHolds
    <2> QED
      BY <1>2, <1>7, <2>1, <2>2, <2>3 DEF AskAssign, Alone, Serial
  <1> QED
    BY <1>3, <1>4, <1>5, <1>6, <1>7 DEF Ask

\* A folder whose parent is another has a depth of at least one.
LEMMA TopHasNoParent ==
  ASSUME TreeInv, \A s \in Requests : proc[s].pc # "descend",
         NEW p \in Ids(folder), folder[p].depth = 0
  PROVE  folder[p].parent = None
  <1>1. folder[p].parent # None => /\ folder[p].parent \in Ids(folder)
                                   /\ folder[p].depth = folder[folder[p].parent].depth + 1
    BY DEF TreeInv, ShapeInv, DepthsIn, CoreInv, ParentsExist, Ids
  <1>2. \A f \in Ids(folder) : folder[f].depth \in Nat
    BY RowsAreRows DEF TreeInv, CoreInv, TypeInv, Rows, Ids, Row
  <1> QED
    BY <1>1, <1>2

LEMMA LookKeepsShape ==
  ASSUME TreeInv, Admins = {}, NEW r \in Requests,
         \/ ReadDepth(r) \/ ReadPosition(r) \/ CheckParent(r) \/ CheckMove(r)
         \/ ReadFolder(r) \/ FindDefault(r)
  PROVE  ShapeInv'
  <1> DEFINE q == proc[r]
  <1>1. /\ UNCHANGED <<folder, nextId, tx>> /\ q.pc # "descend"
        /\ proc \in [Requests -> Process] /\ q \in Process /\ WellFormed(q)
        /\ \A s \in Requests : proc[s].pc # "descend"
        /\ Rows = Ids(folder) /\ Holds(folder, q) /\ q.kind \in Serial
    BY DEF ReadDepth, ReadPosition, CheckParent, CheckMove, ReadFolder, FindDefault, TreeInv,
           CoreInv, TypeInv, FoldersTypeOK, TxInv, Free, Rows, Ids, ShapeInv, WellFormed, Serial
  <1>2. ASSUME NEW p, Step(r, p), p.pc # "descend", p.kind = q.kind, Holds(folder, p)
        PROVE  ShapeInv'
    <2>1. proc'[r] = p /\ \A s \in Requests \ {r} : proc'[s] = proc[s]
      BY <1>1, <1>2 DEF Step
    <2> QED
      BY <1>1, <1>2, <2>1, SameTableKeepsShape
  <1>3. CASE Reply(r)
    BY <1>1, <1>3, ReplyKeepsShape
  <1>4. CASE ReadDepth(r)
    <2>1. ASSUME NEW d \in Nat, q.parent = None => d = 0,
                 q.parent \in Rows => d = folder[q.parent].depth + 1
          PROVE  Holds(folder, [q EXCEPT !.pc = "position", !.depth = d])
      BY <1>1, <1>4, <2>1 DEF ReadDepth, Holds, MoveHolds, PlaceHolds, Process
    <2>2. None \notin Rows /\ \A f \in Rows : folder[f].depth + 1 \in Nat
      BY RowsAreRows, FoldersAssumption DEF TreeInv, CoreInv, TypeInv, Row, Rows
    <2>3. \/ Reply(r)
          \/ /\ q.parent = None
             /\ Step(r, [q EXCEPT !.pc = "position", !.depth = 0])
          \/ /\ q.parent \in Rows
             /\ Step(r, [q EXCEPT !.pc = "position", !.depth = folder[q.parent].depth + 1])
      BY <1>4 DEF ReadDepth
    <2>4. \A d : LET p == [q EXCEPT !.pc = "position", !.depth = d]
                 IN p.pc # "descend" /\ p.kind = q.kind
      BY <1>1 DEF Process
    <2> QED
      BY <1>2, <1>3, <2>1, <2>2, <2>3, <2>4
  <1>5. CASE ReadPosition(r)
    <2>1. PICK n \in NextPosition(Siblings(q.owner, q.parent)) :
            Step(r, [q EXCEPT !.pc = "write", !.position = n])
      BY <1>5 DEF ReadPosition
    <2> DEFINE p == [q EXCEPT !.pc = "write", !.position = n]
    <2>2. /\ p.pc = "write" /\ p.kind = q.kind /\ p.position = n /\ p.owner = q.owner
          /\ p.parent = q.parent /\ p.depth = q.depth /\ p.folder = q.folder /\ p.from = q.from
          /\ p.user = q.user
      BY <1>1 DEF Process
    <2>3. \A g \in Ids(folder) : folder[g].owner = q.owner /\ folder[g].parent = q.parent
                                 => folder[g].position < n
      BY <1>1, <2>1 DEF NextPosition, Siblings
    <2>4. Holds(folder, p)
      <3>1. q.pc = "position"
        BY <1>5 DEF ReadPosition
      <3> HIDE DEF p
      <3> QED
        BY <1>1, <2>2, <2>3, <3>1 DEF Holds, MoveHolds, PlaceHolds
    <2> QED
      BY <1>2, <2>1, <2>2, <2>4
  <1>6. CASE CheckParent(r)
    <2> DEFINE p == [q EXCEPT !.pc = "list"]
    <2>1. p.pc = "list" /\ p.kind = q.kind
      BY <1>1 DEF Process
    <2>2. \/ Reply(r)
          \/ /\ Step(r, p)
             /\ q.parent = None \/ (q.parent \in Rows /\ MayUse(q.user, q.parent))
      BY <1>6 DEF CheckParent
    <2>3. q.kind = "move" /\ q.pc = "parent" /\ None \notin Rows
      BY <1>1, <1>6, FoldersAssumption DEF CheckParent, WellFormed, Rows
    <2>4. q.parent = None \/ (q.parent \in Rows /\ MayUse(q.user, q.parent)) => Holds(folder, p)
      BY <1>1, <2>3 DEF Holds, MoveHolds, PlaceHolds, Process, MayUse
    <2> QED
      BY <1>2, <1>3, <2>1, <2>2, <2>4
  <1>7. CASE CheckMove(r)
    <2> DEFINE p == [q EXCEPT !.pc = "read"]
               listed == {f \in Rows : folder[f].owner = q.owner}
    <2>1. p.pc = "read" /\ p.kind = q.kind
      BY <1>1 DEF Process
    <2>2. Reply(r) \/ (Step(r, p) /\ MoveAllowed(q.folder, q.parent, listed))
      BY <1>7 DEF CheckMove
    <2>3. q.kind = "move" /\ q.pc = "list"
      BY <1>1, <1>7 DEF CheckMove, WellFormed
    <2>4. ASSUME MoveAllowed(q.folder, q.parent, listed)
          PROVE  Holds(folder, p)
      <3>1. q.parent # q.folder
        BY <2>4 DEF MoveAllowed
      <3>2. ASSUME q.parent \in Rows
            PROVE  folder[q.parent].parent = None
        <4>1. q.parent \in listed /\ folder[q.parent].depth \in Nat
          BY <1>1, <2>3, <3>2, RowsAreRows
             DEF Holds, MoveHolds, TreeInv, CoreInv, TypeInv, Row
        <4>2. folder[q.parent].depth + 1 <= 1
          BY <2>4, <4>1 DEF MoveAllowed, maxFolderDepth
        <4>3. folder[q.parent].depth = 0
          BY <4>1, <4>2
        <4> QED
          BY <1>1, <3>2, <4>3, TopHasNoParent
      <3> QED
        BY <1>1, <2>3, <3>1, <3>2 DEF Holds, MoveHolds, PlaceHolds, Process
    <2> QED
      BY <1>2, <1>3, <2>1, <2>2, <2>4
  <1>8. CASE ReadFolder(r)
    <2> DEFINE p == [q EXCEPT !.pc = "depth", !.from = folder[q.folder]]
    <2>1. Reply(r) \/ (q.folder \in Rows /\ Step(r, p))
      BY <1>8 DEF ReadFolder
    <2>2. /\ p.pc = "depth" /\ p.kind = q.kind /\ p.from = folder[q.folder] /\ p.folder = q.folder
          /\ p.owner = q.owner /\ p.parent = q.parent /\ p.user = q.user
      BY <1>1 DEF Process
    <2>3. q.kind = "move" /\ q.pc = "read"
      BY <1>1, <1>8 DEF ReadFolder, WellFormed
    <2>4. q.folder \in Rows => Holds(folder, p)
      <3>1. PositionsIn(folder)
        BY DEF TreeInv, ShapeInv
      <3> HIDE DEF p
      <3> QED
        BY <1>1, <2>2, <2>3, <3>1 DEF Holds, MoveHolds, PlaceHolds, PositionsIn, Alike
    <2> QED
      BY <1>2, <1>3, <2>1, <2>2, <2>4
  <1>9. CASE FindDefault(r)
    <2>1. /\ q.kind = "assign" /\ q.pc = "default"
      BY <1>1, <1>9 DEF FindDefault, WellFormed
    <2>2. ASSUME NEW f
          PROVE  LET p == [q EXCEPT !.pc = "file", !.folder = f]
                 IN p.pc # "descend" /\ p.kind = q.kind /\ Holds(folder, p)
      BY <1>1, <2>1 DEF Process, Holds, PlaceHolds
    <2>3. LET p == [q EXCEPT !.pc = "depth", !.dflt = TRUE]
          IN p.pc # "descend" /\ p.kind = q.kind /\ Holds(folder, p)
      BY <1>1, <2>1 DEF Process, Holds, PlaceHolds
    <2>4. \/ \E f : Step(r, [q EXCEPT !.pc = "file", !.folder = f])
          \/ Step(r, [q EXCEPT !.pc = "depth", !.dflt = TRUE])
      BY <1>9 DEF FindDefault
    <2> QED
      BY <1>2, <2>2, <2>3, <2>4
  <1> QED
    BY <1>4, <1>5, <1>6, <1>7, <1>8, <1>9

\* What holds of a table holds of what a deletion leaves of it.
LEMMA LessHolds ==
  ASSUME NEW t, NEW u, NEW q, \A f \in Ids(u) : f \in Ids(t) /\ u[f] = t[f], Holds(t, q)
  PROVE  Holds(u, q)
  <1>1. q.kind = "move" => MoveHolds(u, q)
    BY DEF Holds, MoveHolds
  <1>2. q.kind \in Serial => PlaceHolds(u, q)
    BY DEF Holds, PlaceHolds
  <1> QED
    BY <1>1, <1>2 DEF Holds

LEMMA LessIsTidy ==
  ASSUME NEW t, NEW u, \A f \in Ids(u) : f \in Ids(t) /\ u[f] = t[f], ParentsExist(u)
  PROVE  /\ TreeIn(t) => TreeIn(u)
         /\ PositionsIn(t) => PositionsIn(u)
         /\ DepthsIn(t, {}) => DepthsIn(u, {})
         /\ Fresh(t) => Fresh(u)
  <1>1. TreeIn(t) => TreeIn(u)
    BY DEF TreeIn
  <1>2. PositionsIn(t) => PositionsIn(u)
    BY DEF PositionsIn
  <1>3. DepthsIn(t, {}) => DepthsIn(u, {})
    BY DEF DepthsIn, ParentsExist, Ids
  <1>4. Fresh(t) => Fresh(u)
    BY DEF Fresh
  <1> QED
    BY <1>1, <1>2, <1>3, <1>4

LEMMA DeleteKeepsShape ==
  ASSUME TreeInv, NEW r \in Requests, DeleteFolder(r), CoreInv'
  PROVE  ShapeInv'
  <1>1. PICK gone : folder' = [g \in Id |-> IF g \in gone THEN NoRow ELSE folder[g]]
    BY DEF DeleteFolder
  <1>2. /\ Reply(r) /\ UNCHANGED <<nextId, tx>> /\ tx = NoTx
        /\ \A s \in Requests : proc[s].pc # "descend"
    BY DEF DeleteFolder, Free, TreeInv, CoreInv, TxInv
  <1>3. \A f \in Ids(folder') : f \in Ids(folder) /\ folder'[f] = folder[f]
    BY <1>1 DEF Ids
  <1>4. ParentsExist(folder')
    BY DEF CoreInv
  <1>5. /\ TreeIn(folder') /\ PositionsIn(folder') /\ DepthsIn(folder', {})
    BY <1>2, <1>3, <1>4, LessIsTidy DEF TreeInv, ShapeInv
  <1>6. Fresh(folder)'
    BY <1>2, <1>3 DEF TreeInv, ShapeInv, Fresh
  <1>7. proc'[r] = Idle /\ \A s \in Requests \ {r} : proc'[s] = proc[s]
    BY <1>2, ReplySetsOne DEF TreeInv, CoreInv
  <1>8. ASSUME NEW s \in Requests
        PROVE  proc'[s].pc # "descend" /\ Holds(folder', proc'[s])
    <2>1. CASE s = r
      BY <1>7, <2>1, IdleIsNotSerial, NothingToHold
    <2>2. CASE s # r
      BY <1>2, <1>3, <1>7, <2>2, LessHolds DEF TreeInv, ShapeInv
    <2> QED
      BY <2>1, <2>2
  <1>9. OneSerial'
    BY <1>7, IdleIsNotSerial DEF TreeInv, ShapeInv, OneSerial
  <1> QED
    BY <1>2, <1>5, <1>6, <1>8, <1>9 DEF ShapeInv

\* The serial request changes the table: nobody else relies on it.
LEMMA SerialStep ==
  ASSUME TreeInv, NEW r \in Requests, proc[r].kind \in Serial, NEW q, Step(r, q),
         IF q.pc = "descend" THEN Descends(folder', q)
                             ELSE Holds(folder', q) /\ DepthsIn(folder', {}),
         Fresh(folder)', TreeIn(folder'), PositionsIn(folder'),
         tx' # NoTx => /\ Fresh(tx.before)' /\ TreeIn(tx'.before)
                       /\ PositionsIn(tx'.before) /\ DepthsIn(tx'.before, {})
  PROVE  ShapeInv'
  <1>1. proc'[r] = q /\ \A s \in Requests \ {r} : proc'[s] = proc[s]
    BY StepSetsOne DEF TreeInv, CoreInv
  <1>2. \A s \in Requests \ {r} : proc'[s].kind \notin Serial /\ proc'[s].pc # "descend"
    BY <1>1, OthersAreNotSerial
  <1>3. OneSerial'
    BY <1>2 DEF OneSerial
  <1>4. \A s \in Requests : IF proc'[s].pc = "descend" THEN Descends(folder', proc'[s])
                            ELSE Holds(folder', proc'[s])
    BY <1>1, <1>2, NothingToHold
  <1>5. (\A s \in Requests : proc'[s].pc # "descend") => DepthsIn(folder', {})
    BY <1>1
  <1> QED
    BY <1>3, <1>4, <1>5 DEF ShapeInv

LEMMA InsertKeepsShape ==
  ASSUME TreeInv, NEW r \in Requests, Insert(r)
  PROVE  ShapeInv'
  <1> DEFINE q == proc[r]
             row == [owner |-> q.owner, parent |-> q.parent, depth |-> q.depth,
                     position |-> q.position, dflt |-> q.dflt]
  <1>1. /\ q \in Process /\ WellFormed(q) /\ q.pc = "write" /\ q.kind \in {"create", "assign"}
        /\ tx = NoTx /\ tx' = tx /\ Holds(folder, q)
        /\ \A s \in Requests : proc[s].pc # "descend"
        /\ folder \in Table /\ Rows = Ids(folder)
    BY DEF Insert, Free, TreeInv, CoreInv, TypeInv, FoldersTypeOK, TxInv, ShapeInv, Rows, Ids
  <1>2. CASE Reply(r) /\ UNCHANGED <<folder, nextId>>
    BY <1>1, <1>2, ReplyKeepsShape
  <1>3. CASE /\ q.parent \in Rows \cup {None}
             /\ nextId \in Id /\ folder' = [folder EXCEPT ![nextId] = row] /\ nextId' = nextId + 1
             /\ IF q.kind = "create" THEN Reply(r)
                ELSE Step(r, [Idle EXCEPT !.pc = "file", !.kind = "assign", !.folder = nextId,
                                !.container = q.container])
    <2>1. /\ nextId \notin Ids(folder) /\ nextId \in Nat /\ \A f \in Ids(folder) : f \in Nat
          /\ nextId # None /\ q.parent # nextId
      BY <1>3, FoldersAssumption DEF TreeInv, ShapeInv, Fresh, Ids, Id, Rows
    <2>2. row \in Row /\ row # NoRow
      BY <1>1, <1>3, FoldersAssumption DEF Row, Process, Rows, WellFormed, Serial
    <2>3. /\ Ids(folder') = Ids(folder) \cup {nextId} /\ folder'[nextId] = row
          /\ \A f \in Ids(folder) : folder'[f] = folder[f]
      BY <1>1, <1>3, <2>1, <2>2 DEF Ids, Table
    <2>4. \A f \in Ids(folder) : folder[f].parent # nextId
      BY <2>1 DEF TreeInv, CoreInv, ParentsExist, Ids
    <2>5. Fresh(folder)'
      BY <1>3, <2>1, <2>3 DEF Fresh, TreeInv, ShapeInv
    <2>6. TreeIn(folder')
      <3> SUFFICES ASSUME NEW S \in SUBSET Ids(folder'), S # {}
                   PROVE  \E f \in S : folder'[f].parent \notin S
        BY DEF TreeIn
      <3>1. CASE S \ {nextId} = {}
        BY <2>1, <2>3, <3>1
      <3>2. CASE S \ {nextId} # {}
        <4>1. PICK f \in S \ {nextId} : folder[f].parent \notin S \ {nextId}
          BY <2>3, <3>2 DEF TreeInv, ShapeInv, TreeIn
        <4> QED
          BY <2>3, <2>4, <4>1
      <3> QED
        BY <3>1, <3>2
    <2>7. PositionsIn(folder')
      <3>1. \A g \in Ids(folder) : folder[g].owner = q.owner /\ folder[g].parent = q.parent
                                   => folder[g].position < q.position
        BY <1>1 DEF Holds, PlaceHolds, Serial
      <3>2. \A g \in Ids(folder) : folder[g].position \in Nat
        BY <1>1, RowsAreRows DEF TreeInv, CoreInv, TypeInv, Row
      <3>3. \A g \in Ids(folder) : Alike(folder[g], row) => folder[g].position # row.position
        BY <1>1, <3>1, <3>2 DEF Alike, Process
      <3> QED
        BY <2>3, <3>3 DEF PositionsIn, Alike, TreeInv, ShapeInv
    <2>8. DepthsIn(folder', {})
      <3>1. /\ q.parent = None => q.depth = 0
            /\ q.parent \in Ids(folder) => q.depth = folder[q.parent].depth + 1
        BY <1>1 DEF Holds, PlaceHolds, Serial
      <3>2. \A f \in Ids(folder) : folder[f].parent # None => folder[f].parent \in Ids(folder)
        BY DEF TreeInv, CoreInv, ParentsExist, Ids
      <3> QED
        BY <1>1, <1>3, <2>3, <3>1, <3>2 DEF DepthsIn, TreeInv, ShapeInv
    <2>9. PICK p : Step(r, p) /\ p.pc # "descend" /\ Holds(folder', p)
      <3>1. CASE q.kind = "create"
        BY <1>3, <3>1, IdleIsNotSerial, NothingToHold DEF Reply
      <3>2. CASE q.kind # "create"
        <4> DEFINE p == [Idle EXCEPT !.pc = "file", !.kind = "assign", !.folder = nextId,
                           !.container = q.container]
        <4>1. p.pc = "file" /\ p.kind = "assign"
          BY DEF Idle
        <4> QED
          BY <1>3, <3>2, <4>1 DEF Holds, PlaceHolds
      <3> QED
        BY <3>1, <3>2
    <2> QED
      BY <1>1, <2>5, <2>6, <2>7, <2>8, <2>9, SerialStep DEF Serial
  <1> QED
    BY <1>2, <1>3 DEF Insert

LEMMA BeginMoveKeepsShape ==
  ASSUME TreeInv, NEW r \in Requests, BeginMove(r)
  PROVE  ShapeInv'
  <1> DEFINE q == proc[r]
  <1>1. /\ q \in Process /\ WellFormed(q) /\ q.pc = "write" /\ q.kind = "move" /\ q.from \in Row
        /\ tx = NoTx /\ Holds(folder, q) /\ q.folder \in Id /\ nextId' = nextId
        /\ \A s \in Requests : proc[s].pc # "descend"
        /\ folder \in Table /\ Rows = Ids(folder) /\ DepthsIn(folder, {})
    BY DEF BeginMove, Free, TreeInv, CoreInv, TypeInv, FoldersTypeOK, TxInv, ShapeInv, Rows, Ids,
           WellFormed
  <1>2. CASE Reply(r) /\ UNCHANGED <<folder, tx>>
    BY <1>1, <1>2, ReplyKeepsShape
  <1>3. CASE /\ q.folder \notin Rows \/ q.parent \in Rows \cup {None}
             /\ tx' = [by |-> r, before |-> folder]
             /\ folder' = IF q.folder \notin Rows THEN folder
                          ELSE [folder EXCEPT ![q.folder].parent = q.parent,
                                              ![q.folder].depth = q.depth,
                                              ![q.folder].position = q.position]
             /\ Step(r, [q EXCEPT !.pc = "descend", !.todo = {q.folder}])
    <2> DEFINE p == [q EXCEPT !.pc = "descend", !.todo = {q.folder}]
    <2>1. p.pc = "descend" /\ p.todo = {q.folder} /\ p.from = q.from
      BY <1>1 DEF Process
    <2>2. /\ tx'.before = folder /\ Fresh(tx.before)' /\ TreeIn(tx'.before)
          /\ PositionsIn(tx'.before) /\ DepthsIn(tx'.before, {})
      BY <1>1, <1>3 DEF TreeInv, ShapeInv, Fresh
    <2>3. MoveHolds(folder, q) /\ PlaceHolds(folder, q)
      BY <1>1 DEF Holds, Serial
    <2>4. CASE q.folder \notin Rows
      <3>1. folder' = folder
        BY <1>3, <2>4
      <3>2. Descends(folder', p)
        <4>1. DepthsIn(folder', p.todo)
          BY <1>1, <3>1 DEF DepthsIn
        <4>2. \A g \in Ids(folder') :
                ~(Alike(folder'[g], p.from) /\ folder'[g].position = p.from.position)
          BY <1>1, <2>1, <2>3, <2>4, <3>1 DEF MoveHolds
        <4> QED
          BY <4>1, <4>2 DEF Descends
      <3>3. Fresh(folder)' /\ TreeIn(folder') /\ PositionsIn(folder')
        BY <1>1, <3>1 DEF TreeInv, ShapeInv, Fresh
      <3> HIDE DEF p
      <3> QED
        BY <1>1, <1>3, <2>1, <2>2, <3>2, <3>3, SerialStep DEF Serial, p
    <2>5. CASE q.folder \in Rows
      <3> DEFINE f == q.folder
                 row == [folder[f] EXCEPT !.parent = q.parent, !.depth = q.depth,
                                          !.position = q.position]
      <3>1. /\ folder[f] \in Row /\ q.parent \in Ids(folder) \cup {None} /\ None \notin Id
            /\ q.parent # f /\ (q.parent \in Ids(folder) => folder[q.parent].parent = None)
            /\ folder[f].owner = q.owner /\ Alike(folder[f], q.from)
            /\ folder[f].position = q.from.position
        BY <1>1, <1>3, <2>3, <2>5, RowsAreRows, FoldersAssumption
           DEF TreeInv, CoreInv, TypeInv, MoveHolds, Rows, Id
      <3>2. /\ row \in Row /\ row # NoRow /\ row.owner = q.owner /\ row.parent = q.parent
            /\ row.depth = q.depth /\ row.position = q.position
        BY <1>1, <3>1, FoldersAssumption DEF Row, Process, Ids
      <3>3. folder' = [folder EXCEPT ![f] = row]
        BY <1>1, <1>3, <2>5, <3>1 DEF Table, Row
      <3>4. /\ Ids(folder') = Ids(folder) /\ f \in Ids(folder) /\ folder'[f] = row
            /\ \A g \in Ids(folder) \ {f} : folder'[g] = folder[g]
        BY <1>1, <2>5, <3>2, <3>3 DEF Ids, Table
      <3> HIDE DEF row
      <3>5. TreeIn(folder')
        <4> SUFFICES ASSUME NEW S \in SUBSET Ids(folder'), S # {}
                     PROVE  \E g \in S : folder'[g].parent \notin S
          BY DEF TreeIn
        <4>1. CASE f \notin S
          BY <3>4, <4>1 DEF TreeInv, ShapeInv, TreeIn
        <4>2. CASE f \in S /\ q.parent \notin S
          BY <3>2, <3>4, <4>2
        <4>3. CASE q.parent \in S
          <5>1. q.parent \in Ids(folder) /\ folder'[q.parent].parent = None
            BY <3>1, <3>4, <4>3
          <5>2. None \notin S
            BY <3>1 DEF Ids
          <5> QED
            BY <4>3, <5>1, <5>2
        <4> QED
          BY <4>1, <4>2, <4>3
      <3>6. \A g \in Ids(folder) \ {f} :
              folder[g].owner = q.owner /\ folder[g].parent = q.parent
              => folder[g].position < q.position
        BY <1>1, <2>3 DEF PlaceHolds
      <3>7. q.position \in Nat /\ \A g \in Ids(folder) : folder[g].position \in Nat
        BY <1>1, RowsAreRows DEF TreeInv, CoreInv, TypeInv, Row, Process
      <3>8. PositionsIn(folder')
        <4>1. \A g \in Ids(folder) \ {f} : Alike(folder[g], row) => folder[g].position # row.position
          BY <3>2, <3>6, <3>7 DEF Alike
        <4> QED
          BY <3>4, <4>1 DEF PositionsIn, Alike, TreeInv, ShapeInv
      <3>9. Descends(folder', p)
        <4>1. DepthsIn(folder', {f})
          <5>1. /\ q.parent = None => q.depth = 0
                /\ q.parent \in Ids(folder) => q.depth = folder[q.parent].depth + 1
            BY <1>1, <2>3 DEF PlaceHolds
          <5>2. \A g \in Ids(folder) : folder[g].parent # None => folder[g].parent \in Ids(folder)
            BY DEF TreeInv, CoreInv, ParentsExist, Ids
          <5> QED
            BY <1>1, <3>1, <3>2, <3>4, <5>1, <5>2 DEF DepthsIn
        <4>2. \A g \in Ids(folder) \ {f} :
                ~(Alike(folder[g], q.from) /\ folder[g].position = q.from.position)
          BY <1>1, <2>3 DEF MoveHolds
        <4>3. ~(Alike(row, q.from) /\ row.position = q.from.position)
          <5>1. Alike(row, q.from) => folder[f].owner = q.owner /\ folder[f].parent = q.parent
            BY <3>1, <3>2 DEF Alike
          <5>2. folder[f].owner = q.owner /\ folder[f].parent = q.parent
                => folder[f].position < q.position
            BY <1>1, <2>3, <3>4 DEF PlaceHolds
          <5> QED
            BY <3>1, <3>2, <3>4, <3>7, <5>1, <5>2
        <4> QED
          BY <2>1, <3>4, <4>1, <4>2, <4>3 DEF Descends
      <3>10. Fresh(folder)'
        BY <1>1, <3>4 DEF Fresh, TreeInv, ShapeInv
      <3> HIDE DEF p
      <3> QED
        BY <1>1, <1>3, <2>1, <2>2, <3>5, <3>8, <3>9, <3>10, SerialStep DEF Serial, p
    <2> QED
      BY <2>4, <2>5
  <1> QED
    BY <1>2, <1>3 DEF BeginMove

\* The tree is the parents, whatever else changes.
LEMMA SameParentsSameTree ==
  ASSUME NEW t, NEW u, Ids(u) = Ids(t), \A f \in Ids(t) : u[f].parent = t[f].parent, TreeIn(t)
  PROVE  TreeIn(u)
  BY DEF TreeIn

\* Descending into f puts its children right; those of the children come later.
LEMMA DescendKeepsShape ==
  ASSUME TreeInv, NEW r \in Requests, Descend(r)
  PROVE  ShapeInv'
  <1> DEFINE q == proc[r]
  <1>1. PICK f \in q.todo :
          /\ folder' = [g \in Id |-> IF g \in Children(f)
                                     THEN [folder[g] EXCEPT !.depth = folder[f].depth + 1]
                                     ELSE folder[g]]
          /\ Step(r, [q EXCEPT !.todo = (@ \ {f}) \cup Children(f)])
    BY DEF Descend
  <1>2. /\ q \in Process /\ q.pc = "descend" /\ q.kind = "move" /\ Descends(folder, q)
        /\ UNCHANGED <<nextId, tx>> /\ f \in Id
    BY DEF Descend, TreeInv, ShapeInv, CoreInv, TypeInv, FoldersTypeOK, WellFormed, Process
  <1>3. Children(f) = {g \in Ids(folder) : folder[g].parent = f}
    BY DEF Children, Rows, Ids
  <1>4. \A g \in Ids(folder) : folder[g] \in Row
    BY RowsAreRows DEF TreeInv, CoreInv, TypeInv, Rows, Ids
  <1>5. \A g \in Children(f) : /\ folder'[g] \in Row /\ folder'[g].parent = folder[g].parent
                               /\ folder'[g].owner = folder[g].owner
                               /\ folder'[g].position = folder[g].position
                               /\ folder'[g].depth = folder[f].depth + 1
    <2>1. ASSUME NEW g \in Children(f)
          PROVE  folder[f].depth + 1 \in Nat /\ folder[g] \in Row
      <3>1. f \in Ids(folder)
        BY <1>2, <1>3, FoldersAssumption DEF TreeInv, CoreInv, ParentsExist, Ids
      <3> QED
        BY <1>3, <1>4, <3>1 DEF Row
    <2>2. ASSUME NEW g \in Children(f)
          PROVE  folder'[g] = [folder[g] EXCEPT !.depth = folder[f].depth + 1]
      BY <1>1, <1>3 DEF Ids
    <2> QED
      BY <2>1, <2>2 DEF Row
  <1>6. \A g \in Id \ Children(f) : folder'[g] = folder[g]
    BY <1>1
  <1>7. Ids(folder') = Ids(folder)
    BY <1>3, <1>5, <1>6, FoldersAssumption DEF Ids
  <1>8. \A g \in Ids(folder) : /\ folder'[g].parent = folder[g].parent
                               /\ folder'[g].owner = folder[g].owner
                               /\ folder'[g].position = folder[g].position
    BY <1>5, <1>6 DEF Ids
  <1>9. TreeIn(folder') /\ Fresh(folder)'
    BY <1>2, <1>7, <1>8, SameParentsSameTree DEF TreeInv, ShapeInv, Fresh
  <1>10. PositionsIn(folder')
    BY <1>7, <1>8 DEF TreeInv, ShapeInv, PositionsIn, Alike
  <1> DEFINE p == [q EXCEPT !.todo = (@ \ {f}) \cup Children(f)]
  <1>11. /\ p.pc = "descend" /\ p.todo = (q.todo \ {f}) \cup Children(f) /\ p.from = q.from
    BY <1>2 DEF Process
  <1>12. Descends(folder', p)
    <2>1. f \notin Children(f)
      <3>1. f \in Children(f) => {f} \in SUBSET Ids(folder) /\ folder[f].parent = f
        BY <1>3
      <3> QED
        BY <3>1 DEF TreeInv, ShapeInv, TreeIn
    <2>2. ASSUME NEW g \in Ids(folder)
          PROVE  IF folder'[g].parent = None THEN folder'[g].depth = 0
                 ELSE \/ folder'[g].parent \in p.todo
                      \/ folder'[g].depth = folder'[folder'[g].parent].depth + 1
      <3>1. CASE g \in Children(f)
        <4>1. folder'[g].parent = f /\ folder'[g].depth = folder[f].depth + 1 /\ f # None
          BY <1>2, <1>3, <1>5, <3>1, FoldersAssumption
        <4>2. folder'[f] = folder[f]
          BY <1>2, <1>6, <2>1
        <4> QED
          BY <4>1, <4>2
      <3>2. CASE g \notin Children(f)
        <4>1. folder'[g] = folder[g] /\ folder[g].parent # f
          BY <1>3, <1>6, <3>2 DEF Ids
        <4>2. folder[g].parent # None => folder[g].parent \in Id
          BY DEF TreeInv, CoreInv, ParentsExist, Ids
        <4>3. CASE folder[g].parent \in Children(f)
          BY <1>11, <4>1, <4>2, <4>3, <1>3, <1>2, FoldersAssumption DEF Descends, DepthsIn, Ids
        <4>4. CASE folder[g].parent \notin Children(f)
          BY <1>2, <1>6, <1>11, <4>1, <4>2, <4>4 DEF Descends, DepthsIn
        <4> QED
          BY <4>3, <4>4
      <3> QED
        BY <3>1, <3>2
    <2>3. \A g \in Ids(folder') :
            ~(Alike(folder'[g], p.from) /\ folder'[g].position = p.from.position)
      BY <1>2, <1>7, <1>8, <1>11 DEF Descends, Alike
    <2> QED
      BY <1>7, <2>2, <2>3 DEF Descends, DepthsIn
  <1>13. tx' # NoTx => /\ Fresh(tx.before)' /\ TreeIn(tx'.before)
                       /\ PositionsIn(tx'.before) /\ DepthsIn(tx'.before, {})
    BY <1>2 DEF TreeInv, ShapeInv, Fresh
  <1> HIDE DEF p
  <1> QED
    BY <1>1, <1>2, <1>9, <1>10, <1>11, <1>12, <1>13, SerialStep DEF Serial, p

\* The end of a transaction: the request is answered, the table is in order.
LEMMA EndKeepsShape ==
  ASSUME TreeInv, NEW r \in Requests, proc[r].pc = "descend", Reply(r), tx' = NoTx,
         Fresh(folder)', TreeIn(folder'), PositionsIn(folder'), DepthsIn(folder', {})
  PROVE  ShapeInv'
  <1>1. proc[r].kind \in Serial
    BY DEF TreeInv, CoreInv, TypeInv, WellFormed, Serial
  <1> QED
    BY <1>1, IdleIsNotSerial, NothingToHold, SerialStep DEF Reply

\* Closing the gap keeps the siblings apart, for nobody is in it.
LEMMA CommitMoveKeepsShape ==
  ASSUME TreeInv, NEW r \in Requests, CommitMove(r)
  PROVE  ShapeInv'
  <1> DEFINE was == proc[r].from
             Shifted(g) == Alike(folder[g], was) /\ folder[g].position > was.position
  <1>1. /\ proc[r].pc = "descend" /\ proc[r].todo = {} /\ Reply(r) /\ tx' = NoTx
        /\ nextId' = nextId /\ Descends(folder, proc[r]) /\ was \in Row
    BY DEF CommitMove, TreeInv, ShapeInv, CoreInv, TypeInv, WellFormed
  <1>2. folder' = [g \in Id |-> IF g \in Ids(folder) /\ Shifted(g)
                                THEN [folder[g] EXCEPT !.position = @ - 1]
                                ELSE folder[g]]
    BY DEF CommitMove, Siblings, Rows, Ids, Alike
  <1>3. \A g \in Ids(folder) : folder[g] \in Row
    BY RowsAreRows DEF TreeInv, CoreInv, TypeInv, Rows, Ids
  <1> HIDE DEF Shifted
  <1>4. ASSUME NEW g \in Ids(folder)
        PROVE  /\ folder'[g].parent = folder[g].parent /\ folder'[g].owner = folder[g].owner
               /\ folder'[g].depth = folder[g].depth /\ folder'[g] # NoRow
               /\ folder'[g].position = IF Shifted(g) THEN folder[g].position - 1
                                        ELSE folder[g].position
    <2>1. g \in Id /\ folder[g] \in Row
      BY <1>3 DEF Ids
    <2>2. CASE Shifted(g)
      <3>1. folder'[g] = [folder[g] EXCEPT !.position = @ - 1]
        BY <1>2, <2>1, <2>2
      <3>2. folder[g].position - 1 \in Nat
        BY <1>1, <2>1, <2>2 DEF Shifted, Row
      <3>3. folder'[g] \in Row
        BY <2>1, <3>1, <3>2 DEF Row
      <3> QED
        BY <2>1, <2>2, <3>1, <3>3, FoldersAssumption DEF Row
    <2>3. CASE ~Shifted(g)
      BY <1>2, <2>1, <2>3 DEF Ids
    <2> QED
      BY <2>2, <2>3
  <1>5. Ids(folder') = Ids(folder)
    <2>1. \A g \in Id \ Ids(folder) : folder'[g] = NoRow
      BY <1>2 DEF Ids
    <2> QED
      BY <1>4, <2>1 DEF Ids
  <1>6. TreeIn(folder') /\ Fresh(folder)'
    BY <1>1, <1>4, <1>5, SameParentsSameTree DEF TreeInv, ShapeInv, Fresh
  <1>7. DepthsIn(folder', {})
    <2>1. DepthsIn(folder, {})
      BY <1>1 DEF Descends
    <2>2. \A g \in Ids(folder) : folder[g].parent # None => folder[g].parent \in Ids(folder)
      BY DEF TreeInv, CoreInv, ParentsExist, Ids
    <2> QED
      BY <1>4, <1>5, <2>1, <2>2 DEF DepthsIn
  <1>8. PositionsIn(folder')
    <2> SUFFICES ASSUME NEW g \in Ids(folder'), NEW h \in Ids(folder'),
                        Alike(folder'[g], folder'[h]), folder'[g].position = folder'[h].position
                 PROVE  g = h
      BY DEF PositionsIn
    <2>1. Alike(folder[g], folder[h])
      BY <1>4, <1>5 DEF Alike
    <2>2. folder[g].position = folder[h].position => g = h
      BY <1>5, <2>1 DEF TreeInv, ShapeInv, PositionsIn
    <2>3. CASE ~Alike(folder[g], was)
      BY <1>4, <1>5, <2>1, <2>2, <2>3 DEF Shifted, Alike
    <2>4. CASE Alike(folder[g], was)
      <3>1. Alike(folder[h], was)
        BY <2>1, <2>4 DEF Alike
      <3>2. /\ folder[g].position # was.position /\ folder[h].position # was.position
            /\ folder[g].position \in Nat /\ folder[h].position \in Nat /\ was.position \in Nat
        BY <1>1, <1>3, <1>5, <2>4, <3>1 DEF Descends, Row
      <3>3. /\ Shifted(g) <=> folder[g].position > was.position
            /\ Shifted(h) <=> folder[h].position > was.position
        BY <2>4, <3>1 DEF Shifted
      <3> QED
        BY <1>4, <1>5, <2>2, <3>2, <3>3
    <2> QED
      BY <2>3, <2>4
  <1> QED
    BY <1>1, <1>6, <1>7, <1>8, EndKeepsShape

LEMMA FailKeepsShape ==
  ASSUME TreeInv, NEW r \in Requests, StatementFails(r)
  PROVE  ShapeInv'
  <1>1. Reply(r) /\ nextId' = nextId
    BY DEF StatementFails
  <1>2. CASE Free /\ UNCHANGED <<folder, tx>>
    <2>1. proc[r].pc # "descend"
      BY <1>2 DEF TreeInv, CoreInv, TxInv, Free
    <2> QED
      BY <1>1, <1>2, <2>1, ReplyKeepsShape
  <1>3. CASE proc[r].pc = "descend" /\ folder' = tx.before /\ tx' = NoTx
    <2>1. tx # NoTx
      BY <1>3 DEF TreeInv, CoreInv, TxInv
    <2>2. /\ Fresh(folder)' /\ TreeIn(folder') /\ PositionsIn(folder') /\ DepthsIn(folder', {})
      BY <1>1, <1>3, <2>1 DEF TreeInv, ShapeInv, Fresh
    <2> QED
      BY <1>1, <1>3, <2>2, EndKeepsShape
  <1>4. CASE proc[r].pc = "file" /\ Free /\ tx' = [by |-> r, before |-> folder] /\ UNCHANGED folder
    <2>1. \A s \in Requests : proc[s].pc # "descend"
      BY <1>4 DEF TreeInv, CoreInv, TxInv, Free
    <2> QED
      BY <1>1, <1>4, <2>1, ReplyKeepsShape
  <1> QED
    BY <1>2, <1>3, <1>4 DEF StatementFails

\* An agent that starts finds the table of before the transaction.
LEMMA RestartKeepsShape ==
  ASSUME TreeInv, Restart
  PROVE  ShapeInv'
  <1>1. /\ folder' = (IF tx = NoTx THEN folder ELSE tx.before)
        /\ tx' = NoTx /\ proc' = [r \in Requests |-> Idle] /\ nextId' = nextId
    BY DEF Restart
  <1>2. \A r \in Requests : /\ proc'[r].pc # "descend" /\ proc'[r].kind \notin Serial
    BY <1>1, IdleIsNotSerial
  <1>3. tx = NoTx => DepthsIn(folder, {})
    BY DEF TreeInv, ShapeInv, CoreInv, TxInv
  <1>4. /\ Fresh(folder)' /\ TreeIn(folder') /\ PositionsIn(folder') /\ DepthsIn(folder', {})
    BY <1>1, <1>3 DEF TreeInv, ShapeInv, Fresh
  <1>5. \A r \in Requests : Holds(folder', proc'[r])
    BY <1>2, NothingToHold
  <1> QED
    BY <1>1, <1>2, <1>4, <1>5 DEF ShapeInv, OneSerial

LEMMA RequestKeepsShape ==
  ASSUME TreeInv, Differ(place), ~Overlap, Admins = {}, NEW r \in Requests,
         Ask(r) \/ Run(r) \/ StatementFails(r)
  PROVE  ShapeInv'
  <1>1. CASE Ask(r)
    BY <1>1, AskKeepsShape
  <1>2. CASE Create(r)
    BY <1>2, LookKeepsShape, InsertKeepsShape DEF Create
  <1>3. CASE Move(r)
    BY <1>3, LookKeepsShape, BeginMoveKeepsShape, DescendKeepsShape, CommitMoveKeepsShape DEF Move
  <1>4. CASE DeleteFolder(r)
    BY <1>4, DeleteKeepsCore, DeleteKeepsShape DEF TreeInv
  <1>5. CASE FindDefault(r)
    BY <1>5, LookKeepsShape
  <1>6. CASE File(r) \/ Unlink(r) \/ Reorder(r)
    <2>1. Reply(r) /\ UNCHANGED <<folder, nextId, tx>> /\ proc[r].pc # "descend"
      BY <1>6 DEF File, Unlink, Reorder
    <2> QED
      BY <2>1, ReplyKeepsShape
  <1>7. CASE StatementFails(r)
    BY <1>7, FailKeepsShape
  <1> QED
    BY <1>1, <1>2, <1>3, <1>4, <1>5, <1>6, <1>7 DEF Run, Arrange

LEMMA NextKeepsShape ==
  ASSUME ~Overlap, Admins = {}, CoreStep, ShapeInv, [Next]_vars
  PROVE  CoreStep' /\ ShapeInv'
  <1>1. TreeInv /\ Differ(place)
    BY DEF TreeInv, CoreStep
  <1> SUFFICES ShapeInv'
    BY NextKeepsCore
  <1>2. CASE \E r \in Requests : Ask(r) \/ Run(r) \/ StatementFails(r)
    BY <1>1, <1>2, RequestKeepsShape
  <1>3. CASE Restart
    BY <1>1, <1>3, RestartKeepsShape
  <1>4. CASE UNCHANGED <<folder, nextId, tx, proc>>
    BY <1>4 DEF ShapeInv, OneSerial, Fresh
  <1>5. RemoveContainer => UNCHANGED <<folder, nextId, tx, proc>>
    BY DEF RemoveContainer
  <1> QED
    BY <1>2, <1>3, <1>4, <1>5 DEF Next, vars

LEMMA InitIsInShape == Init => ShapeInv
  <1> SUFFICES ASSUME Init
               PROVE  ShapeInv
    OBVIOUS
  <1>1. /\ tx = NoTx /\ proc = [r \in Requests |-> Idle]
        /\ \/ folder = [f \in Id |-> NoRow] /\ nextId = 1
           \/ /\ \E u \in Users : folder = [f \in Id |-> IF f = 1 THEN DefaultOf(u) ELSE NoRow]
              /\ nextId = 2
    BY DEF Init
  <1>2. \A r \in Requests : proc[r].pc # "descend" /\ proc[r].kind \notin Serial
    BY <1>1, IdleIsNotSerial
  <1>3. /\ \A f \in Ids(folder) : /\ f = 1 /\ f < nextId /\ folder[f].parent = None
                                  /\ folder[f].depth = 0
    BY <1>1 DEF Ids, DefaultOf
  <1>4. None \notin Ids(folder)
    BY FoldersAssumption DEF Ids
  <1>5. Fresh(folder) /\ TreeIn(folder) /\ PositionsIn(folder) /\ DepthsIn(folder, {})
    BY <1>3, <1>4 DEF Fresh, TreeIn, PositionsIn, DepthsIn
  <1>6. \A r \in Requests : Holds(folder, proc[r])
    BY <1>2, NothingToHold
  <1> QED
    BY <1>1, <1>2, <1>5, <1>6 DEF ShapeInv, OneSerial

\* The shape of the table and what each request relies on hold at all times.
LEMMA ShapeAlways ==
  ASSUME ~Overlap, Admins = {}
  PROVE  Spec => [](CoreStep /\ ShapeInv)
  <1>1. Init => CoreStep /\ ShapeInv
    BY InitIsCore, InitIsInShape
  <1>2. CoreStep /\ ShapeInv /\ [Next]_vars => (CoreStep /\ ShapeInv)'
    BY NextKeepsShape
  <1> QED
    BY <1>1, <1>2, PTL DEF Spec

-----------------------------------------------------------------------------
(* The order of filed containers *)

\* No container of c's folder but c is at c's position.
LEMMA WithoutKeepsOrder ==
  ASSUME CoreStep, NEW x \in Container, NEW c \in Container \ {x}, NEW d \in Container \ {x},
         place[c] # None, place[d] # None, place[c].folder = place[d].folder,
         place[c].position < place[d].position
  PROVE  Without(x)[c].position < Without(x)[d].position
  <1>1. place[c] \in Place /\ place[d] \in Place
    BY DEF CoreStep, CoreInv, TypeInv, FoldersTypeOK
  <1>2. CASE place[x] = None \/ place[x].folder # place[c].folder
    BY <1>1, <1>2 DEF Without
  <1>3. CASE place[x] # None /\ place[x].folder = place[c].folder
    <2>1. place[x] \in Place /\ place[c].position # place[x].position
          /\ place[d].position # place[x].position
      BY <1>1, <1>3 DEF CoreStep, CoreInv, TypeInv, FoldersTypeOK, Differ
    <2>2. ASSUME NEW e \in {c, d}
          PROVE  Without(x)[e].position = IF place[e].position > place[x].position
                                          THEN place[e].position - 1 ELSE place[e].position
      BY <1>1, <1>3, <2>1 DEF Without, Place
    <2> QED
      BY <1>1, <2>1, <2>2 DEF Place
  <1> QED
    BY <1>2, <1>3

LEMMA MakeWayKeepsOrder ==
  ASSUME NEW old \in Nat, NEW new \in Nat, NEW p \in Nat, NEW q \in Nat,
         p # old, q # old, p < q
  PROVE  MakeWay(old, new, p) < MakeWay(old, new, q)
  BY DEF MakeWay

\* The containers c and d are filed in one folder, c before d, in table t.
Before(t, c, d) ==
  t[c] # None /\ t[d] # None /\ t[c].folder = t[d].folder /\ t[c].position < t[d].position

LEMMA ArrangeKeepsOrder ==
  ASSUME CoreStep, NEW r \in Requests, Run(r), NEW c \in Container, NEW d \in Container,
         ~Handled(c), ~Handled(d), Before(place, c, d), place'[c] # None, place'[d] # None
  PROVE  place'[c].position < place'[d].position
  <1> DEFINE x == proc[r].container
  <1>1. CASE place'[c] = place[c] /\ place'[d] = place[d]
    BY <1>1 DEF Before
  <1>2. place[c] \in Place /\ place[d] \in Place
    BY DEF CoreStep, CoreInv, TypeInv, FoldersTypeOK, Before
  <1>3. ASSUME proc[r].pc \in {"file", "reorder"}, Reply(r)
        PROVE  x \in Container /\ c # x /\ d # x
    <2>1. proc'[r].pc = "idle" /\ x \in Container
      BY <1>3, ReplySetsOne DEF CoreStep, CoreInv, TypeInv, WellFormed
    <2> QED
      BY <1>3, <2>1 DEF Handled
  <1>4. CASE File(r)
    <2>1. x \in Container /\ c # x /\ d # x
      BY <1>3, <1>4 DEF File
    <2>2. \/ place' = place
          \/ place'[c] = Without(x)[c] /\ place'[d] = Without(x)[d]
      BY <1>4, <2>1 DEF File, Without
    <2> QED
      BY <1>1, <2>1, <2>2, WithoutKeepsOrder DEF Before
  <1>5. CASE Reorder(r)
    <2> DEFINE filed == Filed(proc[r].folder, place)
               last == Cardinality(filed) - 1
               k == IF proc[r].index < 0 THEN 0
                    ELSE IF proc[r].index > last THEN last ELSE proc[r].index
    <2>1. x \in Container /\ c # x /\ d # x
      BY <1>3, <1>5 DEF Reorder
    <2>2. CASE place' = place
      BY <1>1, <2>2
    <2>3. CASE /\ x \in filed
               /\ place' = [e \in Container |->
                    IF e = x THEN [place[e] EXCEPT !.position = k]
                    ELSE IF e \in filed
                    THEN [place[e] EXCEPT !.position = MakeWay(place[x].position, k, @)]
                    ELSE place[e]]
      <3>1. CASE c \notin filed
        <4>1. d \notin filed
          BY <3>1 DEF Filed, Before
        <4> QED
          BY <1>1, <2>1, <2>3, <3>1, <4>1
      <3>2. CASE c \in filed
        <4>1. d \in filed
          BY <3>2 DEF Filed, Before
        <4>2. k \in Nat
          <5>1. IsFiniteSet(filed)
            BY FoldersAssumption, FS_Subset DEF Filed
          <5>2. Cardinality(filed) \in Nat /\ Cardinality(filed) # 0
            BY <3>2, <5>1, FS_CardinalityType, FS_EmptySet
          <5>3. proc[r].index \in Int
            BY DEF CoreStep, CoreInv, TypeInv, FoldersTypeOK, Process
          <5> QED
            BY <5>2, <5>3
        <4>3. /\ place[x] \in Place /\ place[x] # None /\ place[x].folder = place[c].folder
              /\ place[x].folder = place[d].folder
          BY <2>3, <3>2, <4>1 DEF Filed, CoreStep, CoreInv, TypeInv, FoldersTypeOK
        <4>4. place[c].position # place[x].position /\ place[d].position # place[x].position
          BY <2>1, <4>3 DEF CoreStep, Differ, Before
        <4> HIDE DEF k, filed
        <4>5. /\ place'[c] = [place[c] EXCEPT
                                !.position = MakeWay(place[x].position, k, place[c].position)]
              /\ place'[d] = [place[d] EXCEPT
                                !.position = MakeWay(place[x].position, k, place[d].position)]
          BY <2>1, <2>3, <3>2, <4>1
        <4>6. /\ place[x].position \in Nat /\ place[c].position \in Nat
              /\ place[d].position \in Nat
          BY <1>2, <4>3 DEF Place
        <4>7. MakeWay(place[x].position, k, place[c].position)
                < MakeWay(place[x].position, k, place[d].position)
          BY <4>2, <4>4, <4>6, MakeWayKeepsOrder DEF Before
        <4> QED
          BY <1>2, <4>5, <4>7 DEF Place
      <3> QED
        BY <3>1, <3>2
    <2> QED
      BY <1>5, <2>2, <2>3 DEF Reorder
  <1>6. CASE DeleteFolder(r)
    BY <1>1, <1>6 DEF DeleteFolder
  <1>7. CASE Unlink(r)
    BY <1>1, <1>7 DEF Unlink, Filed
  <1>8. CASE place' = place
    BY <1>1, <1>8
  <1>9. Create(r) \/ Move(r) \/ FindDefault(r) => place' = place
    BY DEF Create, ReadDepth, ReadPosition, Insert, Move, CheckParent, CheckMove, ReadFolder,
           BeginMove, Descend, CommitMove, FindDefault
  <1> QED
    BY <1>4, <1>5, <1>6, <1>7, <1>8, <1>9 DEF Run, Arrange

-----------------------------------------------------------------------------
(* Theorems *)

\* Whatever requests overlap, statements fail or restarts interrupt: the tables
\* hold folders and filed containers, and no depth or position is negative.
THEOREM FoldersTypeCorrect == Spec => []FoldersTypeOK
  <1>1. CoreStep => FoldersTypeOK
    BY DEF CoreStep, CoreInv, TypeInv
  <1> QED
    BY InitIsCore, NextKeepsCore, <1>1, PTL DEF Spec

\* The containers filed in a folder never share a position, whatever requests
\* file, reorder, unlink and delete at the same time (store/folders.go:179-299).
THEOREM PlacesAlwaysDiffer == Spec => []PlacesDiffer
  <1>1. CoreStep => PlacesDiffer
    BY DEF CoreStep, Differ, PlacesDiffer
  <1> QED
    BY InitIsCore, NextKeepsCore, <1>1, PTL DEF Spec

\* Filing, reordering, unlinking and deleting leave the other containers of a
\* folder in the order they had, whatever requests overlap
\* (store/folders.go:197-205, 269-286).
THEOREM OthersAlwaysKeepOrder == Spec => OthersKeepOrder
  <1>1. CoreStep /\ [Next]_vars
          => [\A c, d \in Container :
                (/\ ~Handled(c) /\ ~Handled(d)
                 /\ place[c] # None /\ place[d] # None /\ place'[c] # None /\ place'[d] # None
                 /\ place[c].folder = place[d].folder /\ place[c].position < place[d].position)
                => place'[c].position < place'[d].position]_vars
    <2> SUFFICES ASSUME CoreStep, [Next]_vars, NEW c \in Container, NEW d \in Container,
                        ~Handled(c), ~Handled(d), Before(place, c, d),
                        place'[c] # None, place'[d] # None
                 PROVE  place'[c].position < place'[d].position
      BY DEF Before
    <2>1. CASE \E r \in Requests : Run(r)
      BY <2>1, ArrangeKeepsOrder
    <2>2. CASE place' = place
      BY <2>2 DEF Before
    <2>3. CASE RemoveContainer
      <3>1. place'[c] = place[c] /\ place'[d] = place[d]
        BY <2>3 DEF RemoveContainer, CoreStep, CoreInv, TypeInv, FoldersTypeOK
      <3> QED
        BY <3>1 DEF Before
    <2>4. \A r \in Requests : Ask(r) \/ StatementFails(r) => place' = place
      BY DEF Ask, AskCreate, AskMove, AskDelete, AskContainer, AskAssign, StatementFails
    <2>5. Restart \/ UNCHANGED vars => place' = place
      BY DEF Restart, vars
    <2> QED
      BY <2>1, <2>2, <2>3, <2>4, <2>5 DEF Next
  <1> QED
    BY InitIsCore, NextKeepsCore, <1>1, PTL DEF Spec, OthersKeepOrder

\* While requests that create or move folders do not overlap and no user is an
\* administrator, folders never lie in themselves, also inside a transaction, so
\* the update of the depths always ends (handlers/folders.go:520-570,
\* store/folders.go:386-421).
THEOREM FoldersFormATree ==
  ASSUME ~Overlap, Admins = {}
  PROVE  Spec => []Forest
  <1>1. CoreStep /\ ShapeInv => Forest
    BY DEF ShapeInv, TreeIn, Forest, Rows, Ids
  <1> QED
    BY <1>1, ShapeAlways, PTL

\* Under the same conditions every depth in the table is the real one, whatever
\* is deleted, refused, rolled back or interrupted meanwhile.
THEOREM DepthsAreAlwaysRight ==
  ASSUME ~Overlap, Admins = {}
  PROVE  Spec => []DepthsAreRight
  <1>1. CoreStep /\ ShapeInv => DepthsAreRight
    BY DEF CoreStep, CoreInv, TxInv, Free, ShapeInv, DepthsIn, DepthsAreRight, Rows, Ids
  <1> QED
    BY <1>1, ShapeAlways, PTL

\* And no two folders of a user in the same place share a position.
THEOREM FoldersKeepApart ==
  ASSUME ~Overlap, Admins = {}
  PROVE  Spec => []PositionsDiffer
  <1>1. CoreStep /\ ShapeInv => PositionsDiffer
    BY DEF ShapeInv, PositionsIn, Alike, PositionsDiffer, Rows, Ids
  <1> QED
    BY <1>1, ShapeAlways, PTL

=============================================================================
