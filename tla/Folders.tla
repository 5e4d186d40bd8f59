------------------------------ MODULE Folders ------------------------------
(***************************************************************************)
(* Folders of the dashboard and the containers filed in them               *)
(* (store/folders.go, handlers/folders.go): creating, moving and deleting  *)
(* folders, filing, reordering and unlinking containers, statement by      *)
(* statement.                                                              *)
(*                                                                         *)
(* The store has one connection: outside a transaction every statement is  *)
(* a step of its own; while a transaction is open nobody else's statement  *)
(* runs.  A transaction without a loop is one step.  Names are abstracted  *)
(* to being "Default" or not; a name that is taken is refused like any     *)
(* failing statement.                                                      *)
(***************************************************************************)
EXTENDS Integers, FiniteSets

CONSTANTS
  Requests,     \* in-flight requests
  Users,
  Admins,       \* users with the role admin or super_admin
  Container,    \* containers that may be filed in a folder
  None,         \* SQL NULL
  NoRow,        \* there is no folder of that id
  NoTx,         \* no transaction is open
  Overlap,      \* BOOLEAN: may two requests that create or move folders overlap?
  MaxFolders,   \* bound: folders ever created
  MaxDepth,     \* bound: the depth update is followed down to here
  Limit,        \* bound: how many requests of each kind, faults, restarts
  MaxEvents     \* bound: how many of those in all

Id == 1 .. MaxFolders
Row == [owner : Users, parent : Id \cup {None}, depth : Nat, position : Nat, dflt : BOOLEAN]
Table == [Id -> Row \cup {NoRow}]
Place == [folder : Id, position : Nat]
Budget == {"create", "move", "delete", "file", "fault", "restart"}

ASSUME FoldersAssumption ==
  /\ Admins \subseteq Users /\ IsFiniteSet(Container)
  /\ None \notin Id \cup Users \cup Container \cup Place
  /\ NoRow \notin Row
  /\ NoTx \notin [by : Requests, before : Table]
  /\ Overlap \in BOOLEAN
  /\ MaxFolders \in Nat \ {0} /\ MaxDepth \in Nat
  /\ Limit \in [Budget -> Nat] /\ MaxEvents \in Nat

VARIABLES
  folder,   \* table folders
  nextId,   \* its AUTOINCREMENT
  place,    \* table folder_containers: only MoveContainerToFolder inserts, and
            \* it deletes the container's other rows first, so a function
  tx,       \* the open transaction and the table to roll back to
  proc,     \* what each request is doing
  used      \* how much of each Limit is spent

vars == <<folder, nextId, place, tx, proc, used>>

PC == {"idle", "parent", "list", "read", "depth", "position", "write", "descend",
       "delete", "default", "file", "unlink", "reorder"}
Kind == {"none", "create", "move", "delete", "assign", "file", "unlink", "reorder"}
Process == [pc : PC, kind : Kind, user : Users \cup {None},
            folder : Id \cup {None}, parent : Id \cup {None}, dflt : BOOLEAN,
            owner : Users \cup {None}, from : Row \cup {NoRow}, depth : Nat,
            position : Nat, todo : SUBSET Id, container : Container \cup {None},
            index : Int]
Idle == [pc |-> "idle", kind |-> "none", user |-> None, folder |-> None, parent |-> None,
         dflt |-> FALSE, owner |-> None, from |-> NoRow, depth |-> 0, position |-> 0,
         todo |-> {}, container |-> None, index |-> 0]

-----------------------------------------------------------------------------
Rows == {f \in Id : folder[f] # NoRow}
Siblings(u, p) == {f \in Rows : folder[f].owner = u /\ folder[f].parent = p}
Children(f) == {g \in Rows : folder[g].parent = f}

\* Mutant: the number of folders instead of the largest position.
CountSiblings(S) == {Cardinality(S)}
\* nextFolderPosition: COALESCE(MAX(position), -1) + 1.
NextPosition(S) ==
  {n \in {0} \cup {folder[f].position + 1 : f \in S} : \A f \in S : folder[f].position < n}

\* The loop of isDescendant: from g upwards, as long as the folder is in the
\* listing, until it meets f.
IsDescendant(g, f, listed) ==
  \A S \in SUBSET Id :
    (/\ g \in S
     /\ \A h \in S \cap listed : folder[h].parent # None => folder[h].parent \in S)
    => f \in S

maxFolderDepth == 1

\* Mutant: the folder itself and what lies in it are not excluded.
DepthOnly(f, p, listed) ==
  LET newDepth == IF p \in listed THEN folder[p].depth + 1 ELSE 0
  IN  /\ newDepth <= maxFolderDepth
      /\ f \in listed => folder[f].depth + newDepth <= maxFolderDepth
\* validateFolderMove
MoveAllowed(f, p, listed) ==
  LET newDepth == IF p \in listed THEN folder[p].depth + 1 ELSE 0
  IN  /\ f # p
      /\ p # None => ~IsDescendant(p, f, listed)
      /\ newDepth <= maxFolderDepth
      /\ f \in listed => folder[f].depth + newDepth <= maxFolderDepth

Running(r) == proc[r].pc # "idle"
Step(r, q) == proc' = [proc EXCEPT ![r] = q]
\* The handler answers, with whatever status.
Reply(r) == Step(r, Idle)

Events == used["create"] + used["move"] + used["delete"] + used["file"]
          + used["fault"] + used["restart"]
Spend(b) ==
  /\ used[b] < Limit[b] /\ Events < MaxEvents
  /\ used' = [used EXCEPT ![b] = @ + 1]

Free == tx = NoTx
Alone == Overlap \/ \A s \in Requests : proc[s].kind \notin {"create", "move", "assign"}
MayUse(u, f) == folder[f].owner = u \/ u \in Admins

-----------------------------------------------------------------------------
DefaultOf(u) == [owner |-> u, parent |-> None, depth |-> 0, position |-> 0, dflt |-> TRUE]

\* A user of before the folders has a Default folder, users added later have none.
Init ==
  /\ \/ folder = [f \in Id |-> NoRow] /\ nextId = 1
     \/ /\ \E u \in Users : folder = [f \in Id |-> IF f = 1 THEN DefaultOf(u) ELSE NoRow]
        /\ nextId = 2
  /\ place = [c \in Container |-> None]
  /\ tx = NoTx
  /\ proc = [r \in Requests |-> Idle]
  /\ used = [b \in Budget |-> 0]

-----------------------------------------------------------------------------
(* Creating a folder: createFolder, and the "Default" folder that listing or *)
(* assigning containers makes for a user who has none                        *)

AskCreate(r) ==
  /\ ~Running(r) /\ Alone /\ Spend("create")
  /\ \E u \in Users, p \in Rows \cup {None}, dflt \in BOOLEAN :
       Step(r, [Idle EXCEPT !.pc = "depth", !.kind = "create", !.owner = u,
                  !.parent = p, !.dflt = dflt])
  /\ UNCHANGED <<folder, nextId, place, tx>>

\* The parent is read for its depth; it may be gone.
ReadDepth(r) ==
  /\ proc[r].pc = "depth" /\ Free
  /\ LET p == proc[r].parent
     IN  IF p = None THEN Step(r, [proc[r] EXCEPT !.pc = "position", !.depth = 0])
         ELSE IF p \in Rows
         THEN Step(r, [proc[r] EXCEPT !.pc = "position", !.depth = folder[p].depth + 1])
         ELSE Reply(r)
  /\ UNCHANGED <<folder, nextId, place, tx, used>>

ReadPosition(r) ==
  /\ proc[r].pc = "position" /\ Free
  /\ \E n \in NextPosition(Siblings(proc[r].owner, proc[r].parent)) :
       Step(r, [proc[r] EXCEPT !.pc = "write", !.position = n])
  /\ UNCHANGED <<folder, nextId, place, tx, used>>

\* The INSERT fails when the parent is gone (foreign key) or the user has a
\* "Default" folder (UNIQUE).
Insert(r) ==
  /\ proc[r].pc = "write" /\ proc[r].kind \in {"create", "assign"} /\ Free
  /\ LET q == proc[r]
     IN  IF /\ q.parent \in Rows \cup {None}
            /\ q.dflt => ~\E f \in Rows : folder[f].dflt /\ folder[f].owner = q.owner
         THEN /\ nextId \in Id
              /\ folder' = [folder EXCEPT ![nextId] =
                   [owner |-> q.owner, parent |-> q.parent, depth |-> q.depth,
                    position |-> q.position, dflt |-> q.dflt]]
              /\ nextId' = nextId + 1
              /\ IF q.kind = "create" THEN Reply(r)
                 ELSE Step(r, [Idle EXCEPT !.pc = "file", !.kind = "assign", !.folder = nextId,
                                 !.container = q.container])
         ELSE Reply(r) /\ UNCHANGED <<folder, nextId>>
  /\ UNCHANGED <<place, tx, used>>

-----------------------------------------------------------------------------
(* Moving a folder: MoveFolder's checks, then MoveFolderToParent *)

AskMove(r) ==
  /\ ~Running(r) /\ Alone /\ Free /\ Spend("move")
  /\ \E u \in Users, f \in Rows, p \in Rows \cup {None} :
       /\ ~folder[f].dflt /\ MayUse(u, f)
       /\ Step(r, [Idle EXCEPT !.pc = "parent", !.kind = "move", !.user = u, !.folder = f,
                     !.parent = p, !.owner = folder[f].owner])
  /\ UNCHANGED <<folder, nextId, place, tx>>

CheckParent(r) ==
  /\ proc[r].pc = "parent" /\ Free
  /\ LET p == proc[r].parent
     IN  IF p = None \/ (p \in Rows /\ MayUse(proc[r].user, p))
         THEN Step(r, [proc[r] EXCEPT !.pc = "list"])
         ELSE Reply(r)
  /\ UNCHANGED <<folder, nextId, place, tx, used>>

\* The move is judged on a listing of the folders of the moved folder's owner.
CheckMove(r) ==
  /\ proc[r].pc = "list" /\ Free
  /\ LET listed == {f \in Rows : folder[f].owner = proc[r].owner}
     IN  IF MoveAllowed(proc[r].folder, proc[r].parent, listed)
         THEN Step(r, [proc[r] EXCEPT !.pc = "read"])
         ELSE Reply(r)
  /\ UNCHANGED <<folder, nextId, place, tx, used>>

\* From here on in the store; what was read stays as read.
ReadFolder(r) ==
  /\ proc[r].pc = "read" /\ Free
  /\ LET f == proc[r].folder
     IN  IF f \in Rows THEN Step(r, [proc[r] EXCEPT !.pc = "depth", !.from = folder[f]])
         ELSE Reply(r)
  /\ UNCHANGED <<folder, nextId, place, tx, used>>

\* The transaction opens with the UPDATE of the folder's own row, which may be
\* gone; it fails when the new parent is gone.
BeginMove(r) ==
  /\ proc[r].pc = "write" /\ proc[r].kind = "move" /\ Free
  /\ LET q == proc[r]
     IN  IF q.folder \notin Rows \/ q.parent \in Rows \cup {None}
         THEN /\ tx' = [by |-> r, before |-> folder]
              /\ folder' = IF q.folder \notin Rows THEN folder
                           ELSE [folder EXCEPT ![q.folder].parent = q.parent,
                                               ![q.folder].depth = q.depth,
                                               ![q.folder].position = q.position]
              /\ Step(r, [q EXCEPT !.pc = "descend", !.todo = {q.folder}])
         ELSE Reply(r) /\ UNCHANGED <<folder, tx>>
  /\ UNCHANGED <<nextId, place, used>>

\* Mutant: the children get the depth of the folder they are in.
SameDepth(r) ==
  /\ proc[r].pc = "descend" /\ tx # NoTx
  /\ \E f \in proc[r].todo :
       /\ folder' = [g \in Id |-> IF g \in Children(f)
                                  THEN [folder[g] EXCEPT !.depth = folder[f].depth]
                                  ELSE folder[g]]
       /\ Step(r, [proc[r] EXCEPT !.todo = (@ \ {f}) \cup Children(f)])
  /\ UNCHANGED <<nextId, place, tx, used>>
\* updateDescendantDepths: one folder's children, each of which is to be
\* descended into in turn.  It has no other end than the tree's.
Descend(r) ==
  /\ proc[r].pc = "descend" /\ tx # NoTx
  /\ \E f \in proc[r].todo :
       /\ f \in Rows => folder[f].depth < MaxDepth
       /\ folder' = [g \in Id |-> IF g \in Children(f)
                                  THEN [folder[g] EXCEPT !.depth = folder[f].depth + 1]
                                  ELSE folder[g]]
       /\ Step(r, [proc[r] EXCEPT !.todo = (@ \ {f}) \cup Children(f)])
  /\ UNCHANGED <<nextId, place, tx, used>>

\* Mutant: the siblings before the gap move, not those behind it.
ShiftBefore(r) ==
  /\ proc[r].pc = "descend" /\ proc[r].todo = {} /\ tx # NoTx
  /\ LET was == proc[r].from
     IN  folder' = [g \in Id |->
           IF g \in Siblings(was.owner, was.parent) /\ folder[g].position < was.position
           THEN [folder[g] EXCEPT !.position = @ - 1]
           ELSE folder[g]]
  /\ tx' = NoTx
  /\ Reply(r)
  /\ UNCHANGED <<nextId, place, used>>
\* The gap among the former siblings is closed, by what the folder was when it
\* was read, and the transaction committed.
CommitMove(r) ==
  /\ proc[r].pc = "descend" /\ proc[r].todo = {} /\ tx # NoTx
  /\ LET was == proc[r].from
     IN  folder' = [g \in Id |->
           IF g \in Siblings(was.owner, was.parent) /\ folder[g].position > was.position
           THEN [folder[g] EXCEPT !.position = @ - 1]
           ELSE folder[g]]
  /\ tx' = NoTx
  /\ Reply(r)
  /\ UNCHANGED <<nextId, place, used>>

-----------------------------------------------------------------------------
(* Deleting a folder: sub-folders and filed containers go with it (ON DELETE *)
(* CASCADE)                                                                  *)

AskDelete(r) ==
  /\ ~Running(r) /\ Free /\ Spend("delete")
  /\ \E f \in Rows :
       /\ ~folder[f].dflt
       /\ Step(r, [Idle EXCEPT !.pc = "delete", !.kind = "delete", !.folder = f])
  /\ UNCHANGED <<folder, nextId, place, tx>>

DeleteFolder(r) ==
  /\ proc[r].pc = "delete" /\ Free
  /\ LET gone == {g \in Rows : IsDescendant(g, proc[r].folder, Rows)}
     IN  /\ folder' = [g \in Id |-> IF g \in gone THEN NoRow ELSE folder[g]]
         /\ place' = [c \in Container |->
              IF place[c] # None /\ place[c].folder \in gone THEN None ELSE place[c]]
  /\ Reply(r)
  /\ UNCHANGED <<nextId, tx, used>>

-----------------------------------------------------------------------------
(* Containers *)

Filed(f, table) == {c \in Container : table[c] # None /\ table[c].folder = f}

\* The handlers look at the folder first.
AskContainer(r) ==
  /\ ~Running(r) /\ Free /\ Spend("file")
  /\ \E pc \in {"file", "unlink", "reorder"}, f \in Rows, c \in Container :
       \E k \in IF pc = "reorder" THEN -1 .. Cardinality(Container) ELSE {0} :
         Step(r, [Idle EXCEPT !.pc = pc, !.kind = pc, !.folder = f,
                    !.container = c, !.index = k])
  /\ UNCHANGED <<folder, nextId, place, tx>>

\* AssignContainer to the user who owns the site already.
AskAssign(r) ==
  /\ ~Running(r) /\ Alone /\ Spend("file")
  /\ \E u \in Users, c \in Container :
       Step(r, [Idle EXCEPT !.pc = "default", !.kind = "assign", !.owner = u, !.container = c])
  /\ UNCHANGED <<folder, nextId, place, tx>>

FindDefault(r) ==
  /\ proc[r].pc = "default" /\ Free
  /\ LET found == {f \in Rows : folder[f].dflt /\ folder[f].owner = proc[r].owner}
     IN  \/ \E f \in found : Step(r, [proc[r] EXCEPT !.pc = "file", !.folder = f])
         \/ /\ found = {}
            /\ Step(r, [proc[r] EXCEPT !.pc = "depth", !.dflt = TRUE])
  /\ UNCHANGED <<folder, nextId, place, tx, used>>

\* The table after the container's row is deleted and the gap behind it closed.
Without(c) ==
  [d \in Container |->
     IF d = c THEN None
     ELSE IF place[c] # None /\ place[d] # None /\ place[d].folder = place[c].folder
             /\ place[d].position > place[c].position
     THEN [place[d] EXCEPT !.position = @ - 1]
     ELSE place[d]]

\* nextContainerPosition
NextPlace(f, table) ==
  {n \in {0} \cup {table[c].position + 1 : c \in Filed(f, table)} :
     \A c \in Filed(f, table) : table[c].position < n}

\* Mutant: the position is the number of containers in the folder.
FileBySize(r) ==
  /\ proc[r].pc = "file" /\ Free
  /\ LET f == proc[r].folder
         c == proc[r].container
         n == Cardinality(Filed(f, place) \ {c})
     IN  IF f \in Rows
         THEN place' = [Without(c) EXCEPT ![c] = [folder |-> f, position |-> n]]
         ELSE UNCHANGED place
  /\ Reply(r)
  /\ UNCHANGED <<folder, nextId, tx, used>>
\* MoveContainerToFolder, one transaction; the INSERT fails when the folder is gone.
File(r) ==
  /\ proc[r].pc = "file" /\ Free
  /\ LET f == proc[r].folder
         c == proc[r].container
     IN  IF f \in Rows
         THEN \E n \in NextPlace(f, Without(c)) :
                place' = [Without(c) EXCEPT ![c] = [folder |-> f, position |-> n]]
         ELSE UNCHANGED place
  /\ Reply(r)
  /\ UNCHANGED <<folder, nextId, tx, used>>

\* UnlinkContainerFromFolder leaves the gap open.
Unlink(r) ==
  /\ proc[r].pc = "unlink" /\ Free
  /\ LET c == proc[r].container
     IN  place' = IF c \in Filed(proc[r].folder, place) THEN [place EXCEPT ![c] = None]
                  ELSE place
  /\ Reply(r)
  /\ UNCHANGED <<folder, nextId, tx, used>>

\* Mutant: the container at the new position changes places with the other.
ChangePlaces(old, new, p) == IF p = new THEN old ELSE p
\* What becomes of another container's position when one goes from old to new.
MakeWay(old, new, p) ==
  IF old < p /\ p <= new THEN p - 1
  ELSE IF new <= p /\ p < old THEN p + 1
  ELSE p

\* ReorderContainerInFolder, one transaction.
Reorder(r) ==
  /\ proc[r].pc = "reorder" /\ Free
  /\ LET c == proc[r].container
         filed == Filed(proc[r].folder, place)
         last == Cardinality(filed) - 1
         k == IF proc[r].index < 0 THEN 0
              ELSE IF proc[r].index > last THEN last ELSE proc[r].index
     IN  IF c \in filed
         THEN place' = [d \in Container |->
                IF d = c THEN [place[d] EXCEPT !.position = k]
                ELSE IF d \in filed
                THEN [place[d] EXCEPT !.position = MakeWay(place[c].position, k, @)]
                ELSE place[d]]
         ELSE UNCHANGED place
  /\ Reply(r)
  /\ UNCHANGED <<folder, nextId, tx, used>>

\* UnlinkContainerFromAllFolders, when a container is deleted.
RemoveContainer ==
  /\ Free /\ Spend("file")
  /\ \E c \in Container : place[c] # None /\ place' = [place EXCEPT ![c] = None]
  /\ UNCHANGED <<folder, nextId, tx, proc>>

-----------------------------------------------------------------------------
\* A statement fails and the request is answered with an error.  A transaction is
\* rolled back, unless the first SELECT of MoveContainerToFolder failed, whose
\* error the deferred function does not see: the transaction stays open, and with
\* it the one connection is lost until the agent restarts.
StatementFails(r) ==
  /\ Running(r) /\ Spend("fault")
  /\ \/ Free /\ UNCHANGED <<folder, tx>>
     \/ proc[r].pc = "descend" /\ folder' = tx.before /\ tx' = NoTx
     \/ proc[r].pc = "file" /\ Free /\ tx' = [by |-> r, before |-> folder] /\ UNCHANGED folder
  /\ Reply(r)
  /\ UNCHANGED <<nextId, place>>

\* The agent stops: SQLite rolls back what was not committed.
Restart ==
  /\ Spend("restart")
  /\ folder' = IF tx = NoTx THEN folder ELSE tx.before
  /\ tx' = NoTx
  /\ proc' = [r \in Requests |-> Idle]
  /\ UNCHANGED <<nextId, place>>

Create(r) == ReadDepth(r) \/ ReadPosition(r) \/ Insert(r)
Move(r) ==
  CheckParent(r) \/ CheckMove(r) \/ ReadFolder(r) \/ BeginMove(r) \/ Descend(r) \/ CommitMove(r)
Arrange(r) == FindDefault(r) \/ File(r) \/ Unlink(r) \/ Reorder(r)
Run(r) == Create(r) \/ Move(r) \/ DeleteFolder(r) \/ Arrange(r)
Ask(r) == AskCreate(r) \/ AskMove(r) \/ AskDelete(r) \/ AskContainer(r) \/ AskAssign(r)

Next ==
  \/ \E r \in Requests : Ask(r) \/ Run(r) \/ StatementFails(r)
  \/ RemoveContainer \/ Restart

Spec == Init /\ [][Next]_vars

-----------------------------------------------------------------------------
\* Every variable keeps its type: depths and positions are never negative, and
\* ids, requests and the table to roll back to are what the code puts there.
FoldersTypeOK ==
  /\ folder \in Table
  /\ nextId \in 1 .. (MaxFolders + 1)
  /\ place \in [Container -> Place \cup {None}]
  /\ tx \in [by : Requests, before : Table] \cup {NoTx}
  /\ proc \in [Requests -> Process]
  /\ used \in [Budget -> Nat]

\* "cannot create circular folder reference" (handlers/folders.go:539): no set of
\* folders lies only in itself, not even inside a transaction, where the update
\* of the depths would go round until the agent is out of memory, keeping the one
\* connection all the while.
Forest == \A S \in SUBSET Rows : S # {} => \E f \in S : folder[f].parent \notin S

\* The depth a folder has in the table, which the checks of later moves and the
\* dashboard rely on, is its real one (store/folders.go:54-63, 400-421).
DepthsAreRight ==
  Free => \A f \in Rows :
    folder[f].depth = IF folder[f].parent = None THEN 0 ELSE folder[folder[f].parent].depth + 1

\* The order of the folders in a folder is well defined: no two of one user have
\* the same position (GetFoldersByUser orders by it, store/folders.go:23).
PositionsDiffer ==
  Free => \A f, g \in Rows :
    /\ f # g
    /\ folder[f].owner = folder[g].owner /\ folder[f].parent = folder[g].parent
    => folder[f].position # folder[g].position

\* So is the order of the containers in a folder, whatever requests overlap
\* (GetContainersByFolder, store/folders.go:160).
PlacesDiffer ==
  \A c, d \in Container :
    c # d /\ place[c] # None /\ place[d] # None /\ place[c].folder = place[d].folder
    => place[c].position # place[d].position

Handled(c) ==
  \E r \in Requests : /\ proc[r].container = c /\ proc[r].pc \in {"file", "reorder"}
                      /\ proc'[r].pc = "idle"

\* Filing, reordering and removing a container leaves the others of its folders
\* in the order they had (store/folders.go:197-205, 269-286).
OthersKeepOrder ==
  [][\A c, d \in Container :
       (/\ ~Handled(c) /\ ~Handled(d)
        /\ place[c] # None /\ place[d] # None /\ place'[c] # None /\ place'[d] # None
        /\ place[c].folder = place[d].folder /\ place[c].position < place[d].position)
       => place'[c].position < place'[d].position]_vars
=============================================================================
