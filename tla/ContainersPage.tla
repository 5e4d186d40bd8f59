--------------------------- MODULE ContainersPage ---------------------------
(***************************************************************************)
(* The containers page ((dashboard)/page.tsx with FolderSection.tsx and    *)
(* ContainerCard.tsx): the folders with their containers, fetched at the   *)
(* start, every ten seconds and after most changes; the buttons and menu   *)
(* of a card; dragging, which shows its outcome before the agent has it.   *)
(* Folders are flat here (Folders.tla has the tree), and the filter tabs,  *)
(* which only hide cards, are left out.                                    *)
(***************************************************************************)
EXTENDS Naturals, FiniteSets, SequencesExt

CONSTANTS DockerOrder,        \* the containers, in the order Docker lists them
          Kind,               \* their rank in KIND_ORDER: site 0, database 1, other 2
          Folders, Default,
          MaxContainerCalls,  \* bound: calls outstanding at once
          NoContainer

Containers == {DockerOrder[i] : i \in DOMAIN DockerOrder}

ContainersPageAssumption ==
    /\ IsInjective(DockerOrder) /\ Kind \in [Containers -> 0..2]
    /\ Default \in Folders /\ NoContainer \notin Containers
    /\ MaxContainerCalls \in Nat

VARIABLES docker,         \* the agent: containers tracked and running, folders, and each folder's links in order
          cards,          \* the page
          containerCalls  \* calls sent and not answered

containerVars == <<docker, cards, containerCalls>>

(***************************************************************************)
(* The agent's listing (ListContainers) walks Docker's containers, not the *)
(* folder's links; a container without a link is shown in Default.  The    *)
(* page sorts each folder by state, then kind (sortContainers).            *)
(***************************************************************************)
Linked(f)    == {docker.links[f][i] : i \in DOMAIN docker.links[f]}
Unlinked     == Containers \ UNION {Linked(f) : f \in docker.folders}
InFolder(f)  == IF f = Default THEN SelectSeq(DockerOrder, LAMBDA c : c \in docker.tracked \intersect Linked(f))
                                    \o SelectSeq(DockerOrder, LAMBDA c : c \in docker.tracked \intersect Unlinked)
                ELSE SelectSeq(DockerOrder, LAMBDA c : c \in docker.tracked \intersect Linked(f))

Rank(c)           == Kind[c] + IF c \in docker.running THEN 1 ELSE 4
SortContainers(s) == FlattenSeq([r \in 1..6 |-> SelectSeq(s, LAMBDA c : Rank(c) = r)])
Listing           == [f \in docker.folders |-> SortContainers(InFolder(f))]
Empty             == [f \in {Default} |-> <<>>]

Ask(kind, c, f, i) == [kind |-> kind, c |-> c, folder |-> f, index |-> i, at |-> "sent", found |-> Empty]
Fetch              == Ask("list", NoContainer, Default, 0)
Fetches            == {a \in containerCalls : a.kind = "list"}
Room               == Cardinality(containerCalls) < MaxContainerCalls

ContainersInit ==
    /\ docker = [tracked |-> Containers, running |-> Containers, folders |-> Folders,
                 links |-> [f \in Folders |-> IF f = Default THEN DockerOrder ELSE <<>>]]
    /\ cards = [tree |-> Empty, loading |-> TRUE, error |-> FALSE]
    /\ containerCalls = {Fetch}

(***************************************************************************)
(* What the agent does with a call                                         *)
(***************************************************************************)
Unlink(d, c)   == [d EXCEPT !.links = [f \in Folders |-> SelectSeq(d.links[f], LAMBDA e : e # c)]]
LinkTo(d, c, f) == [Unlink(d, c) EXCEPT !.links[f] = Append(@, c)]
\* ReorderContainerInFolder.
MoveTo(s, c, i) == LET others == SelectSeq(s, LAMBDA e : e # c)
                   IN InsertAt(others, IF i > Len(s) THEN Len(s) ELSE i, c)

Allowed(a) ==
    CASE a.kind \in {"start", "stop", "delete"} -> a.c \in docker.tracked
      [] a.kind \in {"move", "drop"}                       -> a.folder \in docker.folders
      [] a.kind = "reorder"                                -> a.c \in Linked(a.folder)
      [] OTHER                                             -> TRUE

Effect(a) ==
    CASE a.kind = "start"               -> [docker EXCEPT !.running = @ \union {a.c}]
      [] a.kind = "stop"                 -> [docker EXCEPT !.running = @ \ {a.c}]
      [] a.kind = "delete"               -> Unlink([docker EXCEPT !.tracked = @ \ {a.c}], a.c)
      [] a.kind = "untrack"              -> [docker EXCEPT !.tracked = @ \ {a.c}]
      [] a.kind \in {"move", "drop"}     -> LinkTo(docker, a.c, a.folder)
      [] a.kind = "reorder"              -> [docker EXCEPT !.links[a.folder] = MoveTo(@, a.c, a.index)]
      [] a.kind = "rmdir"                -> [docker EXCEPT !.folders = @ \ {a.folder}, !.links[a.folder] = <<>>]
      [] OTHER                           -> docker

\* A listing is served before it is answered, so it may arrive old; the other
\* calls take effect as they are answered (CallAnswered).
ServeListing(a) ==
    /\ a = Fetch
    /\ containerCalls' = (containerCalls \ {a}) \union {[a EXCEPT !.at = "ok", !.found = Listing]}
    /\ UNCHANGED <<docker, cards>>

\* A container stops, or is started from elsewhere.
StateChanges(c) ==
    /\ c \in docker.tracked
    /\ docker' = [docker EXCEPT !.running = IF c \in @ THEN @ \ {c} ELSE @ \union {c}]
    /\ UNCHANGED <<cards, containerCalls>>

(***************************************************************************)
(* fetchData: the first failure shows the error for good, for no later     *)
(* answer clears it.                                                       *)
(***************************************************************************)
FetchData ==
    /\ Cardinality(Fetches) < MaxContainerCalls /\ Fetch \notin containerCalls
    /\ containerCalls' = containerCalls \union {Fetch}
    /\ UNCHANGED <<docker, cards>>

\* Mutant: only the first listing is shown.
FirstListed(a, ok) ==
    /\ a \in Fetches /\ a.at = IF ok THEN "ok" ELSE "sent"
    /\ cards' = [cards EXCEPT !.loading = FALSE, !.error = @ \/ ~ok,
                              !.tree = IF ok /\ cards.loading THEN a.found ELSE @]
    /\ containerCalls' = containerCalls \ {a}
    /\ UNCHANGED docker

ContainersListed(a, ok) ==
    /\ a \in Fetches /\ a.at = IF ok THEN "ok" ELSE "sent"
    /\ cards' = [cards EXCEPT !.loading = FALSE, !.error = @ \/ ~ok,
                              !.tree = IF ok THEN a.found ELSE @]
    /\ containerCalls' = containerCalls \ {a}
    /\ UNCHANGED docker

(***************************************************************************)
(* A card's buttons and menu.  The dialogs that choose the user or the     *)
(* folder are one step with their submission.                              *)
(***************************************************************************)
CardsShown == ~cards.loading /\ ~cards.error
OnCard(c)  == \E f \in DOMAIN cards.tree : c \in ToSet(cards.tree[f])
HomeOf(c)  == CHOOSE f \in DOMAIN cards.tree : c \in ToSet(cards.tree[f])
IndexOf(c) == CHOOSE i \in DOMAIN cards.tree[HomeOf(c)] : cards.tree[HomeOf(c)][i] = c

CardActions == {"start", "stop", "delete", "untrack", "assign"}

SendCall(a) == Room /\ containerCalls' = containerCalls \union {a} /\ UNCHANGED docker

\* "start" is restarting too.  Only sites can be deleted or assigned.
HandleAction(c, action) ==
    /\ CardsShown /\ OnCard(c)
    /\ action \in {"delete", "assign"} => Kind[c] = 0
    /\ SendCall(Ask(action, c, Default, 0))
    /\ UNCHANGED cards

\* The dialog offers every folder of the last listing.
FoldersOffered == DOMAIN cards.tree

HandleMoveSubmit(c, f) ==
    /\ CardsShown /\ OnCard(c) /\ f \in FoldersOffered
    /\ SendCall(Ask("move", c, f, 0))
    /\ UNCHANGED cards

\* Deleting a folder is offered for every folder but Default.
HandleDeleteFolder(f) ==
    /\ CardsShown /\ f \in DOMAIN cards.tree \ {Default}
    /\ SendCall(Ask("rmdir", NoContainer, f, 0))
    /\ UNCHANGED cards

(***************************************************************************)
(* handleDragEnd.  The tree is changed at once.  In its own folder the     *)
(* target's index is corrected for the card's removal; elsewhere the       *)
(* agent appends the card.                                                 *)
(***************************************************************************)
DragWithin(c, f, to) ==
    LET from == IndexOf(c)
        i    == IF to > from THEN to - 1 ELSE to
    IN /\ to # from
       /\ cards' = [cards EXCEPT !.tree[f] = InsertAt(RemoveAt(@, from), i, c)]
       /\ SendCall(Ask("reorder", c, f, i))

DragAcross(c, f, to) ==
    /\ cards' = [cards EXCEPT !.tree[HomeOf(c)] = RemoveAt(@, IndexOf(c)),
                              !.tree[f] = InsertAt(@, to, c)]
    /\ SendCall(Ask("drop", c, f, 0))

DragEnd(c, f, to) ==
    /\ CardsShown /\ OnCard(c) /\ f \in DOMAIN cards.tree
    /\ to \in 1..(Len(cards.tree[f]) + 1)
    /\ IF f = HomeOf(c) THEN DragWithin(c, f, to) ELSE DragAcross(c, f, to)

(***************************************************************************)
(* Answers.  A failed reordering asks for the list again; a failed drop    *)
(* does not (handleContainerDrop swallows the error), so the card stays    *)
(* where it was dropped until the next poll.                               *)
(***************************************************************************)
CallAnswered(a, ok) ==
    /\ a.kind # "list"
    /\ ok => Allowed(a)
    /\ docker' = IF ok THEN Effect(a) ELSE docker
    /\ containerCalls' = (containerCalls \ {a}) \union IF ok # (a.kind = "reorder") THEN {Fetch} ELSE {}
    /\ UNCHANGED cards

-----------------------------------------------------------------------------
ServeOrAnswer(a) == ServeListing(a) \/ \E ok \in BOOLEAN : ContainersListed(a, ok) \/ CallAnswered(a, ok)

ContainersNext ==
    \/ \E a \in containerCalls : ServeOrAnswer(a)
    \/ \E c \in Containers : \/ StateChanges(c)
                             \/ \E action \in CardActions : HandleAction(c, action)
                             \/ \E f \in Folders : \/ HandleMoveSubmit(c, f)
                                                  \/ \E to \in 1..(Len(DockerOrder) + 1) : DragEnd(c, f, to)
    \/ \E f \in Folders : HandleDeleteFolder(f)
    \/ FetchData

(***************************************************************************)
(* What is fair: the timer fires, the agent serves a listing well again    *)
(* and again, and what it answers arrives.                                 *)
(***************************************************************************)
ServesTheCards   == \E a \in containerCalls : ServeListing(a)
DeliversTheCards == \E a \in containerCalls : ContainersListed(a, TRUE)

ContainersFairness == /\ WF_containerVars(FetchData)
                      /\ SF_containerVars(ServesTheCards) /\ WF_containerVars(DeliversTheCards)

ContainersSpec == ContainersInit /\ [][ContainersNext]_containerVars /\ ContainersFairness

(***************************************************************************)
(* Properties                                                              *)
(***************************************************************************)
\* When the agent's containers stop changing and cards are no longer dragged,
\* the page ends by showing exactly what the agent has, also after a drop that
\* failed unnoticed, unless a listing ever failed and the error took its place.
Quiet        == UNCHANGED docker /\ ~\E c \in Containers, f \in Folders, to \in 1..(Len(DockerOrder) + 1) : DragEnd(c, f, to)
CardsCatchUp == <>[][Quiet]_containerVars => <>[](cards.error \/ cards.tree = Listing)

=============================================================================
