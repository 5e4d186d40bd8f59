----------------------------- MODULE FoldersMC -----------------------------
(* Small instances of Folders for TLC. *)
EXTENDS Folders, TLC

\* Which requests a run allows, and how many of each.
MCLimitAll == [create |-> 3, move |-> 2, delete |-> 1, file |-> 4, fault |-> 1, restart |-> 1]
MCLimitMoves == [create |-> 2, move |-> 2, delete |-> 0, file |-> 0, fault |-> 0, restart |-> 0]

\* Requests, users without a role, and containers are alike.
MCSymmetry == Permutations(Requests) \cup Permutations(Users) \cup Permutations(Container)
=============================================================================
