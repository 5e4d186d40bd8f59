---------------------------- MODULE NetworkPagesMC ----------------------------
(***************************************************************************)
(* NetworkPages for TLC.  Names of records and numbers of rows are only    *)
(* compared, so they may be exchanged for each other.                      *)
(***************************************************************************)
EXTENDS NetworkPages, TLC

MCSymmetry == Permutations(Rows) \union Permutations(Records)

=============================================================================
