---------------------------- MODULE LivePagesMC ----------------------------
(***************************************************************************)
(* Small values for the pages of LivePages: one site among the containers. *)
(***************************************************************************)
EXTENDS LivePages

OneContainer == <<"site">>
AllSites     == [c \in {"site"} |-> 0]

=============================================================================
