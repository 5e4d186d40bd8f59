---------------------------- MODULE ActionPagesMC ----------------------------
(***************************************************************************)
(* Small values for ActionPages: a directory that is empty or holds a      *)
(* directory and two files, and two schedules, one of them older than the  *)
(* form.                                                                   *)
(***************************************************************************)
EXTENDS ActionPages

SmallListings == {{}, {"d", "f", "g"}}
TopDirectory  == <<"d">>

TwoJobs == {[type |-> "site", schedule |-> [kind |-> "daily", hours |-> 0, timed |-> TRUE, keep |-> 7]],
            [type |-> "database", schedule |-> [kind |-> "hours", hours |-> 12, timed |-> FALSE, keep |-> 3]]}

=============================================================================
