----------------------------- MODULE BackupsMC -----------------------------
(* Constants of the model-checking runs of Backups. *)
EXTENDS Backups

MCJobTargets == [j \in Job |-> Target]
MCKeep1 == [j \in Job |-> 1]
MCRetention0 == [j \in Job |-> 0]
MCRetention1 == [j \in Job |-> 1]
MCClock == [j \in Job |-> TRUE]
MCInterval == [j \in Job |-> FALSE]

\* Which environment events a run allows, and how many of each.
MCLimitExport == [trigger |-> 0, export |-> 1, op |-> 1, restart |-> 0, fault |-> 0]
MCLimitKeep == [trigger |-> 1, export |-> 0, op |-> 0, restart |-> 1, fault |-> 1]
MCLimitAny == [trigger |-> 1, export |-> 1, op |-> 1, restart |-> 1, fault |-> 1]
=============================================================================
