----------------------------- MODULE RestoreMC -----------------------------
(* Small instances of Restore for TLC. *)
EXTENDS Restore, TLC

CONSTANTS x, y, mine, new, backup_a, backup_b

Folder(f, g, h) == [n \in Name |-> CASE n = x -> f [] n = y -> g [] OTHER -> h]
\* A folder with both entries, one with the name of the aside folder, an empty one.
MCInitially == {Folder(mine, mine, NoFile), Folder(mine, NoFile, mine),
                Folder(NoFile, NoFile, NoFile)}
MCBoth == {Folder(mine, mine, NoFile)}
\* A backup of both entries, one of a single entry, one that holds ".old".
MCArchives == {Folder(backup_a, backup_a, NoFile), Folder(NoFile, backup_b, NoFile),
               Folder(backup_a, NoFile, backup_a)}
MCOneArchive == {Folder(backup_a, NoFile, NoFile)}
MCFullArchive == {Folder(backup_a, backup_b, NoFile)}

\* All failures but the one after which no safety copy is made.
MCNoticed == Operation \ {"look"}
\* With these failures the old contents are put back.
MCForgiven == Operation \ {"move", "clear", "return"}
MCLimit == [b \in Budget |-> CASE b = "restore" -> 2 [] b = "write" -> 1
                               [] b = "fault" -> 2 [] OTHER -> 0]
MCLimitCrash == [b \in Budget |-> IF b = "restore" THEN 2 ELSE 1]
MCLimitWrite == [b \in Budget |-> IF b \in {"restore", "write"} THEN 1 ELSE 0]

\* Requests are alike.
MCSymmetry == Permutations(Requests)
=============================================================================
