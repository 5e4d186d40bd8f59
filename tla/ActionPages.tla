----------------------------- MODULE ActionPages -----------------------------
(***************************************************************************)
(* The pages and dialogs from which something is done to the server:       *)
(* users, restoring, backups and schedules, services, containers DockLite  *)
(* does not track, files and the rows of a database.  A behaviour is the   *)
(* life of one of them, chosen at the start; the others stay as they would *)
(* begin.                                                                  *)
(***************************************************************************)
EXTENDS Users, RestoreTab, BackupsPage, ScheduleForm,
        ServerPage, AllContainers, FileManager, DatabaseEdit

VARIABLE screen

ActionInit ==
    /\ screen \in {"users", "server", "all containers", "files", "rows", "backups", "restore", "schedules"}
    /\ UsersInit       /\ (screen # "users" => users.me = Root /\ Living = {Root})
    /\ ServerInit
    /\ AllInit         /\ (screen # "all containers" => records.tracked = {})
    /\ FilesInit
    /\ DbInit          /\ (screen # "rows" => stored)
    /\ BackupsInit     /\ (screen # "backups" => user)
    /\ RestoreInit     /\ (screen # "restore" => restore.focus = NoFile)
    /\ FormInit

ActionNext ==
    \/ screen = "users" /\ UsersNext
       /\ UNCHANGED <<screen, serverVars, allVars, fileVars, dbVars, backupVars, restoreVars, formVars>>
    \/ screen = "server" /\ ServerNext
       /\ UNCHANGED <<screen, userVars, allVars, fileVars, dbVars, backupVars, restoreVars, formVars>>
    \/ screen = "all containers" /\ AllNext
       /\ UNCHANGED <<screen, userVars, serverVars, fileVars, dbVars, backupVars, restoreVars, formVars>>
    \/ screen = "files" /\ FilesNext
       /\ UNCHANGED <<screen, userVars, serverVars, allVars, dbVars, backupVars, restoreVars, formVars>>
    \/ screen = "rows" /\ DbNext
       /\ UNCHANGED <<screen, userVars, serverVars, allVars, fileVars, backupVars, restoreVars, formVars>>
    \/ screen = "backups" /\ BackupsNext
       /\ UNCHANGED <<screen, userVars, serverVars, allVars, fileVars, dbVars, restoreVars, formVars>>
    \/ screen = "restore" /\ RestoreTabNext
       /\ UNCHANGED <<screen, userVars, serverVars, allVars, fileVars, dbVars, backupVars, formVars>>
    \/ screen = "schedules" /\ FormNext
       /\ UNCHANGED <<screen, userVars, serverVars, allVars, fileVars, dbVars, backupVars, restoreVars>>

actionVars == <<screen, userVars, serverVars, allVars, fileVars, dbVars, backupVars, restoreVars, formVars>>

ActionSpec == ActionInit /\ [][ActionNext]_actionVars

=============================================================================
