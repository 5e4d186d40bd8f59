---------------------------- MODULE FileManager ----------------------------
(***************************************************************************)
(* The dashboard's file browser (FileManager.tsx) with its editor          *)
(* (FileEditorModal.tsx).  The browser keeps the directory it is in, the   *)
(* last listing answered and at most one dialog; every click that needs    *)
(* the agent sends a call and goes on, and the answers come back in any    *)
(* order.  The agent is left open: a listing answers with any of Listings, *)
(* a read with the text of the path it names, and every call may fail.     *)
(***************************************************************************)
EXTENDS Naturals, FiniteSets, Sequences, SequencesExt

CONSTANTS DirNames, FileNames,  \* the names a listing may hold
          Listings,             \* the listings the agent may answer with
          MinPath,              \* the user's top directory (minPath)
          IsAdmin,              \* userSession.isAdmin
          MaxDepth,             \* bound: directories below MinPath
          MaxFileCalls,         \* bound: calls outstanding at once
          None                  \* no file, no text, no dialog

FileManagerAssumption ==
    /\ Listings \subseteq SUBSET (DirNames \union FileNames)
    /\ MinPath \in Seq(DirNames) /\ None \notin DirNames \union FileNames
    /\ IsAdmin \in BOOLEAN
    /\ MaxDepth \in Nat /\ MaxFileCalls \in Nat

VARIABLES files,      \* the component's state
          fileCalls   \* the calls the agent has not answered

fileVars == <<files, fileCalls>>

(***************************************************************************)
(* State.  listing.of is the directory the listing was asked for; editor   *)
(* is the path whose text the open editor holds; a dialog remembers in     *)
(* "seen" the directory whose listing the user had before him.  "crossed"  *)
(* and "failed" are history: the user moved on while a call was            *)
(* outstanding; a listing failed.                                          *)
(***************************************************************************)
FilesShown(listing) == listing.entries \intersect FileNames

FilesInit ==
    /\ files = [cur |-> MinPath, listing |-> [of |-> MinPath, entries |-> {}],
                loading |-> TRUE, error |-> FALSE,
                selected |-> None, text |-> None, open |-> FALSE, editor |-> None,
                dialog |-> None, picker |-> MinPath, busy |-> FALSE,
                crossed |-> FALSE, failed |-> FALSE]
    /\ fileCalls = {[kind |-> "list", path |-> MinPath, from |-> None, dir |-> MinPath]}

FileCall(kind, path, from, dir) == [kind |-> kind, path |-> path, from |-> from, dir |-> dir]

\* What is on top of the page takes the clicks.
EditorShown(f) == f.open /\ f.selected # None
PageFree       == ~EditorShown(files) /\ files.dialog = None
\* Mutant: the old rows stay while the next directory is loaded.
RowsAlways     == PageFree /\ ~files.error
FileRowsShown      == PageFree /\ ~files.loading /\ ~files.error

\* Mutant: the editor keeps its text when it goes.
KeepsText(f) == [f EXCEPT !.editor = IF files.editor # None THEN files.editor
                                     ELSE IF EditorShown(f) THEN f.text ELSE None]

\* The editor takes its text when it appears and keeps it until it goes.
Editor(f) == [f EXCEPT !.editor = IF ~EditorShown(f) THEN None
                                  ELSE IF files.editor # None THEN files.editor
                                  ELSE f.text]

FileRoom(n) == Cardinality(fileCalls) + n <= MaxFileCalls
Moving  == files.crossed \/ fileCalls # {}

(***************************************************************************)
(* Moving about                                                            *)
(***************************************************************************)
\* fetchFiles for directory d, as the effect on currentPath runs it.
EnterDirectory(d) ==
    /\ files' = [files EXCEPT !.cur = d, !.loading = TRUE, !.error = FALSE,
                              !.crossed = Moving]
    /\ fileCalls' = fileCalls \union {FileCall("list", d, None, d)}

OpenDirectory(n) ==
    /\ FileRowsShown /\ FileRoom(1) /\ n \in files.listing.entries \intersect DirNames
    /\ Len(files.cur) < Len(MinPath) + MaxDepth
    /\ EnterDirectory(Append(files.cur, n))

\* handleBackClick: only the length of the parent is compared.
AboveMinPath(p) == p = <<>> \/ Len(Front(p)) < Len(MinPath)

GoBack ==
    /\ PageFree /\ FileRoom(1) /\ files.cur # MinPath
    /\ ~AboveMinPath(files.cur)
    /\ EnterDirectory(Front(files.cur))

Listed(c, ok, entries) ==
    /\ c.kind = "list"
    /\ files' = IF ok
                THEN [files EXCEPT !.listing = [of |-> c.path, entries |-> entries],
                                   !.loading = FALSE]
                ELSE [files EXCEPT !.error = TRUE, !.loading = FALSE, !.failed = TRUE]
    /\ fileCalls' = fileCalls \ {c}

(***************************************************************************)
(* Reading and saving a file                                               *)
(***************************************************************************)
ClickFile(n) ==
    /\ FileRowsShown /\ FileRoom(1) /\ n \in FilesShown(files.listing)
    /\ files' = Editor([files EXCEPT !.selected = n, !.crossed = Moving])
    /\ fileCalls' = fileCalls \union {FileCall("read", Append(files.cur, n), None, files.cur)}

FileRead(c, ok) ==
    /\ c.kind = "read"
    /\ files' = IF ok THEN Editor([files EXCEPT !.text = c.path, !.open = TRUE])
                      ELSE [files EXCEPT !.error = TRUE]
    /\ fileCalls' = fileCalls \ {c}

\* The path is put together when the user saves, the text when the editor opened.
SaveFile ==
    /\ EditorShown(files) /\ FileRoom(1)
    /\ fileCalls' = fileCalls \union
           {FileCall("save", Append(files.cur, files.selected), files.editor, files.cur)}
    /\ UNCHANGED files

FileSaved(c, ok) ==
    /\ c.kind = "save"
    /\ files' = [files EXCEPT !.error = @ \/ ~ok]
    /\ fileCalls' = fileCalls \ {c}

CloseEditor ==
    /\ EditorShown(files)
    /\ files' = Editor([files EXCEPT !.open = FALSE, !.selected = None, !.text = None])
    /\ UNCHANGED fileCalls

(***************************************************************************)
(* Creating and uploading.  The answer lists the directory the handler was *)
(* started in, which need not be the one the user is in by then.           *)
(***************************************************************************)
CreateItem(n) ==
    /\ PageFree /\ FileRoom(1)
    /\ files' = [files EXCEPT !.error = FALSE]
    /\ fileCalls' = fileCalls \union {FileCall("create", Append(files.cur, n), None, files.cur)}

Upload(n) ==
    /\ PageFree /\ FileRoom(1)
    /\ files' = [files EXCEPT !.error = FALSE]
    /\ fileCalls' = fileCalls \union {FileCall("upload", Append(files.cur, n), None, files.cur)}

Refetch(f, c) ==
    /\ files' = [f EXCEPT !.loading = TRUE, !.error = FALSE]
    /\ fileCalls' = (fileCalls \ {c}) \union {FileCall("list", c.dir, None, c.dir)}

Added(c, ok) ==
    /\ c.kind \in {"create", "upload"}
    /\ IF ok THEN Refetch(files, c)
             ELSE /\ files' = [files EXCEPT !.error = TRUE]
                  /\ fileCalls' = fileCalls \ {c}

(***************************************************************************)
(* The context menu and its dialogs: move, copy, delete                    *)
(***************************************************************************)
FileMenuOffers(op) == FileRowsShown /\ (op = "delete" => IsAdmin)

OpenDialog(op, n) ==
    /\ FileMenuOffers(op) /\ n \in files.listing.entries
    /\ op # "delete" => FileRoom(1)
    /\ files' = [files EXCEPT !.dialog = [op |-> op, name |-> n, seen |-> files.listing.of],
                              !.picker = IF op = "delete" THEN @ ELSE files.cur]
    /\ fileCalls' = IF op = "delete" THEN fileCalls
                    ELSE fileCalls \union {FileCall("pick", files.cur, None, files.cur)}

TransferShown == files.dialog # None /\ files.dialog.op # "delete"
DeleteShown   == files.dialog # None /\ files.dialog.op = "delete"

PickInto(n) ==
    /\ TransferShown /\ FileRoom(1) /\ n \in DirNames
    /\ Len(files.picker) < Len(MinPath) + MaxDepth
    /\ files' = [files EXCEPT !.picker = Append(@, n)]
    /\ fileCalls' = fileCalls \union {FileCall("pick", Append(files.picker, n), None, files.cur)}

PickBack ==
    /\ TransferShown /\ FileRoom(1) /\ files.picker # MinPath
    /\ ~AboveMinPath(files.picker)
    /\ files' = [files EXCEPT !.picker = Front(@)]
    /\ fileCalls' = fileCalls \union {FileCall("pick", Front(files.picker), None, files.cur)}

Picked(c) ==
    /\ c.kind = "pick"
    /\ fileCalls' = fileCalls \ {c}
    /\ UNCHANGED files

SubmitTransfer ==
    /\ TransferShown /\ ~files.busy /\ FileRoom(1)
    /\ files' = [files EXCEPT !.busy = TRUE]
    /\ fileCalls' = fileCalls \union
           {FileCall(files.dialog.op, Append(files.cur, files.dialog.name), files.dialog.seen, files.cur)}

Transferred(c, ok) ==
    /\ c.kind \in {"move", "copy"}
    /\ LET f == [files EXCEPT !.busy = FALSE]
       IN IF ok
          THEN Refetch(IF DeleteShown THEN f ELSE [f EXCEPT !.dialog = None], c)
          ELSE files' = f /\ fileCalls' = fileCalls \ {c}

ConfirmFileDelete ==
    /\ DeleteShown /\ FileRoom(1)
    /\ fileCalls' = fileCalls \union
           {FileCall("delete", Append(files.cur, files.dialog.name), files.dialog.seen, files.cur)}
    /\ UNCHANGED files

FileDeleted(c, ok) ==
    /\ c.kind = "delete"
    /\ IF ok
       THEN Refetch(IF DeleteShown THEN [files EXCEPT !.dialog = None] ELSE files, c)
       ELSE fileCalls' = fileCalls \ {c} /\ UNCHANGED files

\* The close cross stays enabled while the call is out.
CloseDialog ==
    /\ files.dialog # None
    /\ files' = [files EXCEPT !.dialog = None]
    /\ UNCHANGED fileCalls

-----------------------------------------------------------------------------
FileAnswer(c) ==
    \/ \E ok \in BOOLEAN, entries \in Listings : Listed(c, ok, entries)
    \/ \E ok \in BOOLEAN : \/ FileRead(c, ok) \/ FileSaved(c, ok) \/ Added(c, ok)
                           \/ Transferred(c, ok) \/ FileDeleted(c, ok)
    \/ Picked(c)

FileClick ==
    \/ \E n \in DirNames : OpenDirectory(n) \/ PickInto(n)
    \/ \E n \in FileNames : ClickFile(n) \/ CreateItem(n) \/ Upload(n)
    \/ \E op \in {"move", "copy", "delete"}, n \in DirNames \union FileNames : OpenDialog(op, n)
    \/ GoBack \/ PickBack \/ SaveFile \/ CloseEditor
    \/ SubmitTransfer \/ ConfirmFileDelete \/ CloseDialog

FilesNext == FileClick \/ \E c \in fileCalls : FileAnswer(c)

FilesSpec == FilesInit /\ [][FilesNext]_fileVars

(***************************************************************************)
(* Properties                                                              *)
(***************************************************************************)
\* What a delete or a move is sent for lies in the directory whose listing
\* the user picked it from, unless he moved on while a call was outstanding
\* or a listing failed: the handlers join currentPath, not the listing's own
\* directory, to the name.
ActsOnWhatWasListed ==
    \A c \in fileCalls : c.kind \in {"delete", "move", "copy"} /\ ~files.crossed /\ ~files.failed
                            => Front(c.path) = c.from

\* A save writes a file's own text back to it, unless the user clicked on
\* while a call was outstanding: the modal takes its path from the selection
\* and its text from the last read answered.
SavesItsOwnText ==
    \A c \in fileCalls : c.kind = "save" /\ ~files.crossed => c.from = c.path

=============================================================================
