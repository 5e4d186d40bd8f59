---------------------------- MODULE EditingProofs ----------------------------
(***************************************************************************)
(* Proofs about the two editors of the dashboard: the file browser with    *)
(* its text editor (FileManager.tla) and the rows of a database            *)
(* (DatabaseEdit.tla).                                                     *)
(***************************************************************************)
EXTENDS FileManager, DatabaseEdit, TLAPS

-----------------------------------------------------------------------------
(***************************************************************************)
(* The file browser                                                        *)
(* Until the user moves on with a call outstanding, every call is about    *)
(* the directory he is in, and so is the listing shown once none is being  *)
(* loaded.  One file at most is being read then, the selected one, and an  *)
(* open editor holds the text of the selected file.                        *)
(***************************************************************************)

Names     == DirNames \union FileNames
Paths     == Seq(Names)
FileKinds == {"list", "read", "save", "create", "upload", "pick", "move", "copy", "delete"}
Dialogs   == [op : {"move", "copy", "delete"}, name : Names, seen : Paths]

FileStates ==
  [cur : Paths, listing : [of : Paths, entries : SUBSET Names], loading : BOOLEAN, error : BOOLEAN,
   selected : Names \union {None}, text : Paths \union {None}, open : BOOLEAN,
   editor : Paths \union {None}, dialog : Dialogs \union {None}, picker : Paths, busy : BOOLEAN,
   crossed : BOOLEAN, failed : BOOLEAN]

FileCallKinds == [kind : FileKinds, path : Paths, from : Paths \union {None}, dir : Paths]

FilesTypeOK == files \in FileStates /\ fileCalls \subseteq FileCallKinds

ListingOK(f) == ~f.crossed /\ ~f.failed /\ ~f.loading => f.listing.of = f.cur
DialogOK(f)  == ~f.crossed /\ ~f.failed /\ f.dialog # None => f.dialog.seen = f.cur

EditorOK(f) ==
    /\ ~EditorShown(f) => f.editor = None
    /\ ~f.crossed /\ f.open => f.selected # None /\ f.editor = Append(f.cur, f.selected)

CallOK(f, c) ==
    /\ ~f.crossed => c.dir = f.cur
    /\ ~f.crossed /\ c.kind = "list" => c.path = f.cur
    /\ ~f.crossed /\ c.kind = "read" =>
           ~f.open /\ f.selected # None /\ c.path = Append(f.cur, f.selected) /\ c.from = None
    /\ ~f.crossed /\ c.kind = "save" => c.from = c.path
    /\ ~f.crossed /\ ~f.failed /\ c.kind \in {"delete", "move", "copy"} => Front(c.path) = c.from

FilesInv ==
    /\ FilesTypeOK
    /\ ListingOK(files) /\ DialogOK(files) /\ EditorOK(files)
    /\ \A c \in fileCalls : CallOK(files, c)

\* A path with a name appended has the path for its front.
LEMMA AppendedPath ==
  ASSUME NEW s \in Paths, NEW n \in Names
  PROVE  Append(s, n) \in Paths /\ Front(Append(s, n)) = s
<1>1. Append(s, n) \in Paths /\ Len(Append(s, n)) = Len(s) + 1
  BY DEF Paths
<1>2. Front(Append(s, n)) = SubSeq(Append(s, n), 1, Len(s))
  <2>1. Len(s) \in Nat /\ (Len(s) + 1) - 1 = Len(s)
    BY DEF Paths
  <2> QED
    BY <1>1, <2>1 DEF Front
<1>3. SubSeq(Append(s, n), 1, Len(s)) = s
  BY DEF Paths
<1> QED
  BY <1>1, <1>2, <1>3

LEMMA FrontPath == ASSUME NEW s \in Paths, s # <<>> PROVE Front(s) \in Paths
<1>1. Len(s) \in Nat /\ Len(s) # 0
  BY DEF Paths
<1> QED
  BY <1>1 DEF Paths, Front

LEMMA MinPathIsPath == ASSUME FileManagerAssumption PROVE MinPath \in Paths
<1>1. MinPath \in Seq(DirNames) /\ DirNames \subseteq Names
  BY DEF FileManagerAssumption, Names
<1> QED
  BY <1>1 DEF Paths

\* What a new call is.
LEMMA NewFileCall ==
  ASSUME NEW kind \in FileKinds, NEW path \in Paths, NEW from \in Paths \union {None}, NEW dir \in Paths
  PROVE  /\ FileCall(kind, path, from, dir) \in FileCallKinds
         /\ FileCall(kind, path, from, dir).kind = kind /\ FileCall(kind, path, from, dir).path = path
         /\ FileCall(kind, path, from, dir).from = from /\ FileCall(kind, path, from, dir).dir = dir
  BY DEF FileCall, FileCallKinds

\* A listing or reading names no directory the item was picked in.
LEMMA NewReading ==
  ASSUME NEW kind \in FileKinds, NEW path \in Paths, NEW dir \in Paths
  PROVE  /\ FileCall(kind, path, None, dir) \in FileCallKinds
         /\ FileCall(kind, path, None, dir).kind = kind /\ FileCall(kind, path, None, dir).path = path
         /\ FileCall(kind, path, None, dir).from = None /\ FileCall(kind, path, None, dir).dir = dir
  BY DEF FileCall, FileCallKinds

LEMMA FilesInitially == ASSUME FileManagerAssumption PROVE FilesInit => FilesInv
<1> SUFFICES ASSUME FilesInit PROVE FilesInv
  OBVIOUS
<1>1. MinPath \in Paths
  BY MinPathIsPath
<1>2. /\ files \in FileStates /\ files.cur = MinPath /\ files.listing.of = MinPath /\ ~files.open
      /\ files.dialog = None /\ files.editor = None
  BY <1>1 DEF FilesInit, FileStates
<1>3. \A c \in fileCalls : c \in FileCallKinds /\ c.kind = "list" /\ c.path = MinPath /\ c.dir = MinPath
  <2> DEFINE kind == "list"
  <2>1. kind \in FileKinds
    BY DEF FileKinds
  <2>2. fileCalls = {FileCall(kind, MinPath, None, MinPath)}
    BY DEF FilesInit, FileCall
  <2> HIDE DEF kind
  <2>3. \A c \in fileCalls : c \in FileCallKinds /\ c.kind = kind /\ c.path = MinPath /\ c.dir = MinPath
    BY <1>1, <2>1, <2>2, NewFileCall
  <2> QED
    BY <2>3 DEF kind
<1>4. FilesTypeOK /\ ListingOK(files) /\ DialogOK(files) /\ EditorOK(files)
  BY <1>2, <1>3 DEF FilesTypeOK, ListingOK, DialogOK, EditorOK, EditorShown
<1> QED
  BY <1>2, <1>3, <1>4 DEF FilesInv, CallOK

-----------------------------------------------------------------------------
\* Steps that leave the directory, the selection and the editor alone.
LEMMA SteadyKeeps ==
  ASSUME FilesInv, files' \in FileStates, files'.cur = files.cur,
         files'.crossed = files.crossed, files.failed => files'.failed,
         files'.open = files.open, files'.selected = files.selected, files'.editor = files.editor,
         ListingOK(files'), DialogOK(files'),
         \A c \in fileCalls' : c \in fileCalls \/ (c \in FileCallKinds /\ CallOK(files', c))
  PROVE  FilesInv'
<1>1. \A c \in fileCalls : CallOK(files', c)
  BY DEF FilesInv, CallOK
<1>2. EditorOK(files')
  BY DEF FilesInv, EditorOK, EditorShown
<1>3. FilesTypeOK'
  BY DEF FilesInv, FilesTypeOK
<1> QED
  BY <1>1, <1>2, <1>3 DEF FilesInv

\* Steps that do not touch the listing and the dialog either.
LEMMA SameListingKeeps ==
  ASSUME FilesInv, files' \in FileStates, files'.cur = files.cur,
         files'.crossed = files.crossed, files'.failed = files.failed,
         files'.open = files.open, files'.selected = files.selected, files'.editor = files.editor,
         files'.listing = files.listing, files'.loading = files.loading,
         files'.dialog = files.dialog,
         \A c \in fileCalls' : c \in fileCalls \/ (c \in FileCallKinds /\ CallOK(files', c))
  PROVE  FilesInv'
<1>1. ListingOK(files') /\ DialogOK(files')
  BY DEF FilesInv, ListingOK, DialogOK
<1> QED
  BY <1>1, SteadyKeeps

\* A call of a kind no property speaks of.
LEMMA IndifferentCall ==
  ASSUME FilesTypeOK, NEW kind \in {"create", "upload", "pick"}, NEW path \in Paths
  PROVE  /\ FileCall(kind, path, None, files.cur) \in FileCallKinds
         /\ \A f : f.cur = files.cur => CallOK(f, FileCall(kind, path, None, files.cur))
<1> DEFINE d == FileCall(kind, path, None, files.cur)
<1>1. kind \in FileKinds /\ files.cur \in Paths /\ None \in Paths \union {None}
  BY DEF FileKinds, FilesTypeOK, FileStates
<1>2. d \in FileCallKinds /\ d.kind = kind /\ d.dir = files.cur
  BY <1>1, NewFileCall
<1> HIDE DEF d
<1>3. \A f : f.cur = files.cur => CallOK(f, d)
  BY <1>2 DEF CallOK
<1> QED
  BY <1>2, <1>3 DEF d

\* Entering a directory: with nothing else outstanding the listing asked for is
\* the only call, and no dialog and no editor is open.
LEMMA EnterKeeps ==
  ASSUME FilesInv, PageFree, NEW d \in Paths, EnterDirectory(d)
  PROVE  FilesInv'
<1> DEFINE kind    == "list"
           call    == FileCall(kind, d, None, d)
           crossed == files.crossed \/ fileCalls # {}
<1>1. /\ files' = [files EXCEPT !.cur = d, !.loading = TRUE, !.error = FALSE, !.crossed = crossed]
      /\ fileCalls' = fileCalls \union {call}
  BY DEF EnterDirectory, Moving
<1>2. crossed \in BOOLEAN /\ (~crossed => ~files.crossed /\ fileCalls = {})
  BY DEF FilesInv, FilesTypeOK, FileStates
<1>3. kind \in FileKinds
  BY DEF FileKinds
<1> HIDE DEF kind
<1>4. call \in FileCallKinds /\ call.kind = kind /\ call.path = d /\ call.dir = d
  BY <1>3, NewFileCall
<1> HIDE DEF call, crossed
<1>5. /\ files' \in FileStates /\ files'.cur = d /\ files'.crossed = crossed /\ files'.loading
      /\ files'.open = files.open /\ files'.selected = files.selected /\ files'.editor = files.editor
      /\ files'.dialog = files.dialog
  BY <1>1, <1>2 DEF FilesInv, FilesTypeOK, FileStates
<1>6. files.dialog = None /\ ~EditorShown(files)
  BY DEF PageFree
<1>7. ListingOK(files') /\ DialogOK(files')
  BY <1>5, <1>6 DEF ListingOK, DialogOK
<1>8. EditorOK(files')
  BY <1>2, <1>5, <1>6 DEF FilesInv, EditorOK, EditorShown
<1>9. \A c \in fileCalls' : CallOK(files', c)
  <2>1. CallOK(files', call)
    BY <1>4, <1>5 DEF CallOK, kind
  <2>2. ASSUME NEW c \in fileCalls PROVE CallOK(files', c)
    BY <1>2, <1>5 DEF CallOK
  <2> QED
    BY <1>1, <2>1, <2>2
<1>10. FilesTypeOK'
  BY <1>1, <1>4, <1>5 DEF FilesInv, FilesTypeOK
<1> QED
  BY <1>7, <1>8, <1>9, <1>10 DEF FilesInv

LEMMA OpenDirectoryKeeps ==
  ASSUME FilesInv, NEW n \in DirNames, OpenDirectory(n) PROVE FilesInv'
<1>1. PageFree /\ EnterDirectory(Append(files.cur, n))
  BY DEF OpenDirectory, FileRowsShown
<1>2. Append(files.cur, n) \in Paths
  BY AppendedPath DEF FilesInv, FilesTypeOK, FileStates, Names
<1> QED
  BY <1>1, <1>2, EnterKeeps

LEMMA GoBackKeeps == ASSUME FilesInv, GoBack PROVE FilesInv'
<1>1. PageFree /\ EnterDirectory(Front(files.cur)) /\ files.cur # <<>>
  BY DEF GoBack, AboveMinPath
<1>2. Front(files.cur) \in Paths
  BY <1>1, FrontPath DEF FilesInv, FilesTypeOK, FileStates
<1> QED
  BY <1>1, <1>2, EnterKeeps

LEMMA ListedKeeps ==
  ASSUME FileManagerAssumption, FilesInv, NEW c \in fileCalls, NEW ok \in BOOLEAN,
         NEW entries \in Listings, Listed(c, ok, entries)
  PROVE  FilesInv'
<1>1. c.kind = "list" /\ fileCalls' = fileCalls \ {c} /\ c \in FileCallKinds /\ CallOK(files, c)
  BY DEF Listed, FilesInv, FilesTypeOK
<1>2. CASE ok
  <2> DEFINE listing == [of |-> c.path, entries |-> entries]
  <2>1. files' = [files EXCEPT !.listing = listing, !.loading = FALSE]
    BY <1>2 DEF Listed
  <2>2. listing \in [of : Paths, entries : SUBSET Names] /\ listing.of = c.path
    <3>1. entries \in SUBSET Names
      BY DEF FileManagerAssumption, Names
    <3>2. c.path \in Paths
      BY <1>1 DEF FileCallKinds
    <3> QED
      BY <3>1, <3>2
  <2> HIDE DEF listing
  <2>3. /\ files' \in FileStates /\ files'.cur = files.cur /\ files'.crossed = files.crossed
        /\ files'.failed = files.failed /\ files'.open = files.open /\ files'.listing = listing
        /\ files'.selected = files.selected /\ files'.editor = files.editor
        /\ files'.dialog = files.dialog
    BY <2>1, <2>2 DEF FilesInv, FilesTypeOK, FileStates
  <2>4. ListingOK(files') /\ DialogOK(files')
    BY <1>1, <2>2, <2>3 DEF FilesInv, ListingOK, DialogOK, CallOK
  <2> QED
    BY <1>1, <2>3, <2>4, SteadyKeeps
<1>3. CASE ~ok
  <2>1. files' = [files EXCEPT !.error = TRUE, !.loading = FALSE, !.failed = TRUE]
    BY <1>3 DEF Listed
  <2>2. /\ files' \in FileStates /\ files'.cur = files.cur /\ files'.crossed = files.crossed
        /\ files'.failed /\ files'.open = files.open
        /\ files'.selected = files.selected /\ files'.editor = files.editor
    BY <2>1 DEF FilesInv, FilesTypeOK, FileStates
  <2>3. ListingOK(files') /\ DialogOK(files')
    BY <2>2 DEF ListingOK, DialogOK
  <2> QED
    BY <1>1, <2>2, <2>3, SteadyKeeps
<1> QED
  BY <1>2, <1>3

-----------------------------------------------------------------------------
\* Reading and saving a file.  The editor's rule settles what it holds.
LEMMA EditorKeeps ==
  ASSUME NEW f \in FileStates, files \in FileStates
  PROVE  /\ Editor(f) \in FileStates /\ Editor(f).cur = f.cur /\ Editor(f).listing = f.listing
         /\ Editor(f).loading = f.loading /\ Editor(f).selected = f.selected
         /\ Editor(f).open = f.open /\ Editor(f).dialog = f.dialog
         /\ Editor(f).crossed = f.crossed /\ Editor(f).failed = f.failed
         /\ ~EditorShown(f) => Editor(f).editor = None
         /\ EditorShown(f) /\ files.editor = None => Editor(f).editor = f.text
         /\ EditorShown(f) /\ files.editor # None => Editor(f).editor = files.editor
<1> DEFINE held == IF ~EditorShown(f) THEN None
                   ELSE IF files.editor # None THEN files.editor ELSE f.text
<1>1. held \in Paths \union {None}
  BY DEF FileStates
<1>2. Editor(f) = [f EXCEPT !.editor = held]
  BY DEF Editor
<1>3. /\ ~EditorShown(f) => held = None
      /\ EditorShown(f) /\ files.editor = None => held = f.text
      /\ EditorShown(f) /\ files.editor # None => held = files.editor
  OBVIOUS
<1> HIDE DEF held
<1>4. /\ Editor(f) \in FileStates /\ Editor(f).cur = f.cur /\ Editor(f).listing = f.listing
      /\ Editor(f).loading = f.loading /\ Editor(f).selected = f.selected
      /\ Editor(f).open = f.open /\ Editor(f).dialog = f.dialog
      /\ Editor(f).crossed = f.crossed /\ Editor(f).failed = f.failed /\ Editor(f).editor = held
  BY <1>1, <1>2 DEF FileStates
<1> QED
  BY <1>3, <1>4

LEMMA ClickFileKeeps ==
  ASSUME FileManagerAssumption, FilesInv, NEW n \in FileNames, ClickFile(n) PROVE FilesInv'
<1> DEFINE kind    == "read"
           path    == Append(files.cur, n)
           call    == FileCall(kind, path, None, files.cur)
           crossed == files.crossed \/ fileCalls # {}
           f       == [files EXCEPT !.selected = n, !.crossed = crossed]
<1>1. PageFree /\ files' = Editor(f) /\ fileCalls' = fileCalls \union {call}
  BY DEF ClickFile, FileRowsShown, Moving
<1>2. crossed \in BOOLEAN /\ (~crossed => ~files.crossed /\ fileCalls = {})
  BY DEF FilesInv, FilesTypeOK, FileStates
<1>3. n \in Names /\ n # None
  BY DEF FileManagerAssumption, Names
<1>4. kind \in FileKinds /\ path \in Paths /\ files.cur \in Paths
  BY <1>3, AppendedPath DEF FileKinds, FilesInv, FilesTypeOK, FileStates
<1>5. path = Append(files.cur, n)
  OBVIOUS
<1> HIDE DEF kind, path
<1>6. /\ call \in FileCallKinds /\ call.kind = kind /\ call.path = path /\ call.dir = files.cur
      /\ call.from = None
  BY <1>4, NewReading
<1> HIDE DEF call, crossed
<1>7. /\ f \in FileStates /\ f.cur = files.cur /\ f.crossed = crossed /\ f.failed = files.failed
      /\ f.open = files.open /\ f.selected = n /\ f.dialog = files.dialog /\ f.loading = files.loading
      /\ f.listing = files.listing
  BY <1>2, <1>3 DEF FilesInv, FilesTypeOK, FileStates
<1> HIDE DEF f
<1>8. /\ files' \in FileStates /\ files'.cur = files.cur /\ files'.crossed = crossed
      /\ files'.failed = files.failed /\ files'.open = files.open /\ files'.selected = n
      /\ files'.dialog = files.dialog /\ files'.loading = files.loading
      /\ files'.listing = files.listing /\ (~EditorShown(f) => files'.editor = None)
  BY <1>1, <1>7, EditorKeeps DEF FilesInv, FilesTypeOK
<1>9. ~files.crossed => ~files.open
  BY <1>1 DEF PageFree, FilesInv, EditorOK, EditorShown
<1>10. ListingOK(files') /\ DialogOK(files')
  BY <1>2, <1>8 DEF FilesInv, ListingOK, DialogOK
<1>11. EditorOK(files')
  BY <1>2, <1>7, <1>8, <1>9 DEF EditorOK, EditorShown
<1>12. \A c \in fileCalls' : CallOK(files', c)
  <2>1. CallOK(files', call)
    BY <1>2, <1>3, <1>5, <1>6, <1>8, <1>9 DEF CallOK, kind
  <2>2. ASSUME NEW c \in fileCalls PROVE CallOK(files', c)
    BY <1>2, <1>8 DEF CallOK
  <2> QED
    BY <1>1, <2>1, <2>2
<1>13. FilesTypeOK'
  BY <1>1, <1>6, <1>8 DEF FilesInv, FilesTypeOK
<1> QED
  BY <1>10, <1>11, <1>12, <1>13 DEF FilesInv

\* While nothing crossed, the read answered is the only one and no editor is
\* open yet: the editor that opens takes the text read.
LEMMA FileReadKeeps ==
  ASSUME FilesInv, NEW c \in fileCalls, NEW ok \in BOOLEAN, FileRead(c, ok) PROVE FilesInv'
<1>1. c.kind = "read" /\ c \in FileCallKinds /\ CallOK(files, c) /\ fileCalls' = fileCalls \ {c}
  BY DEF FileRead, FilesInv, FilesTypeOK
<1>2. CASE ok
  <2> DEFINE f == [files EXCEPT !.text = c.path, !.open = TRUE]
  <2>1. files' = Editor(f)
    BY <1>2 DEF FileRead
  <2>2. /\ f \in FileStates /\ f.cur = files.cur /\ f.crossed = files.crossed
        /\ f.failed = files.failed /\ f.open /\ f.selected = files.selected /\ f.text = c.path
        /\ f.dialog = files.dialog /\ f.loading = files.loading /\ f.listing = files.listing
    BY <1>1 DEF FilesInv, FilesTypeOK, FileStates, FileCallKinds
  <2> HIDE DEF f
  <2>3. /\ files' \in FileStates /\ files'.cur = files.cur /\ files'.crossed = files.crossed
        /\ files'.failed = files.failed /\ files'.open /\ files'.selected = files.selected
        /\ files'.dialog = files.dialog /\ files'.loading = files.loading
        /\ files'.listing = files.listing
        /\ (~EditorShown(f) => files'.editor = None)
        /\ (EditorShown(f) /\ files.editor = None => files'.editor = c.path)
    BY <2>1, <2>2, EditorKeeps DEF FilesInv, FilesTypeOK
  <2>4. ListingOK(files') /\ DialogOK(files')
    BY <2>3 DEF FilesInv, ListingOK, DialogOK
  <2>5. EditorOK(files')
    <3>1. ~files.crossed => files.editor = None /\ files.selected # None
      BY <1>1 DEF FilesInv, EditorOK, EditorShown, CallOK
    <3>2. ~files.crossed => files'.editor = Append(files.cur, files.selected)
      BY <1>1, <2>2, <2>3, <3>1 DEF EditorShown, CallOK
    <3> QED
      BY <2>2, <2>3, <3>1, <3>2 DEF EditorOK, EditorShown
  <2>6. ASSUME NEW d \in fileCalls \ {c} PROVE CallOK(files', d)
    <3>1. d \in FileCallKinds /\ CallOK(files, d)
      BY DEF FilesInv, FilesTypeOK
    <3>2. ~files.crossed => d.kind # "read"
      <4> SUFFICES ASSUME ~files.crossed, d.kind = "read" PROVE FALSE
        OBVIOUS
      <4>1. d.kind = c.kind /\ d.path = c.path /\ d.from = c.from /\ d.dir = c.dir
        BY <1>1, <3>1 DEF CallOK
      <4>2. d = c
        BY <1>1, <3>1, <4>1 DEF FileCallKinds
      <4> QED
        BY <4>2
    <3> QED
      BY <2>3, <3>1, <3>2 DEF CallOK
  <2>7. FilesTypeOK'
    BY <1>1, <2>3 DEF FilesInv, FilesTypeOK
  <2> QED
    BY <1>1, <2>4, <2>5, <2>6, <2>7 DEF FilesInv
<1>3. CASE ~ok
  <2>1. files' = [files EXCEPT !.error = TRUE]
    BY <1>3 DEF FileRead
  <2>2. /\ files' \in FileStates /\ files'.cur = files.cur /\ files'.crossed = files.crossed
        /\ files'.failed = files.failed /\ files'.open = files.open
        /\ files'.selected = files.selected /\ files'.editor = files.editor
        /\ files'.dialog = files.dialog /\ files'.loading = files.loading
        /\ files'.listing = files.listing
    BY <2>1 DEF FilesInv, FilesTypeOK, FileStates
  <2> QED
    BY <1>1, <2>2, SameListingKeeps
<1> QED
  BY <1>2, <1>3

LEMMA CloseEditorKeeps == ASSUME FilesInv, CloseEditor PROVE FilesInv'
<1> DEFINE f == [files EXCEPT !.open = FALSE, !.selected = None, !.text = None]
<1>1. EditorShown(files) /\ files' = Editor(f) /\ UNCHANGED fileCalls
  BY DEF CloseEditor
<1>2. /\ f \in FileStates /\ f.cur = files.cur /\ f.crossed = files.crossed
      /\ f.failed = files.failed /\ ~f.open /\ f.dialog = files.dialog
      /\ f.loading = files.loading /\ f.listing = files.listing
  BY DEF FilesInv, FilesTypeOK, FileStates
<1> HIDE DEF f
<1>3. /\ files' \in FileStates /\ files'.cur = files.cur /\ files'.crossed = files.crossed
      /\ files'.failed = files.failed /\ ~files'.open /\ files'.dialog = files.dialog
      /\ files'.loading = files.loading /\ files'.listing = files.listing /\ files'.editor = None
  BY <1>1, <1>2, EditorKeeps DEF FilesInv, FilesTypeOK, EditorShown
<1>4. ListingOK(files') /\ DialogOK(files') /\ EditorOK(files')
  BY <1>3 DEF FilesInv, ListingOK, DialogOK, EditorOK
<1>5. ASSUME NEW c \in fileCalls PROVE CallOK(files', c)
  <2>1. files.open /\ CallOK(files, c)
    BY <1>1 DEF FilesInv, EditorShown
  <2> QED
    BY <1>3, <2>1 DEF CallOK
<1>6. FilesTypeOK'
  BY <1>1, <1>3 DEF FilesInv, FilesTypeOK
<1> QED
  BY <1>1, <1>4, <1>5, <1>6 DEF FilesInv

LEMMA SaveFileKeeps == ASSUME FileManagerAssumption, FilesInv, SaveFile PROVE FilesInv'
<1> DEFINE kind == "save"
           path == Append(files.cur, files.selected)
           call == FileCall(kind, path, files.editor, files.cur)
<1>1. EditorShown(files) /\ fileCalls' = fileCalls \union {call} /\ UNCHANGED files
  BY DEF SaveFile
<1>2. /\ files.cur \in Paths /\ files.selected \in Names /\ files.editor \in Paths \union {None}
      /\ files \in FileStates
  BY <1>1 DEF FilesInv, FilesTypeOK, FileStates, EditorShown
<1>3. kind \in FileKinds /\ path \in Paths
  BY <1>2, AppendedPath DEF FileKinds
<1>4. ~files.crossed => files.editor = path
  BY <1>1 DEF FilesInv, EditorOK, EditorShown
<1> HIDE DEF kind, path
<1>5. /\ call \in FileCallKinds /\ call.kind = kind /\ call.path = path
      /\ call.dir = files.cur /\ call.from = files.editor
  BY <1>2, <1>3, NewFileCall
<1> HIDE DEF call
<1>6. CallOK(files', call)
  BY <1>1, <1>4, <1>5 DEF CallOK, kind
<1> QED
  BY <1>1, <1>2, <1>5, <1>6, SameListingKeeps

LEMMA FileSavedKeeps ==
  ASSUME FilesInv, NEW c \in fileCalls, NEW ok \in BOOLEAN, FileSaved(c, ok) PROVE FilesInv'
<1> DEFINE error == files.error \/ ~ok
<1>1. files' = [files EXCEPT !.error = error] /\ fileCalls' = fileCalls \ {c}
  BY DEF FileSaved
<1>2. error \in BOOLEAN
  BY DEF FilesInv, FilesTypeOK, FileStates
<1> HIDE DEF error
<1>3. /\ files' \in FileStates /\ files'.cur = files.cur /\ files'.crossed = files.crossed
      /\ files'.failed = files.failed /\ files'.open = files.open
      /\ files'.selected = files.selected /\ files'.editor = files.editor
      /\ files'.dialog = files.dialog /\ files'.loading = files.loading
      /\ files'.listing = files.listing
  BY <1>1, <1>2 DEF FilesInv, FilesTypeOK, FileStates
<1> QED
  BY <1>1, <1>3, SameListingKeeps

-----------------------------------------------------------------------------
\* Creating and uploading, and what lists a directory again.
LEMMA AddItemKeeps ==
  ASSUME FilesInv, NEW n \in FileNames, CreateItem(n) \/ Upload(n) PROVE FilesInv'
<1> DEFINE path == Append(files.cur, n)
<1>1. path \in Paths
  BY AppendedPath DEF FilesInv, FilesTypeOK, FileStates, Names
<1>2. files' = [files EXCEPT !.error = FALSE]
  BY DEF CreateItem, Upload
<1>3. PICK kind \in {"create", "upload"} :
        fileCalls' = fileCalls \union {FileCall(kind, path, None, files.cur)}
  BY DEF CreateItem, Upload
<1> HIDE DEF path
<1>4. /\ files' \in FileStates /\ files'.cur = files.cur /\ files'.crossed = files.crossed
      /\ files'.failed = files.failed /\ files'.open = files.open
      /\ files'.selected = files.selected /\ files'.editor = files.editor
      /\ files'.dialog = files.dialog /\ files'.loading = files.loading
      /\ files'.listing = files.listing
  BY <1>2 DEF FilesInv, FilesTypeOK, FileStates
<1> DEFINE d == FileCall(kind, path, None, files.cur)
<1>5. d \in FileCallKinds /\ CallOK(files', d)
  BY <1>1, <1>4, IndifferentCall DEF FilesInv
<1> HIDE DEF d
<1>6. fileCalls' = fileCalls \union {d}
  BY <1>3 DEF d
<1> QED
  BY <1>4, <1>5, <1>6, SameListingKeeps

\* Until something crossed, the directory listed again is the one the user is in.
LEMMA RefetchKeeps ==
  ASSUME FilesInv, NEW c \in fileCalls, NEW f \in FileStates, Refetch(f, c),
         f.cur = files.cur, f.crossed = files.crossed, f.failed = files.failed,
         f.open = files.open, f.selected = files.selected, f.editor = files.editor,
         f.dialog \in {files.dialog, None}
  PROVE  FilesInv'
<1> DEFINE kind == "list"
           d    == FileCall(kind, c.dir, None, c.dir)
<1>1. /\ files' = [f EXCEPT !.loading = TRUE, !.error = FALSE]
      /\ fileCalls' = (fileCalls \ {c}) \union {d}
  BY DEF Refetch
<1>2. kind \in FileKinds /\ c.dir \in Paths /\ (~files.crossed => c.dir = files.cur)
  BY DEF FileKinds, FilesInv, FilesTypeOK, FileCallKinds, CallOK
<1> HIDE DEF kind
<1>3. d \in FileCallKinds /\ d.kind = kind /\ d.path = c.dir /\ d.dir = c.dir
  BY <1>2, NewReading
<1> HIDE DEF d
<1>4. /\ files' \in FileStates /\ files'.cur = files.cur /\ files'.crossed = files.crossed
      /\ files'.failed = files.failed /\ files'.open = files.open
      /\ files'.selected = files.selected /\ files'.editor = files.editor
      /\ files'.dialog = f.dialog /\ files'.loading
  BY <1>1 DEF FileStates
<1>5. ListingOK(files') /\ DialogOK(files')
  BY <1>4 DEF ListingOK, DialogOK, FilesInv
<1>6. CallOK(files', d)
  BY <1>2, <1>3, <1>4 DEF CallOK, kind
<1> QED
  BY <1>1, <1>3, <1>4, <1>5, <1>6, SteadyKeeps

LEMMA AddedKeeps ==
  ASSUME FilesInv, NEW c \in fileCalls, NEW ok \in BOOLEAN, Added(c, ok) PROVE FilesInv'
<1>1. files \in FileStates
  BY DEF FilesInv, FilesTypeOK
<1>2. CASE ok
  <2>1. Refetch(files, c)
    BY <1>2 DEF Added
  <2> QED
    BY <1>1, <2>1, RefetchKeeps
<1>3. CASE ~ok
  <2>1. files' = [files EXCEPT !.error = TRUE] /\ fileCalls' = fileCalls \ {c}
    BY <1>3 DEF Added
  <2>2. /\ files' \in FileStates /\ files'.cur = files.cur /\ files'.crossed = files.crossed
        /\ files'.failed = files.failed /\ files'.open = files.open
        /\ files'.selected = files.selected /\ files'.editor = files.editor
        /\ files'.dialog = files.dialog /\ files'.loading = files.loading
        /\ files'.listing = files.listing
    BY <1>1, <2>1 DEF FileStates
  <2> QED
    BY <2>1, <2>2, SameListingKeeps
<1> QED
  BY <1>2, <1>3

-----------------------------------------------------------------------------
\* The dialogs.  A dialog opens over a listing that is not being loaded again.
LEMMA OpenDialogKeeps ==
  ASSUME FilesInv, NEW op \in {"move", "copy", "delete"}, NEW n \in Names, OpenDialog(op, n)
  PROVE  FilesInv'
<1> DEFINE dialog == [op |-> op, name |-> n, seen |-> files.listing.of]
           picker == IF op = "delete" THEN files.picker ELSE files.cur
           kind   == "pick"
           d      == FileCall(kind, files.cur, None, files.cur)
<1>1. /\ files' = [files EXCEPT !.dialog = dialog, !.picker = picker] /\ ~files.loading
      /\ fileCalls' = fileCalls \/ fileCalls' = fileCalls \union {d}
  BY DEF OpenDialog, FileMenuOffers, FileRowsShown
<1>2. /\ files \in FileStates /\ files.cur \in Paths /\ files.listing.of \in Paths
      /\ picker \in Paths
  BY DEF FilesInv, FilesTypeOK, FileStates
<1>3. dialog \in Dialogs /\ dialog.seen = files.listing.of
  BY <1>2 DEF Dialogs
<1>4. kind \in {"create", "upload", "pick"}
  OBVIOUS
<1> HIDE DEF dialog, picker, kind
<1>5. /\ files' \in FileStates /\ files'.cur = files.cur /\ files'.crossed = files.crossed
      /\ files'.failed = files.failed /\ files'.open = files.open
      /\ files'.selected = files.selected /\ files'.editor = files.editor
      /\ files'.dialog = dialog /\ files'.loading = files.loading
      /\ files'.listing = files.listing
  BY <1>1, <1>2, <1>3 DEF FileStates
<1>6. d \in FileCallKinds /\ CallOK(files', d)
  BY <1>2, <1>4, <1>5, IndifferentCall DEF FilesInv
<1> HIDE DEF d
<1>7. ListingOK(files') /\ DialogOK(files')
  BY <1>1, <1>3, <1>5 DEF FilesInv, ListingOK, DialogOK
<1> QED
  BY <1>1, <1>5, <1>6, <1>7, SteadyKeeps

\* Moving about in the picker.
LEMMA PickerKeeps ==
  ASSUME FilesInv, NEW p \in Paths, files' = [files EXCEPT !.picker = p],
         fileCalls' = fileCalls \union {FileCall("pick", p, None, files.cur)}
  PROVE  FilesInv'
<1> DEFINE kind == "pick"
           d    == FileCall(kind, p, None, files.cur)
<1>1. kind \in {"create", "upload", "pick"} /\ fileCalls' = fileCalls \union {d}
  OBVIOUS
<1> HIDE DEF kind
<1>2. /\ files' \in FileStates /\ files'.cur = files.cur /\ files'.crossed = files.crossed
      /\ files'.failed = files.failed /\ files'.open = files.open
      /\ files'.selected = files.selected /\ files'.editor = files.editor
      /\ files'.dialog = files.dialog /\ files'.loading = files.loading
      /\ files'.listing = files.listing
  BY DEF FilesInv, FilesTypeOK, FileStates
<1>3. d \in FileCallKinds /\ CallOK(files', d)
  BY <1>1, <1>2, IndifferentCall DEF FilesInv
<1> HIDE DEF d
<1> QED
  BY <1>1, <1>2, <1>3, SameListingKeeps

LEMMA PickKeeps == ASSUME FilesInv, PickBack \/ \E n \in DirNames : PickInto(n) PROVE FilesInv'
<1>1. files.picker \in Paths
  BY DEF FilesInv, FilesTypeOK, FileStates
<1>2. CASE PickBack
  <2>1. files.picker # <<>>
    BY <1>2 DEF PickBack, AboveMinPath
  <2> DEFINE p == Front(files.picker)
  <2>2. p \in Paths
    BY <1>1, <2>1, FrontPath
  <2>3. /\ files' = [files EXCEPT !.picker = p]
        /\ fileCalls' = fileCalls \union {FileCall("pick", p, None, files.cur)}
    BY <1>2 DEF PickBack
  <2> HIDE DEF p
  <2> QED
    BY <2>2, <2>3, PickerKeeps
<1>3. CASE \E n \in DirNames : PickInto(n)
  <2>1. PICK n \in DirNames : PickInto(n)
    BY <1>3
  <2> DEFINE p == Append(files.picker, n)
  <2>2. p \in Paths
    BY <1>1, AppendedPath DEF Names
  <2>3. /\ files' = [files EXCEPT !.picker = p]
        /\ fileCalls' = fileCalls \union {FileCall("pick", p, None, files.cur)}
    BY <2>1 DEF PickInto
  <2> HIDE DEF p
  <2> QED
    BY <2>2, <2>3, PickerKeeps
<1> QED
  BY <1>2, <1>3

LEMMA PickedKeeps == ASSUME FilesInv, NEW c \in fileCalls, Picked(c) PROVE FilesInv'
  BY SameListingKeeps DEF Picked, FilesInv, FilesTypeOK

\* What is sent from a dialog names a file of the directory the dialog was
\* opened over.
LEMMA DialogCall ==
  ASSUME FilesInv, files.dialog # None, NEW kind \in {"move", "copy", "delete"}
  PROVE  LET d == FileCall(kind, Append(files.cur, files.dialog.name), files.dialog.seen, files.cur)
         IN  d \in FileCallKinds
             /\ \A f : f.cur = files.cur /\ f.crossed = files.crossed /\ f.failed = files.failed
                          => CallOK(f, d)
<1> DEFINE path == Append(files.cur, files.dialog.name)
           d    == FileCall(kind, path, files.dialog.seen, files.cur)
<1>1. files.dialog.name \in Names /\ files.dialog.seen \in Paths /\ files.cur \in Paths
  <2>1. files.dialog \in Dialogs
    BY DEF FilesInv, FilesTypeOK, FileStates
  <2>2. files.cur \in Paths
    BY DEF FilesInv, FilesTypeOK, FileStates
  <2> QED
    BY <2>1, <2>2 DEF Dialogs
<1>2. path \in Paths /\ Front(path) = files.cur
  BY <1>1, AppendedPath
<1> HIDE DEF path
<1>3. kind \in FileKinds
  BY DEF FileKinds
<1>4. /\ d \in FileCallKinds /\ d.kind = kind /\ d.path = path /\ d.from = files.dialog.seen
      /\ d.dir = files.cur
  BY <1>1, <1>2, <1>3, NewFileCall
<1> HIDE DEF d
<1>5. ~files.crossed /\ ~files.failed => files.dialog.seen = files.cur
  BY DEF FilesInv, DialogOK
<1>6. ASSUME NEW f, f.cur = files.cur, f.crossed = files.crossed, f.failed = files.failed
      PROVE  CallOK(f, d)
  BY <1>2, <1>4, <1>5, <1>6 DEF CallOK
<1> QED
  BY <1>4, <1>6 DEF d, path

LEMMA SubmitTransferKeeps == ASSUME FilesInv, SubmitTransfer PROVE FilesInv'
<1> DEFINE d == FileCall(files.dialog.op, Append(files.cur, files.dialog.name), files.dialog.seen, files.cur)
<1>1. /\ files.dialog # None /\ files.dialog.op # "delete"
      /\ files' = [files EXCEPT !.busy = TRUE] /\ fileCalls' = fileCalls \union {d}
  BY DEF SubmitTransfer, TransferShown
<1>2. files.dialog.op \in {"move", "copy", "delete"}
  <2>1. files.dialog \in Dialogs
    BY <1>1 DEF FilesInv, FilesTypeOK, FileStates
  <2> QED
    BY <2>1 DEF Dialogs
<1>3. /\ files' \in FileStates /\ files'.cur = files.cur /\ files'.crossed = files.crossed
      /\ files'.failed = files.failed /\ files'.open = files.open
      /\ files'.selected = files.selected /\ files'.editor = files.editor
      /\ files'.dialog = files.dialog /\ files'.loading = files.loading
      /\ files'.listing = files.listing
  BY <1>1 DEF FilesInv, FilesTypeOK, FileStates
<1>4. d \in FileCallKinds /\ CallOK(files', d)
  BY <1>1, <1>2, <1>3, DialogCall
<1> HIDE DEF d
<1> QED
  BY <1>1, <1>3, <1>4, SameListingKeeps

LEMMA ConfirmDeleteCallKeeps == ASSUME FilesInv, ConfirmFileDelete PROVE FilesInv'
<1> DEFINE kind == "delete"
           d    == FileCall(kind, Append(files.cur, files.dialog.name), files.dialog.seen, files.cur)
<1>1. files.dialog # None /\ UNCHANGED files /\ fileCalls' = fileCalls \union {d}
  BY DEF ConfirmFileDelete, DeleteShown
<1>2. kind \in {"move", "copy", "delete"} /\ files \in FileStates
  BY DEF FilesInv, FilesTypeOK
<1> HIDE DEF kind
<1>3. d \in FileCallKinds /\ CallOK(files', d)
  BY <1>1, <1>2, DialogCall
<1> HIDE DEF d
<1> QED
  BY <1>1, <1>2, <1>3, SameListingKeeps

LEMMA TransferredKeeps ==
  ASSUME FilesInv, NEW c \in fileCalls, NEW ok \in BOOLEAN, Transferred(c, ok) PROVE FilesInv'
<1> DEFINE f == [files EXCEPT !.busy = FALSE]
           g == [f EXCEPT !.dialog = None]
<1>1. IF ok THEN Refetch(IF DeleteShown THEN f ELSE g, c) ELSE files' = f /\ fileCalls' = fileCalls \ {c}
  BY DEF Transferred
<1>2. /\ f \in FileStates /\ f.cur = files.cur /\ f.crossed = files.crossed
      /\ f.failed = files.failed /\ f.open = files.open /\ f.selected = files.selected
      /\ f.editor = files.editor /\ f.dialog = files.dialog /\ f.loading = files.loading
      /\ f.listing = files.listing
  BY DEF FilesInv, FilesTypeOK, FileStates
<1> HIDE DEF f
<1>3. /\ g \in FileStates /\ g.cur = files.cur /\ g.crossed = files.crossed
      /\ g.failed = files.failed /\ g.open = files.open /\ g.selected = files.selected
      /\ g.editor = files.editor /\ g.dialog = None
  BY <1>2 DEF FileStates
<1> HIDE DEF g
<1>4. CASE ok
  <2>1. Refetch(f, c) \/ Refetch(g, c)
    BY <1>1, <1>4
  <2> QED
    BY <1>2, <1>3, <2>1, RefetchKeeps
<1>5. CASE ~ok
  <2>1. files' = f /\ fileCalls' = fileCalls \ {c}
    BY <1>1, <1>5
  <2> QED
    BY <1>2, <2>1, SameListingKeeps
<1> QED
  BY <1>4, <1>5

LEMMA DialogGoneKeeps ==
  ASSUME FilesInv
  PROVE  LET g == [files EXCEPT !.dialog = None]
         IN  /\ g \in FileStates /\ g.cur = files.cur /\ g.crossed = files.crossed
             /\ g.failed = files.failed /\ g.open = files.open /\ g.selected = files.selected
             /\ g.editor = files.editor /\ g.dialog = None /\ g.loading = files.loading
             /\ g.listing = files.listing
  BY DEF FilesInv, FilesTypeOK, FileStates

LEMMA DeletedKeeps ==
  ASSUME FilesInv, NEW c \in fileCalls, NEW ok \in BOOLEAN, FileDeleted(c, ok) PROVE FilesInv'
<1> DEFINE g == [files EXCEPT !.dialog = None]
<1>1. files \in FileStates
  BY DEF FilesInv, FilesTypeOK
<1>2. CASE ok
  <2>1. Refetch(g, c) \/ Refetch(files, c)
    BY <1>2 DEF FileDeleted
  <2>2. /\ g \in FileStates /\ g.cur = files.cur /\ g.crossed = files.crossed
        /\ g.failed = files.failed /\ g.open = files.open /\ g.selected = files.selected
        /\ g.editor = files.editor /\ g.dialog = None
    BY DialogGoneKeeps
  <2> HIDE DEF g
  <2> QED
    BY <1>1, <2>1, <2>2, RefetchKeeps
<1>3. CASE ~ok
  <2>1. fileCalls' = fileCalls \ {c} /\ UNCHANGED files
    BY <1>3 DEF FileDeleted
  <2> QED
    BY <1>1, <2>1, SameListingKeeps
<1> QED
  BY <1>2, <1>3

LEMMA CloseDialogKeeps == ASSUME FilesInv, CloseDialog PROVE FilesInv'
<1> DEFINE g == [files EXCEPT !.dialog = None]
<1>1. files' = g /\ UNCHANGED fileCalls
  BY DEF CloseDialog
<1>2. /\ g \in FileStates /\ g.cur = files.cur /\ g.crossed = files.crossed
      /\ g.failed = files.failed /\ g.open = files.open /\ g.selected = files.selected
      /\ g.editor = files.editor /\ g.dialog = None /\ g.loading = files.loading
      /\ g.listing = files.listing
  BY DialogGoneKeeps
<1> HIDE DEF g
<1>3. ListingOK(files') /\ DialogOK(files')
  BY <1>1, <1>2 DEF FilesInv, ListingOK, DialogOK
<1> QED
  BY <1>1, <1>2, <1>3, SteadyKeeps

-----------------------------------------------------------------------------
\* Every step keeps the invariant.
LEMMA FilesStep ==
  ASSUME FileManagerAssumption PROVE FilesInv /\ [FilesNext]_fileVars => FilesInv'
<1> SUFFICES ASSUME FilesInv, [FilesNext]_fileVars PROVE FilesInv'
  OBVIOUS
<1>1. CASE \E n \in DirNames : OpenDirectory(n) \/ PickInto(n)
  BY <1>1, OpenDirectoryKeeps, PickKeeps
<1>2. CASE \E n \in FileNames : ClickFile(n) \/ CreateItem(n) \/ Upload(n)
  BY <1>2, ClickFileKeeps, AddItemKeeps
<1>3. CASE \E op \in {"move", "copy", "delete"}, n \in DirNames \union FileNames : OpenDialog(op, n)
  BY <1>3, OpenDialogKeeps DEF Names
<1>4. CASE \/ GoBack \/ PickBack \/ SaveFile \/ CloseEditor
           \/ SubmitTransfer \/ ConfirmFileDelete \/ CloseDialog
  BY <1>4, GoBackKeeps, PickKeeps, SaveFileKeeps, CloseEditorKeeps, SubmitTransferKeeps,
     ConfirmDeleteCallKeeps, CloseDialogKeeps
<1>5. ASSUME NEW c \in fileCalls, FileAnswer(c) PROVE FilesInv'
  BY <1>5, ListedKeeps, FileReadKeeps, FileSavedKeeps, AddedKeeps, TransferredKeeps, DeletedKeeps,
     PickedKeeps DEF FileAnswer
<1>6. CASE UNCHANGED fileVars
  <2>1. UNCHANGED <<files, fileCalls>> /\ files \in FileStates
    BY <1>6 DEF fileVars, FilesInv, FilesTypeOK
  <2> QED
    BY <2>1, SameListingKeeps
<1> QED
  BY <1>1, <1>2, <1>3, <1>4, <1>5, <1>6 DEF FilesNext, FileClick

\* Until the user moves on with a call outstanding, the calls, the listing, the
\* dialog and the editor are all about the directory and the file he is at
\* (FileManager.tsx, FileEditorModal.tsx).
THEOREM FilesStayTogether == ASSUME FileManagerAssumption PROVE FilesSpec => []FilesInv
  BY FilesInitially, FilesStep, PTL DEF FilesSpec

\* What a delete, a move or a copy is sent for lies in the directory whose
\* listing the user picked it from, unless he moved on with a call outstanding
\* or a listing failed, for any names, depths and calls (FileManager.tsx).
THEOREM AlwaysActsOnWhatWasListed ==
  ASSUME FileManagerAssumption PROVE FilesSpec => []ActsOnWhatWasListed
<1>1. FilesInv => ActsOnWhatWasListed
  BY DEF FilesInv, CallOK, ActsOnWhatWasListed
<1> QED
  BY <1>1, FilesStayTogether, PTL

\* A save writes a file's own text back to it, unless the user clicked on with
\* a call outstanding (FileEditorModal.tsx).
THEOREM AlwaysSavesItsOwnText ==
  ASSUME FileManagerAssumption PROVE FilesSpec => []SavesItsOwnText
<1>1. FilesInv => SavesItsOwnText
  BY DEF FilesInv, CallOK, SavesItsOwnText
<1> QED
  BY <1>1, FilesStayTogether, PTL

-----------------------------------------------------------------------------
(***************************************************************************)
(* Editing rows                                                            *)
(* The page's table, the loads under way, the rows shown and the rows      *)
(* edited come apart only by a click during a load, by a load that failed  *)
(* or by a save answered during a load or after another table had been     *)
(* chosen: until then every load is for the selected table, and with none  *)
(* under way the rows shown and those edited are its rows.  The browser's  *)
(* own choice of the first table cannot cross a click, because the browser *)
(* takes none before its schema is there.                                  *)
(***************************************************************************)

AnyTable == Tables \union {NoTable}

PageStates == [auth : BOOLEAN, left : BOOLEAN, tab : {"rows", "query", "structure"},
               table : AnyTable, data : AnyTable, loading : BOOLEAN, error : BOOLEAN,
               editing : BOOLEAN, changed : BOOLEAN, editedOf : AnyTable, saving : BOOLEAN,
               querying : BOOLEAN, hasty : BOOLEAN, failed : BOOLEAN]

BrowserStates == [loading : BOOLEAN, error : BOOLEAN, table : AnyTable, auto : BOOLEAN]
PanelStates   == [tables : BOOLEAN, error : BOOLEAN, table : AnyTable, rowsOf : AnyTable]

PlainDbCalls  == [kind : {"info", "schema", "details", "query"}, table : {NoTable}]
LoadCalls     == [kind : {"load", "reload"}, table : Tables]
UpdateCalls   == [kind : {"update"}, table : Tables, of : AnyTable]

DbTypeOK == /\ page \in PageStates /\ browser \in BrowserStates /\ panel \in PanelStates
            /\ stored \in BOOLEAN
            /\ dbCalls \subseteq PlainDbCalls \union LoadCalls \union UpdateCalls

SchemaOut == \E c \in dbCalls : c.kind = "schema"

SchemaInv == SchemaOut => /\ browser.loading /\ page.table = NoTable
                          /\ \A c \in dbCalls : c.kind \notin {"load", "reload", "update"}

RowsOK ==
    /\ \A c \in Loads : c.table = page.table
    /\ Loads = {} => page.data = page.table /\ (page.editing => page.editedOf = page.table)
    /\ \A c \in dbCalls : c.kind = "update" => c.of = c.table

DbInv == /\ DbTypeOK
         /\ page.left => dbCalls = {}
         /\ ~page.auth => browser.error
         /\ SchemaInv
         /\ ~page.left /\ ~page.hasty /\ ~page.failed => RowsOK

LEMMA DbCallsByKind ==
  ASSUME DbTypeOK, NEW c \in dbCalls
  PROVE  /\ c.kind \in {"info", "schema", "details", "query", "load", "reload", "update"}
         /\ c.kind \in {"load", "reload", "update"} => c.table \in Tables
         /\ c.kind = "schema" => c = [kind |-> "schema", table |-> NoTable]
<1>1. CASE c \in PlainDbCalls
  BY <1>1 DEF PlainDbCalls
<1>2. CASE c \in LoadCalls
  BY <1>2 DEF LoadCalls
<1>3. CASE c \in UpdateCalls
  BY <1>3 DEF UpdateCalls
<1> QED
  BY <1>1, <1>2, <1>3 DEF DbTypeOK

LEMMA DbInitially == ASSUME DatabaseEditAssumption PROVE DbInit => DbInv
<1> SUFFICES ASSUME DbInit PROVE DbInv
  OBVIOUS
<1>1. PICK auth \in BOOLEAN :
        /\ page = [auth |-> auth, left |-> FALSE, tab |-> "rows", table |-> NoTable,
                   data |-> NoTable, loading |-> FALSE, error |-> FALSE,
                   editing |-> FALSE, changed |-> FALSE, editedOf |-> NoTable,
                   saving |-> FALSE, querying |-> FALSE, hasty |-> FALSE, failed |-> FALSE]
        /\ browser = [loading |-> auth, error |-> ~auth, table |-> NoTable, auto |-> FALSE]
        /\ panel = [tables |-> FALSE, error |-> FALSE, table |-> NoTable, rowsOf |-> NoTable]
        /\ stored = auth
        /\ dbCalls = {[kind |-> "info", table |-> NoTable]} \union
                     IF auth THEN {[kind |-> "schema", table |-> NoTable]} ELSE {}
  BY DEF DbInit
<1>2. NoTable \in AnyTable
  BY DEF AnyTable
<1>3. /\ page \in PageStates /\ page.table = NoTable /\ page.data = NoTable /\ ~page.editing
      /\ ~page.left /\ page.auth = auth
  BY <1>1, <1>2 DEF PageStates
<1>4. browser \in BrowserStates /\ (auth => browser.loading) /\ (~auth => browser.error)
  <2>1. CASE auth
    BY <1>1, <1>2, <2>1 DEF BrowserStates
  <2>2. CASE ~auth
    BY <1>1, <1>2, <2>2 DEF BrowserStates
  <2> QED
    BY <2>1, <2>2
<1>5. panel \in PanelStates /\ stored \in BOOLEAN
  BY <1>1, <1>2 DEF PanelStates
<1>6. \A c \in dbCalls : c \in PlainDbCalls /\ c.kind \in {"info", "schema"}
                         /\ (c.kind = "schema" => auth)
  BY <1>1 DEF PlainDbCalls
<1>7. DbTypeOK
  BY <1>3, <1>4, <1>5, <1>6 DEF DbTypeOK
<1>8. SchemaInv
  BY <1>3, <1>4, <1>6 DEF SchemaInv, SchemaOut
<1>9. RowsOK
  BY <1>3, <1>6 DEF RowsOK, Loads
<1> QED
  BY <1>3, <1>4, <1>7, <1>8, <1>9 DEF DbInv

-----------------------------------------------------------------------------
\* Steps that leave the tables and the loads alone.
LEMMA AsideKeeps ==
  ASSUME DbInv, DbTypeOK', page'.table = page.table, page'.data = page.data,
         page'.editing = page.editing, page'.editedOf = page.editedOf, page'.auth = page.auth,
         page'.left = page.left, page'.hasty = page.hasty, page'.failed = page.failed,
         browser.error => browser'.error,
         SchemaOut' => SchemaOut /\ browser'.loading = browser.loading,
         \A c \in dbCalls' : c \in dbCalls \/ c.kind \in {"info", "details", "query"},
         Loads' = Loads, page.left => dbCalls' = {}
  PROVE  DbInv'
<1>1. SchemaInv'
  BY DEF DbInv, SchemaInv
<1>2. ~page'.left /\ ~page'.hasty /\ ~page'.failed => RowsOK'
  BY DEF DbInv, RowsOK
<1> QED
  BY <1>1, <1>2 DEF DbInv

\* The same for the page's own steps, and for answers that change the page only.
LEMMA PageKeeps ==
  ASSUME DbInv, NEW p \in PageStates, page' = p, p.table = page.table, p.data = page.data,
         p.editing = page.editing, p.editedOf = page.editedOf, p.auth = page.auth,
         p.left = page.left, p.hasty = page.hasty, p.failed = page.failed,
         UNCHANGED <<browser, panel>>, stored' \in BOOLEAN,
         \A c \in dbCalls' : c \in dbCalls \/ (c \in PlainDbCalls /\ c.kind \in {"details", "query"}),
         \A c \in dbCalls \ dbCalls' : c.kind \notin {"load", "reload"},
         page.left => dbCalls' = {}
  PROVE  DbInv'
<1>1. DbTypeOK'
  BY DEF DbInv, DbTypeOK
<1>2. Loads' = Loads
  BY DEF Loads
<1>3. SchemaOut' => SchemaOut
  BY DEF SchemaOut
<1> QED
  BY <1>1, <1>2, <1>3, AsideKeeps

LEMMA LeavingKeeps == ASSUME DbInv, ThrownOut \/ ExitEdit PROVE DbInv'
<1>1. /\ page' = [page EXCEPT !.left = TRUE] /\ dbCalls' = {} /\ UNCHANGED <<browser, panel>>
      /\ stored' \in BOOLEAN
  BY DEF ThrownOut, ExitEdit, DbInv, DbTypeOK
<1>2. page' \in PageStates /\ page'.left /\ page'.auth = page.auth
  BY <1>1 DEF DbInv, DbTypeOK, PageStates
<1> QED
  BY <1>1, <1>2 DEF DbInv, DbTypeOK, SchemaInv, SchemaOut

\* The page stays where it is: answers that concern others, and small clicks.
LEMMA AsideClickKeeps ==
  ASSUME DbInv,
         \/ \E tab \in {"rows", "query", "structure"} : ChooseDbTab(tab)
         \/ EditCell \/ RunQuery
  PROVE  DbInv'
<1>1. page \in PageStates /\ stored \in BOOLEAN
  BY DEF DbInv, DbTypeOK
<1>2. CASE \E tab \in {"rows", "query", "structure"} : ChooseDbTab(tab)
  <2>1. PICK tab \in {"rows", "query", "structure"} : ChooseDbTab(tab)
    BY <1>2
  <2> DEFINE p == [page EXCEPT !.tab = tab]
  <2>2. /\ p \in PageStates /\ p.table = page.table /\ p.data = page.data
        /\ p.editing = page.editing /\ p.editedOf = page.editedOf /\ p.auth = page.auth
        /\ p.left = page.left /\ p.hasty = page.hasty /\ p.failed = page.failed
    BY <1>1 DEF PageStates
  <2>3. page' = p /\ UNCHANGED <<browser, panel, stored, dbCalls>> /\ ~page.left
    BY <2>1 DEF ChooseDbTab
  <2> HIDE DEF p
  <2> QED
    BY <1>1, <2>2, <2>3, PageKeeps
<1>3. CASE EditCell
  <2>1. PICK differs \in BOOLEAN : page' = [page EXCEPT !.changed = differs]
    BY <1>3 DEF EditCell
  <2> DEFINE p == [page EXCEPT !.changed = differs]
  <2>2. /\ p \in PageStates /\ p.table = page.table /\ p.data = page.data
        /\ p.editing = page.editing /\ p.editedOf = page.editedOf /\ p.auth = page.auth
        /\ p.left = page.left /\ p.hasty = page.hasty /\ p.failed = page.failed
    BY <1>1 DEF PageStates
  <2>3. page' = p /\ UNCHANGED <<browser, panel, stored, dbCalls>> /\ ~page.left
    BY <1>3, <2>1 DEF EditCell, CellsShown, OnRows
  <2> HIDE DEF p
  <2> QED
    BY <1>1, <2>2, <2>3, PageKeeps
<1>4. CASE RunQuery
  <2> DEFINE p == [page EXCEPT !.querying = TRUE]
             d == [kind |-> "query", table |-> NoTable]
  <2>1. /\ p \in PageStates /\ p.table = page.table /\ p.data = page.data
        /\ p.editing = page.editing /\ p.editedOf = page.editedOf /\ p.auth = page.auth
        /\ p.left = page.left /\ p.hasty = page.hasty /\ p.failed = page.failed
    BY <1>1 DEF PageStates
  <2>2. page' = p /\ UNCHANGED <<browser, panel, stored>> /\ dbCalls' = dbCalls \union {d} /\ ~page.left
    BY <1>4 DEF RunQuery
  <2>3. d \in PlainDbCalls /\ d.kind = "query"
    BY DEF PlainDbCalls
  <2> HIDE DEF p, d
  <2> QED
    BY <1>1, <2>1, <2>2, <2>3, PageKeeps
<1> QED
  BY <1>2, <1>3, <1>4

LEMMA QueryAnsweredKeeps == ASSUME DbInv, NEW c \in dbCalls, QueryAnswered(c) PROVE DbInv'
<1> DEFINE p == [page EXCEPT !.querying = FALSE]
<1>1. /\ p \in PageStates /\ p.table = page.table /\ p.data = page.data
      /\ p.editing = page.editing /\ p.editedOf = page.editedOf /\ p.auth = page.auth
      /\ p.left = page.left /\ p.hasty = page.hasty /\ p.failed = page.failed
      /\ stored \in BOOLEAN
  BY DEF DbInv, DbTypeOK, PageStates
<1>2. /\ page' = p /\ UNCHANGED <<browser, panel, stored>> /\ dbCalls' = dbCalls \ {c}
      /\ c.kind = "query" /\ ~page.left
  BY DEF QueryAnswered, DbAnswered, DbInv
<1> HIDE DEF p
<1> QED
  BY <1>1, <1>2, PageKeeps

\* The details panel.
LEMMA PanelAnswerKeeps ==
  ASSUME DbInv, NEW c \in dbCalls, NEW ok \in BOOLEAN, PanelInfo(c, ok) \/ PanelDetails(c, ok)
  PROVE  DbInv'
<1>1. page \in PageStates /\ stored \in BOOLEAN /\ ~page.left
  BY DEF DbInv, DbTypeOK
<1>2. CASE PanelInfo(c, ok)
  <2> DEFINE d == [kind |-> "details", table |-> NoTable]
  <2>1. d \in PlainDbCalls /\ d.kind = "details"
    BY DEF PlainDbCalls
  <2>2. /\ c.kind = "info" /\ UNCHANGED <<page, browser, panel, stored>>
        /\ \/ dbCalls' = (dbCalls \ {c}) \union {d}
           \/ dbCalls' = dbCalls \ {c}
    BY <1>2 DEF PanelInfo
  <2> HIDE DEF d
  <2> QED
    BY <1>1, <2>1, <2>2, PageKeeps
<1>3. CASE PanelDetails(c, ok)
  <2>1. /\ c.kind = "details" /\ UNCHANGED <<page, browser, stored>> /\ dbCalls' = dbCalls \ {c}
        /\ panel' = [panel EXCEPT !.tables = ok, !.error = ~ok]
    BY <1>3 DEF PanelDetails, DbAnswered
  <2> DEFINE refused == ~ok
  <2>2. refused \in BOOLEAN /\ panel' = [panel EXCEPT !.tables = ok, !.error = refused]
    BY <2>1
  <2> HIDE DEF refused
  <2>3. panel' \in PanelStates
    BY <2>2 DEF DbInv, DbTypeOK, PanelStates
  <2>4. DbTypeOK'
    BY <2>1, <2>3 DEF DbInv, DbTypeOK
  <2>5. Loads' = Loads /\ (SchemaOut' => SchemaOut)
    BY <2>1 DEF Loads, SchemaOut
  <2> QED
    BY <1>1, <2>1, <2>4, <2>5, AsideKeeps
<1> QED
  BY <1>2, <1>3

-----------------------------------------------------------------------------
\* The schema and the table it selects.  While it is awaited nothing was loaded.
LEMMA NewLoad ==
  ASSUME NEW t \in Tables
  PROVE  DbLoad(t) \in LoadCalls /\ DbLoad(t).kind = "load" /\ DbLoad(t).table = t
  BY DEF DbLoad, LoadCalls

\* A table selected that was not yet, or the first: its load is under way.
LEMMA TableChosenKeeps ==
  ASSUME DbInv, NEW t \in Tables, NEW p \in PageStates, page' = p, p.table = t,
         p.auth = page.auth, ~p.left, p.failed = page.failed,
         ~p.hasty => ~page.hasty /\ ~page.left /\ Loads = {},
         browser' \in BrowserStates, panel' \in PanelStates, UNCHANGED stored,
         browser.error => browser'.error,
         NEW done, \A c \in done : c.kind = "schema",
         dbCalls' = (dbCalls \ done) \union {DbLoad(t)},
         \A c \in dbCalls' : c.kind # "schema"
  PROVE  DbInv'
<1> DEFINE d == DbLoad(t)
<1>1. d \in LoadCalls /\ d.kind = "load" /\ d.table = t
  BY NewLoad
<1>2. dbCalls' = (dbCalls \ done) \union {d}
  OBVIOUS
<1> HIDE DEF d
<1>3. DbTypeOK'
  BY <1>1, <1>2 DEF DbInv, DbTypeOK
<1>4. SchemaInv'
  BY DEF SchemaInv, SchemaOut
<1>5. d \in Loads'
  BY <1>1, <1>2 DEF Loads
<1>6. ~p.hasty => Loads' = {d}
  BY <1>1, <1>2 DEF Loads
<1>7. ~p.hasty /\ ~p.failed => RowsOK'
  BY <1>1, <1>2, <1>6 DEF DbInv, RowsOK
<1> QED
  BY <1>3, <1>4, <1>7 DEF DbInv

\* A selection event.
LEMMA SelectedKeeps ==
  ASSUME DbInv, BrowserShown, NEW t \in Tables, Selected(t), panel' \in PanelStates,
         UNCHANGED stored, browser' = [browser EXCEPT !.table = t]
  PROVE  DbInv'
<1>1. page.auth /\ ~page.left /\ ~SchemaOut /\ page \in PageStates /\ ~browser.loading
  BY DEF BrowserShown, DbInv, DbTypeOK, SchemaInv
<1>2. t \in AnyTable
  BY DEF AnyTable
<1>3. browser' \in BrowserStates /\ browser'.error = browser.error /\ browser'.loading = browser.loading
  BY <1>2 DEF DbInv, DbTypeOK, BrowserStates
<1>4. CASE t = page.table
  <2>1. page' = [page EXCEPT !.table = t] /\ UNCHANGED dbCalls
    BY <1>4 DEF Selected
  <2>2. /\ page' \in PageStates /\ page'.table = page.table /\ page'.data = page.data
        /\ page'.editing = page.editing /\ page'.editedOf = page.editedOf
        /\ page'.auth = page.auth /\ page'.left = page.left /\ page'.hasty = page.hasty
        /\ page'.failed = page.failed
    BY <1>1, <1>2, <1>4, <2>1 DEF PageStates
  <2>3. DbTypeOK' /\ Loads' = Loads /\ SchemaOut' = SchemaOut
    BY <1>3, <2>1, <2>2 DEF DbInv, DbTypeOK, Loads, SchemaOut
  <2> QED
    BY <1>1, <1>3, <2>1, <2>2, <2>3, AsideKeeps
<1>5. CASE t # page.table
  <2> DEFINE hasty == page.hasty \/ Loads # {}
             p     == [page EXCEPT !.table = t, !.loading = TRUE, !.error = FALSE, !.hasty = hasty]
             done  == {}
  <2>1. hasty \in BOOLEAN /\ (~hasty => ~page.hasty /\ Loads = {})
    BY <1>1 DEF PageStates
  <2>2. page' = p /\ dbCalls' = (dbCalls \ done) \union {DbLoad(t)} /\ \A c \in done : c.kind = "schema"
    BY <1>1, <1>5 DEF Selected
  <2> HIDE DEF hasty, done
  <2>3. /\ p \in PageStates /\ p.table = t /\ p.auth = page.auth /\ ~p.left
        /\ p.failed = page.failed /\ p.hasty = hasty
    BY <1>1, <1>2, <2>1 DEF PageStates
  <2> HIDE DEF p
  <2>4. \A c \in dbCalls' : c.kind # "schema"
    BY <1>1, <2>2, NewLoad DEF SchemaOut
  <2> QED
    BY <1>1, <1>3, <2>1, <2>2, <2>3, <2>4, TableChosenKeeps
<1> QED
  BY <1>4, <1>5

LEMMA BrowserClickKeeps ==
  ASSUME DbInv, NEW t \in Tables, ClickTable(t) \/ ClickColumn(t) PROVE DbInv'
<1>1. /\ BrowserShown /\ Selected(t) /\ UNCHANGED stored /\ browser' = [browser EXCEPT !.table = t]
      /\ PanelSelected(t) \/ UNCHANGED panel
  BY DEF ClickTable, ClickColumn
<1>2. panel' \in PanelStates
  <2>1. t \in AnyTable /\ NoTable \in AnyTable /\ panel \in PanelStates
    BY DEF AnyTable, DbInv, DbTypeOK
  <2> QED
    BY <1>1, <2>1 DEF PanelSelected, PanelStates
<1> QED
  BY <1>1, <1>2, SelectedKeeps

LEMMA SchemaLoadedKeeps ==
  ASSUME DatabaseEditAssumption, DbInv, NEW c \in dbCalls, NEW ok \in BOOLEAN, SchemaLoaded(c, ok)
  PROVE  DbInv'
<1> DEFINE auto  == ok /\ ~browser.auto
           error == browser.error \/ ~ok
           done  == browser.auto \/ ok
           table == IF auto THEN First ELSE browser.table
<1>1. /\ c.kind = "schema" /\ UNCHANGED stored
      /\ browser' = [browser EXCEPT !.loading = FALSE, !.error = error, !.auto = done, !.table = table]
      /\ page' = IF auto THEN [page EXCEPT !.table = First, !.loading = TRUE] ELSE page
      /\ IF auto THEN PanelSelected(First) ELSE UNCHANGED panel
      /\ dbCalls' = (dbCalls \ {c}) \union IF auto THEN {DbLoad(First)} ELSE {}
  BY DEF SchemaLoaded
<1>2. First \in Tables /\ First \in AnyTable /\ NoTable \in AnyTable
  BY DEF DatabaseEditAssumption, AnyTable
<1>3. error \in BOOLEAN /\ done \in BOOLEAN /\ table \in AnyTable /\ (browser.error => error)
  BY <1>2 DEF DbInv, DbTypeOK, BrowserStates
<1> HIDE DEF error, done, table
<1>4. browser' \in BrowserStates /\ (browser.error => browser'.error)
  BY <1>1, <1>3 DEF DbInv, DbTypeOK, BrowserStates
<1>5. \A d \in dbCalls : d.kind = "schema" => d = c
  BY <1>1, DbCallsByKind DEF DbInv
<1>6. /\ SchemaOut /\ ~page.left /\ Loads = {} /\ page \in PageStates /\ panel \in PanelStates
  BY <1>1 DEF SchemaOut, DbInv, DbTypeOK, SchemaInv, Loads
<1>7. CASE auto
  <2> DEFINE p    == [page EXCEPT !.table = First, !.loading = TRUE]
             gone == {c}
  <2>1. /\ page' = p /\ PanelSelected(First) /\ dbCalls' = (dbCalls \ gone) \union {DbLoad(First)}
        /\ \A d \in gone : d.kind = "schema"
    BY <1>1, <1>7
  <2>2. /\ p \in PageStates /\ p.table = First /\ p.auth = page.auth /\ ~p.left
        /\ p.failed = page.failed /\ p.hasty = page.hasty
    BY <1>2, <1>6 DEF PageStates
  <2>3. panel' \in PanelStates
    BY <1>2, <1>6, <2>1 DEF PanelSelected, PanelStates
  <2>4. \A d \in dbCalls' : d.kind # "schema"
    BY <1>2, <1>5, <2>1, NewLoad
  <2> HIDE DEF p, gone
  <2> QED
    BY <1>1, <1>2, <1>4, <1>6, <2>1, <2>2, <2>3, <2>4, TableChosenKeeps
<1>8. CASE ~auto
  <2>1. UNCHANGED <<page, panel, stored>> /\ dbCalls' = dbCalls \ {c}
    BY <1>1, <1>8
  <2>2. DbTypeOK' /\ Loads' = Loads /\ ~SchemaOut'
    BY <1>1, <1>4, <1>5, <2>1 DEF DbInv, DbTypeOK, Loads, SchemaOut
  <2> QED
    BY <1>4, <1>6, <2>1, <2>2, AsideKeeps
<1> QED
  BY <1>7, <1>8

LEMMA SchemaRefusedKeeps == ASSUME DbInv, NEW c \in dbCalls, SchemaRefused(c) PROVE DbInv'
<1>1. /\ c.kind = "schema" /\ browser' = [browser EXCEPT !.loading = FALSE, !.error = TRUE]
      /\ stored' \in BOOLEAN /\ dbCalls' = dbCalls \ {c} /\ UNCHANGED <<page, panel>>
  BY DEF SchemaRefused, DbAnswered
<1>2. browser' \in BrowserStates /\ browser'.error
  BY <1>1 DEF DbInv, DbTypeOK, BrowserStates
<1>3. \A d \in dbCalls : d.kind = "schema" => d = c
  BY <1>1, DbCallsByKind DEF DbInv
<1>4. DbTypeOK' /\ Loads' = Loads /\ ~SchemaOut'
  BY <1>1, <1>2, <1>3 DEF DbInv, DbTypeOK, Loads, SchemaOut
<1>5. ~page.left
  BY DEF DbInv
<1> QED
  BY <1>1, <1>2, <1>4, <1>5, AsideKeeps

-----------------------------------------------------------------------------
\* Loading and editing rows.
LEMMA TableLoadedKeeps ==
  ASSUME DbInv, NEW c \in dbCalls, NEW ok \in BOOLEAN, TableLoaded(c, ok) PROVE DbInv'
<1> DEFINE saving == IF c.kind = "reload" THEN FALSE ELSE page.saving
           done   == [page EXCEPT !.loading = FALSE, !.saving = saving]
<1>1. /\ c \in Loads /\ dbCalls' = dbCalls \ {c} /\ UNCHANGED <<browser, stored>>
      /\ IF ok
         THEN /\ page' = [done EXCEPT !.data = c.table, !.editing = FALSE,
                                      !.changed = FALSE, !.editedOf = NoTable]
              /\ panel' = [panel EXCEPT !.rowsOf = c.table]
         ELSE /\ page' = [done EXCEPT !.error = TRUE, !.failed = TRUE]
              /\ UNCHANGED panel
  BY DEF TableLoaded, DbAnswered
<1>2. /\ c.kind \in {"load", "reload"} /\ c.table \in AnyTable /\ NoTable \in AnyTable
      /\ page \in PageStates /\ panel \in PanelStates /\ ~page.left
  BY <1>1, DbCallsByKind DEF Loads, DbInv, DbTypeOK, AnyTable
<1>3. saving \in BOOLEAN
  BY <1>2 DEF PageStates
<1> HIDE DEF saving
<1>4. /\ done \in PageStates /\ done.table = page.table /\ done.auth = page.auth
      /\ done.left = page.left /\ done.hasty = page.hasty /\ done.failed = page.failed
  BY <1>2, <1>3 DEF PageStates
<1> HIDE DEF done
<1>5. /\ page' \in PageStates /\ page'.auth = page.auth /\ page'.left = page.left
      /\ page'.hasty = page.hasty /\ page'.table = page.table
      /\ (ok => page'.failed = page.failed /\ page'.data = c.table /\ ~page'.editing)
      /\ (~ok => page'.failed)
      /\ panel' \in PanelStates
  <2>1. CASE ok
    <3> DEFINE t == c.table
    <3>1. /\ page' = [done EXCEPT !.data = t, !.editing = FALSE, !.changed = FALSE, !.editedOf = NoTable]
          /\ panel' = [panel EXCEPT !.rowsOf = t]
      BY <1>1, <2>1
    <3>2. t \in AnyTable
      BY <1>2
    <3> HIDE DEF t
    <3>3. panel' \in PanelStates
      BY <1>2, <3>1, <3>2 DEF PanelStates
    <3>4. /\ page' \in PageStates /\ page'.auth = done.auth /\ page'.left = done.left
          /\ page'.hasty = done.hasty /\ page'.table = done.table /\ page'.failed = done.failed
          /\ page'.data = t /\ ~page'.editing
      BY <1>2, <1>4, <3>1, <3>2 DEF PageStates
    <3> QED
      BY <1>4, <2>1, <3>3, <3>4 DEF t
  <2>2. CASE ~ok
    <3>1. page' = [done EXCEPT !.error = TRUE, !.failed = TRUE] /\ UNCHANGED panel
      BY <1>1, <2>2
    <3>2. /\ page' \in PageStates /\ page'.auth = done.auth /\ page'.left = done.left
          /\ page'.hasty = done.hasty /\ page'.table = done.table /\ page'.failed
      BY <1>4, <3>1 DEF PageStates
    <3> QED
      BY <1>2, <1>4, <2>2, <3>1, <3>2
  <2> QED
    BY <2>1, <2>2
<1>6. DbTypeOK'
  BY <1>1, <1>5 DEF DbInv, DbTypeOK
<1>7. SchemaInv'
  BY <1>1, <1>2 DEF DbInv, SchemaInv, SchemaOut
<1>8. Loads' = Loads \ {c}
  BY <1>1 DEF Loads
<1>9. ~page'.left /\ ~page'.hasty /\ ~page'.failed => RowsOK'
  BY <1>1, <1>5, <1>8 DEF DbInv, RowsOK
<1> QED
  BY <1>1, <1>2, <1>5, <1>6, <1>7, <1>9 DEF DbInv

LEMMA EnableEditKeeps == ASSUME DbInv, EnableEdit PROVE DbInv'
<1>1. /\ page' = [page EXCEPT !.editing = TRUE, !.changed = FALSE, !.editedOf = page.data]
      /\ UNCHANGED <<browser, panel, stored, dbCalls>>
  BY DEF EnableEdit
<1>2. /\ page' \in PageStates /\ page'.auth = page.auth /\ page'.left = page.left
      /\ page'.hasty = page.hasty /\ page'.failed = page.failed /\ page'.table = page.table
      /\ page'.data = page.data /\ page'.editedOf = page.data
  BY <1>1 DEF DbInv, DbTypeOK, PageStates
<1>3. DbTypeOK' /\ Loads' = Loads /\ SchemaInv'
  BY <1>1, <1>2 DEF DbInv, DbTypeOK, Loads, SchemaInv, SchemaOut
<1>4. ~page'.left /\ ~page'.hasty /\ ~page'.failed => RowsOK'
  BY <1>1, <1>2, <1>3 DEF DbInv, RowsOK
<1> QED
  BY <1>1, <1>2, <1>3, <1>4 DEF DbInv

\* A table is on screen, so the schema is there.
LEMMA OnRowsIsLater == ASSUME DbInv, OnRows PROVE ~SchemaOut /\ page.table \in Tables /\ ~page.left
  BY DEF DbInv, DbTypeOK, PageStates, AnyTable, SchemaInv, OnRows

LEMMA CancelEditKeeps == ASSUME DbInv, CancelEdit PROVE DbInv'
<1> DEFINE d == DbLoad(page.table)
<1>1. /\ OnRows /\ UNCHANGED <<browser, panel, stored>> /\ dbCalls' = dbCalls \union {d}
      /\ page' = [page EXCEPT !.editing = FALSE, !.changed = FALSE, !.editedOf = NoTable,
                              !.loading = TRUE, !.error = FALSE]
  BY DEF CancelEdit
<1>2. ~SchemaOut /\ page.table \in Tables /\ ~page.left /\ NoTable \in AnyTable
  BY <1>1, OnRowsIsLater DEF AnyTable
<1>3. d \in LoadCalls /\ d.kind = "load" /\ d.table = page.table
  BY <1>2, NewLoad
<1> HIDE DEF d
<1>4. /\ page' \in PageStates /\ page'.auth = page.auth /\ page'.left = page.left
      /\ page'.hasty = page.hasty /\ page'.failed = page.failed /\ page'.table = page.table
  BY <1>1, <1>2 DEF DbInv, DbTypeOK, PageStates
<1>5. DbTypeOK' /\ ~SchemaOut'
  BY <1>1, <1>2, <1>3, <1>4 DEF DbInv, DbTypeOK, SchemaOut
<1>6. Loads' = Loads \union {d}
  BY <1>1, <1>3 DEF Loads
<1>7. ~page'.left /\ ~page'.hasty /\ ~page'.failed => RowsOK'
  BY <1>1, <1>3, <1>4, <1>6 DEF DbInv, RowsOK
<1> QED
  BY <1>1, <1>2, <1>4, <1>5, <1>7 DEF DbInv, SchemaInv

\* The update names the selected table and carries the edited rows.
LEMMA SaveRowsKeeps == ASSUME DbInv, SaveRows PROVE DbInv'
<1> DEFINE d     == [kind |-> "update", table |-> page.table, of |-> page.editedOf]
           hasty == page.hasty \/ Loads # {}
<1>1. /\ OnRows /\ page.editing /\ UNCHANGED <<browser, panel, stored>>
      /\ dbCalls' = dbCalls \union {d}
      /\ page' = [page EXCEPT !.saving = TRUE, !.hasty = hasty]
  BY DEF SaveRows
<1>2. ~SchemaOut /\ page.table \in Tables /\ ~page.left
  BY <1>1, OnRowsIsLater
<1>3. hasty \in BOOLEAN /\ (~hasty => ~page.hasty /\ Loads = {}) /\ page.editedOf \in AnyTable
  BY DEF DbInv, DbTypeOK, PageStates
<1> HIDE DEF hasty
<1>4. d \in UpdateCalls /\ d.kind = "update" /\ d.table = page.table /\ d.of = page.editedOf
  BY <1>2, <1>3 DEF UpdateCalls
<1> HIDE DEF d
<1>5. /\ page' \in PageStates /\ page'.auth = page.auth /\ page'.left = page.left
      /\ page'.hasty = hasty /\ page'.failed = page.failed /\ page'.table = page.table
      /\ page'.data = page.data /\ page'.editing = page.editing /\ page'.editedOf = page.editedOf
  BY <1>1, <1>3 DEF DbInv, DbTypeOK, PageStates
<1>6. DbTypeOK' /\ ~SchemaOut' /\ Loads' = Loads
  BY <1>1, <1>2, <1>4, <1>5 DEF DbInv, DbTypeOK, SchemaOut, Loads
<1>7. ~page'.left /\ ~page'.hasty /\ ~page'.failed => RowsOK'
  BY <1>1, <1>3, <1>4, <1>5, <1>6 DEF DbInv, RowsOK
<1> QED
  BY <1>1, <1>2, <1>5, <1>6, <1>7 DEF DbInv, SchemaInv

LEMMA RowsSavedKeeps ==
  ASSUME DbInv, NEW c \in dbCalls, NEW ok \in BOOLEAN, RowsSaved(c, ok) PROVE DbInv'
<1>1. /\ c.kind = "update" /\ c.table \in Tables /\ UNCHANGED <<browser, panel, stored>>
      /\ ~page.left /\ ~SchemaOut /\ page \in PageStates /\ NoTable \in AnyTable
  BY DbCallsByKind DEF RowsSaved, DbInv, DbTypeOK, SchemaInv, AnyTable
<1>2. CASE ok
  <2> DEFINE d     == [kind |-> "reload", table |-> c.table]
             hasty == page.hasty \/ page.table # c.table \/ Loads # {}
  <2>1. /\ dbCalls' = (dbCalls \ {c}) \union {d}
        /\ page' = [page EXCEPT !.editing = FALSE, !.changed = FALSE, !.editedOf = NoTable,
                                !.loading = TRUE, !.error = FALSE, !.hasty = hasty]
    BY <1>2 DEF RowsSaved
  <2>2. hasty \in BOOLEAN /\ (~hasty => ~page.hasty /\ Loads = {} /\ c.table = page.table)
    BY <1>1 DEF PageStates
  <2>3. d \in LoadCalls /\ d.kind = "reload" /\ d.table = c.table
    BY <1>1 DEF LoadCalls
  <2> HIDE DEF hasty, d
  <2>4. /\ page' \in PageStates /\ page'.auth = page.auth /\ page'.left = page.left
        /\ page'.hasty = hasty /\ page'.failed = page.failed /\ page'.table = page.table
    BY <1>1, <2>1, <2>2 DEF PageStates
  <2>5. DbTypeOK' /\ ~SchemaOut'
    BY <1>1, <2>1, <2>3, <2>4 DEF DbInv, DbTypeOK, SchemaOut
  <2>6. Loads' = Loads \union {d}
    BY <1>1, <2>1, <2>3 DEF Loads
  <2>7. ~page'.left /\ ~page'.hasty /\ ~page'.failed => RowsOK'
    BY <2>1, <2>2, <2>3, <2>4, <2>6 DEF DbInv, RowsOK
  <2> QED
    BY <1>1, <2>4, <2>5, <2>7 DEF DbInv, SchemaInv
<1>3. CASE ~ok
  <2> DEFINE p == [page EXCEPT !.saving = FALSE]
  <2>1. page' = p /\ dbCalls' = dbCalls \ {c}
    BY <1>3 DEF RowsSaved, DbAnswered
  <2>2. /\ p \in PageStates /\ p.table = page.table /\ p.data = page.data
        /\ p.editing = page.editing /\ p.editedOf = page.editedOf /\ p.auth = page.auth
        /\ p.left = page.left /\ p.hasty = page.hasty /\ p.failed = page.failed
    BY <1>1 DEF PageStates
  <2>3. stored' \in BOOLEAN
    BY <1>1 DEF DbInv, DbTypeOK
  <2> HIDE DEF p
  <2> QED
    BY <1>1, <2>1, <2>2, <2>3, PageKeeps
<1> QED
  BY <1>2, <1>3

\* Every step keeps the invariant.
LEMMA DbStep == ASSUME DatabaseEditAssumption PROVE DbInv /\ [DbNext]_dbVars => DbInv'
<1> SUFFICES ASSUME DbInv, [DbNext]_dbVars PROVE DbInv'
  OBVIOUS
<1>1. CASE \E t \in Tables : ClickTable(t) \/ ClickColumn(t)
  BY <1>1, BrowserClickKeeps
<1>2. CASE \E tab \in {"rows", "query", "structure"} : ChooseDbTab(tab)
  BY <1>2, AsideClickKeeps
<1>3. CASE EnableEdit \/ EditCell \/ CancelEdit \/ SaveRows \/ RunQuery \/ ExitEdit
  BY <1>3, EnableEditKeeps, AsideClickKeeps, CancelEditKeeps, SaveRowsKeeps, LeavingKeeps
<1>4. ASSUME NEW c \in dbCalls, DbAnswer(c) PROVE DbInv'
  BY <1>4, SchemaLoadedKeeps, PanelAnswerKeeps, TableLoadedKeeps, RowsSavedKeeps, QueryAnsweredKeeps,
     SchemaRefusedKeeps, LeavingKeeps DEF DbAnswer
<1>5. CASE UNCHANGED dbVars
  BY <1>5 DEF dbVars, DbInv, DbTypeOK, SchemaInv, SchemaOut, RowsOK, Loads
<1> QED
  BY <1>1, <1>2, <1>3, <1>4, <1>5 DEF DbNext, DbClick

\* Until a click during a load, a load that fails, or a save answered during a load
\* or after another table had been chosen, the table selected, the rows shown, the
\* rows edited and the loads under way belong together (DatabaseEditPage.tsx,
\* SchemaBrowser.tsx).
THEOREM RowsBelongToTheirTable == ASSUME DatabaseEditAssumption PROVE DbSpec => []DbInv
  BY DbInitially, DbStep, PTL DEF DbSpec

\* An update is sent for the table its rows were read from, unless the user
\* clicked while a table was being loaded, one could not be loaded, or a save was
\* answered during a load or after another table had been chosen, for any number
\* of tables and calls (DatabaseEditPage.tsx, handleSave).
THEOREM UpdatesAlwaysNameTheirTable ==
  ASSUME DatabaseEditAssumption PROVE DbSpec => []UpdatesNameTheirTable
<1>1. DbInv => UpdatesNameTheirTable
  BY DEF DbInv, RowsOK, UpdatesNameTheirTable
<1> QED
  BY <1>1, RowsBelongToTheirTable, PTL

==============================================================================
