--------------------------- MODULE AtomicReplace ---------------------------
(***************************************************************************)
(* What a restore promises (backup/restore.go:114-119): a request replaces *)
(* the whole contents of the site's folder by those of the backup, or it   *)
(* fails and the folder keeps what it had.                                 *)
(***************************************************************************)
CONSTANTS Requests, Name, Content, NoFile, Archives, NoArchive

Contents == [Name -> Content \cup {NoFile}]

VARIABLES
  contents,   \* what the site's folder holds
  asked,      \* the backup a request wants, NoArchive when it is not running
  answer      \* what a request was last told

vars == <<contents, asked, answer>>

Init ==
  /\ contents \in Contents
  /\ asked = [r \in Requests |-> NoArchive]
  /\ answer = [r \in Requests |-> "none"]

\* The site's owner, or the site itself, changes a file.
Edit ==
  /\ \E n \in Name, c \in Content \cup {NoFile} : contents' = [contents EXCEPT ![n] = c]
  /\ UNCHANGED <<asked, answer>>

Ask(r) ==
  /\ asked[r] = NoArchive
  /\ \E a \in Archives : asked' = [asked EXCEPT ![r] = a]
  /\ answer' = [answer EXCEPT ![r] = "none"]
  /\ UNCHANGED contents

Replace(r) ==
  /\ asked[r] # NoArchive
  /\ contents' = asked[r]
  /\ asked' = [asked EXCEPT ![r] = NoArchive]
  /\ answer' = [answer EXCEPT ![r] = "ok"]

Refuse(r) ==
  /\ asked[r] # NoArchive
  /\ asked' = [asked EXCEPT ![r] = NoArchive]
  /\ answer' = [answer EXCEPT ![r] = "failed"]
  /\ UNCHANGED contents

Answer(r) == Replace(r) \/ Refuse(r)

Next == Edit \/ \E r \in Requests : Ask(r) \/ Answer(r)

Spec == Init /\ [][Next]_vars /\ \A r \in Requests : WF_vars(Answer(r))
=============================================================================
