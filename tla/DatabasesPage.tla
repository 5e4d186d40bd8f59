--------------------------- MODULE DatabasesPage ---------------------------
(***************************************************************************)
(* The databases page (databases/page.tsx): a list fetched at the start,   *)
(* every 30 seconds and after each change, a form that creates a database, *)
(* and a dialog each for credentials, deletion, edit mode and download.    *)
(* The agent serves a call at some point between its sending and its       *)
(* answer; until then its databases may change under the page, through     *)
(* this page's own calls or another administrator's.                       *)
(***************************************************************************)
EXTENDS Naturals, FiniteSets

CONSTANTS Databases,     \* the databases that may exist
          Tabular,       \* those with an edit mode: PostgreSQL and SQLite
          MaxListCalls,  \* bound: calls outstanding at once
          NoDatabase

DatabasesPageAssumption ==
    /\ Tabular \subseteq Databases /\ NoDatabase \notin Databases /\ MaxListCalls \in Nat

VARIABLES databases,  \* what the agent has
          list,       \* the page
          listCalls   \* calls sent and not answered

listVars == <<databases, list, listCalls>>

(***************************************************************************)
(* A call is "sent", then served "ok" or "failed"; a served listing holds  *)
(* what the agent had.  "relist" is the listing a deletion waits for.      *)
(* Credentials and downloads leave the agent's list alone, so they are     *)
(* served as they are answered.                                            *)
(***************************************************************************)
Sent(kind, db) == [kind |-> kind, db |-> db, at |-> "sent", found |-> {}]
Listings       == {c \in listCalls : c.kind \in {"list", "relist"}}
Room           == Cardinality(listCalls) < MaxListCalls

ListInit ==
    /\ databases \in SUBSET Databases
    /\ list = [shown |-> {}, loading |-> TRUE, form |-> FALSE,
               creating |-> FALSE, info |-> FALSE, op |-> "none", db |-> NoDatabase,
               deleting |-> FALSE, downloading |-> FALSE, left |-> FALSE]
    /\ listCalls = {Sent("list", NoDatabase)}

(***************************************************************************)
(* The agent                                                               *)
(***************************************************************************)
Changed(c) ==
    CASE c.kind = "create" -> databases \union {c.db}
      [] c.kind = "delete" -> databases \ {c.db}
      [] OTHER             -> databases

\* Deleting a database that has gone fails, and so may any other call; a
\* listing that fails does so as it is answered.
ServeListCall(c, ok) ==
    /\ c.at = "sent"
    /\ c.kind \in {"list", "relist", "create", "delete"}
    /\ c \in Listings => ok
    /\ ok /\ c.kind = "delete" => c.db \in databases
    /\ databases' = IF ok THEN Changed(c) ELSE databases
    /\ listCalls' = (listCalls \ {c}) \union
           {[c EXCEPT !.at = IF ok THEN "ok" ELSE "failed", !.found = IF c \in Listings THEN databases ELSE {}]}
    /\ UNCHANGED list

ChangedElsewhere(db) ==
    /\ databases' = IF db \in databases THEN databases \ {db} ELSE databases \union {db}
    /\ UNCHANGED <<list, listCalls>>

(***************************************************************************)
(* fetchDatabases.  A failure leaves the list as it was.  Error banners are  *)
(* left out: nothing depends on them.                                      *)
(***************************************************************************)
\* Mutant: the timer is set up while the page loads, and only then.
PollWhileLoading ==
    /\ ~list.left /\ list.loading /\ Sent("list", NoDatabase) \notin listCalls
    /\ listCalls' = listCalls \union {Sent("list", NoDatabase)}
    /\ UNCHANGED <<databases, list>>

PollDatabases ==
    /\ ~list.left /\ Cardinality(Listings) < MaxListCalls /\ Sent("list", NoDatabase) \notin listCalls
    /\ listCalls' = listCalls \union {Sent("list", NoDatabase)}
    /\ UNCHANGED <<databases, list>>

DatabasesListed(c, ok) ==
    /\ c \in Listings /\ c.at = IF ok THEN "ok" ELSE "sent"
    /\ list' = [list EXCEPT !.loading = FALSE,
                            !.shown = IF ok THEN c.found ELSE @,
                            !.deleting = IF c.kind = "relist" THEN FALSE ELSE @]
    /\ listCalls' = listCalls \ {c}
    /\ UNCHANGED databases

PageShown == ~list.loading /\ ~list.left

(***************************************************************************)
(* Creating                                                                *)
(***************************************************************************)
ToggleForm ==
    /\ PageShown /\ list.op = "none"
    /\ list' = [list EXCEPT !.form = ~@]
    /\ UNCHANGED <<databases, listCalls>>

CreateDatabase ==
    /\ PageShown /\ list.form /\ ~list.creating /\ Room
    /\ \E db \in Databases \ databases :
         /\ \A c \in listCalls : c.db # db
         /\ listCalls' = listCalls \union {Sent("create", db)}
    /\ list' = [list EXCEPT !.creating = TRUE]
    /\ UNCHANGED databases

\* Follow(l): the page becomes l and asks for the list again.
Follow(l, c, kind) ==
    /\ list' = l
    /\ listCalls' = (listCalls \ {c}) \union {Sent(kind, NoDatabase)}

DatabaseCreated(c) ==
    /\ c.kind = "create" /\ c.at # "sent"
    /\ IF c.at = "ok"
       THEN Follow([list EXCEPT !.creating = FALSE, !.info = TRUE, !.form = FALSE], c, "list")
       ELSE /\ list' = [list EXCEPT !.creating = FALSE]
            /\ listCalls' = listCalls \ {c}
    /\ UNCHANGED databases

GotIt ==
    /\ PageShown /\ list.info
    /\ list' = [list EXCEPT !.info = FALSE]
    /\ UNCHANGED <<databases, listCalls>>

(***************************************************************************)
(* The menu of a database and its dialogs                                  *)
(***************************************************************************)
MenuOf(db) == {"delete", "download"} \union IF db \in Tabular THEN {"edit", "mode"} ELSE {}

OpenDialog(op, db) ==
    /\ PageShown /\ list.op = "none" /\ db \in list.shown /\ op \in MenuOf(db)
    /\ list' = [list EXCEPT !.op = op, !.db = db]
    /\ UNCHANGED <<databases, listCalls>>

\* Cancel stays enabled while the call is out.
CancelDialog ==
    /\ list.op # "none"
    /\ list' = [list EXCEPT !.op = "none", !.db = NoDatabase]
    /\ UNCHANGED <<databases, listCalls>>

Submit(op, l) ==
    /\ PageShown /\ list.op = op /\ Room
    /\ list' = l
    /\ listCalls' = listCalls \union {Sent(op, list.db)}
    /\ UNCHANGED databases

EditCredentials  == ~list.creating /\ Submit("edit", [list EXCEPT !.creating = TRUE])
\* The button waits for the name to be typed.
DeleteDatabase   == ~list.deleting /\ Submit("delete", [list EXCEPT !.deleting = TRUE])
DownloadDatabase == ~list.downloading /\ Submit("download", [list EXCEPT !.downloading = TRUE])

\* An answer closes the dialog of its kind, whichever database it is for.
Closed(l, op) == IF l.op = op THEN [l EXCEPT !.op = "none", !.db = NoDatabase] ELSE l

CredentialsEdited(c, ok) ==
    /\ c.kind = "edit"
    /\ LET l == [list EXCEPT !.creating = FALSE]
       IN IF ok THEN Follow(Closed(l, "edit"), c, "list")
          ELSE list' = l /\ listCalls' = listCalls \ {c}
    /\ UNCHANGED databases

DatabaseDeleted(c) ==
    /\ c.kind = "delete" /\ c.at # "sent"
    /\ IF c.at = "ok" THEN Follow(Closed(list, "delete"), c, "relist")
       ELSE /\ list' = [list EXCEPT !.deleting = FALSE]
            /\ listCalls' = listCalls \ {c}
    /\ UNCHANGED databases

DatabaseDownloaded(c, ok) ==
    /\ c.kind = "download"
    /\ LET l == [list EXCEPT !.downloading = FALSE]
       IN list' = IF ok THEN Closed(l, "download") ELSE l
    /\ listCalls' = listCalls \ {c}
    /\ UNCHANGED databases

\* Both fields filled in, the credentials are kept for the session and the
\* page is left for DatabaseEditPage.
EnterEditMode ==
    /\ PageShown /\ list.op = "mode"
    /\ list' = [list EXCEPT !.op = "none", !.db = NoDatabase, !.left = TRUE]
    /\ listCalls' = {}
    /\ UNCHANGED databases

-----------------------------------------------------------------------------
ListAnswer(c) == \/ DatabaseCreated(c) \/ DatabaseDeleted(c)
                 \/ \E ok \in BOOLEAN : \/ DatabasesListed(c, ok)
                                        \/ CredentialsEdited(c, ok) \/ DatabaseDownloaded(c, ok)

ListClick == \/ ToggleForm \/ CreateDatabase \/ GotIt \/ CancelDialog
             \/ EditCredentials \/ DeleteDatabase \/ DownloadDatabase \/ EnterEditMode
             \/ \E db \in Databases, op \in {"edit", "delete", "mode", "download"} : OpenDialog(op, db)

ListNext == \/ ListClick \/ PollDatabases
            \/ \E db \in Databases : ChangedElsewhere(db)
            \/ \E c \in listCalls : (\E ok \in BOOLEAN : ServeListCall(c, ok)) \/ ListAnswer(c)

(***************************************************************************)
(* What is fair: the timer fires, the agent serves a listing well again    *)
(* and again, and what it answers arrives.  No click is fair.              *)
(***************************************************************************)
ServesAListing   == \E c \in Listings : ServeListCall(c, TRUE)
DeliversAListing == \E c \in Listings : DatabasesListed(c, TRUE)

ListFairness == /\ WF_listVars(PollDatabases)
                /\ SF_listVars(ServesAListing) /\ WF_listVars(DeliversAListing)

ListSpec == ListInit /\ [][ListNext]_listVars /\ ListFairness

(***************************************************************************)
(* Properties                                                              *)
(***************************************************************************)
\* When the agent's databases stop changing, the page ends by showing
\* exactly them, whatever old answers were still on their way.
ListCatchesUp ==
    <>[][UNCHANGED databases]_databases => <>[](list.left \/ list.shown = databases)

=============================================================================
