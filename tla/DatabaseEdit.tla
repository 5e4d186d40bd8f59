---------------------------- MODULE DatabaseEdit ----------------------------
(***************************************************************************)
(* Editing a database's tables: the page (DatabaseEditPage.tsx) and the    *)
(* two sidebars around it, the schema browser on the left                  *)
(* (SchemaBrowser.tsx) and the table details on the right                  *)
(* (DatabaseContextPanel.tsx).  The three do not share state: the browser  *)
(* announces a table or a column with a window event, the page announces   *)
(* the rows it has loaded.  Events are delivered within the step that      *)
(* sends them; the agent's answers come back in any order and may fail, or *)
(* be refused (401), which throws the user out of the page.                *)
(***************************************************************************)
EXTENDS Naturals, FiniteSets

CONSTANTS Tables,      \* the database's tables
          First,       \* the first table of the schema
          MaxDbCalls,  \* bound: calls outstanding at once
          NoTable

DatabaseEditAssumption ==
    /\ First \in Tables /\ NoTable \notin Tables /\ MaxDbCalls \in Nat

VARIABLES page,     \* DatabaseEditPage
          browser,  \* SchemaBrowser
          panel,    \* DatabaseContextPanel
          stored,   \* the credentials are in sessionStorage
          dbCalls   \* the calls the agent has not answered

dbVars == <<page, browser, panel, stored, dbCalls>>

(***************************************************************************)
(* State.  data is the table tableData was loaded from, editedOf the one   *)
(* whose rows editedRows copies, changed whether a cell of the copy        *)
(* differs.  "hasty" and "failed" are history.  The first: a table was     *)
(* chosen or a save sent while a load was under way, or a save was         *)
(* answered while one was, or after another table had been chosen.  The    *)
(* second: a table could not be loaded.                                    *)
(***************************************************************************)

DbInit ==
    \E auth \in BOOLEAN :
      /\ page = [auth |-> auth, left |-> FALSE, tab |-> "rows", table |-> NoTable,
                 data |-> NoTable, loading |-> FALSE, error |-> FALSE,
                 editing |-> FALSE, changed |-> FALSE, editedOf |-> NoTable,
                 saving |-> FALSE, querying |-> FALSE, hasty |-> FALSE, failed |-> FALSE]
      /\ browser = [loading |-> auth, error |-> ~auth, table |-> NoTable, auto |-> FALSE]
      /\ panel = [tables |-> FALSE, error |-> FALSE, table |-> NoTable, rowsOf |-> NoTable]
      /\ stored = auth
      /\ dbCalls = {[kind |-> "info", table |-> NoTable]} \union
                   IF auth THEN {[kind |-> "schema", table |-> NoTable]} ELSE {}

DbRoom(n)  == Cardinality(dbCalls) + n <= MaxDbCalls
Loads      == {c \in dbCalls : c.kind \in {"load", "reload"}}
DbLoad(t)    == [kind |-> "load", table |-> t]
DbAnswered(c) == dbCalls' = dbCalls \ {c}

\* handleInvalidCredentials: forget the credentials and leave for the list.
ThrownOut ==
    /\ stored' = FALSE
    /\ page' = [page EXCEPT !.left = TRUE]
    /\ dbCalls' = {}
    /\ UNCHANGED <<browser, panel>>

(***************************************************************************)
(* The schema browser                                                      *)
(***************************************************************************)
\* What a selection event does to the page: a new table is loaded, and the
\* effect does not run again for the table already selected.
Selected(t) ==
    /\ page' = IF t = page.table \/ ~page.auth
               THEN [page EXCEPT !.table = t]
               ELSE [page EXCEPT !.table = t, !.loading = TRUE, !.error = FALSE,
                                 !.hasty = @ \/ Loads # {}]
    /\ dbCalls' = IF t = page.table \/ ~page.auth THEN dbCalls ELSE dbCalls \union {DbLoad(t)}

\* The details panel listens to table events only.
PanelSelected(t) == panel' = [panel EXCEPT !.table = t, !.rowsOf = NoTable]

\* The browser and the page each ask for the schema; the browser selects
\* the first table once.
SchemaLoaded(c, ok) ==
    /\ c.kind = "schema"
    /\ LET auto == ok /\ ~browser.auto
       IN /\ browser' = [browser EXCEPT !.loading = FALSE, !.error = @ \/ ~ok, !.auto = @ \/ ok,
                                        !.table = IF auto THEN First ELSE @]
          /\ page' = IF auto THEN [page EXCEPT !.table = First, !.loading = TRUE] ELSE page
          /\ IF auto THEN PanelSelected(First) ELSE UNCHANGED panel
          /\ dbCalls' = (dbCalls \ {c}) \union IF auto THEN {DbLoad(First)} ELSE {}
    /\ UNCHANGED stored

\* The browser's own 401 forgets the credentials and leaves the page alone.
SchemaRefused(c) ==
    /\ c.kind = "schema"
    /\ browser' = [browser EXCEPT !.loading = FALSE, !.error = TRUE]
    /\ stored' = FALSE
    /\ DbAnswered(c)
    /\ UNCHANGED <<page, panel>>

BrowserShown == ~browser.loading /\ ~browser.error /\ ~page.left

ClickTable(t) ==
    /\ BrowserShown /\ DbRoom(1)
    /\ browser' = [browser EXCEPT !.table = t]
    /\ Selected(t) /\ PanelSelected(t)
    /\ UNCHANGED stored

ClickColumn(t) ==
    /\ BrowserShown /\ DbRoom(1)
    /\ browser' = [browser EXCEPT !.table = t]
    /\ Selected(t)
    /\ UNCHANGED <<panel, stored>>

(***************************************************************************)
(* The details panel asks for the database, then reads the stored          *)
(* credentials and asks for the schema.                                    *)
(***************************************************************************)
PanelInfo(c, ok) ==
    /\ c.kind = "info"
    /\ dbCalls' = (dbCalls \ {c}) \union
                  IF stored THEN {[kind |-> "details", table |-> NoTable]} ELSE {}
    /\ UNCHANGED <<page, browser, panel, stored>>

PanelDetails(c, ok) ==
    /\ c.kind = "details"
    /\ panel' = [panel EXCEPT !.tables = ok, !.error = ~ok]
    /\ DbAnswered(c)
    /\ UNCHANGED <<page, browser, stored>>

(***************************************************************************)
(* Loading and editing rows                                                *)
(***************************************************************************)
\* Mutant: an answer leaves the cells in edit mode.
LoadedUnderEdits(c, ok) ==
    /\ c \in Loads
    /\ page' = [page EXCEPT !.loading = FALSE, !.saving = IF c.kind = "reload" THEN FALSE ELSE @,
                            !.data = IF ok THEN c.table ELSE @, !.error = @ \/ ~ok,
                            !.failed = @ \/ ~ok]
    /\ panel' = [panel EXCEPT !.rowsOf = IF ok THEN c.table ELSE @]
    /\ DbAnswered(c)
    /\ UNCHANGED <<browser, stored>>

\* loadTableData's answer: it is taken for whatever table it names.  The
\* reload after a save also ends the saving.
TableLoaded(c, ok) ==
    /\ c \in Loads
    /\ LET done == [page EXCEPT !.loading = FALSE, !.saving = IF c.kind = "reload" THEN FALSE ELSE @]
       IN IF ok
          THEN /\ page' = [done EXCEPT !.data = c.table, !.editing = FALSE,
                                       !.changed = FALSE, !.editedOf = NoTable]
               /\ panel' = [panel EXCEPT !.rowsOf = c.table]
          ELSE /\ page' = [done EXCEPT !.error = TRUE, !.failed = TRUE]
               /\ UNCHANGED panel
    /\ DbAnswered(c)
    /\ UNCHANGED <<browser, stored>>

OnRows == page.auth /\ ~page.left /\ page.tab = "rows" /\ page.table # NoTable

EnableEdit ==
    /\ OnRows /\ ~page.editing /\ page.data # NoTable
    /\ page' = [page EXCEPT !.editing = TRUE, !.changed = FALSE, !.editedOf = page.data]
    /\ UNCHANGED <<browser, panel, stored, dbCalls>>

CellsShown == OnRows /\ page.editing /\ ~page.loading /\ ~page.error /\ page.data # NoTable

EditCell ==
    /\ CellsShown
    /\ \E differs \in BOOLEAN : page' = [page EXCEPT !.changed = differs]
    /\ UNCHANGED <<browser, panel, stored, dbCalls>>

CancelEdit ==
    /\ OnRows /\ page.editing /\ DbRoom(1)
    /\ page' = [page EXCEPT !.editing = FALSE, !.changed = FALSE, !.editedOf = NoTable,
                            !.loading = TRUE, !.error = FALSE]
    /\ dbCalls' = dbCalls \union {DbLoad(page.table)}
    /\ UNCHANGED <<browser, panel, stored>>

SaveRows ==
    /\ OnRows /\ page.editing /\ ~page.saving /\ page.data # NoTable
    /\ page.changed /\ DbRoom(1)
    /\ page' = [page EXCEPT !.saving = TRUE, !.hasty = @ \/ Loads # {}]
    /\ dbCalls' = dbCalls \union
           {[kind |-> "update", table |-> page.table, of |-> page.editedOf]}
    /\ UNCHANGED <<browser, panel, stored>>

\* After a save the table it named is loaded again, wherever the user is: once
\* another has been chosen, the saved one's rows come under the new title.
RowsSaved(c, ok) ==
    /\ c.kind = "update"
    /\ IF ok
       THEN /\ page' = [page EXCEPT !.editing = FALSE, !.changed = FALSE, !.editedOf = NoTable,
                                    !.loading = TRUE, !.error = FALSE,
                                    !.hasty = @ \/ page.table # c.table \/ Loads # {}]
            /\ dbCalls' = (dbCalls \ {c}) \union {[kind |-> "reload", table |-> c.table]}
       ELSE /\ page' = [page EXCEPT !.saving = FALSE]
            /\ DbAnswered(c)
    /\ UNCHANGED <<browser, panel, stored>>

(***************************************************************************)
(* The query tab, and leaving                                              *)
(***************************************************************************)
ChooseDbTab(tab) ==
    /\ page.auth /\ ~page.left
    /\ page' = [page EXCEPT !.tab = tab]
    /\ UNCHANGED <<browser, panel, stored, dbCalls>>

RunQuery ==
    /\ page.auth /\ ~page.left /\ page.tab = "query" /\ ~page.querying /\ DbRoom(1)
    /\ page' = [page EXCEPT !.querying = TRUE]
    /\ dbCalls' = dbCalls \union {[kind |-> "query", table |-> NoTable]}
    /\ UNCHANGED <<browser, panel, stored>>

QueryAnswered(c) ==
    /\ c.kind = "query"
    /\ page' = [page EXCEPT !.querying = FALSE]
    /\ DbAnswered(c)
    /\ UNCHANGED <<browser, panel, stored>>

ExitEdit ==
    /\ ~page.left
    /\ page' = [page EXCEPT !.left = TRUE]
    /\ dbCalls' = {}
    /\ UNCHANGED <<browser, panel, stored>>

-----------------------------------------------------------------------------
DbAnswer(c) ==
    \/ \E ok \in BOOLEAN : \/ SchemaLoaded(c, ok) \/ PanelInfo(c, ok) \/ PanelDetails(c, ok)
                           \/ TableLoaded(c, ok) \/ RowsSaved(c, ok)
    \/ QueryAnswered(c)
    \/ SchemaRefused(c)
    \/ c.kind \in {"schema", "load", "reload", "update", "query"} /\ ThrownOut

DbClick ==
    \/ \E t \in Tables : ClickTable(t) \/ ClickColumn(t)
    \/ \E tab \in {"rows", "query", "structure"} : ChooseDbTab(tab)
    \/ EnableEdit \/ EditCell \/ CancelEdit \/ SaveRows \/ RunQuery \/ ExitEdit

DbNext == DbClick \/ \E c \in dbCalls : DbAnswer(c)

DbSpec == DbInit /\ [][DbNext]_dbVars

(***************************************************************************)
(* Properties                                                              *)
(***************************************************************************)
\* An update is sent for the table its rows were read from: handleSave names the
\* selected table and takes its rows from the loaded one.  Three cases are
\* excepted, in which the code may write the rows of one table into another: a
\* click during a load, a load that failed, and a save answered after another
\* table had been chosen, which loads the saved one again under the new title
\* (DatabaseEditPage.tsx:335), even when no load was under way.
UpdatesNameTheirTable ==
    \A c \in dbCalls : c.kind = "update" /\ ~page.hasty /\ ~page.failed => c.of = c.table

=============================================================================
