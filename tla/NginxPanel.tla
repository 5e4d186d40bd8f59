------------------------------ MODULE NginxPanel ------------------------------
(***************************************************************************)
(* The nginx configuration editor of the network page                      *)
(* (network/NginxPanel.tsx) over the agent's files                         *)
(* (handlers/nginx_mgmt.go).  Each site has an editor of its own, opened   *)
(* and closed at will; what was typed stays while it is closed, and calls  *)
(* of several editors are out at once.  The agent writes the file, enables *)
(* the site and then tests and reloads nginx: a configuration that nginx   *)
(* refuses stays in the file.  For a site without a file it offers a text  *)
(* it makes up, with the port the site's container has at that moment.     *)
(* The files change through this panel only: what a new certificate or a   *)
(* new site writes into them meanwhile is left out, and so are the marks   *)
(* of the list.                                                            *)
(***************************************************************************)
EXTENDS Naturals, FiniteSets

CONSTANTS Sites, Texts, MaxEditCalls, NoSite,
          MadeUp, NoFile    \* MadeUp: the texts the agent offers in place of a missing file

ASSUME NginxAssumption ==
    /\ NoSite \notin Sites /\ "" \notin Texts /\ MaxEditCalls \in Nat
    /\ MadeUp \subseteq Texts /\ NoFile \notin Texts \union {""}

VARIABLES nginx,     \* the files: the text of each site, or NoFile
          editors,   \* the panel
          editCalls  \* the calls not answered

nginxVars == <<nginx, editors, editCalls>>

(***************************************************************************)
(* An editor that was never opened is "closed".  "text" and "original" are *)
(* the editor's config and originalConfig.  "refused" is history: since    *)
(* the original was last taken from the file, a save went wrong, or its    *)
(* configuration could not be loaded.                                      *)
(***************************************************************************)
Closed == [at |-> "closed", text |-> "", original |-> "", saving |-> FALSE, error |-> FALSE, refused |-> FALSE]

EditorInit ==
    /\ nginx \in [Sites -> Texts \union {NoFile}]
    /\ editors = [expanded |-> NoSite, of |-> [s \in Sites |-> Closed]]
    /\ editCalls = {}

Ask(kind, s, text) == [kind |-> kind, site |-> s, text |-> text]
Room               == Cardinality(editCalls) < MaxEditCalls
Editor             == editors.of[editors.expanded]
Dirty(s)           == editors.of[s].text # editors.of[s].original
\* The text area and its buttons; a failed load leaves only its error.
Editable           == editors.expanded # NoSite /\ Editor.at = "open" /\ ~(Editor.error /\ Editor.text = "")

ExpandSite(s) ==
    /\ IF editors.expanded = s
       THEN editors' = [editors EXCEPT !.expanded = NoSite] /\ UNCHANGED editCalls
       ELSE IF editors.of[s].at # "closed"
       THEN editors' = [editors EXCEPT !.expanded = s] /\ UNCHANGED editCalls
       ELSE /\ Room
            /\ editors' = [editors EXCEPT !.expanded = s, !.of[s].at = "loading"]
            /\ editCalls' = editCalls \union {Ask("load", s, "")}
    /\ UNCHANGED nginx

\* What the agent answers when it is asked for a site's configuration.
Answers(s) == IF nginx[s] = NoFile THEN MadeUp ELSE {nginx[s]}

ConfigLoaded(c, ok) ==
    /\ c.kind = "load"
    /\ \E text \in IF ok THEN Answers(c.site) ELSE {""} :
          editors' = [editors EXCEPT !.of[c.site] =
              [at |-> "open", text |-> text, original |-> text, saving |-> FALSE, error |-> ~ok, refused |-> ~ok]]
    /\ editCalls' = editCalls \ {c}
    /\ UNCHANGED nginx

\* Typing and "Revert" are also possible while a save is out.
UpdateConfig(text) ==
    /\ Editable
    /\ text # Editor.text
    /\ editors' = [editors EXCEPT !.of[editors.expanded].text = text, !.of[editors.expanded].error = FALSE]
    /\ UNCHANGED <<nginx, editCalls>>

ResetConfig ==
    /\ Editable /\ Dirty(editors.expanded)
    /\ editors' = [editors EXCEPT !.of[editors.expanded].text = Editor.original,
                                  !.of[editors.expanded].error = FALSE]
    /\ UNCHANGED <<nginx, editCalls>>

SaveConfig ==
    /\ Editable /\ Dirty(editors.expanded) /\ ~Editor.saving /\ Room
    /\ editors' = [editors EXCEPT !.of[editors.expanded].saving = TRUE, !.of[editors.expanded].error = FALSE]
    /\ editCalls' = editCalls \union {Ask("save", editors.expanded, Editor.text)}
    /\ UNCHANGED nginx

\* Mutant: the original becomes what is in the editor when the answer comes.
SavedAsTyped(c, written, ok) ==
    /\ c.kind = "save" /\ (ok => written) /\ (written => c.text # "")
    /\ nginx' = IF written THEN [nginx EXCEPT ![c.site] = c.text] ELSE nginx
    /\ editors' = [editors EXCEPT !.of[c.site] =
           IF ok THEN [@ EXCEPT !.saving = FALSE, !.original = editors.of[c.site].text, !.refused = FALSE]
                 ELSE [@ EXCEPT !.saving = FALSE, !.error = TRUE, !.refused = TRUE]]
    /\ editCalls' = editCalls \ {c}

\* The agent writes the text unless it is empty or the disk refuses; what
\* fails after that is reported, and the text stays written.
ConfigSaved(c, written, ok) ==
    /\ c.kind = "save" /\ (ok => written) /\ (written => c.text # "")
    /\ nginx' = IF written THEN [nginx EXCEPT ![c.site] = c.text] ELSE nginx
    /\ editors' = [editors EXCEPT !.of[c.site] =
           IF ok THEN [@ EXCEPT !.saving = FALSE, !.original = c.text, !.refused = FALSE]
                 ELSE [@ EXCEPT !.saving = FALSE, !.error = TRUE, !.refused = TRUE]]
    /\ editCalls' = editCalls \ {c}

-----------------------------------------------------------------------------
EditorNext == \/ \E s \in Sites : ExpandSite(s)
              \/ \E t \in Texts \union {""} : UpdateConfig(t)
              \/ ResetConfig \/ SaveConfig
              \/ \E c \in editCalls, ok \in BOOLEAN : \/ ConfigLoaded(c, ok)
                                                      \/ \E written \in BOOLEAN : ConfigSaved(c, written, ok)

EditorSpec == EditorInit /\ [][EditorNext]_nginxVars

(***************************************************************************)
(* Properties                                                              *)
(***************************************************************************)
\* An editor without the "unsaved" mark shows the site's file as it is - or,
\* while the site has none, a text the agent made up for it - whatever was
\* typed, reverted or saved in other editors meanwhile, unless its last save
\* or its load went wrong or a save of it is out.
CleanEditorShowsTheFile ==
    \A s \in Sites :
        LET e == editors.of[s]
        IN e.at = "open" /\ ~Dirty(s) /\ ~e.saving /\ ~e.refused => e.text \in Answers(s)

=============================================================================
