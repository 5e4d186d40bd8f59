-------------------------- MODULE NetworkPagesProofs -------------------------
(***************************************************************************)
(* Proofs about the parts of the network page: the nginx editor, the DNS   *)
(* panel, the agent's requests about DNS records, and the SSL controls,    *)
(* for any number of sites, zones, records, texts, modes and calls under   *)
(* way.  The parts share no state; each stands alone, and the last theorem *)
(* puts them together.                                                     *)
(***************************************************************************)
EXTENDS NetworkPages, TLAPS

-----------------------------------------------------------------------------
(***************************************************************************)
(* The nginx editor                                                        *)
(* A clean editor shows what the agent would answer.  The property speaks  *)
(* of editors whose text is their original, and typing changes only the    *)
(* text, so the invariant is about the original: it is the file, or a text *)
(* made up for a missing one, unless something went wrong since it was     *)
(* taken.                                                                  *)
(***************************************************************************)

AnyText == Texts \union {""}

EditorStates == [at : {"closed", "loading", "open"}, text : AnyText, original : AnyText,
                 saving : BOOLEAN, error : BOOLEAN, refused : BOOLEAN]

EditCalls == [kind : {"load", "save"}, site : Sites, text : AnyText]

EditorTypeOK ==
    /\ nginx \in [Sites -> AnyText \union {NoFile}]
    /\ editors \in [expanded : Sites \union {NoSite}, of : [Sites -> EditorStates]]
    /\ editCalls \subseteq EditCalls

OriginalIsTheFile ==
    \A s \in Sites : editors.of[s].at = "open" /\ ~editors.of[s].refused
                         => editors.of[s].original \in Answers(s)

EditorInv == EditorTypeOK /\ OriginalIsTheFile

\* The empty editor is an editor state, and so is what a load makes of it.
LEMMA ClosedIsAnEditor == Closed \in EditorStates
  BY DEF Closed, EditorStates, AnyText

\* The panel begins with closed editors.
LEMMA EditorInitially == EditorInit => EditorInv
<1> SUFFICES ASSUME EditorInit PROVE EditorInv
  OBVIOUS
<1>1. EditorTypeOK
  BY ClosedIsAnEditor DEF EditorInit, EditorTypeOK, AnyText
<1>2. OriginalIsTheFile
  BY DEF EditorInit, OriginalIsTheFile, Closed
<1> QED
  BY <1>1, <1>2 DEF EditorInv

\* Opening or closing an editor touches no text.
LEMMA ExpandKeeps == ASSUME EditorInv, NEW s \in Sites, ExpandSite(s) PROVE EditorInv'
<1> USE DEF EditorInv
<1>1. CASE editors.expanded = s
  <2>1. editors' = [editors EXCEPT !.expanded = NoSite] /\ UNCHANGED <<nginx, editCalls>>
    BY <1>1 DEF ExpandSite
  <2> QED
    BY <2>1 DEF EditorTypeOK, OriginalIsTheFile, Answers
<1>2. CASE editors.expanded # s /\ editors.of[s].at # "closed"
  <2>1. editors' = [editors EXCEPT !.expanded = s] /\ UNCHANGED <<nginx, editCalls>>
    BY <1>2 DEF ExpandSite
  <2> QED
    BY <2>1 DEF EditorTypeOK, OriginalIsTheFile, Answers
<1>3. CASE editors.expanded # s /\ editors.of[s].at = "closed"
  <2>1. /\ editors' = [editors EXCEPT !.expanded = s, !.of[s].at = "loading"]
        /\ editCalls' = editCalls \union {Ask("load", s, "")}
        /\ UNCHANGED nginx
    BY <1>3 DEF ExpandSite
  <2>2. Ask("load", s, "") \in EditCalls
    BY DEF Ask, EditCalls, AnyText
  <2>3. [editors.of[s] EXCEPT !.at = "loading"] \in EditorStates
    BY DEF EditorTypeOK, EditorStates
  <2>4. editors'.of = [editors.of EXCEPT ![s] = [@ EXCEPT !.at = "loading"]] /\ editors'.expanded = s
    BY <2>1 DEF EditorTypeOK
  <2>5. editors' \in [expanded : Sites \union {NoSite}, of : [Sites -> EditorStates]]
    BY <2>1, <2>3 DEF EditorTypeOK
  <2>6. EditorTypeOK'
    BY <2>1, <2>2, <2>5 DEF EditorTypeOK
  <2>7. \A t \in Sites \ {s} : editors'.of[t] = editors.of[t]
    BY <2>4 DEF EditorTypeOK
  <2>8. editors'.of[s].at = "loading"
    <3>1. editors.of[s] \in EditorStates
      BY DEF EditorTypeOK
    <3>2. editors'.of[s] = [editors.of[s] EXCEPT !.at = "loading"]
      BY <2>4 DEF EditorTypeOK
    <3> QED
      BY <3>1, <3>2 DEF EditorStates
  <2>9. OriginalIsTheFile'
    <3> SUFFICES ASSUME NEW t \in Sites, editors'.of[t].at = "open", ~editors'.of[t].refused
                 PROVE  editors'.of[t].original \in Answers(t)'
      BY DEF OriginalIsTheFile
    <3>1. t # s /\ editors'.of[t] = editors.of[t]
      BY <2>7, <2>8
    <3>2. editors.of[t].original \in Answers(t)
      BY <3>1 DEF OriginalIsTheFile
    <3> QED
      BY <2>1, <3>1, <3>2 DEF Answers
  <2> QED
    BY <2>6, <2>9
<1> QED
  BY <1>1, <1>2, <1>3

\* An answer replaces one editor by a state e: enough about e.
LEMMA OneEditor ==
  ASSUME EditorTypeOK, NEW s \in Sites, NEW e \in EditorStates,
         editors' = [editors EXCEPT !.of[s] = e]
  PROVE  /\ editors' \in [expanded : Sites \union {NoSite}, of : [Sites -> EditorStates]]
         /\ editors'.of[s] = e
         /\ \A t \in Sites \ {s} : editors'.of[t] = editors.of[t]
  BY DEF EditorTypeOK

\* A load takes the original from the file, or says it could not.
LEMMA LoadKeeps ==
  ASSUME EditorInv, NEW c \in editCalls, NEW ok \in BOOLEAN, ConfigLoaded(c, ok) PROVE EditorInv'
<1> USE DEF EditorInv
<1>1. PICK text \in IF ok THEN Answers(c.site) ELSE {""} :
        editors' = [editors EXCEPT !.of[c.site] =
          [at |-> "open", text |-> text, original |-> text, saving |-> FALSE, error |-> ~ok, refused |-> ~ok]]
  BY DEF ConfigLoaded
<1> DEFINE e == [at |-> "open", text |-> text, original |-> text, saving |-> FALSE, error |-> ~ok, refused |-> ~ok]
<1>2. c.site \in Sites /\ text \in AnyText /\ (ok => text \in Answers(c.site))
  BY <1>1, NginxAssumption DEF EditorTypeOK, EditCalls, AnyText, Answers
<1>3. e \in EditorStates
  BY <1>2 DEF EditorStates
<1>4. /\ editors' = [editors EXCEPT !.of[c.site] = e]
      /\ editCalls' = editCalls \ {c} /\ UNCHANGED nginx
  BY <1>1 DEF ConfigLoaded
<1>5. e.refused = ~ok /\ e.original = text
  OBVIOUS
<1> HIDE DEF e
<1>6. /\ editors' \in [expanded : Sites \union {NoSite}, of : [Sites -> EditorStates]]
      /\ editors'.of[c.site] = e
      /\ \A t \in Sites \ {c.site} : editors'.of[t] = editors.of[t]
  BY <1>2, <1>3, <1>4, OneEditor
<1>7. EditorTypeOK'
  BY <1>4, <1>6 DEF EditorTypeOK
<1>8. OriginalIsTheFile'
  BY <1>2, <1>4, <1>5, <1>6 DEF OriginalIsTheFile, Answers
<1> QED
  BY <1>7, <1>8

\* Typing, reverting and sending a save change neither the original nor what
\* is remembered of it.
LEMMA EditKeeps ==
  ASSUME EditorInv, UNCHANGED nginx, editCalls' \subseteq EditCalls,
         NEW s \in Sites, NEW e \in EditorStates,
         editors' = [editors EXCEPT !.of[s] = e],
         e.at = editors.of[s].at, e.original = editors.of[s].original, e.refused = editors.of[s].refused
  PROVE  EditorInv'
<1>1. /\ editors' \in [expanded : Sites \union {NoSite}, of : [Sites -> EditorStates]]
      /\ editors'.of[s] = e
      /\ \A t \in Sites \ {s} : editors'.of[t] = editors.of[t]
  BY OneEditor DEF EditorInv
<1>2. EditorTypeOK'
  BY <1>1 DEF EditorInv, EditorTypeOK
<1>3. OriginalIsTheFile'
  BY <1>1 DEF EditorInv, OriginalIsTheFile, Answers
<1> QED
  BY <1>2, <1>3 DEF EditorInv

LEMMA UpdateKeeps == ASSUME EditorInv, NEW text \in AnyText, UpdateConfig(text) PROVE EditorInv'
<1> DEFINE s == editors.expanded
           e == [editors.of[s] EXCEPT !.text = text, !.error = FALSE]
<1>1. s \in Sites
  BY DEF UpdateConfig, Editable, EditorInv, EditorTypeOK
<1>2. e \in EditorStates /\ e.at = editors.of[s].at /\ e.original = editors.of[s].original
      /\ e.refused = editors.of[s].refused
  <2>1. editors.of[s] \in EditorStates
    BY <1>1 DEF EditorInv, EditorTypeOK
  <2> QED
    BY <2>1 DEF EditorStates
<1>3. editors' = [editors EXCEPT !.of[s] = e] /\ UNCHANGED <<nginx, editCalls>>
  BY <1>1 DEF UpdateConfig, EditorInv, EditorTypeOK, EditorStates
<1>4. editCalls' \subseteq EditCalls
  BY <1>3 DEF EditorInv, EditorTypeOK
<1> HIDE DEF s, e
<1> QED
  BY <1>1, <1>2, <1>3, <1>4, EditKeeps

LEMMA ResetKeeps == ASSUME EditorInv, ResetConfig PROVE EditorInv'
<1> DEFINE s == editors.expanded
           e == [editors.of[s] EXCEPT !.text = editors.of[s].original, !.error = FALSE]
<1>1. s \in Sites
  BY DEF ResetConfig, Editable, EditorInv, EditorTypeOK
<1>2. e \in EditorStates /\ e.at = editors.of[s].at /\ e.original = editors.of[s].original
      /\ e.refused = editors.of[s].refused
  <2>1. editors.of[s] \in EditorStates
    BY <1>1 DEF EditorInv, EditorTypeOK
  <2> QED
    BY <2>1 DEF EditorStates
<1>3. editors' = [editors EXCEPT !.of[s] = e] /\ UNCHANGED <<nginx, editCalls>>
  BY <1>1 DEF ResetConfig, Editor, EditorInv, EditorTypeOK, EditorStates
<1>4. editCalls' \subseteq EditCalls
  BY <1>3 DEF EditorInv, EditorTypeOK
<1> HIDE DEF s, e
<1> QED
  BY <1>1, <1>2, <1>3, <1>4, EditKeeps

LEMMA SaveKeeps == ASSUME EditorInv, SaveConfig PROVE EditorInv'
<1> DEFINE s == editors.expanded
           e == [editors.of[s] EXCEPT !.saving = TRUE, !.error = FALSE]
<1>1. s \in Sites
  BY DEF SaveConfig, Editable, EditorInv, EditorTypeOK
<1>2. e \in EditorStates /\ e.at = editors.of[s].at /\ e.original = editors.of[s].original
      /\ e.refused = editors.of[s].refused
  <2>1. editors.of[s] \in EditorStates
    BY <1>1 DEF EditorInv, EditorTypeOK
  <2> QED
    BY <2>1 DEF EditorStates
<1>3. /\ editors' = [editors EXCEPT !.of[s] = e] /\ UNCHANGED nginx
      /\ editCalls' = editCalls \union {Ask("save", s, editors.of[s].text)}
  BY <1>1 DEF SaveConfig, Editor, EditorInv, EditorTypeOK, EditorStates
<1>4. Ask("save", s, editors.of[s].text) \in EditCalls
  BY <1>1 DEF Ask, EditCalls, EditorInv, EditorTypeOK, EditorStates
<1>5. editCalls' \subseteq EditCalls
  BY <1>3, <1>4 DEF EditorInv, EditorTypeOK
<1> HIDE DEF s, e
<1> QED
  BY <1>1, <1>2, <1>3, <1>5, EditKeeps

\* A save that went well left its text in the file; another one is remembered.
LEMMA SavedKeeps ==
  ASSUME EditorInv, NEW c \in editCalls, NEW written \in BOOLEAN, NEW ok \in BOOLEAN,
         ConfigSaved(c, written, ok)
  PROVE  EditorInv'
<1> USE DEF EditorInv
<1> DEFINE s == c.site
           e == IF ok THEN [editors.of[s] EXCEPT !.saving = FALSE, !.original = c.text, !.refused = FALSE]
                      ELSE [editors.of[s] EXCEPT !.saving = FALSE, !.error = TRUE, !.refused = TRUE]
<1>1. s \in Sites /\ c.text \in AnyText
  BY DEF EditorTypeOK, EditCalls
<1>2. editors.of[s] \in EditorStates
  BY <1>1 DEF EditorTypeOK
<1>3. e \in EditorStates /\ (ok => ~e.refused /\ e.original = c.text) /\ (~ok => e.refused)
  <2>1. CASE ok
    BY <1>1, <1>2, <2>1 DEF EditorStates
  <2>2. CASE ~ok
    BY <1>1, <1>2, <2>2 DEF EditorStates
  <2> QED
    BY <2>1, <2>2
<1>4. /\ editors' = [editors EXCEPT !.of[s] = e] /\ editCalls' = editCalls \ {c}
      /\ nginx' = IF written THEN [nginx EXCEPT ![s] = c.text] ELSE nginx
      /\ ok => written
  BY <1>1 DEF ConfigSaved, EditorTypeOK, EditorStates
<1> HIDE DEF e, s
<1>5. /\ editors' \in [expanded : Sites \union {NoSite}, of : [Sites -> EditorStates]]
      /\ editors'.of[s] = e
      /\ \A t \in Sites \ {s} : editors'.of[t] = editors.of[t]
  BY <1>1, <1>3, <1>4, OneEditor
<1>6. nginx' \in [Sites -> AnyText \union {NoFile}] /\ (ok => nginx'[s] = c.text)
      /\ \A t \in Sites \ {s} : nginx'[t] = nginx[t]
  BY <1>1, <1>4 DEF EditorTypeOK
<1>7. EditorTypeOK'
  BY <1>4, <1>5, <1>6 DEF EditorTypeOK
<1>8. OriginalIsTheFile'
  <2>1. c.text # NoFile
    BY <1>1, NginxAssumption DEF AnyText
  <2> QED
    BY <1>3, <1>5, <1>6, <2>1 DEF OriginalIsTheFile, Answers
<1> QED
  BY <1>7, <1>8

\* Every step keeps the invariant.
LEMMA EditorStep == EditorInv /\ [EditorNext]_nginxVars => EditorInv'
<1> SUFFICES ASSUME EditorInv, [EditorNext]_nginxVars PROVE EditorInv'
  OBVIOUS
<1>1. CASE \E s \in Sites : ExpandSite(s)
  BY <1>1, ExpandKeeps
<1>2. CASE \E t \in Texts \union {""} : UpdateConfig(t)
  BY <1>2, UpdateKeeps DEF AnyText
<1>3. CASE ResetConfig
  BY <1>3, ResetKeeps
<1>4. CASE SaveConfig
  BY <1>4, SaveKeeps
<1>5. CASE \E c \in editCalls, ok \in BOOLEAN : ConfigLoaded(c, ok)
  BY <1>5, LoadKeeps
<1>6. CASE \E c \in editCalls, ok \in BOOLEAN : \E written \in BOOLEAN : ConfigSaved(c, written, ok)
  BY <1>6, SavedKeeps
<1>7. CASE UNCHANGED nginxVars
  BY <1>7 DEF nginxVars, EditorInv, EditorTypeOK, OriginalIsTheFile, Answers
<1> QED
  BY <1>1, <1>2, <1>3, <1>4, <1>5, <1>6, <1>7 DEF EditorNext

\* The original of every open editor is the site's file, or, while it has none,
\* a text the agent made up for it, unless a save of it went wrong or it could
\* not be loaded (NginxPanel.tsx, nginxGetConfig, nginxPutConfig).
THEOREM OriginalsAreTheFiles == EditorSpec => []EditorInv
  BY EditorInitially, EditorStep, PTL DEF EditorSpec

\* An editor without the "unsaved" mark shows the site's file as it is, or,
\* while it has none, a text the agent made up for it, unless its last save or
\* its load went wrong or a save of it is out; for any number of sites, texts
\* and calls that are out at once.
THEOREM CleanEditorsShowTheFile == EditorSpec => []CleanEditorShowsTheFile
<1>1. EditorInv => CleanEditorShowsTheFile
  BY DEF EditorInv, OriginalIsTheFile, CleanEditorShowsTheFile, Dirty
<1> QED
  BY <1>1, OriginalsAreTheFiles, PTL

-----------------------------------------------------------------------------
(***************************************************************************)
(* The DNS panel                                                           *)
(* While the records asked for have not crossed, those under way are the   *)
(* chosen zone's, and so are those shown unless an answer was missed.      *)
(***************************************************************************)

AnyZone  == Zones \union {NoZone}
Loaders  == {"zones", "relist"}
Dialogs  == {"add", "rmzone", "create", "delete"}
DnsKinds == Loaders \union Dialogs \union {"records", "import", "sync"}

DnsCalls == [kind : DnsKinds, zone : AnyZone, at : {"sent", "ok"}, got : SUBSET Zones,
             from : AnyZone \union Loaders]

PanelStates == [tab : {"config", "zones", "records"}, zones : SUBSET Zones, selected : AnyZone,
                recordsOf : AnyZone, dialog : Dialogs \union {"none"}, target : AnyZone,
                busy : BOOLEAN, crossed : BOOLEAN, missed : BOOLEAN]

\* What a call of a kind carries.
Carries(c) ==
    /\ c.kind = "add" => c.zone \in Zones
    /\ c.kind \in {"add", "rmzone", "import"} => c.from \in Loaders
    /\ c.kind \in {"create", "delete", "sync"} => c.from \in AnyZone

DnsTypeOK ==
    /\ dnsZones \subseteq Zones
    /\ panel \in PanelStates /\ (panel.dialog # "none" => panel.target \in Zones)
    /\ \A c \in dnsCalls : c \in DnsCalls /\ Carries(c)

RecordsInv ==
    panel.tab = "records" /\ panel.selected # NoZone /\ ~panel.crossed =>
        /\ \A r \in RecordCalls : r.zone = panel.selected
        /\ RecordCalls = {} /\ ~panel.missed => panel.recordsOf = panel.selected

DnsInv == DnsTypeOK /\ RecordsInv

LEMMA DnsInitially == DnsInit => DnsInv
<1> SUFFICES ASSUME DnsInit PROVE DnsInv
  OBVIOUS
<1>1. dnsZones \subseteq Zones
  BY DEF DnsInit
<1>2. panel \in PanelStates /\ panel.dialog = "none" /\ panel.tab = "config"
  BY DEF DnsInit, PanelStates, AnyZone, Dialogs
<1>3. \A c \in dnsCalls : c \in DnsCalls /\ Carries(c)
  <2> DEFINE c == [kind |-> "zones", zone |-> NoZone, at |-> "sent", from |-> NoZone, got |-> {}]
  <2>1. "zones" \in DnsKinds /\ NoZone \in AnyZone
    BY DEF DnsKinds, Loaders, AnyZone
  <2>2. c \in DnsCalls /\ Carries(c)
    BY <2>1 DEF DnsCalls, Carries
  <2>3. dnsCalls = {c}
    BY DEF DnsInit
  <2> QED
    BY <2>2, <2>3
<1> QED
  BY <1>1, <1>2, <1>3 DEF DnsInv, DnsTypeOK, RecordsInv

LEMMA LoadZonesLoads == ASSUME NEW z PROVE LoadZones(z) \in Loaders
  BY DEF LoadZones, Loaders

\* What a new call is.
LEMMA NewDnsCall ==
  ASSUME DnsTypeOK, NEW kind \in DnsKinds, NEW z \in AnyZone, kind = "add" => z \in Zones
  PROVE  /\ DnsCall(kind, z) \in DnsCalls /\ Carries(DnsCall(kind, z))
         /\ DnsCall(kind, z).kind = kind /\ DnsCall(kind, z).zone = z
<1> DEFINE from == CASE kind \in {"create", "delete", "sync"}    -> panel.selected
                     [] kind \in {"zones", "relist", "records"} -> NoZone
                     [] OTHER                                   -> LoadZones(panel.selected)
           c == [kind |-> kind, zone |-> z, at |-> "sent", got |-> {}, from |-> from]
<1>1. /\ from \in AnyZone \union Loaders
      /\ kind \in {"add", "rmzone", "import"} => from \in Loaders
      /\ kind \in {"create", "delete", "sync"} => from \in AnyZone
  <2>1. panel.selected \in AnyZone /\ NoZone \in AnyZone /\ LoadZones(panel.selected) \in Loaders
    BY LoadZonesLoads DEF DnsTypeOK, PanelStates, AnyZone
  <2>2. CASE kind \in {"create", "delete", "sync"}
    BY <2>1, <2>2
  <2>3. CASE kind \in {"zones", "relist", "records"}
    BY <2>1, <2>3
  <2>4. CASE kind \notin {"create", "delete", "sync", "zones", "relist", "records"}
    BY <2>1, <2>4
  <2> QED
    BY <2>2, <2>3, <2>4
<1>2. DnsCall(kind, z) = c
  BY DEF DnsCall
<1> HIDE DEF from
<1>3. c \in DnsCalls /\ c.kind = kind /\ c.zone = z /\ Carries(c)
  BY <1>1 DEF DnsCalls, Carries
<1> HIDE DEF c
<1> QED
  BY <1>2, <1>3

LEMMA ListingIs ==
  ASSUME DnsTypeOK, NEW kind \in Loaders
  PROVE  /\ ListZones(kind) \in DnsCalls /\ Carries(ListZones(kind))
         /\ ListZones(kind).kind = kind
<1>1. kind \in DnsKinds /\ NoZone \in AnyZone /\ kind # "add"
  BY DEF DnsKinds, Loaders, AnyZone
<1> QED
  BY <1>1, NewDnsCall DEF ListZones

\* A panel that becomes p asks for the records it will show; they have crossed
\* if others are under way.
LEMMA ShowsKeeps ==
  ASSUME DnsInv, UNCHANGED dnsZones,
         NEW p \in PanelStates, p.dialog # "none" => p.target \in Zones,
         p.recordsOf = panel.recordsOf, p.crossed = panel.crossed, p.missed = panel.missed,
         NEW reload \in AnyZone, NEW done, NEW more, Shows(p, reload, done, more),
         \A e \in done : e.kind # "records",
         \A e \in more : e \in DnsCalls /\ Carries(e) /\ e.kind # "records"
  PROVE  DnsInv'
<1> DEFINE moved == p.selected # panel.selected
           shown == IF p.tab = "records" /\ (moved \/ p.tab # panel.tab) THEN {p.selected} ELSE {}
           asks  == {DnsCall("records", z) : z \in (shown \union {reload}) \ {NoZone}}
           other == IF moved THEN {ListZones(LoadZones(p.selected))} ELSE {}
           crossed == /\ p.tab = "records"
                      /\ IF asks = {} THEN p.crossed
                         ELSE \E r \in (RecordCalls \ done) \union asks : r.zone # p.selected
           missed == p.missed /\ asks = {}
<1>1. /\ panel' = [p EXCEPT !.missed = missed, !.crossed = crossed]
      /\ dnsCalls' = (dnsCalls \ done) \union asks \union more \union other
  BY DEF Shows
<1>2. DnsTypeOK
  BY DEF DnsInv
<1>3. \A e \in asks : e \in DnsCalls /\ Carries(e) /\ e.kind = "records"
  <2>1. "records" \in DnsKinds /\ p.selected \in AnyZone
    BY DEF DnsKinds, PanelStates
  <2> QED
    BY <1>2, <2>1, NewDnsCall
<1>4. \A e \in other : e \in DnsCalls /\ Carries(e) /\ e.kind # "records"
  BY <1>2, LoadZonesLoads, ListingIs DEF Loaders
<1>5. p.selected # NoZone /\ p.tab = "records" /\ asks = {}
        => p.selected = panel.selected /\ p.tab = panel.tab
  OBVIOUS
<1>6. crossed \in BOOLEAN /\ missed \in BOOLEAN /\ (asks = {} => missed = p.missed)
  BY DEF PanelStates
<1>7. asks # {} /\ ~crossed /\ p.tab = "records"
        => \A r \in (RecordCalls \ done) \union asks : r.zone = p.selected
  OBVIOUS
<1>8. asks = {} /\ ~crossed /\ p.tab = "records" => ~p.crossed
  OBVIOUS
<1> HIDE DEF asks, other, crossed, missed
<1>9. /\ panel' \in PanelStates /\ panel'.crossed = crossed /\ panel'.missed = missed /\ panel'.tab = p.tab
      /\ panel'.selected = p.selected /\ panel'.recordsOf = p.recordsOf
      /\ panel'.dialog = p.dialog /\ panel'.target = p.target
  BY <1>1, <1>6 DEF PanelStates
<1>10. DnsTypeOK'
  BY <1>1, <1>2, <1>3, <1>4, <1>9 DEF DnsTypeOK
<1>11. RecordCalls' = RecordCalls \union asks /\ RecordCalls \ done = RecordCalls
  BY <1>1, <1>3, <1>4 DEF RecordCalls
<1>12. RecordsInv'
  <2> SUFFICES ASSUME p.tab = "records", p.selected # NoZone, ~crossed
               PROVE  /\ \A r \in RecordCalls' : r.zone = p.selected
                      /\ RecordCalls' = {} /\ ~missed => p.recordsOf = p.selected
    BY <1>9 DEF RecordsInv
  <2>1. CASE asks = {}
    BY <1>5, <1>6, <1>8, <1>11, <2>1 DEF DnsInv, RecordsInv
  <2>2. CASE asks # {}
    BY <1>7, <1>11, <2>2
  <2> QED
    BY <2>1, <2>2
<1> QED
  BY <1>10, <1>12 DEF DnsInv

\* Steps that show nothing else: the panel's tab, zone and records stay.
LEMMA PanelKeeps ==
  ASSUME DnsInv, UNCHANGED dnsZones,
         panel' \in PanelStates, panel'.dialog # "none" => panel'.target \in Zones,
         panel'.tab = panel.tab, panel'.selected = panel.selected,
         panel'.recordsOf = panel.recordsOf, panel'.crossed = panel.crossed, panel'.missed = panel.missed,
         \A e \in dnsCalls' :
           e \in dnsCalls \/ (e \in DnsCalls /\ Carries(e) /\ e.kind # "records"),
         \A e \in dnsCalls \ dnsCalls' : e.kind # "records"
  PROVE  DnsInv'
<1>1. RecordCalls' = RecordCalls
  BY DEF RecordCalls
<1> QED
  BY <1>1 DEF DnsInv, DnsTypeOK, RecordsInv

\* A step of the agent is told to the call only.
LEMMA ServedKeeps ==
  ASSUME DnsInv, NEW c \in dnsCalls, NEW e \in DnsCalls, Carries(e), e.kind = c.kind, c.kind # "records",
         dnsCalls' = (dnsCalls \ {c}) \union {e}, UNCHANGED panel, dnsZones' \subseteq Zones
  PROVE  DnsInv'
<1>1. RecordCalls' = RecordCalls
  BY DEF RecordCalls
<1> QED
  BY <1>1 DEF DnsInv, DnsTypeOK, RecordsInv

LEMMA ZonesReadKeeps == ASSUME DnsInv, NEW c \in dnsCalls, ZonesRead(c) PROVE DnsInv'
<1> DEFINE e == [c EXCEPT !.at = "ok", !.got = dnsZones]
<1>1. c \in DnsCalls /\ Carries(c) /\ dnsZones \subseteq Zones
  BY DEF DnsInv, DnsTypeOK
<1>2. c.kind \in {"zones", "relist"} /\ dnsCalls' = (dnsCalls \ {c}) \union {e} /\ UNCHANGED <<dnsZones, panel>>
  BY DEF ZonesRead, Then
<1>3. e \in DnsCalls /\ e.kind = c.kind
  BY <1>1 DEF DnsCalls
<1> HIDE DEF e
<1>4. Carries(e)
  BY <1>2, <1>3 DEF Carries
<1> QED
  BY <1>1, <1>2, <1>3, <1>4, ServedKeeps

LEMMA ZoneChangedKeeps == ASSUME DnsInv, NEW c \in dnsCalls, ZoneChanged(c) PROVE DnsInv'
<1> DEFINE e == [c EXCEPT !.at = "ok"]
<1>1. c \in DnsCalls /\ Carries(c) /\ dnsZones \subseteq Zones
  BY DEF DnsInv, DnsTypeOK
<1>2. c.kind \in {"add", "import", "rmzone"} /\ dnsCalls' = (dnsCalls \ {c}) \union {e} /\ UNCHANGED panel
  BY DEF ZoneChanged, Then
<1>3. e \in DnsCalls /\ e.kind = c.kind /\ e.zone = c.zone /\ e.from = c.from
  BY <1>1 DEF DnsCalls
<1> HIDE DEF e
<1>4. Carries(e)
  BY <1>1, <1>3 DEF Carries
<1>5. dnsZones' \subseteq Zones
  <2>1. CASE c.kind = "add"
    BY <1>1, <2>1 DEF ZoneChanged, Carries
  <2>2. CASE c.kind = "import"
    BY <2>2 DEF ZoneChanged
  <2>3. CASE c.kind = "rmzone"
    BY <1>1, <2>3 DEF ZoneChanged
  <2> QED
    BY <1>2, <2>1, <2>2, <2>3
<1> QED
  BY <1>2, <1>3, <1>4, <1>5, ServedKeeps

LEMMA ZonesLoadedKeeps ==
  ASSUME DnsInv, NEW c \in dnsCalls, NEW answer \in {"ok", "refused", "lost"}, ZonesLoaded(c, answer)
  PROVE  DnsInv'
<1> DEFINE got == IF answer = "ok" THEN c.got ELSE {}
           p   == IF answer = "lost" THEN panel ELSE [panel EXCEPT !.zones = got]
<1>1. /\ p \in PanelStates /\ p.dialog = panel.dialog /\ p.target = panel.target /\ p.tab = panel.tab
      /\ p.selected = panel.selected /\ p.recordsOf = panel.recordsOf /\ p.crossed = panel.crossed /\ p.missed = panel.missed
      /\ panel.dialog # "none" => panel.target \in Zones
      /\ got \subseteq Zones
  BY DEF DnsInv, DnsTypeOK, PanelStates, DnsCalls
<1>2. c.kind \in Loaders /\ UNCHANGED dnsZones
  BY DEF ZonesLoaded, Loaders
<1>3. CASE c.kind = "zones" /\ got # {}
  <2>1. PICK z \in got : Shows([p EXCEPT !.selected = z], NoZone, {c}, {})
    BY <1>3 DEF ZonesLoaded
  <2> DEFINE q == [p EXCEPT !.selected = z]
  <2> HIDE DEF p
  <2>2. /\ q \in PanelStates /\ q.dialog = panel.dialog /\ q.target = panel.target
        /\ q.recordsOf = panel.recordsOf /\ q.crossed = panel.crossed /\ q.missed = panel.missed
    BY <1>1, <2>1 DEF PanelStates, AnyZone
  <2>3. NoZone \in AnyZone /\ Shows(q, NoZone, {c}, {})
    BY <2>1 DEF AnyZone
  <2> HIDE DEF q
  <2> QED
    BY <1>1, <1>2, <1>3, <2>2, <2>3, ShowsKeeps DEF Loaders
<1>4. CASE ~(c.kind = "zones" /\ got # {})
  <2>1. panel' = p /\ dnsCalls' = dnsCalls \ {c}
    BY <1>4 DEF ZonesLoaded, Then
  <2> HIDE DEF p
  <2> QED
    BY <1>1, <1>2, <2>1, PanelKeeps DEF Loaders
<1> QED
  BY <1>3, <1>4

LEMMA RecordsLoadedKeeps ==
  ASSUME DnsInv, NEW c \in dnsCalls, NEW lost \in BOOLEAN, RecordsLoaded(c, lost) PROVE DnsInv'
<1>1. /\ c.kind = "records" /\ dnsCalls' = dnsCalls \ {c} /\ UNCHANGED dnsZones
      /\ panel' = [panel EXCEPT !.missed = lost, !.recordsOf = IF lost THEN panel.recordsOf ELSE c.zone]
      /\ c.zone \in AnyZone
  BY DEF RecordsLoaded, Then, DnsInv, DnsTypeOK, DnsCalls
<1>2. /\ panel' \in PanelStates /\ panel'.tab = panel.tab /\ panel'.missed = lost
      /\ panel'.recordsOf = (IF lost THEN panel.recordsOf ELSE c.zone)
      /\ panel'.selected = panel.selected /\ panel'.crossed = panel.crossed
      /\ panel'.dialog = panel.dialog /\ panel'.target = panel.target
  BY <1>1 DEF DnsInv, DnsTypeOK, PanelStates
<1>3. c \in RecordCalls /\ RecordCalls' = RecordCalls \ {c}
  BY <1>1 DEF RecordCalls
<1> QED
  BY <1>1, <1>2, <1>3 DEF DnsInv, DnsTypeOK, RecordsInv

LEMMA ShowTabKeeps ==
  ASSUME DnsInv, NEW t \in {"config", "zones", "records"}, ShowTab(t) PROVE DnsInv'
<1> DEFINE p == [panel EXCEPT !.tab = t]
<1>1. /\ p \in PanelStates /\ p.dialog = panel.dialog /\ p.recordsOf = panel.recordsOf
      /\ p.crossed = panel.crossed /\ p.missed = panel.missed /\ p.dialog = "none"
  BY DEF DnsInv, DnsTypeOK, PanelStates, ShowTab
<1>2. Shows(p, NoZone, {}, {}) /\ UNCHANGED dnsZones
  BY DEF ShowTab
<1>3. NoZone \in AnyZone
  BY DEF AnyZone
<1> HIDE DEF p
<1> QED
  BY <1>1, <1>2, <1>3, ShowsKeeps

LEMMA ChooseZoneKeeps == ASSUME DnsInv, NEW z \in Zones, ChooseZone(z) PROVE DnsInv'
<1> DEFINE p == [panel EXCEPT !.selected = z]
<1>1. /\ p \in PanelStates /\ p.dialog = panel.dialog /\ p.recordsOf = panel.recordsOf
      /\ p.crossed = panel.crossed /\ p.missed = panel.missed /\ p.dialog = "none"
  BY DEF DnsInv, DnsTypeOK, PanelStates, ChooseZone, AnyZone
<1>2. Shows(p, NoZone, {}, {}) /\ UNCHANGED dnsZones
  BY DEF ChooseZone
<1>3. NoZone \in AnyZone
  BY DEF AnyZone
<1> HIDE DEF p
<1> QED
  BY <1>1, <1>2, <1>3, ShowsKeeps

LEMMA DialogKeeps ==
  ASSUME DnsInv,
         CloseDnsDialog \/ \E d \in Dialogs, z \in Zones : OpenDnsDialog(d, z)
  PROVE  DnsInv'
<1>1. UNCHANGED <<dnsZones, dnsCalls>>
  BY DEF CloseDnsDialog, OpenDnsDialog
<1>2. /\ panel' \in PanelStates /\ (panel'.dialog # "none" => panel'.target \in Zones)
      /\ panel'.tab = panel.tab /\ panel'.selected = panel.selected
      /\ panel'.recordsOf = panel.recordsOf /\ panel'.crossed = panel.crossed /\ panel'.missed = panel.missed
  <2>1. CASE CloseDnsDialog
    BY <2>1 DEF CloseDnsDialog, DnsInv, DnsTypeOK, PanelStates, AnyZone
  <2>2. CASE \E d \in Dialogs, z \in Zones : OpenDnsDialog(d, z)
    BY <2>2 DEF OpenDnsDialog, DnsInv, DnsTypeOK, PanelStates, AnyZone
  <2> QED
    BY <2>1, <2>2
<1> QED
  BY <1>1, <1>2, PanelKeeps

LEMMA SubmitsKeeps ==
  ASSUME DnsInv, NEW dialogs \in SUBSET Dialogs, Submits(dialogs) PROVE DnsInv'
<1> DEFINE c == DnsCall(panel.dialog, panel.target)
<1>1. panel.dialog \in Dialogs /\ panel.dialog # "none" /\ panel.target \in Zones
  BY DEF Submits, DnsInv, DnsTypeOK, Dialogs
<1>2. c \in DnsCalls /\ Carries(c) /\ c.kind # "records"
  <2>1. panel.dialog \in DnsKinds /\ panel.target \in AnyZone /\ panel.dialog # "records"
    BY <1>1 DEF DnsKinds, AnyZone, Dialogs
  <2> QED
    BY <1>1, <2>1, NewDnsCall DEF DnsInv
<1>3. panel' = [panel EXCEPT !.busy = TRUE] /\ dnsCalls' = dnsCalls \union {c} /\ UNCHANGED dnsZones
  BY DEF Submits
<1> HIDE DEF c
<1>4. /\ panel' \in PanelStates /\ panel'.dialog = panel.dialog /\ panel'.target = panel.target
      /\ panel'.tab = panel.tab /\ panel'.selected = panel.selected
      /\ panel'.recordsOf = panel.recordsOf /\ panel'.crossed = panel.crossed /\ panel'.missed = panel.missed
  BY <1>3 DEF DnsInv, DnsTypeOK, PanelStates
<1> QED
  BY <1>1, <1>2, <1>3, <1>4, PanelKeeps

LEMMA ImportOrSyncKeeps ==
  ASSUME DnsInv, NEW kind \in {"import", "sync"}, ImportOrSync(kind) PROVE DnsInv'
<1> DEFINE c == DnsCall(kind, NoZone)
<1>1. c \in DnsCalls /\ Carries(c) /\ c.kind = kind
  <2>1. kind \in DnsKinds /\ NoZone \in AnyZone /\ kind # "add"
    BY DEF DnsKinds, AnyZone
  <2> QED
    BY <2>1, NewDnsCall DEF DnsInv
<1>2. dnsCalls' = dnsCalls \union {c} /\ UNCHANGED <<dnsZones, panel>>
  BY DEF ImportOrSync
<1> HIDE DEF c
<1> QED
  BY <1>1, <1>2, PanelKeeps DEF DnsInv, DnsTypeOK

LEMMA SyncedKeeps == ASSUME DnsInv, NEW c \in dnsCalls, NEW ok \in BOOLEAN, Synced(c, ok) PROVE DnsInv'
<1>1. c.kind = "sync" /\ UNCHANGED dnsZones /\ c.from \in AnyZone
  BY DEF Synced, DnsInv, DnsTypeOK, Carries
<1>2. panel \in PanelStates /\ (panel.dialog # "none" => panel.target \in Zones)
  BY DEF DnsInv, DnsTypeOK
<1>3. CASE ok
  <2>1. \A e \in {ListZones(LoadZones(c.from))} : e \in DnsCalls /\ Carries(e) /\ e.kind # "records"
    BY LoadZonesLoads, ListingIs DEF Loaders, DnsInv
  <2>2. Shows(panel, c.from, {c}, {ListZones(LoadZones(c.from))})
    BY <1>3 DEF Synced
  <2> QED
    BY <1>1, <1>2, <2>1, <2>2, ShowsKeeps
<1>4. CASE ~ok
  <2>1. UNCHANGED panel /\ dnsCalls' = dnsCalls \ {c}
    BY <1>4 DEF Synced, Then
  <2> QED
    BY <1>1, <1>2, <2>1, PanelKeeps
<1> QED
  BY <1>3, <1>4

LEMMA DnsAnsweredKeeps ==
  ASSUME DnsInv, NEW c \in dnsCalls, NEW ok \in BOOLEAN, DnsAnswered(c, ok) PROVE DnsInv'
<1> DEFINE open == panel.dialog = c.kind
           p == IF ~open THEN panel ELSE [panel EXCEPT !.busy = FALSE]
           q == IF ~open THEN panel ELSE [p EXCEPT !.dialog = "none", !.target = NoZone]
<1>1. /\ c.kind \in {"add", "rmzone", "create", "delete", "import"} /\ UNCHANGED dnsZones
      /\ IF ~ok THEN panel' = p /\ Then(c, {})
         ELSE CASE c.kind = "create" -> RecordCreated(q, c)
                [] c.kind = "delete" -> RecordDeleted(q, c)
                [] c.kind = "add"    -> ZoneAdded(q, c)
                [] OTHER             -> ZoneListed(q, c)
  BY DEF DnsAnswered
<1>2. panel \in PanelStates /\ (panel.dialog # "none" => panel.target \in Zones) /\ Carries(c)
  BY DEF DnsInv, DnsTypeOK
<1>3. /\ p \in PanelStates /\ p.dialog = panel.dialog /\ p.target = panel.target /\ p.tab = panel.tab
      /\ p.selected = panel.selected /\ p.recordsOf = panel.recordsOf /\ p.crossed = panel.crossed /\ p.missed = panel.missed
  BY <1>2 DEF PanelStates
<1> HIDE DEF p
<1>4. /\ q \in PanelStates /\ (q.dialog # "none" => q.target \in Zones)
      /\ q.recordsOf = panel.recordsOf /\ q.crossed = panel.crossed /\ q.missed = panel.missed
  BY <1>2, <1>3 DEF PanelStates, AnyZone
<1> HIDE DEF q
<1> DEFINE r(t) == [q EXCEPT !.tab = t]
<1>5. ASSUME NEW t \in {"zones", "records"}
      PROVE  /\ r(t) \in PanelStates /\ (r(t).dialog # "none" => r(t).target \in Zones)
             /\ r(t).recordsOf = panel.recordsOf /\ r(t).crossed = panel.crossed /\ r(t).missed = panel.missed
  BY <1>4 DEF PanelStates
<1>6. NoZone \in AnyZone
  BY DEF AnyZone
<1>7. c.kind \in {"add", "rmzone", "import"} =>
        \A e \in {ListZones(c.from)} : e \in DnsCalls /\ Carries(e) /\ e.kind # "records"
  BY <1>2, ListingIs DEF Loaders, DnsInv, Carries
<1>8. CASE ~ok
  <2>1. panel' = p /\ dnsCalls' = dnsCalls \ {c}
    BY <1>1, <1>8 DEF Then
  <2> QED
    BY <1>1, <1>2, <1>3, <2>1, PanelKeeps
<1>9. CASE ok /\ c.kind = "create"
  <2>1. Shows(r("records"), c.from, {c}, {}) /\ c.from \in AnyZone
    BY <1>1, <1>2, <1>9 DEF RecordCreated, Carries
  <2> HIDE DEF r
  <2> QED
    BY <1>1, <1>5, <1>9, <2>1, ShowsKeeps
<1>10. CASE ok /\ c.kind = "delete"
  <2>1. Shows(q, c.from, {c}, {}) /\ c.from \in AnyZone
    BY <1>1, <1>2, <1>10 DEF RecordDeleted, Carries
  <2> QED
    BY <1>1, <1>4, <1>10, <2>1, ShowsKeeps
<1>11. CASE ok /\ c.kind = "add"
  <2>1. Shows(r("zones"), NoZone, {c}, {ListZones(c.from)})
    BY <1>1, <1>11 DEF ZoneAdded
  <2> HIDE DEF r
  <2> QED
    BY <1>1, <1>5, <1>6, <1>7, <1>11, <2>1, ShowsKeeps
<1>12. CASE ok /\ c.kind \in {"rmzone", "import"}
  <2>1. Shows(q, NoZone, {c}, {ListZones(c.from)})
    BY <1>1, <1>12 DEF ZoneListed
  <2> QED
    BY <1>1, <1>4, <1>6, <1>7, <1>12, <2>1, ShowsKeeps
<1> QED
  BY <1>1, <1>8, <1>9, <1>10, <1>11, <1>12

\* Every step keeps the invariant.
LEMMA DnsStep == DnsInv /\ [DnsNext]_dnsVars => DnsInv'
<1> SUFFICES ASSUME DnsInv, [DnsNext]_dnsVars PROVE DnsInv'
  OBVIOUS
<1>1. CASE DnsClick
  <2>1. {"add"} \in SUBSET Dialogs /\ {"create"} \in SUBSET Dialogs /\ {"rmzone", "delete"} \in SUBSET Dialogs
    BY DEF Dialogs
  <2>2. CASE SubmitZoneForm \/ SubmitRecordForm \/ ConfirmDnsDelete
    BY <2>1, <2>2, SubmitsKeeps DEF SubmitZoneForm, SubmitRecordForm, ConfirmDnsDelete
  <2>3. CASE CloseDnsDialog \/ \E z \in Zones, d \in {"add", "rmzone", "create", "delete"} : OpenDnsDialog(d, z)
    BY <2>3, DialogKeeps DEF Dialogs
  <2> QED
    BY <1>1, <2>2, <2>3, ShowTabKeeps, ChooseZoneKeeps, ImportOrSyncKeeps DEF DnsClick
<1>2. CASE \E c \in dnsCalls : ServeDns(c)
  BY <1>2, ZonesReadKeeps, ZoneChangedKeeps DEF ServeDns
<1>3. CASE \E c \in dnsCalls : AnswerDns(c)
  BY <1>3, ZonesLoadedKeeps, DnsAnsweredKeeps, RecordsLoadedKeeps, SyncedKeeps DEF AnswerDns
<1>4. CASE UNCHANGED dnsVars
  BY <1>4 DEF dnsVars, DnsInv, DnsTypeOK, RecordsInv, RecordCalls
<1> QED
  BY <1>1, <1>2, <1>3, <1>4 DEF DnsNext

\* The panel's records, and those on their way to it, are the chosen zone's,
\* except as the next theorem says (DnsPanel.tsx).
THEOREM PanelHoldsTogether == DnsSpec => []DnsInv
  BY DnsInitially, DnsStep, PTL DEF DnsSpec

\* With no answer on its way the records shown are those of the zone chosen,
\* unless the last ones asked for crossed with, or were, another zone's, or the
\* last answer about them was lost; for any number of zones and calls
\* (DnsPanel.tsx).
THEOREM RecordsAlwaysMatchTheirZone == DnsSpec => []RecordsMatchTheirZone
<1>1. DnsInv => RecordsMatchTheirZone
  BY DEF DnsInv, RecordsInv, RecordsMatchTheirZone
<1> QED
  BY <1>1, PanelHoldsTogether, PTL

-----------------------------------------------------------------------------
(***************************************************************************)
(* The agent's requests about DNS records                                  *)
(* The property speaks of moments at which no request is in the middle of  *)
(* its steps, so the invariant says what is so in the middle.  A request   *)
(* that is alone is the only one, and the copy and Cloudflare differ just  *)
(* by what its next steps will do; a synchronisation that is alone knows   *)
(* this whatever was before it.  Requests that are not alone make the      *)
(* copy doubtful when they end, unless they have changed nothing.          *)
(***************************************************************************)

CopyRows == [id : Rows, record : Records \union {NoRecord}]

Stores == [on : BOOLEAN, zone : BOOLEAN, cloud : SUBSET Records, copy : SUBSET CopyRows, doubt : BOOLEAN]

USE DEF Stores

Requests == [kind : {"create", "delete", "sync"}, at : {"sent", "left", "found", "cloud", "listed", "cleared"},
             row : Rows \union {NoRow}, record : Records \union {NoRecord}, listed : SUBSET Records,
             alone : BOOLEAN]

\* The stages of each kind.
StageOK(c) ==
    /\ c.kind = "create" => c.at \in {"sent", "cloud", "left"} /\ (c.at = "sent" => c.record = NoRecord)
    /\ c.kind = "delete" => c.at \in {"sent", "found", "cloud", "left"}
    /\ c.kind = "sync" => c.at \in {"sent", "listed", "cleared"}
    /\ c.alone => c.at \notin {"sent", "left"}

AgentTypeOK ==
    /\ store \in Stores
    /\ \A c \in requests : c \in Requests /\ StageOK(c)
    /\ \A r, s \in store.copy : r.id = s.id => r = s
    /\ \A c, d \in requests : c.alone /\ d.alone => c = d

Named   == {r.record : r \in CloudRows}
OncePer == \A r, s \in CloudRows : r.record = s.record => r = s
Agrees  == Named = store.cloud /\ OncePer

\* What a request that is alone knows.
Knows(c) ==
    /\ c.at = "found" => \E r \in store.copy : r.id = c.row /\ r.record = c.record
    /\ c.kind = "delete" /\ c.at = "cloud" => \A r \in store.copy : r.id = c.row => r.record = c.record
    /\ c.at = "listed" => c.listed = store.cloud
    /\ c.at = "cleared" => OncePer /\ Named \intersect c.listed = {} /\ store.cloud = Named \union c.listed

\* Between the two steps of a creation, and of a deletion.
Midway(c) ==
    /\ OncePer
    /\ c.kind = "create" => c.record \notin Named /\ store.cloud = Named \union ({c.record} \ {NoRecord})
    /\ c.kind = "delete" => \A x : x \in store.cloud <=> \E r \in CloudRows : r.id # c.row /\ r.record = x

\* None but a request that is alone has begun to change anything.
Quiet == ~store.doubt /\ \A c \in Busy : c.alone \/ c.at = "found"

AloneInv == store.zone => \A c \in requests : c.alone => Knows(c)

QuietInv ==
    store.zone /\ Quiet =>
        /\ (\A c \in Busy : c.at = "found") => Agrees
        /\ \A c \in Busy : c.at = "cloud" => Midway(c)

AgentInv == AgentTypeOK /\ AloneInv /\ QuietInv

LEMMA AgentInitially == AgentInit => AgentInv
<1> SUFFICES ASSUME AgentInit PROVE AgentInv
  OBVIOUS
<1>1. PICK on \in BOOLEAN, cloud \in SUBSET Records :
         store = [on |-> on, zone |-> TRUE, cloud |-> cloud, copy |-> {}, doubt |-> cloud # {}]
  BY DEF AgentInit
<1>2. requests = {} /\ store.copy = {} /\ (~store.doubt => store.cloud = {})
  BY <1>1 DEF AgentInit
<1>3. AgentTypeOK
  <2>1. (cloud # {}) \in BOOLEAN
    OBVIOUS
  <2>2. store \in Stores
    BY <1>1, <2>1
  <2> QED
    BY <1>2, <2>2 DEF AgentTypeOK
<1> QED
  BY <1>2, <1>3 DEF AgentInv, AloneInv, QuietInv, Quiet, Busy, Agrees, Named, OncePer, CloudRows

-----------------------------------------------------------------------------
(* Steps of the requests *)

\* After a change the other requests are where they were, and not alone.
LEMMA Disturbed ==
  ASSUME AgentInv, NEW c \in requests, NEW next, Disturbs(c, next)
  PROVE  /\ next \subseteq requests'
         /\ \A d \in requests' : d \in next \/ (d \in Requests /\ StageOK(d) /\ ~d.alone)
         /\ \A b \in requests : b = c \/ \E d \in requests' : d.at = b.at /\ ~d.alone
<1>1. \A b \in requests : LET d == [b EXCEPT !.alone = FALSE]
                          IN d \in Requests /\ StageOK(d) /\ d.at = b.at /\ ~d.alone
  <2> TAKE b \in requests
  <2> DEFINE d == [b EXCEPT !.alone = FALSE]
  <2>1. b \in Requests /\ StageOK(b)
    BY DEF AgentInv, AgentTypeOK
  <2>2. d \in Requests /\ d.at = b.at /\ d.kind = b.kind /\ d.record = b.record /\ ~d.alone
    BY <2>1 DEF Requests
  <2>3. StageOK(d)
    BY <2>1, <2>2 DEF StageOK
  <2> QED
    BY <2>2, <2>3
<1>2. requests' = {[d EXCEPT !.alone = FALSE] : d \in requests \ {c}} \union next
  BY DEF Disturbs
<1>3. \A b \in requests \ {c} : [b EXCEPT !.alone = FALSE] \in requests'
  BY <1>2
<1> QED
  BY <1>1, <1>2, <1>3

\* A change of c that leaves at most e behind: if e is not alone, and marks the
\* copy doubtful or is in the middle of changing it, nothing more is to show.
LEMMA ChangeKeeps ==
  ASSUME AgentInv, NEW c \in requests, NEW next, Disturbs(c, next),
         store' \in Stores,
         \A r, s \in store'.copy : r.id = s.id => r = s,
         \A d \in next : d \in Requests /\ StageOK(d),
         \A d, e \in next : d = e,
         store'.zone => \A d \in next : d.alone => Knows(d)',
         store'.zone /\ ~store'.doubt /\ (\A d \in next : d.alone) /\ (\A b \in Busy : b = c \/ b.at = "found") =>
           /\ next = {} => Agrees'
           /\ \A d \in next : /\ d.at \notin {"sent", "left", "found"}
                              /\ d.at = "cloud" => Midway(d)',
         \A d \in next : d.at \notin {"sent", "left", "found"}
  PROVE  AgentInv'
<1>1. /\ next \subseteq requests'
      /\ \A d \in requests' : d \in next \/ (d \in Requests /\ StageOK(d) /\ ~d.alone)
      /\ \A b \in requests : b = c \/ \E d \in requests' : d.at = b.at /\ ~d.alone
  BY Disturbed
<1>2. AgentTypeOK'
  BY <1>1 DEF AgentTypeOK
<1>3. AloneInv'
  BY <1>1 DEF AloneInv
<1>4. QuietInv'
  <2> SUFFICES ASSUME store'.zone, Quiet'
               PROVE  /\ (\A d \in Busy' : d.at = "found") => Agrees'
                      /\ \A d \in Busy' : d.at = "cloud" => Midway(d)'
    BY DEF QuietInv
  <2>1. ~store'.doubt /\ \A d \in requests' : d.at \notin {"sent", "left"} => d.alone \/ d.at = "found"
    BY DEF Quiet, Busy
  <2>2. \A d \in next : d.alone
    BY <1>1, <2>1
  <2>3. \A b \in Busy : b = c \/ b.at = "found"
    BY <1>1, <2>1 DEF Busy
  <2>4. \A d \in Busy' : d \in next \/ d.at = "found"
    BY <1>1, <2>1 DEF Busy
  <2>5. next \subseteq Busy'
    BY <1>1 DEF Busy
  <2> QED
    BY <2>1, <2>2, <2>3, <2>4, <2>5
<1> QED
  BY <1>2, <1>3, <1>4 DEF AgentInv

\* A step that changes neither the copy nor Cloudflare.
LEMMA StepKeeps ==
  ASSUME AgentInv, NEW c \in requests, NEW next, Proceeds(c, next), c.at \in {"sent", "found"},
         store' \in Stores,
         store'.copy = store.copy, store'.cloud = store.cloud, store'.zone = store.zone,
         store.doubt => store'.doubt,
         \A d \in next : d \in Requests /\ StageOK(d),
         \A d, e \in next : d = e,
         \A d \in next : d.alone => \A b \in requests : b.alone => b = c,
         store.zone => \A d \in next : d.alone => Knows(d)',
         store.zone /\ Quiet /\ ~store'.doubt => \A d \in next : d.alone /\ d.at = "cloud" => Midway(d)'
  PROVE  AgentInv'
<1>1. requests' = (requests \ {c}) \union next
  BY DEF Proceeds
<1>2. AgentTypeOK'
  BY <1>1 DEF AgentInv, AgentTypeOK
<1>3. CloudRows' = CloudRows
  BY DEF CloudRows
<1>4. Named' = Named /\ OncePer' = OncePer /\ Agrees' = Agrees
  BY <1>3 DEF Named, OncePer, Agrees
<1>5. \A b \in requests : Knows(b)' = Knows(b) /\ Midway(b)' = Midway(b)
  BY <1>3, <1>4 DEF Knows, Midway
<1>6. AloneInv'
  BY <1>1, <1>5 DEF AgentInv, AloneInv
<1>7. QuietInv'
  <2> SUFFICES ASSUME store'.zone, Quiet'
               PROVE  /\ (\A d \in Busy' : d.at = "found") => Agrees'
                      /\ \A d \in Busy' : d.at = "cloud" => Midway(d)'
    BY DEF QuietInv
  <2>1. ~store'.doubt /\ \A d \in Busy' : d.alone \/ d.at = "found"
    BY DEF Quiet
  <2>2. \A b \in Busy : b = c \/ b \in Busy'
    BY <1>1 DEF Busy
  <2>3. \A d \in Busy' : d \in next \/ d \in Busy
    BY <1>1 DEF Busy
  <2>4. Quiet
    BY <2>1, <2>2 DEF Quiet, Busy
  <2>5. (\A d \in Busy' : d.at = "found") => \A b \in Busy : b.at = "found"
    BY <2>2 DEF Busy
  <2> QED
    BY <1>4, <1>5, <2>1, <2>3, <2>4, <2>5 DEF AgentInv, QuietInv, Busy
<1> QED
  BY <1>2, <1>6, <1>7 DEF AgentInv

LEMMA RequestIs ==
  ASSUME AgentInv, NEW c \in requests
  PROVE  /\ c \in Requests /\ StageOK(c)
         /\ store \in Stores
         /\ \A r, s \in store.copy : r.id = s.id => r = s
         /\ \A b \in requests : b.alone => b \in Busy
         /\ c.alone => \A b \in requests : b.alone => b = c
  BY DEF AgentInv, AgentTypeOK, StageOK, Busy

LEMMA AskedKeeps ==
  ASSUME AgentInv, NEW kind \in {"create", "delete", "sync"}, NEW row \in Rows \union {NoRow}, Asked(kind, row)
  PROVE  AgentInv'
<1> DEFINE d == [kind |-> kind, at |-> "sent", row |-> row, record |-> NoRecord, listed |-> {}, alone |-> FALSE]
<1>1. Request(kind, row) = d /\ requests' = requests \union {d} /\ UNCHANGED store
  BY DEF Asked, Request
<1>2. d \in Requests /\ StageOK(d) /\ ~d.alone /\ d.at = "sent"
  BY DEF Requests, StageOK
<1> HIDE DEF d
<1>3. AgentTypeOK' /\ AloneInv'
  BY <1>1, <1>2 DEF AgentInv, AgentTypeOK, AloneInv, Knows, Named, OncePer, CloudRows
<1>4. Busy' = Busy
  BY <1>1, <1>2 DEF Busy
<1>5. QuietInv'
  BY <1>1, <1>4 DEF AgentInv, QuietInv, Quiet, Agrees, Midway, Named, OncePer, CloudRows
<1> QED
  BY <1>3, <1>5 DEF AgentInv

LEMMA RefusedKeeps == ASSUME AgentInv, NEW c \in requests, Refused(c) PROVE AgentInv'
<1> DEFINE d == [c EXCEPT !.at = "left", !.alone = FALSE]
<1>1. c \in Requests /\ StageOK(c)
      /\ store \in Stores
  BY RequestIs
<1>2. c.at \in {"sent", "found"} /\ UNCHANGED store
  BY DEF Refused
<1>3. PICK next \in {{}} \union IF AtCloudflare(c) THEN {{d}} ELSE {} : Proceeds(c, next)
  BY DEF Refused
<1>4. d \in Requests /\ d.kind = c.kind /\ d.at = "left" /\ ~d.alone
  BY <1>1 DEF Requests
<1>5. next = {} \/ (next = {d} /\ c.kind \in {"create", "delete"})
  BY <1>3 DEF AtCloudflare
<1> HIDE DEF d
<1>6. next # {} => StageOK(d)
  BY <1>4, <1>5 DEF StageOK
<1> QED
  BY <1>1, <1>2, <1>3, <1>4, <1>5, <1>6, StepKeeps

\* A request that is alone begins when no other is in the middle of its steps.
LEMMA BegunIs ==
  ASSUME AgentInv, NEW c \in requests, NEW at \in {"found", "cloud", "listed"}
  PROVE  \E d \in Requests :
           /\ d = Begun(c, at) /\ d.at = at /\ d.kind = c.kind /\ d.row = c.row
           /\ d.record = c.record /\ d.listed = c.listed /\ (d.alone <=> Busy = {})
<1>1. PICK first \in BOOLEAN : first <=> Busy = {}
  OBVIOUS
<1>2. c \in Requests
  BY RequestIs
<1>3. Begun(c, at) = [c EXCEPT !.at = at, !.alone = first]
  <2>1. (Busy = {}) = first
    BY <1>1
  <2> QED
    BY <2>1 DEF Begun
<1>4. [c EXCEPT !.at = at, !.alone = first].alone = first
  BY <1>2 DEF Requests
<1>5. /\ [c EXCEPT !.at = at, !.alone = first] \in Requests
      /\ [c EXCEPT !.at = at, !.alone = first].at = at
      /\ [c EXCEPT !.at = at, !.alone = first].kind = c.kind
      /\ [c EXCEPT !.at = at, !.alone = first].row = c.row
      /\ [c EXCEPT !.at = at, !.alone = first].record = c.record
      /\ [c EXCEPT !.at = at, !.alone = first].listed = c.listed
  BY <1>2 DEF Requests
<1> QED
  BY <1>1, <1>3, <1>4, <1>5

LEMMA CreateAtCloudflareKeeps ==
  ASSUME AgentInv, NEW c \in requests, NEW told \in BOOLEAN, CreateAtCloudflare(c, told) PROVE AgentInv'
<1>1. PICK x \in FreshNames :
        /\ Disturbs(c, IF told THEN {[Begun(c, "cloud") EXCEPT !.record = x]} ELSE {})
        /\ store' = [store EXCEPT !.cloud = store.cloud \union {x}, !.doubt = store.doubt \/ ~told]
  BY DEF CreateAtCloudflare
<1>2. c.kind = "create" /\ c.at = "sent"
  BY DEF CreateAtCloudflare, AtCloudflare
<1>3. /\ c \in Requests /\ StageOK(c)
      /\ store \in Stores
      /\ \A r, s \in store.copy : r.id = s.id => r = s
  BY RequestIs
<1>4. x \in Records /\ x \notin store.cloud /\ \A r \in store.copy : r.record # x
  BY DEF FreshNames
<1>5. (store.doubt \/ ~told) \in BOOLEAN
  BY <1>3
<1>6. /\ store' \in Stores
      /\ store'.copy = store.copy /\ store'.zone = store.zone /\ store'.cloud = store.cloud \union {x}
      /\ (store'.doubt <=> store.doubt \/ ~told)
  BY <1>1, <1>3, <1>4, <1>5
<1>7. PICK d \in Requests : d = Begun(c, "cloud") /\ d.at = "cloud" /\ d.kind = "create" /\ (d.alone <=> Busy = {})
  BY <1>2, BegunIs
<1> DEFINE e == [d EXCEPT !.record = x]
<1>8. e \in Requests /\ e.at = "cloud" /\ e.kind = "create" /\ e.record = x /\ e.alone = d.alone
  BY <1>4, <1>7 DEF Requests
<1>9. StageOK(e) /\ Disturbs(c, IF told THEN {e} ELSE {})
  BY <1>1, <1>7, <1>8 DEF StageOK
<1> HIDE DEF e
<1>10. CASE ~told
  <2>1. Disturbs(c, {}) /\ store'.doubt
    BY <1>6, <1>9, <1>10
  <2> QED
    BY <1>3, <1>6, <2>1, ChangeKeeps
<1>11. CASE told
  <2>1. Disturbs(c, {e})
    BY <1>9, <1>11
  <2>2. Knows(e)'
    BY <1>8 DEF Knows
  <2>3. ASSUME store'.zone, ~store'.doubt, e.alone PROVE Midway(e)'
    <3>1. Busy = {} /\ Quiet /\ store.zone
      BY <1>6, <1>7, <1>8, <2>3 DEF Quiet
    <3>2. Agrees
      BY <3>1 DEF AgentInv, QuietInv
    <3>3. CloudRows' = CloudRows
      BY <1>6 DEF CloudRows
    <3>4. x \notin Named /\ Named' = Named /\ OncePer' /\ x # NoRecord
      BY <1>4, <3>2, <3>3, DnsAgentAssumption DEF Named, OncePer, Agrees, CloudRows
    <3> QED
      BY <1>6, <1>8, <3>2, <3>4 DEF Midway, Agrees
  <2> QED
    BY <1>3, <1>6, <1>8, <1>9, <2>1, <2>2, <2>3, ChangeKeeps
<1> QED
  BY <1>10, <1>11

LEMMA CreateLocallyKeeps == ASSUME AgentInv, NEW c \in requests, CreateLocally(c) PROVE AgentInv'
<1>1. c.kind = "create" /\ c.at = "sent" /\ Proceeds(c, {Begun(c, "cloud")}) /\ UNCHANGED store
  BY DEF CreateLocally
<1>2. /\ c \in Requests /\ StageOK(c) /\ \A b \in requests : b.alone => b \in Busy
      /\ store \in Stores
  BY RequestIs
<1>3. PICK e \in Requests : /\ e = Begun(c, "cloud") /\ e.at = "cloud" /\ e.kind = "create"
                            /\ e.record = NoRecord /\ (e.alone <=> Busy = {})
  BY <1>1, <1>2, BegunIs DEF StageOK
<1>4. StageOK(e) /\ Knows(e)'
  BY <1>3 DEF StageOK, Knows
<1>5. ASSUME store.zone, Quiet, e.alone PROVE Midway(e)'
  <2>1. Agrees
    BY <1>3, <1>5 DEF AgentInv, QuietInv
  <2>2. NoRecord \notin Named
    BY DEF Named, CloudRows
  <2> QED
    BY <1>1, <1>3, <2>1, <2>2 DEF Midway, Agrees, Named, OncePer, CloudRows
<1> QED
  BY <1>1, <1>2, <1>3, <1>4, <1>5, StepKeeps

LEMMA DeleteFindsKeeps == ASSUME AgentInv, NEW c \in requests, DeleteFinds(c) PROVE AgentInv'
<1>1. c.kind = "delete" /\ c.at = "sent" /\ UNCHANGED store
  BY DEF DeleteFinds
<1>2. PICK r \in store.copy : r.id = c.row /\ Proceeds(c, {[Begun(c, "found") EXCEPT !.record = r.record]})
  BY DEF DeleteFinds
<1>3. /\ c \in Requests /\ StageOK(c) /\ \A b \in requests : b.alone => b \in Busy
      /\ store \in Stores
  BY RequestIs
<1>4. r.record \in Records \union {NoRecord}
  BY <1>3 DEF CopyRows
<1>5. PICK d \in Requests : /\ d = Begun(c, "found") /\ d.at = "found" /\ d.kind = "delete" /\ d.row = c.row
                            /\ (d.alone <=> Busy = {})
  BY <1>1, BegunIs
<1> DEFINE e == [d EXCEPT !.record = r.record]
<1>6. Proceeds(c, {e})
  BY <1>2, <1>5
<1>7. /\ e \in Requests /\ e.at = "found" /\ e.kind = "delete" /\ e.record = r.record /\ e.row = c.row
      /\ e.alone = d.alone
  BY <1>4, <1>5 DEF Requests
<1> HIDE DEF e
<1>8. StageOK(e) /\ Knows(e)'
  BY <1>1, <1>2, <1>7 DEF StageOK, Knows
<1> QED
  BY <1>1, <1>3, <1>5, <1>6, <1>7, <1>8, StepKeeps

LEMMA DeleteLocallyKeeps == ASSUME AgentInv, NEW c \in requests, DeleteLocally(c) PROVE AgentInv'
<1> DEFINE e == [c EXCEPT !.at = "cloud"]
<1>1. /\ c \in Requests /\ StageOK(c) /\ \A b \in requests : b.alone => b \in Busy
      /\ store \in Stores
      /\ \A r, s \in store.copy : r.id = s.id => r = s
      /\ c.alone => \A b \in requests : b.alone => b = c
  BY RequestIs
<1>2. /\ c.kind = "delete" /\ c.at = "found" /\ Proceeds(c, {e})
      /\ store' = [store EXCEPT !.doubt = store.doubt \/ c.record \in store.cloud]
  BY DEF DeleteLocally
<1>3. /\ store' \in Stores
      /\ store'.copy = store.copy /\ store'.zone = store.zone /\ store'.cloud = store.cloud
      /\ (store'.doubt <=> store.doubt \/ c.record \in store.cloud)
  BY <1>1, <1>2
<1>4. /\ e \in Requests /\ e.at = "cloud" /\ e.kind = "delete" /\ e.record = c.record /\ e.row = c.row
      /\ e.alone = c.alone
  BY <1>1, <1>2 DEF Requests
<1> HIDE DEF e
<1>5. StageOK(e)
  BY <1>4 DEF StageOK
<1>6. store.zone /\ c.alone => \E r \in store.copy : r.id = c.row /\ r.record = c.record
  BY <1>2 DEF AgentInv, AloneInv, Knows
<1>7. store.zone /\ e.alone => Knows(e)'
  BY <1>1, <1>3, <1>4, <1>6 DEF Knows
<1>8. ASSUME store.zone, Quiet, ~store'.doubt, e.alone PROVE Midway(e)'
  <2>1. \A b \in Busy : b.at = "found"
    BY <1>1, <1>2, <1>4, <1>8 DEF Quiet, Busy
  <2>2. Agrees
    BY <1>8, <2>1 DEF AgentInv, QuietInv
  <2>3. PICK r \in store.copy : r.id = c.row /\ r.record = c.record
    BY <1>4, <1>6, <1>8
  <2>4. c.record = NoRecord
    BY <1>3, <1>8, <2>2, <2>3 DEF Agrees, Named, CloudRows
  <2>5. \A s \in CloudRows : s.id # c.row
    BY <1>1, <2>3, <2>4 DEF CloudRows
  <2>6. CloudRows' = CloudRows
    BY <1>3 DEF CloudRows
  <2>7. \A x : x \in store.cloud <=> \E s \in CloudRows : s.record = x
    BY <2>2 DEF Agrees, Named
  <2> QED
    BY <1>3, <1>4, <2>2, <2>5, <2>6, <2>7 DEF Midway, Agrees, OncePer
<1> QED
  BY <1>1, <1>2, <1>3, <1>4, <1>5, <1>7, <1>8, StepKeeps

LEMMA SyncListsKeeps == ASSUME AgentInv, NEW c \in requests, SyncLists(c) PROVE AgentInv'
<1>1. /\ c \in Requests /\ StageOK(c) /\ \A b \in requests : b.alone => b \in Busy
      /\ store \in Stores
  BY RequestIs
<1>2. /\ c.kind = "sync" /\ c.at = "sent" /\ UNCHANGED store
      /\ Proceeds(c, {[Begun(c, "listed") EXCEPT !.listed = store.cloud]})
  BY DEF SyncLists
<1>3. PICK d \in Requests : d = Begun(c, "listed") /\ d.at = "listed" /\ d.kind = "sync" /\ (d.alone <=> Busy = {})
  BY <1>2, BegunIs
<1>4. PICK cloud \in SUBSET Records : cloud = store.cloud
  BY <1>1
<1> DEFINE e == [d EXCEPT !.listed = cloud]
<1>5. Proceeds(c, {e})
  BY <1>2, <1>3, <1>4
<1>6. e \in Requests /\ e.at = "listed" /\ e.kind = "sync" /\ e.listed = cloud /\ e.alone = d.alone
  BY <1>3, <1>4 DEF Requests
<1> HIDE DEF e
<1>7. StageOK(e) /\ Knows(e)'
  BY <1>2, <1>4, <1>6 DEF StageOK, Knows
<1> QED
  BY <1>1, <1>2, <1>3, <1>5, <1>6, <1>7, StepKeeps

LEMMA DeleteAtCloudflareKeeps ==
  ASSUME AgentInv, NEW c \in requests, NEW told \in BOOLEAN, DeleteAtCloudflare(c, told) PROVE AgentInv'
<1> DEFINE e == [c EXCEPT !.at = "cloud"]
<1>1. /\ c \in Requests /\ StageOK(c)
      /\ store \in Stores
      /\ \A r, s \in store.copy : r.id = s.id => r = s
      /\ c.alone => \A b \in requests : b.alone => b = c
  BY RequestIs
<1>2. /\ c.kind = "delete" /\ c.at = "found" /\ Disturbs(c, IF told THEN {e} ELSE {}) /\ c.record # NoRecord
      /\ store' = [store EXCEPT !.cloud = store.cloud \ {c.record}, !.doubt = store.doubt \/ ~told]
  BY DEF DeleteAtCloudflare, AtCloudflare
<1>3. /\ store' \in Stores
      /\ store'.copy = store.copy /\ store'.zone = store.zone /\ store'.cloud = store.cloud \ {c.record}
      /\ (store'.doubt <=> store.doubt \/ ~told)
  <2>1. (store.doubt \/ ~told) \in BOOLEAN
    BY <1>1
  <2> QED
    BY <1>1, <1>2, <2>1
<1>4. /\ e \in Requests /\ e.at = "cloud" /\ e.kind = "delete" /\ e.record = c.record /\ e.row = c.row
      /\ e.alone = c.alone
  BY <1>1, <1>2 DEF Requests
<1> HIDE DEF e
<1>5. StageOK(e)
  BY <1>4 DEF StageOK
<1>6. store.zone /\ c.alone => \E r \in store.copy : r.id = c.row /\ r.record = c.record
  BY <1>2 DEF AgentInv, AloneInv, Knows
<1>7. store'.zone /\ e.alone => Knows(e)'
  BY <1>1, <1>3, <1>4, <1>6 DEF Knows
<1>8. CASE ~told
  <2>1. Disturbs(c, {}) /\ store'.doubt
    BY <1>2, <1>3, <1>8
  <2> QED
    BY <1>1, <1>3, <2>1, ChangeKeeps
<1>9. CASE told
  <2>1. Disturbs(c, {e})
    BY <1>2, <1>9
  <2>2. ASSUME store'.zone, ~store'.doubt, e.alone, \A b \in Busy : b = c \/ b.at = "found" PROVE Midway(e)'
    <3>1. Quiet /\ \A b \in Busy : b.at = "found"
      BY <1>2, <1>3, <2>2 DEF Quiet
    <3>2. Agrees
      BY <1>3, <2>2, <3>1 DEF AgentInv, QuietInv
    <3>3. PICK r \in store.copy : r.id = c.row /\ r.record = c.record
      BY <1>3, <1>4, <1>6, <2>2
    <3>4. r \in CloudRows /\ CloudRows' = CloudRows /\ OncePer'
      BY <1>2, <1>3, <3>2, <3>3 DEF CloudRows, Agrees, OncePer
    <3>5. \A x : x \in store.cloud <=> \E s \in CloudRows : s.record = x
      BY <3>2 DEF Agrees, Named
    <3>6. \A s \in CloudRows : s.id = c.row <=> s.record = c.record
      BY <1>1, <3>2, <3>3, <3>4 DEF Agrees, OncePer, CloudRows
    <3> QED
      BY <1>3, <1>4, <3>4, <3>5, <3>6 DEF Midway
  <2> QED
    BY <1>1, <1>3, <1>4, <1>5, <1>7, <2>1, <2>2, ChangeKeeps
<1> QED
  BY <1>8, <1>9

LEMMA RowStoredKeeps ==
  ASSUME AgentInv, NEW c \in requests, NEW ok \in BOOLEAN, RowStored(c, ok) PROVE AgentInv'
<1>1. /\ c \in Requests /\ StageOK(c)
      /\ store \in Stores
      /\ \A r, s \in store.copy : r.id = s.id => r = s
  BY RequestIs
<1>2. PICK new \in IF ok THEN {{[id |-> id, record |-> c.record]} : id \in FreshRows} ELSE {{}} :
        store' = [store EXCEPT !.copy = store.copy \union new, !.doubt = Parted(c, ok \/ c.record = NoRecord)]
  BY DEF RowStored
<1>3. c.kind = "create" /\ c.at = "cloud" /\ Disturbs(c, {})
  BY DEF RowStored
<1>4. new = {} \/ \E id \in FreshRows : new = {[id |-> id, record |-> c.record]}
  BY <1>2
<1>5. new \subseteq CopyRows /\ (\A n \in new : n.record = c.record /\ n.id \notin RowIds) /\ \A m, n \in new : m = n
  BY <1>1, <1>4 DEF CopyRows, FreshRows, Requests
<1>6. ok => \E n \in new : TRUE
  BY <1>2
<1>7. /\ store' \in Stores
      /\ store'.copy = store.copy \union new /\ store'.zone = store.zone /\ store'.cloud = store.cloud
      /\ (~store'.doubt => ~store.doubt /\ c.alone /\ (ok \/ c.record = NoRecord))
  <2>1. Parted(c, ok \/ c.record = NoRecord) \in BOOLEAN
    BY <1>1 DEF Parted, Requests
  <2>2. store'.doubt = Parted(c, ok \/ c.record = NoRecord)
    BY <1>1, <1>2, <2>1
  <2> QED
    BY <1>1, <1>2, <1>5, <2>1, <2>2 DEF Parted
<1>8. \A r, s \in store'.copy : r.id = s.id => r = s
  BY <1>1, <1>5, <1>7 DEF RowIds
<1>9. ASSUME store'.zone, ~store'.doubt, \A b \in Busy : b = c \/ b.at = "found" PROVE Agrees'
  <2>1. Quiet /\ c \in Busy
    BY <1>3, <1>7, <1>9 DEF Quiet, Busy
  <2>2. Midway(c)
    BY <1>3, <1>7, <1>9, <2>1 DEF AgentInv, QuietInv
  <2>3. CloudRows' = CloudRows \union {n \in new : n.record # NoRecord}
    BY <1>7 DEF CloudRows
  <2>4. CASE c.record = NoRecord
    <3>1. CloudRows' = CloudRows /\ store.cloud = Named
      BY <1>3, <1>5, <2>2, <2>3, <2>4 DEF Midway
    <3> QED
      BY <1>7, <2>2, <3>1 DEF Agrees, Named, OncePer, Midway
  <2>5. CASE c.record # NoRecord
    <3>1. PICK n \in new : n.record = c.record
      BY <1>5, <1>6, <1>7, <1>9, <2>5
    <3>2. CloudRows' = CloudRows \union {n}
      BY <1>5, <2>3, <2>5, <3>1
    <3>3. c.record \notin Named /\ store.cloud = Named \union {c.record}
      BY <1>3, <2>2, <2>5 DEF Midway
    <3>4. Named' = Named \union {c.record}
      BY <3>1, <3>2 DEF Named
    <3>5. OncePer'
      BY <2>2, <3>1, <3>2, <3>3 DEF OncePer, Midway, Named
    <3> QED
      BY <1>7, <3>3, <3>4, <3>5 DEF Agrees
  <2> QED
    BY <2>4, <2>5
<1> QED
  BY <1>1, <1>3, <1>7, <1>8, <1>9, ChangeKeeps

LEMMA RowDeletedKeeps ==
  ASSUME AgentInv, NEW c \in requests, NEW ok \in BOOLEAN, RowDeleted(c, ok) PROVE AgentInv'
<1>1. /\ c \in Requests /\ StageOK(c)
      /\ store \in Stores
      /\ \A r, s \in store.copy : r.id = s.id => r = s
  BY RequestIs
<1> DEFINE rest == IF ok THEN {r \in store.copy : r.id # c.row} ELSE store.copy
<1>2. /\ c.kind = "delete" /\ c.at = "cloud" /\ Disturbs(c, {})
      /\ store' = [store EXCEPT !.copy = rest, !.doubt = Parted(c, ok \/ c.record = NoRecord)]
  BY DEF RowDeleted
<1>3. /\ store' \in Stores
      /\ store'.copy = rest /\ store'.zone = store.zone /\ store'.cloud = store.cloud
      /\ (~store'.doubt => ~store.doubt /\ c.alone /\ (ok \/ c.record = NoRecord))
  <2>1. Parted(c, ok \/ c.record = NoRecord) \in BOOLEAN /\ rest \subseteq store.copy
    BY <1>1 DEF Parted, Requests
  <2> HIDE DEF rest
  <2>2. store'.doubt = Parted(c, ok \/ c.record = NoRecord) /\ store'.copy = rest
    BY <1>1, <1>2, <2>1
  <2> QED
    BY <1>1, <1>2, <2>1, <2>2 DEF Parted
<1>4. \A r, s \in store'.copy : r.id = s.id => r = s
  BY <1>1, <1>3
<1>5. ASSUME store'.zone, ~store'.doubt, \A b \in Busy : b = c \/ b.at = "found" PROVE Agrees'
  <2>1. Quiet /\ c \in Busy
    BY <1>2, <1>3, <1>5 DEF Quiet, Busy
  <2>2. Midway(c) /\ Knows(c)
    BY <1>2, <1>3, <1>5, <2>1 DEF AgentInv, QuietInv, AloneInv
  <2>3. CloudRows' = {r \in CloudRows : r.id # c.row}
    <3>1. CASE ok
      BY <1>3, <3>1 DEF CloudRows
    <3>2. CASE ~ok
      BY <1>2, <1>3, <1>5, <2>2, <3>2 DEF CloudRows, Knows
    <3> QED
      BY <3>1, <3>2
  <2>4. \A x : x \in store.cloud <=> \E r \in CloudRows' : r.record = x
    BY <1>2, <2>2, <2>3 DEF Midway
  <2>5. Named' = store.cloud
    BY <2>4 DEF Named
  <2> QED
    BY <1>3, <2>2, <2>3, <2>5 DEF Agrees, OncePer, Midway
<1> HIDE DEF rest
<1> QED
  BY <1>1, <1>2, <1>3, <1>4, <1>5, ChangeKeeps

LEMMA SyncClearsKeeps ==
  ASSUME AgentInv, NEW c \in requests, NEW ok \in BOOLEAN, SyncClears(c, ok) PROVE AgentInv'
<1> DEFINE e == [c EXCEPT !.at = "cleared", !.alone = c.alone /\ ok]
           copy == IF ok THEN {} ELSE store.copy
<1>1. /\ c \in Requests /\ StageOK(c)
      /\ store \in Stores
      /\ \A r, s \in store.copy : r.id = s.id => r = s
  BY RequestIs
<1>2. c.kind = "sync" /\ c.at = "listed" /\ Disturbs(c, {e}) /\ store' = [store EXCEPT !.copy = copy]
  BY DEF SyncClears
<1>3. copy \subseteq store.copy /\ (ok => copy = {})
  OBVIOUS
<1> HIDE DEF copy
<1>4. /\ store' \in Stores
      /\ store'.copy = copy /\ store'.zone = store.zone /\ store'.cloud = store.cloud
      /\ \A r, s \in store'.copy : r.id = s.id => r = s
  BY <1>1, <1>2, <1>3
<1>5. /\ e \in Requests /\ e.at = "cleared" /\ e.kind = "sync" /\ e.listed = c.listed
      /\ (e.alone <=> c.alone /\ ok)
  <2>1. (c.alone /\ ok) \in BOOLEAN
    BY <1>1 DEF Requests
  <2> QED
    BY <1>1, <1>2, <2>1 DEF Requests
<1> HIDE DEF e
<1>6. StageOK(e)
  BY <1>5 DEF StageOK
<1>7. store'.zone /\ e.alone => Knows(e)'
  <2> SUFFICES ASSUME store'.zone, e.alone PROVE Knows(e)'
    OBVIOUS
  <2>1. c.listed = store.cloud
    BY <1>2, <1>4, <1>5 DEF AgentInv, AloneInv, Knows
  <2>2. CloudRows' = {}
    BY <1>3, <1>4, <1>5 DEF CloudRows
  <2> QED
    BY <1>4, <1>5, <2>1, <2>2 DEF Knows, Named, OncePer
<1> QED
  BY <1>1, <1>2, <1>4, <1>5, <1>6, <1>7, ChangeKeeps

LEMMA SyncStoresKeeps ==
  ASSUME AgentInv, NEW c \in requests, NEW x \in Records, NEW ok \in BOOLEAN, SyncStores(c, x, ok)
  PROVE  AgentInv'
<1> DEFINE e == [c EXCEPT !.listed = c.listed \ {x}, !.alone = c.alone /\ ok]
<1>1. /\ c \in Requests /\ StageOK(c)
      /\ store \in Stores
      /\ \A r, s \in store.copy : r.id = s.id => r = s
  BY RequestIs
<1>2. c.kind = "sync" /\ c.at = "cleared" /\ x \in c.listed /\ Disturbs(c, {e})
  BY DEF SyncStores
<1>3. PICK new \in IF ok THEN {{[id |-> id, record |-> x]} : id \in FreshRows} ELSE {{}} :
        store' = [store EXCEPT !.copy = store.copy \union new]
  BY DEF SyncStores
<1>4. new = {} \/ \E id \in FreshRows : new = {[id |-> id, record |-> x]}
  BY <1>3
<1>5. new \subseteq CopyRows /\ (\A n \in new : n.record = x /\ n.id \notin RowIds) /\ \A m, n \in new : m = n
  BY <1>1, <1>4 DEF CopyRows, FreshRows
<1>6. ok => \E n \in new : TRUE
  BY <1>3
<1>7. /\ store' \in Stores
      /\ store'.copy = store.copy \union new /\ store'.zone = store.zone /\ store'.cloud = store.cloud
  BY <1>1, <1>3, <1>5
<1>8. \A r, s \in store'.copy : r.id = s.id => r = s
  BY <1>1, <1>5, <1>7 DEF RowIds
<1>9. /\ e \in Requests /\ e.at = "cleared" /\ e.kind = "sync" /\ e.listed = c.listed \ {x}
      /\ (e.alone <=> c.alone /\ ok)
  <2>1. (c.alone /\ ok) \in BOOLEAN /\ c.listed \ {x} \in SUBSET Records
    BY <1>1 DEF Requests
  <2> QED
    BY <1>1, <1>2, <2>1 DEF Requests
<1> HIDE DEF e
<1>10. StageOK(e)
  BY <1>9 DEF StageOK
<1>11. store'.zone /\ e.alone => Knows(e)'
  <2> SUFFICES ASSUME store'.zone, e.alone PROVE Knows(e)'
    OBVIOUS
  <2>1. OncePer /\ Named \intersect c.listed = {} /\ store.cloud = Named \union c.listed
    BY <1>2, <1>7, <1>9 DEF AgentInv, AloneInv, Knows
  <2>2. PICK n \in new : n.record = x
    BY <1>5, <1>6, <1>9
  <2>3. CloudRows' = CloudRows \union {n}
    BY <1>5, <1>7, <2>2, DnsAgentAssumption DEF CloudRows
  <2>4. Named' = Named \union {x} /\ x \notin Named
    BY <1>2, <2>1, <2>2, <2>3 DEF Named
  <2>5. OncePer'
    BY <2>1, <2>2, <2>3, <2>4 DEF OncePer, Named
  <2>6. Named' \intersect e.listed = {} /\ store.cloud = Named' \union e.listed
    BY <1>2, <1>9, <2>1, <2>4
  <2> QED
    BY <1>7, <1>9, <2>5, <2>6 DEF Knows
<1> QED
  BY <1>1, <1>2, <1>7, <1>8, <1>9, <1>10, <1>11, ChangeKeeps

\* A synchronisation that was alone ends every doubt.
LEMMA SyncEndsKeeps == ASSUME AgentInv, NEW c \in requests, SyncEnds(c) PROVE AgentInv'
<1>1. /\ c \in Requests /\ StageOK(c)
      /\ store \in Stores
      /\ c.alone => \A b \in requests : b.alone => b = c
  BY RequestIs
<1>2. /\ c.kind = "sync" /\ c.at = "cleared" /\ c.listed = {}
      /\ requests' = requests \ {c} /\ store' = [store EXCEPT !.doubt = ~c.alone]
  BY DEF SyncEnds, Proceeds
<1>3. /\ store' \in Stores
      /\ store'.copy = store.copy /\ store'.zone = store.zone /\ store'.cloud = store.cloud
      /\ (store'.doubt <=> ~c.alone)
  <2>1. (~c.alone) \in BOOLEAN
    OBVIOUS
  <2> QED
    BY <1>1, <1>2, <2>1
<1>4. AgentTypeOK'
  BY <1>2, <1>3 DEF AgentInv, AgentTypeOK
<1>5. CloudRows' = CloudRows /\ Named' = Named /\ OncePer' = OncePer
  BY <1>3 DEF CloudRows, Named, OncePer
<1>6. AloneInv'
  BY <1>2, <1>3, <1>5 DEF AgentInv, AloneInv, Knows
<1>7. QuietInv'
  <2> SUFFICES ASSUME store'.zone, Quiet'
               PROVE  Agrees' /\ \A d \in Busy' : d.at # "cloud"
    BY DEF QuietInv
  <2>1. c.alone /\ \A d \in Busy' : d.alone \/ d.at = "found"
    BY <1>3 DEF Quiet
  <2>2. \A d \in Busy' : ~d.alone
    BY <1>1, <1>2, <2>1 DEF Busy
  <2>3. Knows(c)
    BY <1>3, <2>1 DEF AgentInv, AloneInv
  <2>4. Agrees'
    BY <1>2, <1>3, <1>5, <2>3 DEF Knows, Agrees
  <2> QED
    BY <2>1, <2>2, <2>4
<1> QED
  BY <1>4, <1>6, <1>7 DEF AgentInv

LEMMA CarriedOutLateKeeps == ASSUME AgentInv, NEW c \in requests, CarriedOutLate(c) PROVE AgentInv'
<1>1. /\ store \in Stores
      /\ \A r, s \in store.copy : r.id = s.id => r = s
  BY RequestIs
<1>2. PICK cloud \in SUBSET Records : store' = [store EXCEPT !.cloud = cloud, !.doubt = TRUE]
  <2>1. CASE c.kind = "create"
    <3>1. PICK x \in FreshNames : store' = [store EXCEPT !.cloud = store.cloud \union {x}, !.doubt = TRUE]
      BY <2>1 DEF CarriedOutLate
    <3>2. store.cloud \union {x} \in SUBSET Records
      BY <1>1 DEF FreshNames
    <3> QED
      BY <3>1, <3>2
  <2>2. CASE c.kind = "delete"
    BY <1>1, <2>2 DEF CarriedOutLate
  <2> QED
    BY <2>1, <2>2 DEF CarriedOutLate
<1>3. /\ store' \in Stores
      /\ store'.copy = store.copy /\ store'.doubt
  BY <1>1, <1>2
<1>4. Disturbs(c, {})
  BY DEF CarriedOutLate
<1> QED
  BY <1>1, <1>3, <1>4, ChangeKeeps

-----------------------------------------------------------------------------
(* What happens besides *)

LEMMA RestartedKeeps == ASSUME AgentInv, Restarted PROVE AgentInv'
<1>1. PICK kept \in SUBSET {c \in requests : AtCloudflare(c)} :
        requests' = {c \in requests : c.at = "left"} \union {[c EXCEPT !.at = "left", !.alone = FALSE] : c \in kept}
  BY DEF Restarted
<1>2. \A c \in requests : c \in Requests /\ StageOK(c)
  BY DEF AgentInv, AgentTypeOK
<1>3. \A c \in kept : LET d == [c EXCEPT !.at = "left", !.alone = FALSE]
                      IN d \in Requests /\ StageOK(d) /\ d.at = "left" /\ ~d.alone
  <2> TAKE c \in kept
  <2> DEFINE d == [c EXCEPT !.at = "left", !.alone = FALSE]
  <2>1. c \in Requests /\ c.kind \in {"create", "delete"}
    BY <1>2 DEF AtCloudflare
  <2>2. d \in Requests /\ d.at = "left" /\ ~d.alone /\ d.kind = c.kind
    BY <2>1 DEF Requests
  <2> HIDE DEF d
  <2>3. StageOK(d)
    BY <2>1, <2>2 DEF StageOK
  <2> QED
    BY <2>2, <2>3 DEF d
<1>4. \A d \in requests' : d \in Requests /\ StageOK(d) /\ d.at = "left" /\ ~d.alone
  BY <1>1, <1>2, <1>3 DEF StageOK
<1>5. /\ store' \in Stores
      /\ store'.copy = store.copy /\ store'.cloud = store.cloud /\ store'.zone = store.zone
      /\ (store'.doubt <=> store.doubt \/ Busy # {})
  <2>1. store' = [store EXCEPT !.doubt = store.doubt \/ Busy # {}]
    BY DEF Restarted
  <2>2. (store.doubt \/ Busy # {}) \in BOOLEAN
    BY DEF AgentInv, AgentTypeOK
  <2> QED
    BY <2>1, <2>2 DEF AgentInv, AgentTypeOK
<1>6. AgentTypeOK' /\ AloneInv'
  BY <1>4, <1>5 DEF AgentInv, AgentTypeOK, AloneInv
<1>7. QuietInv'
  <2> SUFFICES ASSUME store'.zone, Quiet' PROVE Agrees' /\ Busy' = {}
    BY DEF QuietInv
  <2>1. ~store.doubt /\ Busy = {}
    BY <1>5 DEF Quiet
  <2>2. Agrees
    BY <1>5, <2>1 DEF AgentInv, QuietInv, Quiet
  <2> QED
    BY <1>4, <1>5, <2>2 DEF Busy, Agrees, Named, OncePer, CloudRows
<1> QED
  BY <1>6, <1>7 DEF AgentInv

LEMMA ZoneDeletedKeeps == ASSUME AgentInv, ZoneDeleted PROVE AgentInv'
<1>1. ~store'.zone /\ AgentTypeOK'
  BY DEF ZoneDeleted, AgentInv, AgentTypeOK
<1> QED
  BY <1>1 DEF AgentInv, AloneInv, QuietInv

LEMMA ToggledKeeps == ASSUME AgentInv, Toggled PROVE AgentInv'
<1>1. /\ store'.copy = store.copy /\ store'.cloud = store.cloud /\ store'.zone = store.zone
      /\ store'.doubt = store.doubt /\ UNCHANGED requests /\ AgentTypeOK'
  BY DEF Toggled, AgentInv, AgentTypeOK
<1> QED
  BY <1>1 DEF AgentInv, AloneInv, QuietInv, Quiet, Busy, Knows, Midway, Agrees, Named, OncePer, CloudRows

\* Every step keeps the invariant.
LEMMA AgentStep == AgentInv /\ [AgentNext]_agentVars => AgentInv'
<1> SUFFICES ASSUME AgentInv, [AgentNext]_agentVars PROVE AgentInv'
  OBVIOUS
<1>1. CASE \E kind \in {"create", "delete", "sync"}, row \in Rows \union {NoRow} : Asked(kind, row)
  BY <1>1, AskedKeeps
<1>2. ASSUME NEW c \in requests, Serve(c) PROVE AgentInv'
  <2>1. CASE Refused(c) \/ CreateLocally(c) \/ DeleteFinds(c) \/ DeleteLocally(c)
    BY <2>1, RefusedKeeps, CreateLocallyKeeps, DeleteFindsKeeps, DeleteLocallyKeeps
  <2>2. CASE SyncLists(c) \/ SyncEnds(c) \/ CarriedOutLate(c)
    BY <2>2, SyncListsKeeps, SyncEndsKeeps, CarriedOutLateKeeps
  <2>3. CASE \E ok \in BOOLEAN : CreateAtCloudflare(c, ok) \/ RowStored(c, ok)
    BY <2>3, CreateAtCloudflareKeeps, RowStoredKeeps
  <2>4. CASE \E ok \in BOOLEAN : DeleteAtCloudflare(c, ok) \/ RowDeleted(c, ok)
    BY <2>4, DeleteAtCloudflareKeeps, RowDeletedKeeps
  <2>5. CASE \E ok \in BOOLEAN : SyncClears(c, ok) \/ \E x \in Records : SyncStores(c, x, ok)
    BY <2>5, SyncClearsKeeps, SyncStoresKeeps
  <2> QED
    BY <1>2, <2>1, <2>2, <2>3, <2>4, <2>5 DEF Serve
<1>3. CASE Restarted \/ ZoneDeleted \/ Toggled
  BY <1>3, RestartedKeeps, ZoneDeletedKeeps, ToggledKeeps
<1>4. CASE UNCHANGED agentVars
  BY <1>4 DEF agentVars, AgentInv, AgentTypeOK, AloneInv, QuietInv, Quiet, Busy, Knows, Midway, Agrees,
              Named, OncePer, CloudRows
<1> QED
  BY <1>1, <1>2, <1>3, <1>4 DEF AgentNext

\* A request that is alone knows how far the copy and Cloudflare are apart, a
\* synchronisation whatever was before it, and with no doubt they agree but for
\* it (handlers/dns.go).
THEOREM AgentHoldsTogether == AgentSpec => []AgentInv
  BY AgentInitially, AgentStep, PTL DEF AgentSpec

\* With no request in the middle of its steps the copy names the records
\* Cloudflare has, each in one row, for any number of records, rows and
\* requests, unless since the last synchronisation that ran alone and without an
\* error requests overlapped, one stopped or failed half-way or took Cloudflare
\* too long, or a record was deleted while the integration was off
\* (handlers/dns.go, store/dns.go).
THEOREM CopyAlwaysAgrees == AgentSpec => []CopyAgrees
<1>1. AgentInv => CopyAgrees
  BY DEF AgentInv, QuietInv, Quiet, Agrees, Named, OncePer, CopyAgrees
<1> QED
  BY <1>1, AgentHoldsTogether, PTL

-----------------------------------------------------------------------------
(***************************************************************************)
(* The SSL controls                                                        *)
(* While nothing reached Cloudflare unseen, every change since the         *)
(* controls were shown is their own; there is one at a time, and its stage *)
(* says whether Cloudflare has it.  What they load is read before the      *)
(* first of them is sent.                                                  *)
(***************************************************************************)

AnyMode   == Modes \union {NoMode}
FormKinds == {"check", "save", "toggle", "config"}

CfCalls == [kind : FormKinds \union {"ssl", "mode"}, value : BOOLEAN \union AnyMode, mount : Nat,
            at : {"sent", "done", "left"}]

\* What a call of a kind carries.
CfCarries(c) ==
    /\ c.kind \in FormKinds => c.value \in BOOLEAN
    /\ c.kind = "ssl" => c.value \in AnyMode
    /\ c.kind = "mode" => c.value \in Modes

CfTypeOK ==
    /\ cf \in [token : BOOLEAN, on : BOOLEAN, mode : Modes]
    /\ setup \in [token : BOOLEAN, on : BOOLEAN, busy : {"none", "check", "save", "toggle"}]
    /\ controls \in [mount : Nat, open : BOOLEAN, loading : BOOLEAN, saving : BOOLEAN,
                     mode : AnyMode, unseen : BOOLEAN]
    /\ \A c \in cfCalls : c \in CfCalls /\ CfCarries(c) /\ c.mount <= controls.mount

\* The load and the changes of the controls shown, the latter as long as they
\* are not given up on.
Loads   == {c \in cfCalls : c.kind = "ssl" /\ c.mount = controls.mount}
Changes == {c \in cfCalls : c.kind = "mode" /\ c.mount = controls.mount /\ c.at # "left"}

OneAtATime ==
    controls.open =>
        /\ \A c, d \in Loads : c = d
        /\ \A c, d \in Changes : c = d
        /\ Loads # {} => controls.loading
        /\ controls.loading => Changes = {} /\ controls.mode = NoMode
        /\ Changes # {} => controls.saving

ModeIsKnown ==
    controls.open /\ ~controls.unseen =>
        /\ \A c \in Loads : c.at = "done" => c.value = cf.mode
        /\ \A c \in Changes : IF c.at = "done" THEN c.value = cf.mode ELSE controls.mode = cf.mode
        /\ Changes = {} /\ controls.mode # NoMode => controls.mode = cf.mode

ControlsInv == CfTypeOK /\ OneAtATime /\ ModeIsKnown

\* Calls of the form leave the controls alone.
LEMMA ControlsAlone ==
  ASSUME ControlsInv, CfTypeOK', cf'.mode = cf.mode, UNCHANGED controls,
         \A c \in (cfCalls' \ cfCalls) \union (cfCalls \ cfCalls') : c.kind \in FormKinds
  PROVE  ControlsInv'
<1>1. Loads' = Loads /\ Changes' = Changes
  BY DEF Loads, Changes, FormKinds
<1> QED
  BY <1>1 DEF ControlsInv, OneAtATime, ModeIsKnown

LEMMA ControlsInitially == CfInit => ControlsInv
<1> SUFFICES ASSUME CfInit PROVE ControlsInv
  OBVIOUS
<1>1. CfTypeOK
  <2>1. PICK m \in Modes : cf = [token |-> FALSE, on |-> FALSE, mode |-> m]
    BY DEF CfInit
  <2> QED
    BY <2>1 DEF CfInit, CfTypeOK, AnyMode
<1> QED
  BY <1>1 DEF CfInit, ControlsInv, OneAtATime, ModeIsKnown

\* A new call of the controls shown.
LEMMA NewCfCall ==
  ASSUME CfTypeOK, NEW kind \in FormKinds \union {"ssl", "mode"}, NEW v \in BOOLEAN \union AnyMode,
         kind \in FormKinds => v \in BOOLEAN, kind = "ssl" => v \in AnyMode, kind = "mode" => v \in Modes
  PROVE  /\ CfCall(kind, v) \in CfCalls /\ CfCarries(CfCall(kind, v))
         /\ CfCall(kind, v).kind = kind /\ CfCall(kind, v).at = "sent" /\ CfCall(kind, v).value = v
         /\ CfCall(kind, v).mount = controls.mount /\ controls.mount \in Nat
<1> DEFINE c == [kind |-> kind, value |-> v, mount |-> controls.mount, at |-> "sent"]
<1>1. controls.mount \in Nat
  BY DEF CfTypeOK
<1>2. /\ c \in CfCalls /\ CfCarries(c) /\ c.kind = kind /\ c.at = "sent" /\ c.value = v
      /\ c.mount = controls.mount
  BY <1>1 DEF CfCalls, CfCarries, FormKinds
<1>3. CfCall(kind, v) = c
  BY DEF CfCall
<1> HIDE DEF c
<1> QED
  BY <1>1, <1>2, <1>3

-----------------------------------------------------------------------------
LEMMA PressSetupKeeps ==
  ASSUME ControlsInv, NEW kind \in {"check", "save", "toggle"}, PressSetup(kind) PROVE ControlsInv'
<1> DEFINE v == IF kind = "toggle" THEN ~setup.on ELSE TRUE
           c == CfCall(kind, v)
<1>1. v \in BOOLEAN /\ kind \in FormKinds
  BY DEF ControlsInv, CfTypeOK, FormKinds
<1>2. cfCalls' = cfCalls \union {c} /\ setup' = [setup EXCEPT !.busy = kind] /\ UNCHANGED <<cf, controls>>
  BY DEF PressSetup
<1> HIDE DEF v
<1>3. c \in CfCalls /\ CfCarries(c) /\ c.kind \in FormKinds /\ c.mount = controls.mount /\ controls.mount \in Nat
  BY <1>1, NewCfCall DEF ControlsInv, FormKinds
<1> HIDE DEF c
<1>4. CfTypeOK'
  BY <1>2, <1>3 DEF ControlsInv, CfTypeOK
<1> QED
  BY <1>2, <1>3, <1>4, ControlsAlone

LEMMA SavedTokenKeeps ==
  ASSUME ControlsInv, NEW c \in cfCalls, NEW ok \in BOOLEAN, Saved(c, ok) PROVE ControlsInv'
<1> DEFINE v == TRUE
           d == CfCall("config", v)
<1>1. cfCalls' \subseteq (cfCalls \ {c}) \union {d} /\ cfCalls \ {c} \subseteq cfCalls' /\ UNCHANGED controls
      /\ setup' = [setup EXCEPT !.busy = "none"]
  BY DEF Saved, Becomes
<1>2. v \in BOOLEAN /\ "config" \in FormKinds
  BY DEF FormKinds
<1> HIDE DEF v
<1>3. d \in CfCalls /\ CfCarries(d) /\ d.kind = "config" /\ d.mount = controls.mount /\ controls.mount \in Nat
  BY <1>2, NewCfCall DEF ControlsInv, FormKinds
<1> HIDE DEF d
<1>4. cf' \in [token : BOOLEAN, on : BOOLEAN, mode : Modes] /\ cf'.mode = cf.mode
  <2>1. c.value \in BOOLEAN
    BY DEF Saved, ControlsInv, CfTypeOK, CfCarries, FormKinds
  <2>2. CASE ok /\ c.kind # "check"
    <3>1. cf' = [cf EXCEPT !.token = cf.token \/ c.kind = "save", !.on = c.value]
      BY <2>2 DEF Saved
    <3>2. (cf.token \/ c.kind = "save") \in BOOLEAN
      OBVIOUS
    <3> QED
      BY <2>1, <3>1, <3>2 DEF ControlsInv, CfTypeOK
  <2>3. CASE ~(ok /\ c.kind # "check")
    BY <2>3 DEF Saved, ControlsInv, CfTypeOK
  <2> QED
    BY <2>2, <2>3
<1>5. CfTypeOK'
  BY <1>3, <1>1, <1>4 DEF ControlsInv, CfTypeOK
<1>6. c.kind \in FormKinds
  BY DEF Saved, FormKinds
<1> QED
  BY <1>3, <1>1, <1>4, <1>5, <1>6, ControlsAlone DEF FormKinds

LEMMA ConfigReadKeeps ==
  ASSUME ControlsInv, NEW c \in cfCalls, NEW ok \in BOOLEAN, ConfigRead(c, ok) PROVE ControlsInv'
<1>1. c.kind \in FormKinds /\ cfCalls' = cfCalls \ {c} /\ UNCHANGED <<cf, controls>>
  BY DEF ConfigRead, Becomes, FormKinds
<1>2. CfTypeOK'
  BY <1>1 DEF ControlsInv, CfTypeOK, ConfigRead
<1> QED
  BY <1>1, <1>2, ControlsAlone

LEMMA ShowControlsKeeps == ASSUME ControlsInv, ShowControls PROVE ControlsInv'
<1> DEFINE d == CfCall("ssl", NoMode)
           c == [d EXCEPT !.mount = @ + 1]
<1>1. c \in CfCalls /\ CfCarries(c) /\ c.kind = "ssl" /\ c.mount = controls.mount + 1 /\ c.at = "sent"
      /\ controls.mount \in Nat
  <2>1. /\ d \in CfCalls /\ d.kind = "ssl" /\ d.value = NoMode /\ d.at = "sent"
        /\ d.mount = controls.mount /\ controls.mount \in Nat
    BY NewCfCall DEF ControlsInv, AnyMode, FormKinds
  <2> HIDE DEF d
  <2>2. c = [d EXCEPT !.mount = d.mount + 1] /\ d.mount + 1 \in Nat
    BY <2>1
  <2>3. /\ c \in CfCalls /\ c.kind = "ssl" /\ c.value = NoMode /\ c.at = "sent"
        /\ c.mount = controls.mount + 1
    BY <2>1, <2>2 DEF CfCalls
  <2> QED
    BY <2>1, <2>3 DEF CfCarries, AnyMode, FormKinds
<1>2. /\ cfCalls' = cfCalls \union {c} /\ UNCHANGED <<cf, setup>>
      /\ controls' = [mount |-> controls.mount + 1, open |-> TRUE, loading |-> TRUE, saving |-> FALSE,
                      mode |-> NoMode, unseen |-> FALSE]
  BY DEF ShowControls
<1> HIDE DEF c
<1>3. CfTypeOK'
  <2>1. \A e \in cfCalls' : e \in CfCalls /\ CfCarries(e) /\ e.mount <= controls.mount + 1
    BY <1>1, <1>2 DEF ControlsInv, CfTypeOK, CfCalls
  <2> QED
    BY <1>1, <1>2, <2>1 DEF ControlsInv, CfTypeOK, AnyMode
<1>4. \A e \in cfCalls : e.mount # controls.mount + 1
  BY <1>1 DEF ControlsInv, CfTypeOK, CfCalls
<1>5. Loads' = {c} /\ Changes' = {}
  BY <1>1, <1>2, <1>4 DEF Loads, Changes
<1> QED
  BY <1>1, <1>2, <1>3, <1>5 DEF ControlsInv, OneAtATime, ModeIsKnown

LEMMA HideControlsKeeps == ASSUME ControlsInv, HideControls PROVE ControlsInv'
<1>1. CfTypeOK' /\ ~controls'.open
  BY DEF ControlsInv, CfTypeOK, HideControls
<1> QED
  BY <1>1 DEF ControlsInv, OneAtATime, ModeIsKnown

LEMMA ModeReadKeeps == ASSUME ControlsInv, NEW c \in cfCalls, ModeRead(c) PROVE ControlsInv'
<1> DEFINE d == [c EXCEPT !.at = "done", !.value = cf.mode]
<1>1. cf.mode \in Modes /\ c \in CfCalls /\ c.kind = "ssl"
  BY DEF ControlsInv, CfTypeOK, ModeRead
<1>2. /\ d \in CfCalls /\ d.kind = "ssl" /\ d.mount = c.mount /\ d.at = "done" /\ d.value = cf.mode
  BY <1>1 DEF CfCalls, AnyMode
<1>3. cfCalls' = (cfCalls \ {c}) \union {d} /\ UNCHANGED <<cf, setup, controls>>
  BY DEF ModeRead, Becomes
<1> HIDE DEF d
<1>4. CfTypeOK'
  BY <1>1, <1>2, <1>3 DEF ControlsInv, CfTypeOK, CfCarries, FormKinds, AnyMode
<1>5. Changes' = Changes
  BY <1>1, <1>2, <1>3 DEF Changes
<1>6. CASE c \in Loads
  <2>1. Loads' = (Loads \ {c}) \union {d}
    BY <1>1, <1>2, <1>3, <1>6 DEF Loads
  <2> QED
    BY <1>2, <1>3, <1>4, <1>5, <1>6, <2>1 DEF ControlsInv, OneAtATime, ModeIsKnown
<1>7. CASE c \notin Loads
  <2>1. Loads' = Loads
    BY <1>1, <1>2, <1>3, <1>7 DEF Loads
  <2> QED
    BY <1>3, <1>4, <1>5, <2>1 DEF ControlsInv, OneAtATime, ModeIsKnown
<1> QED
  BY <1>6, <1>7

\* No change is out while the mode is loaded.
LEMMA SslLoadedKeeps ==
  ASSUME ControlsInv, NEW c \in cfCalls, NEW ok \in BOOLEAN, SslLoaded(c, ok) PROVE ControlsInv'
<1>1. /\ c.kind = "ssl" /\ (ok => c.at = "done") /\ c.value \in AnyMode
      /\ cfCalls' = cfCalls \ {c} /\ UNCHANGED <<cf, setup>>
  BY DEF SslLoaded, Becomes, ControlsInv, CfTypeOK, CfCarries
<1>2. CASE ~Mounted(c)
  <2>1. UNCHANGED controls
    BY <1>2 DEF SslLoaded
  <2>2. CfTypeOK'
    BY <1>1, <2>1 DEF ControlsInv, CfTypeOK
  <2>3. Changes' = Changes /\ (controls.open => Loads' = Loads)
    BY <1>1, <1>2, <2>1 DEF Changes, Loads, Mounted
  <2> QED
    BY <1>1, <2>1, <2>2, <2>3 DEF ControlsInv, OneAtATime, ModeIsKnown
<1>3. CASE Mounted(c)
  <2>1. controls' = [controls EXCEPT !.loading = FALSE, !.mode = IF ok THEN c.value ELSE controls.mode]
    BY <1>3 DEF SslLoaded
  <2>2. /\ CfTypeOK' /\ ~controls'.loading /\ controls'.mode = (IF ok THEN c.value ELSE controls.mode)
        /\ controls'.open = controls.open /\ controls'.mount = controls.mount
        /\ controls'.unseen = controls.unseen /\ controls'.saving = controls.saving
    BY <1>1, <2>1 DEF ControlsInv, CfTypeOK
  <2>3. controls.open /\ c \in Loads
    BY <1>1, <1>3 DEF Mounted, Loads
  <2>4. Changes = {} /\ controls.mode = NoMode /\ Loads = {c}
    BY <2>3 DEF ControlsInv, OneAtATime
  <2>5. Changes' = {} /\ Loads' = {}
    BY <1>1, <2>2, <2>4 DEF Changes, Loads
  <2> QED
    BY <1>1, <2>2, <2>3, <2>4, <2>5 DEF ControlsInv, OneAtATime, ModeIsKnown
<1> QED
  BY <1>2, <1>3

LEMMA ChangeModeKeeps == ASSUME ControlsInv, NEW m \in Modes, ChangeMode(m) PROVE ControlsInv'
<1> DEFINE c == CfCall("mode", m)
<1>1. /\ c \in CfCalls /\ CfCarries(c) /\ c.kind = "mode" /\ c.mount = controls.mount /\ c.at = "sent"
      /\ controls.mount \in Nat
  BY NewCfCall DEF ControlsInv, AnyMode, FormKinds
<1>2. /\ cfCalls' = cfCalls \union {c} /\ UNCHANGED <<cf, setup>>
      /\ controls' = [controls EXCEPT !.saving = TRUE]
      /\ controls.open /\ ~controls.saving /\ ~controls.loading /\ controls.mode # NoMode
  BY DEF ChangeMode
<1> HIDE DEF c
<1>3. /\ controls' \in [mount : Nat, open : BOOLEAN, loading : BOOLEAN, saving : BOOLEAN,
                        mode : AnyMode, unseen : BOOLEAN]
      /\ controls'.saving /\ controls'.mode = controls.mode
      /\ controls'.open = controls.open /\ controls'.unseen = controls.unseen
      /\ controls'.mount = controls.mount /\ controls'.loading = controls.loading
  BY <1>2 DEF ControlsInv, CfTypeOK
<1>4. CfTypeOK'
  BY <1>1, <1>2, <1>3 DEF ControlsInv, CfTypeOK
<1>5. Changes = {}
  BY <1>2 DEF ControlsInv, OneAtATime
<1>6. Changes' = {c} /\ Loads' = Loads
  BY <1>1, <1>2, <1>3, <1>5 DEF Changes, Loads
<1> QED
  BY <1>1, <1>2, <1>3, <1>5, <1>6, <1>4 DEF ControlsInv, OneAtATime, ModeIsKnown

\* A change of the controls shown is one they wait for; any other is unseen.
LEMMA ModeAtCloudflareKeeps ==
  ASSUME ControlsInv, NEW c \in cfCalls, ModeAtCloudflare(c) PROVE ControlsInv'
<1> DEFINE d == [c EXCEPT !.at = "done"]
           seen == c.at # "left" /\ c.mount = controls.mount
<1>1. c \in CfCalls /\ c.kind = "mode" /\ c.value \in Modes
  BY DEF ControlsInv, CfTypeOK, CfCarries, ModeAtCloudflare
<1>2. d \in CfCalls /\ d.kind = "mode" /\ d.mount = c.mount /\ d.at = "done" /\ d.value = c.value
  BY <1>1 DEF CfCalls
<1>3. /\ cfCalls' = (cfCalls \ {c}) \union IF c.at = "left" THEN {} ELSE {d}
      /\ cf' = [cf EXCEPT !.mode = c.value] /\ UNCHANGED setup
      /\ controls' = [controls EXCEPT !.unseen = controls.unseen \/ ~seen]
  BY DEF ModeAtCloudflare, Becomes
<1> HIDE DEF d
<1>4. /\ cf'.mode = c.value /\ (controls'.unseen <=> controls.unseen \/ ~seen)
      /\ controls'.mode = controls.mode /\ controls'.saving = controls.saving
      /\ controls'.open = controls.open /\ controls'.mount = controls.mount
      /\ controls'.loading = controls.loading
      /\ cf' \in [token : BOOLEAN, on : BOOLEAN, mode : Modes]
      /\ controls' \in [mount : Nat, open : BOOLEAN, loading : BOOLEAN, saving : BOOLEAN,
                        mode : AnyMode, unseen : BOOLEAN]
  BY <1>1, <1>3 DEF ControlsInv, CfTypeOK
<1>5. CfTypeOK'
  BY <1>1, <1>2, <1>3, <1>4 DEF ControlsInv, CfTypeOK, CfCarries, FormKinds
<1>6. Loads' = Loads
  BY <1>1, <1>2, <1>3, <1>4 DEF Loads
<1>7. CASE seen
  <2>1. c \in Changes /\ Changes' = (Changes \ {c}) \union {d}
    BY <1>1, <1>2, <1>3, <1>4, <1>7 DEF Changes
  <2> QED
    BY <1>2, <1>4, <1>5, <1>6, <2>1 DEF ControlsInv, OneAtATime, ModeIsKnown
<1>8. CASE ~seen
  <2>1. Changes' = Changes
    BY <1>1, <1>2, <1>3, <1>4, <1>8 DEF Changes
  <2> QED
    BY <1>4, <1>5, <1>6, <1>8, <2>1 DEF ControlsInv, OneAtATime, ModeIsKnown
<1> QED
  BY <1>7, <1>8

LEMMA ModeChangedKeeps ==
  ASSUME ControlsInv, NEW c \in cfCalls, NEW ok \in BOOLEAN, ModeChanged(c, ok) PROVE ControlsInv'
<1> DEFINE e == [c EXCEPT !.at = "left"]
<1>1. /\ c \in CfCalls /\ c.kind = "mode" /\ c.at # "left" /\ c.value \in Modes /\ (ok => c.at = "done")
      /\ UNCHANGED <<cf, setup>> /\ CfCarries(c) /\ c.mount <= controls.mount
  BY DEF ControlsInv, CfTypeOK, CfCarries, ModeChanged
<1>2. /\ e \in CfCalls /\ e.kind = "mode" /\ e.at = "left" /\ e.mount = c.mount /\ CfCarries(e)
  BY <1>1 DEF CfCalls, CfCarries, FormKinds
<1>3. cfCalls \ {c} \subseteq cfCalls' /\ cfCalls' \subseteq (cfCalls \ {c}) \union {e} /\ c \notin cfCalls'
  BY <1>1, <1>2 DEF ModeChanged, Becomes
<1> HIDE DEF e
<1>4. CASE ~Mounted(c)
  <2>1. UNCHANGED controls
    BY <1>4 DEF ModeChanged
  <2>2. CfTypeOK'
    BY <1>1, <1>2, <1>3, <2>1 DEF ControlsInv, CfTypeOK
  <2>3. Loads' = Loads /\ (controls.open => Changes' = Changes)
    BY <1>1, <1>2, <1>3, <1>4, <2>1 DEF Changes, Loads, Mounted
  <2> QED
    BY <1>1, <2>1, <2>2, <2>3 DEF ControlsInv, OneAtATime, ModeIsKnown
<1>5. CASE Mounted(c)
  <2>1. controls' = [controls EXCEPT !.saving = FALSE, !.mode = IF ok THEN c.value ELSE controls.mode,
                                     !.unseen = controls.unseen \/ (~ok /\ c.at = "done")]
    BY <1>5 DEF ModeChanged
  <2>2. /\ controls'.mode = (IF ok THEN c.value ELSE controls.mode)
        /\ (controls'.unseen <=> controls.unseen \/ (~ok /\ c.at = "done"))
        /\ controls'.open = controls.open /\ controls'.mount = controls.mount
        /\ controls'.loading = controls.loading
        /\ controls' \in [mount : Nat, open : BOOLEAN, loading : BOOLEAN, saving : BOOLEAN,
                          mode : AnyMode, unseen : BOOLEAN]
    BY <1>1, <2>1 DEF ControlsInv, CfTypeOK, AnyMode
  <2>3. CfTypeOK'
    BY <1>1, <1>2, <1>3, <2>2 DEF ControlsInv, CfTypeOK
  <2>4. controls.open /\ c \in Changes
    BY <1>1, <1>5 DEF Mounted, Changes
  <2>5. Changes = {c} /\ ~controls.loading
    BY <2>4 DEF ControlsInv, OneAtATime
  <2>6. Changes' = {} /\ Loads' = Loads
    BY <1>1, <1>2, <1>3, <2>2, <2>5 DEF Changes, Loads
  <2> QED
    BY <1>1, <2>2, <2>3, <2>4, <2>5, <2>6 DEF ControlsInv, OneAtATime, ModeIsKnown
<1> QED
  BY <1>4, <1>5

\* Every step keeps the invariant.
LEMMA ControlsStep == ControlsInv /\ [CfNext]_cfVars => ControlsInv'
<1> SUFFICES ASSUME ControlsInv, [CfNext]_cfVars PROVE ControlsInv'
  OBVIOUS
<1>1. CASE \E kind \in {"check", "save", "toggle"} : PressSetup(kind)
  BY <1>1, PressSetupKeeps
<1>2. CASE ShowControls \/ HideControls \/ \E m \in Modes : ChangeMode(m)
  BY <1>2, ShowControlsKeeps, HideControlsKeeps, ChangeModeKeeps
<1>3. CASE \E c \in cfCalls : ModeRead(c) \/ ModeAtCloudflare(c)
  BY <1>3, ModeReadKeeps, ModeAtCloudflareKeeps
<1>4. CASE \E c \in cfCalls, ok \in BOOLEAN :
             Saved(c, ok) \/ ConfigRead(c, ok) \/ SslLoaded(c, ok) \/ ModeChanged(c, ok)
  BY <1>4, SavedTokenKeeps, ConfigReadKeeps, SslLoadedKeeps, ModeChangedKeeps
<1>5. CASE UNCHANGED cfVars
  BY <1>5 DEF cfVars, ControlsInv, CfTypeOK, OneAtATime, ModeIsKnown, Loads, Changes
<1> QED
  BY <1>1, <1>2, <1>3, <1>4, <1>5 DEF CfNext

\* While no change reached Cloudflare unseen, the one change the controls may
\* have out tells by its stage what the mode is, and so does what they load
\* (ZoneSslControls.tsx).
THEOREM ControlsKnowTheMode == CfSpec => []ControlsInv
  BY ControlsInitially, ControlsStep, PTL DEF CfSpec

\* The mode the controls show as chosen is the zone's at Cloudflare, unless a
\* change of theirs is out or, since they were shown, a change of hidden
\* controls or one answered as failed reached Cloudflare; for any number of
\* modes, calls and mounts (ZoneSslControls.tsx, handlers/cloudflare.go).
THEOREM ControlsAlwaysShowTheMode == CfSpec => []ControlsShowTheMode
<1>1. ControlsInv => ControlsShowTheMode
  <2> SUFFICES ASSUME ControlsInv, controls.open, controls.mode # NoMode, ~controls.saving, ~controls.unseen
               PROVE  controls.mode = cf.mode
    BY DEF ControlsShowTheMode
  <2>1. Changes = {}
    BY DEF ControlsInv, OneAtATime
  <2> QED
    BY <2>1 DEF ControlsInv, ModeIsKnown
<1> QED
  BY <1>1, ControlsKnowTheMode, PTL

-----------------------------------------------------------------------------
(* The parts beside each other                                               *)

\* The network page gives each of its parts the behaviours of its own
\* specification, so what is proved of a part holds of the page.
THEOREM EachSectionRunsByItself == NetworkSpec => EditorSpec /\ DnsSpec /\ AgentSpec /\ CfSpec
  <1>1. NetworkInit => EditorInit /\ DnsInit /\ AgentInit /\ CfInit
    BY DEF NetworkInit
  <1>2. [NetworkNext]_<<section, nginxVars, dnsVars, agentVars, cfVars>> =>
          [EditorNext]_nginxVars /\ [DnsNext]_dnsVars /\ [AgentNext]_agentVars /\ [CfNext]_cfVars
    BY DEF NetworkNext
  <1> QED
    BY <1>1, <1>2, PTL DEF NetworkSpec, EditorSpec, DnsSpec, AgentSpec, CfSpec
=============================================================================
