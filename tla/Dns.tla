--------------------------------- MODULE Dns ---------------------------------
(***************************************************************************)
(* The DNS panel (network/DnsPanel.tsx with AddDnsZoneModal.tsx and        *)
(* AddDnsRecordModal.tsx) over the agent's list of zones.  What becomes of *)
(* the records is DnsAgent's; here their calls are only answered.  Calls   *)
(* overlap, listings are read at one time and shown at another, and a call *)
(* is answered, refused or lost: an error, an answer that is no JSON, or   *)
(* none at all.  The integration with Cloudflare is on, and a zone deleted *)
(* and added again counts as the same zone.                                *)
(***************************************************************************)
EXTENDS Naturals, FiniteSets

CONSTANTS Zones, Movable,       \* Movable: the zones that are added and deleted
          MaxDnsCalls, NoZone

ASSUME DnsAssumption == NoZone \notin Zones /\ Movable \subseteq Zones /\ MaxDnsCalls \in Nat

VARIABLES dnsZones, \* the agent's zones
          panel,    \* the page
          dnsCalls  \* the calls not answered

dnsVars == <<dnsZones, panel, dnsCalls>>

(***************************************************************************)
(* The panel's recordsOf is the zone whose records it shows.  A call is    *)
(* answered by the function of the rendering that sent it: "from" is the   *)
(* zone chosen then, or the loadZones of then.                             *)
(* History: "crossed", the records last asked for, or others on their way  *)
(* then, were of a zone not chosen; "missed", the last answer about        *)
(* records since they were asked for was lost.                             *)
(***************************************************************************)
DnsInit ==
    /\ dnsZones \in {Zones, Zones \ Movable}
    /\ panel = [tab |-> "config", zones |-> {}, selected |-> NoZone, recordsOf |-> NoZone, dialog |-> "none",
                target |-> NoZone, busy |-> FALSE, crossed |-> FALSE, missed |-> FALSE]
    /\ dnsCalls = {[kind |-> "zones", zone |-> NoZone, at |-> "sent", from |-> NoZone, got |-> {}]}

\* loadZones as it is while z is selected: only without a zone it selects one.
LoadZones(z)    == IF z = NoZone THEN "zones" ELSE "relist"
DnsCall(kind, z) ==
    [kind |-> kind, zone |-> z, at |-> "sent", got |-> {},
     from |-> CASE kind \in {"create", "delete", "sync"}    -> panel.selected
                [] kind \in {"zones", "relist", "records"} -> NoZone
                [] OTHER                                   -> LoadZones(panel.selected)]
ListZones(load) == DnsCall(load, NoZone)
DnsRoom         == Cardinality(dnsCalls) < MaxDnsCalls
RecordCalls     == {c \in dnsCalls : c.kind = "records"}
Then(c, next)   == dnsCalls' = (dnsCalls \ {c}) \union next

(***************************************************************************)
(* The agent.  Listing, adding, importing and deleting zones are single    *)
(* steps of its store.                                                     *)
(***************************************************************************)
ZonesRead(c) ==
    /\ c.at = "sent" /\ c.kind \in {"zones", "relist"}
    /\ Then(c, {[c EXCEPT !.at = "ok", !.got = dnsZones]})
    /\ UNCHANGED <<dnsZones, panel>>

ZoneChanged(c) ==
    /\ c.at = "sent" /\ c.kind \in {"add", "import", "rmzone"}
    /\ Then(c, {[c EXCEPT !.at = "ok"]})
    /\ dnsZones' = CASE c.kind = "add"    -> dnsZones \union {c.zone}
                     [] c.kind = "import" -> Zones
                     [] OTHER             -> dnsZones \ {c.zone}
    /\ UNCHANGED panel

(***************************************************************************)
(* Loading.  The first zone listed is selected if none is.  Records are    *)
(* loaded by an effect of the selected zone and the tab.                   *)
(***************************************************************************)
\* Mutant: the effect that loads the records depends on the tab only.
ShowsByTab(p, reload, c, more) ==
    LET moved == p.selected # panel.selected
        shown == IF p.tab = "records" /\ p.tab # panel.tab THEN {p.selected} ELSE {}
        asks  == {DnsCall("records", z) : z \in (shown \union {reload}) \ {NoZone}}
    IN /\ panel' = [p EXCEPT !.missed = @ /\ asks = {},
                             !.crossed = /\ p.tab = "records"
                                         /\ IF asks = {} THEN @
                                            ELSE \E r \in (RecordCalls \ c) \union asks : r.zone # p.selected]
       /\ dnsCalls' = (dnsCalls \ c) \union asks \union more
                         \union IF moved THEN {ListZones(LoadZones(p.selected))} ELSE {}

\* The panel becomes p; reload is a zone whose records are asked for besides.
Shows(p, reload, c, more) ==
    LET moved == p.selected # panel.selected
        shown == IF p.tab = "records" /\ (moved \/ p.tab # panel.tab) THEN {p.selected} ELSE {}
        asks  == {DnsCall("records", z) : z \in (shown \union {reload}) \ {NoZone}}
    IN /\ panel' = [p EXCEPT !.missed = @ /\ asks = {},
                             !.crossed = /\ p.tab = "records"
                                         /\ IF asks = {} THEN @
                                            ELSE \E r \in (RecordCalls \ c) \union asks : r.zone # p.selected]
       /\ dnsCalls' = (dnsCalls \ c) \union asks \union more
                         \union IF moved THEN {ListZones(LoadZones(p.selected))} ELSE {}

\* The listing selects a zone if none was chosen when it was asked for.  A
\* refusal empties the list, for its status is not looked at; without an
\* answer the list stays.
ZonesLoaded(c, answer) ==
    /\ c.kind \in {"zones", "relist"} /\ (answer = "ok" => c.at = "ok")
    /\ LET got == IF answer = "ok" THEN c.got ELSE {}
           p   == IF answer = "lost" THEN panel ELSE [panel EXCEPT !.zones = got]
       IN IF c.kind = "zones" /\ got # {}
          THEN \E z \in got : Shows([p EXCEPT !.selected = z], NoZone, {c}, {})
          ELSE panel' = p /\ Then(c, {})
    /\ UNCHANGED dnsZones

\* A refusal shows no record at all, which is taken for the zone's; without
\* an answer the records shown before stay.
RecordsLoaded(c, lost) ==
    /\ c.kind = "records"
    /\ panel' = [panel EXCEPT !.missed = lost, !.recordsOf = IF lost THEN @ ELSE c.zone]
    /\ Then(c, {})
    /\ UNCHANGED dnsZones

ShowTab(t) ==
    /\ panel.dialog = "none" /\ t # panel.tab /\ DnsRoom
    /\ Shows([panel EXCEPT !.tab = t], NoZone, {}, {})
    /\ UNCHANGED dnsZones

\* loadZones depends on the selected zone, so choosing one loads the zones
\* again as well.
ChooseZone(z) ==
    /\ panel.dialog = "none" /\ panel.tab = "records" /\ z \in panel.zones \ {panel.selected} /\ DnsRoom
    /\ Shows([panel EXCEPT !.selected = z], NoZone, {}, {})
    /\ UNCHANGED dnsZones

(***************************************************************************)
(* The dialogs.  A cross closes the adding ones while their call is out;   *)
(* the confirmations hold until they are answered.                         *)
(***************************************************************************)
Offered(dialog, z) ==
    CASE dialog = "add"    -> panel.tab = "zones" /\ z \in Movable \ panel.zones
      [] dialog = "rmzone" -> panel.tab = "zones" /\ z \in panel.zones \intersect Movable
      [] dialog = "create" -> panel.tab = "records" /\ z \in panel.zones
      [] dialog = "delete" -> panel.tab = "records" /\ z = panel.recordsOf /\ panel.zones # {}

OpenDnsDialog(dialog, z) ==
    /\ panel.dialog = "none" /\ z # NoZone /\ Offered(dialog, z)
    /\ panel' = [panel EXCEPT !.dialog = dialog, !.target = z]
    /\ UNCHANGED <<dnsZones, dnsCalls>>

CloseDnsDialog ==
    /\ panel.dialog # "none"
    /\ panel.dialog \in {"delete", "rmzone"} => ~panel.busy
    /\ panel' = [panel EXCEPT !.dialog = "none", !.target = NoZone, !.busy = FALSE]
    /\ UNCHANGED <<dnsZones, dnsCalls>>

Submits(dialogs) ==
    /\ panel.dialog \in dialogs /\ ~panel.busy /\ DnsRoom
    /\ DnsCall(panel.dialog, panel.target) \notin dnsCalls
    /\ panel' = [panel EXCEPT !.busy = TRUE]
    /\ dnsCalls' = dnsCalls \union {DnsCall(panel.dialog, panel.target)}
    /\ UNCHANGED dnsZones

SubmitZoneForm   == Submits({"add"})
SubmitRecordForm == Submits({"create"})
ConfirmDnsDelete == Submits({"rmzone", "delete"})

\* The toolbar's two buttons share a "loading" of their own.
ToolbarCalls == {c \in dnsCalls : c.kind = "import" \/ c.kind = "sync"}

ImportOrSync(kind) ==
    /\ panel.dialog = "none" /\ ToolbarCalls = {} /\ DnsRoom
    /\ panel.tab = "zones" \/ (kind = "sync" /\ panel.tab = "records")
    /\ dnsCalls' = dnsCalls \union {DnsCall(kind, NoZone)}
    /\ UNCHANGED <<dnsZones, panel>>

\* What an answered call shows and asks for, q being the panel without its
\* dialog.
ZoneAdded(q, c)     == Shows([q EXCEPT !.tab = "zones"], NoZone, {c}, {ListZones(c.from)})
ZoneListed(q, c)    == Shows(q, NoZone, {c}, {ListZones(c.from)})
RecordCreated(q, c) == Shows([q EXCEPT !.tab = "records"], c.from, {c}, {})
RecordDeleted(q, c) == Shows(q, c.from, {c}, {})

DnsAnswered(c, ok) ==
    /\ c.kind \in {"add", "rmzone", "create", "delete", "import"}
    /\ ok /\ c.kind \in {"add", "rmzone", "import"} => c.at = "ok"
    /\ LET open == panel.dialog = c.kind
           p    == IF ~open THEN panel ELSE [panel EXCEPT !.busy = FALSE]
           q    == IF ~open THEN panel ELSE [p EXCEPT !.dialog = "none", !.target = NoZone]
       IN IF ~ok THEN panel' = p /\ Then(c, {})
          ELSE CASE c.kind = "create" -> RecordCreated(q, c)
                 [] c.kind = "delete" -> RecordDeleted(q, c)
                 [] c.kind = "add"    -> ZoneAdded(q, c)
                 [] OTHER             -> ZoneListed(q, c)
    /\ UNCHANGED dnsZones

Synced(c, ok) ==
    /\ c.kind = "sync"
    /\ IF ok THEN Shows(panel, c.from, {c}, {ListZones(LoadZones(c.from))})
              ELSE UNCHANGED panel /\ Then(c, {})
    /\ UNCHANGED dnsZones

-----------------------------------------------------------------------------
ServeDns(c) == ZonesRead(c) \/ ZoneChanged(c)

AnswerDns(c) == \/ \E answer \in {"ok", "refused", "lost"} : ZonesLoaded(c, answer)
                \/ \E ok \in BOOLEAN : RecordsLoaded(c, ~ok) \/ DnsAnswered(c, ok) \/ Synced(c, ok)

DnsClick == \/ \E t \in {"config", "zones", "records"} : ShowTab(t)
            \/ \E z \in Zones : ChooseZone(z) \/ \E d \in {"add", "rmzone", "create", "delete"} : OpenDnsDialog(d, z)
            \/ CloseDnsDialog \/ SubmitZoneForm \/ SubmitRecordForm \/ ConfirmDnsDelete
            \/ \E kind \in {"import", "sync"} : ImportOrSync(kind)

DnsNext == DnsClick \/ \E c \in dnsCalls : ServeDns(c) \/ AnswerDns(c)
DnsSpec == DnsInit /\ [][DnsNext]_dnsVars

(***************************************************************************)
(* Properties                                                              *)
(***************************************************************************)
\* With no answer on its way the records shown are those of the zone chosen,
\* unless the last ones asked for crossed with, or were, another zone's, or
\* the last answer about them was lost.
RecordsMatchTheirZone ==
    panel.tab = "records" /\ panel.selected # NoZone /\ RecordCalls = {} /\ ~panel.crossed /\ ~panel.missed
        => panel.recordsOf = panel.selected

=============================================================================
