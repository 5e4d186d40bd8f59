------------------------------- MODULE DnsAgent -------------------------------
(***************************************************************************)
(* The agent's copy of a zone's DNS records (handlers/dns.go, store/dns.go)*)
(* and Cloudflare's own.  A request changes Cloudflare first and the copy  *)
(* second; a synchronisation lists the zone, clears the copy and stores    *)
(* the listing row by row, each statement by itself and its errors         *)
(* ignored.  Requests come from any number of pages and overlap at every   *)
(* step.  The agent gives Cloudflare 20 seconds (cloudflare/client.go);    *)
(* what it gives up on may have been carried out, or may yet be.           *)
(* Rows go by numbers that are not used again, and a deletion by the       *)
(* number a page has listed.  One zone is enough, for zones share nothing; *)
(* records change through DockLite only.  What a record says, changing it, *)
(* and what a row says of it are left out.                                 *)
(***************************************************************************)
EXTENDS Naturals, FiniteSets

CONSTANTS Records, Rows,      \* Cloudflare's names of records, numbers of rows
          MaxRequests, NoRecord, NoRow

ASSUME DnsAgentAssumption == NoRecord \notin Records /\ NoRow \notin Rows /\ MaxRequests \in Nat

VARIABLES store,     \* the agent's store, and Cloudflare
          requests   \* the requests under way

agentVars == <<store, requests>>

(***************************************************************************)
(* store: is the integration on, is the zone there, the records Cloudflare *)
(* has, and the rows of the copy, those made while the integration was off *)
(* naming no record.  A request is "sent" until its first step, and "left" *)
(* once it was answered as failed while Cloudflare may still carry it out. *)
(* History: "alone", no other request was in the middle of its steps when  *)
(* this one began, and none changed anything since; "doubt", the copy and  *)
(* Cloudflare have been parted since a synchronisation ran alone.          *)
(***************************************************************************)
AgentInit ==
    /\ \E on \in BOOLEAN, cloud \in SUBSET Records :
         store = [on |-> on, zone |-> TRUE, cloud |-> cloud, copy |-> {}, doubt |-> cloud # {}]
    /\ requests = {}

Request(kind, row) ==
    [kind |-> kind, at |-> "sent", row |-> row, record |-> NoRecord, listed |-> {}, alone |-> FALSE]

Busy       == {c \in requests : c.at \notin {"sent", "left"}}
RowIds     == {r.id : r \in store.copy}
FreshRows  == Rows \ (RowIds \union {c.row : c \in requests})
FreshNames == {x \in Records : /\ x \notin store.cloud /\ \A r \in store.copy : r.record # x
                             /\ \A c \in requests : c.record # x /\ x \notin c.listed}

\* c becomes next; a change to the store or to Cloudflare disturbs the others.
Proceeds(c, next) == requests' = (requests \ {c}) \union next
Disturbs(c, next) == requests' = {[d EXCEPT !.alone = FALSE] : d \in requests \ {c}} \union next
Begun(c, at)      == [c EXCEPT !.at = at, !.alone = Busy = {}]
\* The store after the last step of c, which went through or not.
Parted(c, well)   == store.doubt \/ ~c.alone \/ ~well

Asked(kind, row) ==
    /\ Cardinality(requests) < MaxRequests
    /\ row \in IF kind = "delete" THEN RowIds ELSE {NoRow}
    /\ requests' = requests \union {Request(kind, row)}
    /\ UNCHANGED store

\* The request Cloudflare is asked to carry out by the next step.
AtCloudflare(c) ==
    /\ store.on /\ store.zone
    /\ (c.kind = "create" /\ c.at = "sent") \/ (c.kind = "delete" /\ c.at = "found" /\ c.record # NoRecord)

\* A request is refused, by the agent or by Cloudflare, before it changed
\* anything; one the agent gave up on is left with Cloudflare.
Refused(c) ==
    /\ c.at \in {"sent", "found"}
    /\ \E next \in {{}} \union IF AtCloudflare(c) THEN {{[c EXCEPT !.at = "left", !.alone = FALSE]}} ELSE {} :
           Proceeds(c, next)
    /\ UNCHANGED store

(***************************************************************************)
(* POST /api/dns/records.  Not told of its success, the agent answers that *)
(* the creation failed and stores nothing.                                 *)
(***************************************************************************)
CreateAtCloudflare(c, told) ==
    /\ c.kind = "create" /\ AtCloudflare(c)
    /\ \E x \in FreshNames :
          /\ Disturbs(c, IF told THEN {[Begun(c, "cloud") EXCEPT !.record = x]} ELSE {})
          /\ store' = [store EXCEPT !.cloud = @ \union {x}, !.doubt = @ \/ ~told]

\* The integration is off, or its setting could not be read.
CreateLocally(c) ==
    /\ c.kind = "create" /\ c.at = "sent" /\ store.zone
    /\ Proceeds(c, {Begun(c, "cloud")})
    /\ UNCHANGED store

\* The row of a zone that was deleted meanwhile is refused.
RowStored(c, ok) ==
    /\ c.kind = "create" /\ c.at = "cloud" /\ (ok => store.zone)
    /\ Disturbs(c, {})
    /\ \E new \in IF ok THEN {{[id |-> id, record |-> c.record]} : id \in FreshRows} ELSE {{}} :
          store' = [store EXCEPT !.copy = @ \union new, !.doubt = Parted(c, ok \/ c.record = NoRecord)]

(***************************************************************************)
(* DELETE /api/dns/records.  A record Cloudflare does not have any more is *)
(* dropped all the same, and one deleted while the integration is off, or  *)
(* while its setting cannot be read, stays at Cloudflare.                  *)
(***************************************************************************)
DeleteFinds(c) ==
    /\ c.kind = "delete" /\ c.at = "sent"
    /\ \E r \in store.copy : r.id = c.row /\ Proceeds(c, {[Begun(c, "found") EXCEPT !.record = r.record]})
    /\ UNCHANGED store

DeleteAtCloudflare(c, told) ==
    /\ c.kind = "delete" /\ AtCloudflare(c)
    /\ Disturbs(c, IF told THEN {[c EXCEPT !.at = "cloud"]} ELSE {})
    /\ store' = [store EXCEPT !.cloud = @ \ {c.record}, !.doubt = @ \/ ~told]

DeleteLocally(c) ==
    /\ c.kind = "delete" /\ c.at = "found"
    /\ Proceeds(c, {[c EXCEPT !.at = "cloud"]})
    /\ store' = [store EXCEPT !.doubt = @ \/ c.record \in store.cloud]

RowDeleted(c, ok) ==
    /\ c.kind = "delete" /\ c.at = "cloud"
    /\ Disturbs(c, {})
    /\ store' = [store EXCEPT !.copy  = IF ok THEN {r \in @ : r.id # c.row} ELSE @,
                              !.doubt = Parted(c, ok \/ c.record = NoRecord)]

(***************************************************************************)
(* POST /api/dns/sync.                                                     *)
(***************************************************************************)
SyncLists(c) ==
    /\ c.kind = "sync" /\ c.at = "sent" /\ store.on /\ store.zone
    /\ Proceeds(c, {[Begun(c, "listed") EXCEPT !.listed = store.cloud]})
    /\ UNCHANGED store

\* Mutant: the listing is added to what the copy holds.
SyncKeeps(c, ok) ==
    /\ c.kind = "sync" /\ c.at = "listed"
    /\ Disturbs(c, {[c EXCEPT !.at = "cleared", !.alone = @ /\ ok]})
    /\ UNCHANGED store

SyncClears(c, ok) ==
    /\ c.kind = "sync" /\ c.at = "listed"
    /\ Disturbs(c, {[c EXCEPT !.at = "cleared", !.alone = @ /\ ok]})
    /\ store' = [store EXCEPT !.copy = IF ok THEN {} ELSE @]

SyncStores(c, x, ok) ==
    /\ c.kind = "sync" /\ c.at = "cleared" /\ x \in c.listed /\ (ok => store.zone)
    /\ Disturbs(c, {[c EXCEPT !.listed = @ \ {x}, !.alone = @ /\ ok]})
    /\ \E new \in IF ok THEN {{[id |-> id, record |-> x]} : id \in FreshRows} ELSE {{}} :
          store' = [store EXCEPT !.copy = @ \union new]

SyncEnds(c) ==
    /\ c.kind = "sync" /\ c.at = "cleared" /\ c.listed = {}
    /\ Proceeds(c, {})
    /\ store' = [store EXCEPT !.doubt = ~c.alone]

(***************************************************************************)
(* What happens besides.  Cloudflare carries out what the agent has given  *)
(* up on; the agent is restarted and forgets what it was doing; the zone   *)
(* is deleted and takes its rows along.  A zone added again is another one.*)
(***************************************************************************)
CarriedOutLate(c) ==
    /\ c.at = "left"
    /\ Disturbs(c, {})
    /\ \/ /\ c.kind = "create"
          /\ \E x \in FreshNames : store' = [store EXCEPT !.cloud = @ \union {x}, !.doubt = TRUE]
       \/ /\ c.kind = "delete"
          /\ store' = [store EXCEPT !.cloud = @ \ {c.record}, !.doubt = TRUE]

Restarted ==
    /\ \E kept \in SUBSET {c \in requests : AtCloudflare(c)} :
           requests' = {c \in requests : c.at = "left"} \union {[c EXCEPT !.at = "left", !.alone = FALSE] : c \in kept}
    /\ store' = [store EXCEPT !.doubt = @ \/ Busy # {}]

ZoneDeleted ==
    /\ store.zone
    /\ store' = [store EXCEPT !.zone = FALSE, !.copy = {}]
    /\ UNCHANGED requests

\* POST /api/dns/config.
Toggled ==
    /\ store' = [store EXCEPT !.on = ~@]
    /\ UNCHANGED requests

-----------------------------------------------------------------------------
Serve(c) ==
    \/ Refused(c) \/ CreateLocally(c) \/ DeleteFinds(c) \/ DeleteLocally(c)
    \/ SyncLists(c) \/ SyncEnds(c) \/ CarriedOutLate(c)
    \/ \E ok \in BOOLEAN : \/ CreateAtCloudflare(c, ok) \/ RowStored(c, ok)
                           \/ DeleteAtCloudflare(c, ok) \/ RowDeleted(c, ok)
                           \/ SyncClears(c, ok) \/ \E x \in Records : SyncStores(c, x, ok)

AgentNext ==
    \/ \E kind \in {"create", "delete", "sync"}, row \in Rows \union {NoRow} : Asked(kind, row)
    \/ \E c \in requests : Serve(c)
    \/ Restarted \/ ZoneDeleted \/ Toggled

AgentSpec == AgentInit /\ [][AgentNext]_agentVars

(***************************************************************************)
(* Properties                                                              *)
(***************************************************************************)
CloudRows == {r \in store.copy : r.record # NoRecord}

\* With no request in the middle of its steps, the copy names the records
\* Cloudflare has, each in one row - whatever it held before the last
\* synchronisation that ran alone and without an error - unless since then
\* requests overlapped, one stopped or failed half-way or took Cloudflare too
\* long, or a record was deleted without asking Cloudflare.
CopyAgrees ==
    store.zone /\ Busy = {} /\ ~store.doubt =>
        /\ {r.record : r \in CloudRows} = store.cloud
        /\ \A r, s \in CloudRows : r.record = s.record => r = s

=============================================================================
