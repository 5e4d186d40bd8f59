----------------------------- MODULE ServerPage -----------------------------
(***************************************************************************)
(* The server page (server/page.tsx) with its service cards                *)
(* (ServiceCard.tsx): sections that load on their own, the actions of the  *)
(* core services, the log panel, pruning and the diagnostics bundle.  A    *)
(* service action is a chain of calls: the action, the services again, and *)
(* the open logs again.  The first answer that says 403 hides the page for *)
(* good.                                                                   *)
(***************************************************************************)
EXTENDS Naturals, FiniteSets

CONSTANTS Sections,        \* the sections; "services" and "storage" are among them
          Services,        \* the services with a card
          MaxServerCalls,  \* bound: calls outstanding at once
          NoService

ServerPageAssumption ==
    /\ {"services", "storage"} \subseteq Sections
    /\ NoService \notin Services /\ MaxServerCalls \in Nat

VARIABLES server,      \* the page
          serverCalls  \* the calls not answered; equal calls are one

serverVars == <<server, serverCalls>>

(***************************************************************************)
(* The two boxes of host logs are sections like the others, except that    *)
(* they can be refreshed.  busy is the service of serviceAction, target    *)
(* that of the log panel and logsOf the one whose logs it holds.  A call   *)
(* belongs to the action of service "after", or to none; "logs" says       *)
(* whether that action was started with its service's log panel open.      *)
(* "crossed" and "failed" are history: logs were asked for while another   *)
(* service's were outstanding; logs could not be loaded.                   *)
(***************************************************************************)
ServerCall(kind, of, after, logs) == [kind |-> kind, of |-> of, after |-> after, logs |-> logs]
Plain(kind, of) == ServerCall(kind, of, NoService, FALSE)

ServerInit ==
    /\ server = [denied |-> FALSE, loading |-> Sections, have |-> {}, busy |-> NoService,
                 target |-> NoService, logsOf |-> NoService, logsLoading |-> FALSE,
                 downloading |-> FALSE, crossed |-> FALSE, failed |-> FALSE]
    /\ serverCalls = {Plain("section", s) : s \in Sections}

LogCalls == {c \in serverCalls : c.kind = "logs"}
ServerRoom     == Cardinality(serverCalls) < MaxServerCalls

ServerShown(section) == ~server.denied /\ section \in server.have \ server.loading
Denied(page)   == [page EXCEPT !.denied = TRUE]

Goes(c, page, next) == server' = page /\ serverCalls' = (serverCalls \ {c}) \union next

\* The end of an action's chain: busy is cleared, whichever action it names.
Ended(page, c) == IF c.after = NoService THEN page ELSE [page EXCEPT !.busy = NoService]

\* Mutant: the panel keeps its first title.
OpenSamePanel(page, s) ==
    [page EXCEPT !.target = IF @ = NoService THEN s ELSE @, !.logsLoading = TRUE,
                 !.crossed = @ \/ \E c \in LogCalls : c.of # s]

\* handleServiceLogs.
OpenLogs(page, s) ==
    [page EXCEPT !.target = s, !.logsLoading = TRUE,
                 !.crossed = @ \/ \E c \in LogCalls : c.of # s]

(***************************************************************************)
(* Sections.  After an action's refetch its logs are loaded too, if they   *)
(* were open when the action began.                                        *)
(***************************************************************************)
SectionLoaded(c, status) ==
    /\ c.kind = "section"
    /\ LET p == [server EXCEPT !.loading = @ \ {c.of}]
           q == CASE status = "ok"   -> [p EXCEPT !.have = @ \union {c.of}]
                  [] status = "403"  -> Denied(p)
                  [] status = "fail" -> p
       IN IF c.logs
          THEN Goes(c, OpenLogs(q, c.after), {ServerCall("logs", c.after, c.after, TRUE)})
          ELSE Goes(c, Ended(q, c), {})

HostLogs == Sections \intersect {"system logs", "docklite logs"}

RefreshHostLogs(section) ==
    /\ ~server.denied /\ ServerRoom
    /\ server' = [server EXCEPT !.loading = @ \union {section}]
    /\ serverCalls' = serverCalls \union {Plain("section", section)}

(***************************************************************************)
(* Services                                                                *)
(***************************************************************************)
\* The card of a service disables its buttons while busy names the service.
ServiceAction(s) ==
    /\ ServerShown("services") /\ server.busy # s /\ ServerRoom
    /\ server' = [server EXCEPT !.busy = s]
    /\ serverCalls' = serverCalls \union {ServerCall("action", s, NoService, server.target = s)}

ServiceActed(c, status) ==
    /\ c.kind = "action"
    /\ CASE status = "ok" ->
              Goes(c, [server EXCEPT !.loading = @ \union {"services"}],
                   {ServerCall("section", "services", c.of, c.logs)})
         [] status = "403"  -> Goes(c, Denied([server EXCEPT !.busy = NoService]), {})
         [] status = "fail" -> Goes(c, [server EXCEPT !.busy = NoService], {})

ServiceLogs(s) ==
    /\ ServerShown("services") /\ ~(server.logsLoading /\ server.target = s) /\ ServerRoom
    /\ server' = OpenLogs(server, s)
    /\ serverCalls' = serverCalls \union {Plain("logs", s)}

\* The panel's refresh button and its "live" timer (LogViewer.tsx) ask again
\* whether or not logs are being loaded.
RefreshLogs ==
    /\ ServerShown("services") /\ server.target # NoService /\ ServerRoom
    /\ server' = OpenLogs(server, server.target)
    /\ serverCalls' = serverCalls \union {Plain("logs", server.target)}

LogsLoaded(c, status) ==
    /\ c.kind = "logs"
    /\ LET p == [server EXCEPT !.logsLoading = FALSE]
           q == CASE status = "ok"   -> [p EXCEPT !.logsOf = c.of]
                  [] status = "403"  -> Denied([p EXCEPT !.failed = TRUE])
                  [] status = "fail" -> [p EXCEPT !.failed = TRUE]
       IN Goes(c, Ended(q, c), {})

(***************************************************************************)
(* Pruning Docker's storage, and the diagnostics bundle                    *)
(***************************************************************************)
Prune ==
    /\ ServerShown("storage") /\ ServerRoom
    /\ serverCalls' = serverCalls \union {Plain("prune", NoService)}
    /\ UNCHANGED server

Pruned(c, status) ==
    /\ c.kind = "prune"
    /\ CASE status = "ok"   -> Goes(c, [server EXCEPT !.loading = @ \union {"storage"}],
                                    {Plain("section", "storage")})
         [] status = "403"  -> Goes(c, Denied(server), {})
         [] status = "fail" -> Goes(c, server, {})

DownloadDiagnostics ==
    /\ ~server.denied /\ ~server.downloading /\ ServerRoom
    /\ server' = [server EXCEPT !.downloading = TRUE]
    /\ serverCalls' = serverCalls \union {Plain("diagnostics", NoService)}

DiagnosticsDownloaded(c, status) ==
    /\ c.kind = "diagnostics"
    /\ LET p == [server EXCEPT !.downloading = FALSE]
       IN Goes(c, IF status = "403" THEN Denied(p) ELSE p, {})

-----------------------------------------------------------------------------
ServerAnswer(c) == \E status \in {"ok", "403", "fail"} :
    \/ SectionLoaded(c, status) \/ ServiceActed(c, status) \/ LogsLoaded(c, status)
    \/ Pruned(c, status) \/ DiagnosticsDownloaded(c, status)

ServerClick == \/ \E s \in Services : ServiceAction(s) \/ ServiceLogs(s)
               \/ \E section \in HostLogs : RefreshHostLogs(section)
               \/ RefreshLogs \/ Prune \/ DownloadDiagnostics

ServerNext == ServerClick \/ \E c \in serverCalls : ServerAnswer(c)

ServerSpec == ServerInit /\ [][ServerNext]_serverVars

(***************************************************************************)
(* Properties                                                              *)
(***************************************************************************)
\* The log panel ends with the logs of the service it names, unless the logs of
\* two services were out at once or could not be loaded.
LogsMatchTheirTitle ==
    LogCalls = {} /\ ~server.crossed /\ ~server.failed => server.logsOf = server.target

=============================================================================
