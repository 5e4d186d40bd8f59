-------------------------- MODULE ServerPagesProofs --------------------------
(***************************************************************************)
(* Proofs about the server page (ServerPage.tla) and the list of all       *)
(* containers (AllContainers.tla), and that the pages of ActionPages run   *)
(* beside each other as they do alone.                                     *)
(***************************************************************************)
EXTENDS ActionPages, TLAPS

-----------------------------------------------------------------------------
(***************************************************************************)
(* The server page                                                         *)
(* Until the logs of two services are out at once, every log call is for   *)
(* the service the panel names, wherever it came from: a click, the timer  *)
(* or the chain of an action that began while the panel was open.          *)
(***************************************************************************)

AnyService == Services \union {NoService}

ServerStates == [denied : BOOLEAN, loading : SUBSET Sections, have : SUBSET Sections,
                 busy : AnyService, target : AnyService, logsOf : AnyService,
                 logsLoading : BOOLEAN, downloading : BOOLEAN, crossed : BOOLEAN, failed : BOOLEAN]

ServerCallKinds ==
  [kind : {"section"}, of : Sections, after : AnyService, logs : BOOLEAN]
  \union [kind : {"action", "logs", "prune", "diagnostics"}, of : AnyService, after : AnyService,
          logs : BOOLEAN]

ServerTypeOK == server \in ServerStates /\ serverCalls \subseteq ServerCallKinds

LogsInv ==
    /\ ~server.crossed => \A c \in LogCalls : c.of = server.target
    /\ ~server.crossed /\ ~server.failed /\ LogCalls = {} => server.logsOf = server.target

ServerInv == ServerTypeOK /\ LogsInv

LEMMA ServerCallsByKind ==
  ASSUME ServerTypeOK, NEW c \in serverCalls
  PROVE  /\ c.kind \in {"section", "action", "logs", "prune", "diagnostics"}
         /\ c.kind = "section" => c.of \in Sections
         /\ c.kind # "section" => c.of \in AnyService
         /\ c.after \in AnyService /\ c.logs \in BOOLEAN
<1>1. CASE c \in [kind : {"section"}, of : Sections, after : AnyService, logs : BOOLEAN]
  BY <1>1
<1>2. CASE c \in [kind : {"action", "logs", "prune", "diagnostics"}, of : AnyService,
                  after : AnyService, logs : BOOLEAN]
  BY <1>2
<1> QED
  BY <1>1, <1>2 DEF ServerTypeOK, ServerCallKinds

\* What a new call is.
LEMMA NewServerCall ==
  ASSUME NEW kind, NEW of, NEW after \in AnyService, NEW logs \in BOOLEAN,
         \/ kind = "section" /\ of \in Sections
         \/ kind \in {"action", "logs", "prune", "diagnostics"} /\ of \in AnyService
  PROVE  /\ ServerCall(kind, of, after, logs) \in ServerCallKinds
         /\ ServerCall(kind, of, after, logs).kind = kind /\ ServerCall(kind, of, after, logs).of = of
<1>1. CASE kind = "section" /\ of \in Sections
  BY <1>1 DEF ServerCall, ServerCallKinds
<1>2. CASE kind \in {"action", "logs", "prune", "diagnostics"} /\ of \in AnyService
  BY <1>2 DEF ServerCall, ServerCallKinds
<1> QED
  BY <1>1, <1>2

LEMMA NewPlainCall ==
  ASSUME NEW kind, NEW of,
         \/ kind = "section" /\ of \in Sections
         \/ kind \in {"action", "logs", "prune", "diagnostics"} /\ of \in AnyService
  PROVE  Plain(kind, of) \in ServerCallKinds /\ Plain(kind, of).kind = kind /\ Plain(kind, of).of = of
<1>1. NoService \in AnyService
  BY DEF AnyService
<1> QED
  BY <1>1, NewServerCall DEF Plain

LEMMA ServerInitially == ServerInit => ServerInv
<1> SUFFICES ASSUME ServerInit PROVE ServerInv
  OBVIOUS
<1>1. server \in ServerStates
  BY DEF ServerInit, ServerStates, AnyService
<1>2. \A c \in serverCalls : c \in ServerCallKinds /\ c.kind = "section"
  BY NewPlainCall DEF ServerInit
<1>3. server.logsOf = server.target
  BY DEF ServerInit
<1> QED
  BY <1>1, <1>2, <1>3 DEF ServerInv, ServerTypeOK, LogsInv, LogCalls

-----------------------------------------------------------------------------
\* Steps that neither ask for logs nor show them.
LEMMA LogsAlone ==
  ASSUME ServerInv, server' \in ServerStates, server'.target = server.target,
         server'.logsOf = server.logsOf, server'.crossed = server.crossed,
         server'.failed = server.failed,
         \A c \in serverCalls' : c \in serverCalls \/ (c \in ServerCallKinds /\ c.kind # "logs"),
         \A c \in serverCalls \ serverCalls' : c.kind # "logs"
  PROVE  ServerInv'
<1>1. LogCalls' = LogCalls
  BY DEF LogCalls
<1> QED
  BY <1>1 DEF ServerInv, ServerTypeOK, LogsInv

\* Logs are asked for: the panel names their service from now on.
LEMMA OpenLogsKeeps ==
  ASSUME ServerInv, NEW q \in ServerStates, q.crossed = server.crossed, q.failed = server.failed,
         NEW s \in AnyService, server' = OpenLogs(q, s),
         NEW d \in ServerCallKinds, d.kind = "logs", d.of = s,
         NEW done, \A c \in done : c.kind # "logs",
         serverCalls' = (serverCalls \ done) \union {d}
  PROVE  ServerInv'
<1> DEFINE crossed == q.crossed \/ \E c \in LogCalls : c.of # s
<1>1. crossed \in BOOLEAN
  BY DEF ServerStates
<1>2. server' = [q EXCEPT !.target = s, !.logsLoading = TRUE, !.crossed = crossed]
  BY DEF OpenLogs
<1>3. ~crossed => \A c \in LogCalls : c.of = s
  OBVIOUS
<1> HIDE DEF crossed
<1>4. server' \in ServerStates /\ server'.target = s /\ server'.crossed = crossed
  BY <1>1, <1>2 DEF ServerStates
<1>5. LogCalls' = LogCalls \union {d}
  BY DEF LogCalls
<1>6. LogsInv'
  BY <1>3, <1>4, <1>5 DEF LogsInv
<1> QED
  BY <1>4, <1>6 DEF ServerInv, ServerTypeOK

\* The page hidden, or an action's chain at its end: no log is touched.
LEMMA EndedKeeps ==
  ASSUME ServerTypeOK, NEW q \in ServerStates, NEW c \in serverCalls
  PROVE  /\ Ended(q, c) \in ServerStates /\ Ended(q, c).target = q.target
         /\ Ended(q, c).logsOf = q.logsOf /\ Ended(q, c).crossed = q.crossed
         /\ Ended(q, c).failed = q.failed
<1>1. /\ [q EXCEPT !.busy = NoService] \in ServerStates
      /\ [q EXCEPT !.busy = NoService].target = q.target
      /\ [q EXCEPT !.busy = NoService].logsOf = q.logsOf
      /\ [q EXCEPT !.busy = NoService].crossed = q.crossed
      /\ [q EXCEPT !.busy = NoService].failed = q.failed
  BY DEF ServerStates, AnyService
<1> QED
  BY <1>1 DEF Ended

LEMMA DeniedKeeps ==
  ASSUME NEW q \in ServerStates
  PROVE  /\ Denied(q) \in ServerStates /\ Denied(q).target = q.target
         /\ Denied(q).logsOf = q.logsOf /\ Denied(q).crossed = q.crossed
         /\ Denied(q).failed = q.failed
  BY DEF Denied, ServerStates

LEMMA SectionLoadedKeeps ==
  ASSUME ServerInv, NEW c \in serverCalls, NEW status \in {"ok", "403", "fail"},
         SectionLoaded(c, status)
  PROVE  ServerInv'
<1> DEFINE p == [server EXCEPT !.loading = @ \ {c.of}]
           q == CASE status = "ok"   -> [p EXCEPT !.have = @ \union {c.of}]
                  [] status = "403"  -> Denied(p)
                  [] status = "fail" -> p
<1>1. /\ c.kind = "section" /\ c.of \in Sections /\ c.after \in AnyService
      /\ IF c.logs
         THEN Goes(c, OpenLogs(q, c.after), {ServerCall("logs", c.after, c.after, TRUE)})
         ELSE Goes(c, Ended(q, c), {})
  BY ServerCallsByKind DEF SectionLoaded, ServerInv
<1>2. /\ p \in ServerStates /\ p.target = server.target /\ p.logsOf = server.logsOf
      /\ p.crossed = server.crossed /\ p.failed = server.failed
  BY DEF ServerInv, ServerTypeOK, ServerStates
<1>3. /\ q \in ServerStates /\ q.target = server.target /\ q.logsOf = server.logsOf
      /\ q.crossed = server.crossed /\ q.failed = server.failed
  <2> HIDE DEF p
  <2>1. CASE status = "ok"
    BY <1>1, <1>2, <2>1 DEF ServerStates
  <2>2. CASE status = "403"
    BY <1>2, <2>2, DeniedKeeps
  <2>3. CASE status = "fail"
    BY <1>2, <2>3
  <2> QED
    BY <2>1, <2>2, <2>3
<1> HIDE DEF q
<1>4. CASE c.logs
  <2> DEFINE d == ServerCall("logs", c.after, c.after, TRUE)
  <2>1. d \in ServerCallKinds /\ d.kind = "logs" /\ d.of = c.after
    <3>1. c.after \in AnyService
      BY ServerCallsByKind DEF ServerInv
    <3> QED
      BY <3>1, NewServerCall
  <2>2. server' = OpenLogs(q, c.after) /\ serverCalls' = (serverCalls \ {c}) \union {d}
    BY <1>1, <1>4 DEF Goes
  <2> HIDE DEF d
  <2> QED
    BY <1>1, <1>3, <2>1, <2>2, OpenLogsKeeps
<1>5. CASE ~c.logs
  <2>1. server' = Ended(q, c) /\ serverCalls' = serverCalls \ {c}
    BY <1>1, <1>5 DEF Goes
  <2> QED
    BY <1>1, <1>3, <2>1, EndedKeeps, LogsAlone DEF ServerInv
<1> QED
  BY <1>4, <1>5

LEMMA ServiceActedKeeps ==
  ASSUME ServerPageAssumption, ServerInv, NEW c \in serverCalls, NEW status \in {"ok", "403", "fail"},
         ServiceActed(c, status)
  PROVE  ServerInv'
<1>1. c.kind = "action" /\ c.of \in AnyService /\ c.logs \in BOOLEAN
  BY ServerCallsByKind DEF ServiceActed, ServerInv
<1>2. server \in ServerStates
  BY DEF ServerInv, ServerTypeOK
<1>3. CASE status = "ok"
  <2> DEFINE d == ServerCall("section", "services", c.of, c.logs)
  <2>1. d \in ServerCallKinds /\ d.kind = "section"
    BY <1>1, NewServerCall DEF ServerPageAssumption
  <2>2. /\ server' = [server EXCEPT !.loading = @ \union {"services"}]
        /\ serverCalls' = (serverCalls \ {c}) \union {d}
    BY <1>3 DEF ServiceActed, Goes
  <2> HIDE DEF d
  <2>3. /\ server' \in ServerStates /\ server'.target = server.target /\ server'.logsOf = server.logsOf
        /\ server'.crossed = server.crossed /\ server'.failed = server.failed
    BY <1>2, <2>2 DEF ServerStates, ServerPageAssumption
  <2> QED
    BY <1>1, <2>1, <2>2, <2>3, LogsAlone
<1>4. CASE status # "ok"
  <2> DEFINE p == [server EXCEPT !.busy = NoService]
  <2>1. server' \in {p, Denied(p)} /\ serverCalls' = serverCalls \ {c}
    BY <1>4 DEF ServiceActed, Goes
  <2>2. /\ p \in ServerStates /\ p.target = server.target /\ p.logsOf = server.logsOf
        /\ p.crossed = server.crossed /\ p.failed = server.failed
    BY <1>2 DEF ServerStates, AnyService
  <2> HIDE DEF p
  <2> QED
    BY <1>1, <2>1, <2>2, DeniedKeeps, LogsAlone
<1> QED
  BY <1>3, <1>4

\* Logs loaded are those of the service the panel names.
LEMMA LogsLoadedKeeps ==
  ASSUME ServerInv, NEW c \in serverCalls, NEW status \in {"ok", "403", "fail"}, LogsLoaded(c, status)
  PROVE  ServerInv'
<1> DEFINE p == [server EXCEPT !.logsLoading = FALSE]
           q == CASE status = "ok"   -> [p EXCEPT !.logsOf = c.of]
                  [] status = "403"  -> Denied([p EXCEPT !.failed = TRUE])
                  [] status = "fail" -> [p EXCEPT !.failed = TRUE]
<1>1. c.kind = "logs" /\ c.of \in AnyService /\ server' = Ended(q, c) /\ serverCalls' = serverCalls \ {c}
  BY ServerCallsByKind DEF LogsLoaded, ServerInv, Goes
<1>2. p \in ServerStates /\ p.target = server.target /\ p.crossed = server.crossed
  BY DEF ServerInv, ServerTypeOK, ServerStates
<1>3. /\ q \in ServerStates /\ q.target = server.target /\ q.crossed = server.crossed
      /\ q.failed \/ q.logsOf = c.of
  <2> HIDE DEF p
  <2>1. CASE status = "ok"
    BY <1>1, <1>2, <2>1 DEF ServerStates
  <2>2. [p EXCEPT !.failed = TRUE] \in ServerStates /\ [p EXCEPT !.failed = TRUE].target = p.target
        /\ [p EXCEPT !.failed = TRUE].crossed = p.crossed /\ [p EXCEPT !.failed = TRUE].failed
    BY <1>2 DEF ServerStates
  <2>3. CASE status = "403"
    BY <1>2, <2>2, <2>3, DeniedKeeps
  <2>4. CASE status = "fail"
    BY <1>2, <2>2, <2>4
  <2> QED
    BY <2>1, <2>3, <2>4
<1> HIDE DEF q
<1>4. /\ server' \in ServerStates /\ server'.target = server.target /\ server'.crossed = server.crossed
      /\ server'.failed \/ server'.logsOf = c.of
  BY <1>1, <1>3, EndedKeeps DEF ServerInv
<1>5. c \in LogCalls /\ LogCalls' = LogCalls \ {c}
  BY <1>1 DEF LogCalls
<1>6. LogsInv'
  BY <1>4, <1>5 DEF ServerInv, LogsInv
<1> QED
  BY <1>1, <1>4, <1>6 DEF ServerInv, ServerTypeOK

\* The other answers.
LEMMA OtherAnswerKeeps ==
  ASSUME ServerPageAssumption, ServerInv, NEW c \in serverCalls, NEW status \in {"ok", "403", "fail"},
         Pruned(c, status) \/ DiagnosticsDownloaded(c, status)
  PROVE  ServerInv'
<1>1. server \in ServerStates
  BY DEF ServerInv, ServerTypeOK
<1>2. CASE Pruned(c, status) /\ status = "ok"
  <2> DEFINE d == Plain("section", "storage")
  <2>1. d \in ServerCallKinds /\ d.kind = "section"
    BY NewPlainCall DEF ServerPageAssumption
  <2>2. /\ server' = [server EXCEPT !.loading = @ \union {"storage"}]
        /\ serverCalls' = (serverCalls \ {c}) \union {d} /\ c.kind = "prune"
    BY <1>2 DEF Pruned, Goes
  <2> HIDE DEF d
  <2>3. /\ server' \in ServerStates /\ server'.target = server.target /\ server'.logsOf = server.logsOf
        /\ server'.crossed = server.crossed /\ server'.failed = server.failed
    BY <1>1, <2>2 DEF ServerStates, ServerPageAssumption
  <2> QED
    BY <2>1, <2>2, <2>3, LogsAlone
<1>3. CASE Pruned(c, status) /\ status # "ok"
  <2>1. server' \in {server, Denied(server)} /\ serverCalls' = serverCalls \ {c} /\ c.kind = "prune"
    BY <1>3 DEF Pruned, Goes
  <2> QED
    BY <1>1, <2>1, DeniedKeeps, LogsAlone
<1>4. CASE DiagnosticsDownloaded(c, status)
  <2> DEFINE p == [server EXCEPT !.downloading = FALSE]
  <2>1. server' \in {p, Denied(p)} /\ serverCalls' = serverCalls \ {c} /\ c.kind = "diagnostics"
    BY <1>4 DEF DiagnosticsDownloaded, Goes
  <2>2. /\ p \in ServerStates /\ p.target = server.target /\ p.logsOf = server.logsOf
        /\ p.crossed = server.crossed /\ p.failed = server.failed
    BY <1>1 DEF ServerStates
  <2> HIDE DEF p
  <2> QED
    BY <2>1, <2>2, DeniedKeeps, LogsAlone
<1> QED
  BY <1>2, <1>3, <1>4

\* Clicks that ask for logs.
LEMMA AskForLogsKeeps ==
  ASSUME ServerInv, RefreshLogs \/ \E s \in Services : ServiceLogs(s)
  PROVE  ServerInv'
<1>1. PICK s \in AnyService : server' = OpenLogs(server, s)
                              /\ serverCalls' = serverCalls \union {Plain("logs", s)}
  <2>1. CASE RefreshLogs
    <3>1. server.target \in AnyService
      BY DEF ServerInv, ServerTypeOK, ServerStates
    <3> QED
      BY <2>1, <3>1 DEF RefreshLogs
  <2>2. CASE \E s \in Services : ServiceLogs(s)
    BY <2>2 DEF ServiceLogs, AnyService
  <2> QED
    BY <2>1, <2>2
<1> DEFINE d == Plain("logs", s)
<1>2. d \in ServerCallKinds /\ d.kind = "logs" /\ d.of = s
  BY NewPlainCall
<1> DEFINE none == {}
<1>3. /\ server \in ServerStates /\ serverCalls' = (serverCalls \ none) \union {d}
      /\ \A c \in none : c.kind # "logs"
  BY <1>1 DEF ServerInv, ServerTypeOK
<1>4. server' = OpenLogs(server, s)
  BY <1>1
<1> HIDE DEF d, none
<1> QED
  BY <1>2, <1>3, <1>4, OpenLogsKeeps

\* The other clicks.
LEMMA OtherClickKeeps ==
  ASSUME ServerInv,
         \/ Prune \/ DownloadDiagnostics
         \/ \E s \in Services : ServiceAction(s)
         \/ \E section \in HostLogs : RefreshHostLogs(section)
  PROVE  ServerInv'
<1>1. server \in ServerStates
  BY DEF ServerInv, ServerTypeOK
<1>2. NoService \in AnyService
  BY DEF AnyService
<1>3. CASE Prune \/ DownloadDiagnostics
  <2>1. PICK d \in {Plain("prune", NoService), Plain("diagnostics", NoService)} :
          serverCalls' = serverCalls \union {d}
    BY <1>3 DEF Prune, DownloadDiagnostics
  <2>2. d \in ServerCallKinds /\ d.kind # "logs"
    BY <1>2, <2>1, NewPlainCall
  <2>3. /\ server' \in ServerStates /\ server'.target = server.target /\ server'.logsOf = server.logsOf
        /\ server'.crossed = server.crossed /\ server'.failed = server.failed
    BY <1>1, <1>3 DEF ServerStates, Prune, DownloadDiagnostics
  <2> QED
    BY <2>1, <2>2, <2>3, LogsAlone
<1>4. CASE \E s \in Services : ServiceAction(s)
  <2>1. PICK s \in Services : ServiceAction(s)
    BY <1>4
  <2> DEFINE open == server.target = s
             d == ServerCall("action", s, NoService, open)
  <2>2. open \in BOOLEAN /\ s \in AnyService
    BY DEF AnyService
  <2>3. server' = [server EXCEPT !.busy = s] /\ serverCalls' = serverCalls \union {d}
    BY <2>1 DEF ServiceAction
  <2> HIDE DEF open
  <2>4. d \in ServerCallKinds /\ d.kind = "action"
    BY <1>2, <2>2, NewServerCall
  <2> HIDE DEF d
  <2>5. /\ server' \in ServerStates /\ server'.target = server.target /\ server'.logsOf = server.logsOf
        /\ server'.crossed = server.crossed /\ server'.failed = server.failed
    BY <1>1, <2>2, <2>3 DEF ServerStates
  <2> QED
    BY <2>3, <2>4, <2>5, LogsAlone
<1>5. CASE \E section \in HostLogs : RefreshHostLogs(section)
  <2>1. PICK section \in HostLogs : RefreshHostLogs(section)
    BY <1>5
  <2> DEFINE d == Plain("section", section)
  <2>2. /\ section \in Sections /\ server' = [server EXCEPT !.loading = @ \union {section}]
        /\ serverCalls' = serverCalls \union {d}
    BY <2>1 DEF RefreshHostLogs, HostLogs
  <2>3. d \in ServerCallKinds /\ d.kind = "section"
    BY <2>2, NewPlainCall
  <2> HIDE DEF d
  <2>4. /\ server' \in ServerStates /\ server'.target = server.target /\ server'.logsOf = server.logsOf
        /\ server'.crossed = server.crossed /\ server'.failed = server.failed
    BY <1>1, <2>2 DEF ServerStates
  <2> QED
    BY <2>2, <2>3, <2>4, LogsAlone
<1> QED
  BY <1>3, <1>4, <1>5

\* Every step keeps the invariant.
LEMMA ServerStep ==
  ASSUME ServerPageAssumption PROVE ServerInv /\ [ServerNext]_serverVars => ServerInv'
<1> SUFFICES ASSUME ServerInv, [ServerNext]_serverVars PROVE ServerInv'
  OBVIOUS
<1>1. CASE ServerClick
  BY <1>1, AskForLogsKeeps, OtherClickKeeps DEF ServerClick
<1>2. CASE \E c \in serverCalls : ServerAnswer(c)
  BY <1>2, SectionLoadedKeeps, ServiceActedKeeps, LogsLoadedKeeps, OtherAnswerKeeps DEF ServerAnswer
<1>3. CASE UNCHANGED serverVars
  BY <1>3 DEF serverVars, ServerInv, ServerTypeOK, LogsInv, LogCalls
<1> QED
  BY <1>1, <1>2, <1>3 DEF ServerNext

\* Until the logs of two services are out at once, all log calls are for the
\* service the panel names, also those at the end of an action's chain
\* (server/page.tsx, serviceAction and handleServiceLogs).
THEOREM LogCallsNameTheTarget == ASSUME ServerPageAssumption PROVE ServerSpec => []ServerInv
  BY ServerInitially, ServerStep, PTL DEF ServerSpec

\* The log panel ends with the logs of the service it names, unless the logs of
\* two services were out at once or could not be loaded, for any number of
\* services, actions and calls (server/page.tsx).
THEOREM LogsAlwaysMatchTheirTitle ==
  ASSUME ServerPageAssumption PROVE ServerSpec => []LogsMatchTheirTitle
<1>1. ServerInv => LogsMatchTheirTitle
  BY DEF ServerInv, LogsInv, LogsMatchTheirTitle
<1> QED
  BY <1>1, LogCallsNameTheTarget, PTL

-----------------------------------------------------------------------------
(***************************************************************************)
(* The list of all containers                                              *)
(* A listing knows how many claims it was read after; one that knows of    *)
(* all of them calls no container untracked that has a site.  While no     *)
(* late listing was shown and no answer lost, that holds of the rows too,  *)
(* so neither the form nor the one claim that can be out names a container *)
(* with a site.                                                            *)
(***************************************************************************)

AnyMachine == Machines \union {NoMachine}
AnyDomain  == Domains \union {""}
Tiers      == {Unlisted, "managed", "no-manifest", "tracked", "untracked"}

SiteSets     == SUBSET (AnyDomain \X Machines)
RecordStates == [sites : SiteSets, tracked : SUBSET Machines,
                 manifest : SUBSET Machines, running : SUBSET Machines, claims : Nat]

DialogStates == [tier : [Machines -> Tiers], running : SUBSET Machines, loading : BOOLEAN,
                 error : BOOLEAN, target : AnyMachine, domain : AnyDomain, saving : BOOLEAN,
                 dying : AnyMachine, late : BOOLEAN, lost : BOOLEAN]

Readings == [Machines -> Tiers] \X (SUBSET Machines) \X Nat

RowKinds == {"start", "stop", "restart", "track", "untrack", "write-manifest", "delete"}

AllCallKinds ==
  [kind : {"list"}, of : {NoMachine}, what : {""}, got : {<<>>} \union Readings]
  \union [kind : RowKinds \union {"claim"}, of : Machines, what : AnyDomain, got : {<<>>}]

AllTypeOK ==
  records \in RecordStates /\ all \in DialogStates /\ allCalls \subseteq AllCallKinds

\* A reading of the list after so many claims calls nothing untracked that has
\* a site.
Truthful(tier) == \A m \in Machines : tier[m] = "untracked" => m \notin Owned

ReadingsInv ==
  \A c \in allCalls : c.kind = "list" /\ c.got # <<>> =>
      c.got[3] <= records.claims /\ (c.got[3] = records.claims => Truthful(c.got[1]))

ClaimCalls == {c \in allCalls : c.kind = "claim"}

OneClaimInv == /\ \A c \in ClaimCalls : all.saving
               /\ \A c, d \in ClaimCalls : c = d

FreshInv ==
  ~all.late /\ ~all.lost =>
      /\ Rows => Truthful(all.tier)
      /\ all.target # NoMachine => all.target \notin Owned
      /\ \A c \in ClaimCalls : c.of \notin Owned

AllInv == AllTypeOK /\ ReadingsInv /\ OneClaimInv /\ FreshInv /\ OneSiteEach

LEMMA AllCallsByKind ==
  ASSUME AllTypeOK, NEW c \in allCalls
  PROVE  /\ c.kind \in RowKinds \union {"claim", "list"}
         /\ c.kind = "list" =>
               /\ c \in [kind : {"list"}, of : {NoMachine}, what : {""}, got : {<<>>} \union Readings]
               /\ c.got # <<>> => c.got \in Readings
         /\ c.kind # "list" => c.of \in Machines /\ c.what \in AnyDomain /\ c.got = <<>>
<1>1. CASE c \in [kind : {"list"}, of : {NoMachine}, what : {""}, got : {<<>>} \union Readings]
  BY <1>1
<1>2. CASE c \in [kind : RowKinds \union {"claim"}, of : Machines, what : AnyDomain, got : {<<>>}]
  BY <1>2 DEF RowKinds
<1> QED
  BY <1>1, <1>2 DEF AllTypeOK, AllCallKinds

LEMMA NewAllCall ==
  ASSUME NEW kind \in RowKinds \union {"claim"}, NEW m \in Machines, NEW w \in AnyDomain
  PROVE  /\ Ask(kind, m, w) \in AllCallKinds /\ Ask(kind, m, w).kind = kind
         /\ Ask(kind, m, w).of = m /\ Ask(kind, m, w).what = w
<1>1. Ask(kind, m, w) \in
        [kind : RowKinds \union {"claim"}, of : Machines, what : AnyDomain, got : {<<>>}]
  BY DEF Ask
<1> QED
  BY <1>1 DEF Ask, AllCallKinds

LEMMA NewListing == List \in AllCallKinds /\ List.kind = "list" /\ List.got = <<>>
  BY DEF List, AllCallKinds

LEMMA ReadingsHold ==
  ASSUME NEW r \in Readings
  PROVE  r[1] \in [Machines -> Tiers] /\ r[2] \in SUBSET Machines /\ r[3] \in Nat
  BY DEF Readings

\* What the list says of containers with sites is true of what it read.
LEMMA TiersAreTruthful ==
  /\ \A m \in Machines : TrackingTier(m) \in Tiers
  /\ Truthful([m \in Machines |-> TrackingTier(m)])
  BY DEF TrackingTier, Tiers, Truthful

LEMMA AllInitially == AllInit => AllInv
<1> SUFFICES ASSUME AllInit PROVE AllInv
  OBVIOUS
<1>1. records \in RecordStates /\ records.sites = {} /\ records.claims = 0
  <2>1. {} \in SiteSets
    BY DEF SiteSets
  <2>2. records \in [sites : {{}}, tracked : SUBSET Machines, manifest : {{}}, running : {{}},
                     claims : {0}]
    BY DEF AllInit
  <2> QED
    BY <2>1, <2>2 DEF RecordStates
<1>2. all \in DialogStates /\ ~Rows /\ all.target = NoMachine
  <2>1. Unlisted \in Tiers /\ "" \in AnyDomain /\ NoMachine \in AnyMachine
    BY DEF Tiers, AnyDomain, AnyMachine
  <2>2. [m \in Machines |-> Unlisted] \in [Machines -> Tiers]
    BY <2>1
  <2> QED
    BY <2>1, <2>2 DEF AllInit, DialogStates, Rows
<1>3. allCalls = {List}
  BY DEF AllInit, List
<1>4. AllTypeOK
  BY <1>1, <1>2, <1>3, NewListing DEF AllTypeOK
<1>5. ReadingsInv /\ ClaimCalls = {}
  BY <1>3, NewListing DEF ReadingsInv, ClaimCalls
<1> QED
  BY <1>1, <1>2, <1>4, <1>5 DEF AllInv, OneClaimInv, FreshInv, OneSiteEach

-----------------------------------------------------------------------------
\* Steps that give no container a site, show no listing and ask for no claim.
LEMMA SitesAlone ==
  ASSUME AllInv, AllTypeOK', records'.sites = records.sites, records'.claims = records.claims,
         all'.saving = all.saving, all'.late = all.late, all'.lost = all.lost,
         Rows' => Rows /\ all'.tier = all.tier,
         \/ all'.target \in {all.target, NoMachine}
         \/ Rows /\ all'.target \in Machines /\ all.tier[all'.target] = "untracked",
         \A c \in allCalls' :
             c \in allCalls \/ (c.kind # "claim" /\ (c.kind = "list" => c.got = <<>>))
  PROVE  AllInv'
<1>1. Owned' = Owned
  BY DEF Owned
<1>2. \A tier : Truthful(tier)' <=> Truthful(tier)
  BY <1>1 DEF Truthful
<1>3. ReadingsInv'
  BY <1>1 DEF AllInv, ReadingsInv, Truthful
<1>4. ClaimCalls' \subseteq ClaimCalls
  BY DEF ClaimCalls
<1>5. OneClaimInv'
  BY <1>4 DEF AllInv, OneClaimInv
<1>6. FreshInv'
  BY <1>1, <1>4 DEF AllInv, FreshInv, Truthful
<1>7. OneSiteEach'
  BY DEF AllInv, OneSiteEach
<1> QED
  BY <1>3, <1>5, <1>6, <1>7 DEF AllInv

LEMMA ListReadKeeps == ASSUME AllInv, NEW c \in allCalls, ListRead(c) PROVE AllInv'
<1> DEFINE tier == [m \in Machines |-> TrackingTier(m)]
           reading == <<tier, records.running, records.claims>>
           d == [c EXCEPT !.got = reading]
<1>1. c.kind = "list" /\ allCalls' = (allCalls \ {c}) \union {d} /\ UNCHANGED <<records, all>>
  BY DEF ListRead
<1>2. reading \in Readings /\ reading[1] = tier /\ reading[3] = records.claims
  <2>1. tier \in [Machines -> Tiers]
    BY TiersAreTruthful
  <2> HIDE DEF tier
  <2> QED
    BY <2>1 DEF Readings, AllInv, AllTypeOK, RecordStates
<1>3. Truthful(tier)
  BY TiersAreTruthful
<1> HIDE DEF tier, reading
<1>4. d \in AllCallKinds /\ d.kind = "list" /\ d.got = reading
  <2> DEFINE Lists == [kind : {"list"}, of : {NoMachine}, what : {""}, got : {<<>>} \union Readings]
  <2>1. c \in Lists
    BY <1>1, AllCallsByKind DEF AllInv
  <2>2. d \in Lists /\ d.kind = "list" /\ d.got = reading
    BY <1>1, <1>2, <2>1
  <2> QED
    BY <2>2 DEF AllCallKinds
<1> HIDE DEF d
<1>5. AllTypeOK'
  BY <1>1, <1>4 DEF AllInv, AllTypeOK
<1>6. Owned' = Owned
  BY <1>1 DEF Owned
<1>7. ReadingsInv'
  <2>1. reading[3] <= records.claims
    BY <1>2 DEF AllInv, AllTypeOK, RecordStates
  <2> QED
    BY <1>1, <1>2, <1>3, <1>4, <1>6, <2>1 DEF AllInv, ReadingsInv, Truthful
<1>8. ClaimCalls' = ClaimCalls
  BY <1>1, <1>4 DEF ClaimCalls
<1> QED
  BY <1>1, <1>5, <1>6, <1>7, <1>8
  DEF AllInv, OneClaimInv, FreshInv, Rows, Truthful, OneSiteEach

LEMMA ListShownKeeps == ASSUME AllInv, NEW c \in allCalls, ListShown(c) PROVE AllInv'
<1> DEFINE behind == c.got[3] # records.claims
           late == all.late \/ behind
<1>1. /\ c.kind = "list" /\ c.got # <<>> /\ allCalls' = allCalls \ {c} /\ UNCHANGED records
      /\ all' = [all EXCEPT !.tier = c.got[1], !.running = c.got[2], !.loading = FALSE, !.late = late]
  BY DEF ListShown
<1>2. c.got[1] \in [Machines -> Tiers] /\ c.got[2] \in SUBSET Machines
  BY <1>1, AllCallsByKind, ReadingsHold DEF AllInv
<1>3. ~late => ~all.late /\ Truthful(c.got[1])
  BY <1>1 DEF AllInv, ReadingsInv
<1>4. late \in BOOLEAN
  BY DEF AllInv, AllTypeOK, DialogStates
<1> HIDE DEF late
<1>5. /\ all' \in DialogStates /\ all'.tier = c.got[1] /\ all'.late = late /\ all'.lost = all.lost
      /\ all'.target = all.target /\ all'.saving = all.saving
  BY <1>1, <1>2, <1>4 DEF AllInv, AllTypeOK, DialogStates
<1>6. AllTypeOK'
  BY <1>1, <1>5 DEF AllInv, AllTypeOK
<1>7. Owned' = Owned
  BY <1>1 DEF Owned
<1>8. ReadingsInv'
  BY <1>1, <1>7 DEF AllInv, ReadingsInv, Truthful
<1>9. ClaimCalls' = ClaimCalls
  BY <1>1 DEF ClaimCalls
<1>10. OneClaimInv'
  BY <1>5, <1>9 DEF AllInv, OneClaimInv
<1>11. FreshInv'
  BY <1>3, <1>5, <1>7, <1>9 DEF AllInv, FreshInv, Truthful
<1>12. OneSiteEach'
  BY <1>1, <1>3, <1>5 DEF AllInv, OneSiteEach
<1> QED
  BY <1>6, <1>8, <1>10, <1>11, <1>12 DEF AllInv

LEMMA ListFailsKeeps == ASSUME AllInv, NEW c \in allCalls, ListFails(c) PROVE AllInv'
<1>1. /\ allCalls' = allCalls \ {c} /\ UNCHANGED records
      /\ all' = [all EXCEPT !.loading = FALSE, !.error = TRUE]
  BY DEF ListFails
<1>2. /\ all' \in DialogStates /\ all'.error /\ all'.late = all.late /\ all'.lost = all.lost
      /\ all'.target = all.target /\ all'.saving = all.saving
  BY <1>1 DEF AllInv, AllTypeOK, DialogStates
<1>3. AllTypeOK' /\ ~Rows'
  BY <1>1, <1>2 DEF AllInv, AllTypeOK, Rows
<1> QED
  BY <1>1, <1>2, <1>3, SitesAlone

-----------------------------------------------------------------------------
\* Rows and their buttons.
LEMMA PressRowKeeps ==
  ASSUME AllInv, NEW m \in Machines,
         NEW kind \in {"start", "stop", "restart", "track", "untrack", "write-manifest"},
         PressRow(m, kind)
  PROVE  AllInv'
<1> DEFINE d == Ask(kind, m, "")
<1>1. d \in AllCallKinds /\ d.kind = kind
  <2> DEFINE w == ""
  <2>1. kind \in RowKinds \union {"claim"} /\ w \in AnyDomain
    BY DEF RowKinds, AnyDomain
  <2> HIDE DEF w
  <2>2. Ask(kind, m, w) \in AllCallKinds /\ Ask(kind, m, w).kind = kind
    BY <2>1, NewAllCall
  <2> QED
    BY <2>2 DEF w
<1>2. allCalls' = allCalls \union {d} /\ UNCHANGED <<records, all>>
  BY DEF PressRow
<1> HIDE DEF d
<1>3. AllTypeOK' /\ Rows' = Rows
  BY <1>1, <1>2 DEF AllInv, AllTypeOK, Rows
<1> QED
  BY <1>1, <1>2, <1>3, SitesAlone

\* Serving a row's button changes no site.
LEMMA ServeKeeps ==
  ASSUME AllTypeOK, NEW c \in allCalls, c.kind \in RowKinds
  PROVE  /\ Serve(c) \in RecordStates /\ Serve(c).sites = records.sites
         /\ Serve(c).claims = records.claims
<1>1. c.of \in Machines /\ records \in RecordStates
  BY AllCallsByKind DEF AllTypeOK, RowKinds
<1>2. CASE c.kind = "track"
  BY <1>1, <1>2 DEF Serve, RecordStates
<1>3. CASE c.kind = "untrack"
  BY <1>1, <1>3 DEF Serve, RecordStates
<1>4. CASE c.kind = "write-manifest"
  BY <1>1, <1>4 DEF Serve, RecordStates
<1>5. CASE c.kind = "stop"
  BY <1>1, <1>5 DEF Serve, RecordStates
<1>6. CASE c.kind = "delete"
  BY <1>1, <1>6 DEF Serve
<1>7. CASE c.kind \in {"start", "restart"}
  BY <1>1, <1>7 DEF Serve, RecordStates
<1> QED
  BY <1>2, <1>3, <1>4, <1>5, <1>6, <1>7 DEF RowKinds

LEMMA RowAnsweredKeeps ==
  ASSUME AllInv, NEW c \in allCalls, NEW ok \in BOOLEAN, RowAnswered(c, ok)
  PROVE  AllInv'
<1> DEFINE dying == IF c.kind = "delete" THEN NoMachine ELSE all.dying
<1>1. /\ c.kind \notin {"list", "claim"} /\ records' = IF ok THEN Serve(c) ELSE records
      /\ allCalls' = (allCalls \ {c}) \union IF ok THEN {List} ELSE {}
      /\ all' = [all EXCEPT !.loading = ok \/ @, !.error = @ /\ ~ok, !.dying = dying]
  BY DEF RowAnswered
<1>2. dying \in AnyMachine
  BY DEF AllInv, AllTypeOK, DialogStates, AnyMachine
<1>3. c.kind \in RowKinds
  BY <1>1, AllCallsByKind DEF AllInv
<1>4. records' \in RecordStates /\ records'.sites = records.sites /\ records'.claims = records.claims
  BY <1>1, <1>3, ServeKeeps DEF AllInv, AllTypeOK
<1> HIDE DEF dying
<1>5. CASE ok
  <2>1. all' = [all EXCEPT !.loading = TRUE, !.error = FALSE, !.dying = dying]
    BY <1>1, <1>5
  <2>2. /\ all' \in DialogStates /\ ~Rows' /\ all'.late = all.late /\ all'.lost = all.lost
        /\ all'.target = all.target /\ all'.saving = all.saving
    BY <1>2, <2>1 DEF AllInv, AllTypeOK, DialogStates, Rows
  <2>3. allCalls' = (allCalls \ {c}) \union {List}
    BY <1>1, <1>5
  <2>4. AllTypeOK'
    BY <1>4, <2>2, <2>3, NewListing DEF AllInv, AllTypeOK
  <2> QED
    BY <1>4, <2>2, <2>3, <2>4, NewListing, SitesAlone
<1>6. CASE ~ok
  <2>1. all' = [all EXCEPT !.dying = dying]
    BY <1>1, <1>6 DEF AllInv, AllTypeOK, DialogStates
  <2>2. /\ all' \in DialogStates /\ all'.late = all.late /\ all'.lost = all.lost
        /\ all'.target = all.target /\ all'.saving = all.saving /\ all'.tier = all.tier
        /\ Rows' = Rows
    BY <1>2, <2>1 DEF AllInv, AllTypeOK, DialogStates, Rows
  <2>3. allCalls' = allCalls \ {c}
    BY <1>1, <1>6
  <2>4. AllTypeOK'
    BY <1>4, <2>2, <2>3 DEF AllInv, AllTypeOK
  <2> QED
    BY <1>4, <2>2, <2>3, <2>4, SitesAlone
<1> QED
  BY <1>5, <1>6

LEMMA DialogKeeps ==
  ASSUME AllInv, UNCHANGED <<records, allCalls>>, all' \in DialogStates, all'.tier = all.tier,
         all'.loading = all.loading, all'.error = all.error, all'.saving = all.saving,
         all'.late = all.late, all'.lost = all.lost,
         \/ all'.target \in {all.target, NoMachine}
         \/ Rows /\ all'.target \in Machines /\ all.tier[all'.target] = "untracked"
  PROVE  AllInv'
<1>1. AllTypeOK' /\ Rows' = Rows
  BY DEF AllInv, AllTypeOK, Rows
<1> QED
  BY <1>1, SitesAlone

LEMMA DialogClickKeeps ==
  ASSUME AllInv,
         \/ \E m \in Machines : AskDelete(m) \/ OpenClaim(m)
         \/ CancelRecordDelete \/ CancelClaim
         \/ \E d \in Domains : TypeDomain(d)
  PROVE  AllInv'
<1>1. all \in DialogStates
  BY DEF AllInv, AllTypeOK
<1>2. CASE \E m \in Machines : AskDelete(m)
  BY <1>1, <1>2, DialogKeeps DEF AskDelete, DialogStates, AnyMachine
<1>3. CASE \E m \in Machines : OpenClaim(m)
  BY <1>1, <1>3, DialogKeeps DEF OpenClaim, DialogStates, AnyMachine, AnyDomain
<1>4. CASE CancelRecordDelete
  BY <1>1, <1>4, DialogKeeps DEF CancelRecordDelete, DialogStates, AnyMachine
<1>5. CASE CancelClaim
  BY <1>1, <1>5, DialogKeeps DEF CancelClaim, DialogStates, AnyMachine
<1>6. CASE \E d \in Domains : TypeDomain(d)
  BY <1>1, <1>6, DialogKeeps DEF TypeDomain, DialogStates, AnyDomain
<1> QED
  BY <1>2, <1>3, <1>4, <1>5, <1>6

LEMMA ConfirmDeleteKeeps == ASSUME AllInv, ConfirmDelete PROVE AllInv'
<1> DEFINE d == Ask("delete", all.dying, "")
<1>1. d \in AllCallKinds /\ d.kind = "delete"
  <2>1. all.dying \in Machines
    BY DEF ConfirmDelete, AllInv, AllTypeOK, DialogStates, AnyMachine
  <2> DEFINE w == ""
             kind == "delete"
  <2>2. kind \in RowKinds \union {"claim"} /\ w \in AnyDomain
    BY DEF RowKinds, AnyDomain
  <2> HIDE DEF w, kind
  <2>3. Ask(kind, all.dying, w) \in AllCallKinds /\ Ask(kind, all.dying, w).kind = kind
    BY <2>1, <2>2, NewAllCall
  <2> QED
    BY <2>3 DEF w, kind
<1>2. allCalls' = allCalls \union {d} /\ UNCHANGED <<records, all>>
  BY DEF ConfirmDelete
<1> HIDE DEF d
<1>3. AllTypeOK' /\ Rows' = Rows
  BY <1>1, <1>2 DEF AllInv, AllTypeOK, Rows
<1> QED
  BY <1>1, <1>2, <1>3, SitesAlone

-----------------------------------------------------------------------------
\* Claims.
LEMMA SubmitClaimKeeps == ASSUME AllInv, SubmitClaim PROVE AllInv'
<1> DEFINE d == Ask("claim", all.target, all.domain)
<1>1. d \in AllCallKinds /\ d.kind = "claim" /\ d.of = all.target
  <2>1. all.target \in Machines /\ all.domain \in AnyDomain
    BY DEF SubmitClaim, AllInv, AllTypeOK, DialogStates, AnyMachine
  <2> QED
    BY <2>1, NewAllCall
<1>2. /\ all.target # NoMachine /\ ~all.saving /\ allCalls' = allCalls \union {d}
      /\ all' = [all EXCEPT !.saving = TRUE] /\ UNCHANGED records
  BY DEF SubmitClaim
<1> HIDE DEF d
<1>3. /\ all' \in DialogStates /\ all'.saving /\ all'.tier = all.tier /\ all'.target = all.target
      /\ all'.late = all.late /\ all'.lost = all.lost /\ Rows' = Rows
  BY <1>2 DEF AllInv, AllTypeOK, DialogStates, Rows
<1>4. AllTypeOK' /\ Owned' = Owned
  BY <1>1, <1>2, <1>3 DEF AllInv, AllTypeOK, Owned
<1>5. ReadingsInv'
  BY <1>1, <1>2, <1>4 DEF AllInv, ReadingsInv, Truthful
<1>6. ClaimCalls = {} /\ ClaimCalls' = {d}
  BY <1>1, <1>2 DEF AllInv, OneClaimInv, ClaimCalls
<1>7. OneClaimInv'
  BY <1>3, <1>6 DEF OneClaimInv
<1>8. FreshInv'
  BY <1>1, <1>2, <1>3, <1>4, <1>6 DEF AllInv, FreshInv, Truthful
<1> QED
  BY <1>2, <1>3, <1>4, <1>5, <1>7, <1>8 DEF AllInv, OneSiteEach

\* A claim carried out gives its container a site and outdates every reading.
LEMMA ClaimedOutdates ==
  ASSUME AllInv, NEW c \in allCalls, c.kind = "claim", records' = Claimed(c)
  PROVE  /\ records' \in RecordStates /\ records'.sites = records.sites \union {<<c.what, c.of>>}
         /\ \A d \in allCalls : d.kind = "list" /\ d.got # <<>> =>
                d.got[3] <= records'.claims /\ d.got[3] # records'.claims
<1>1. c.of \in Machines /\ c.what \in AnyDomain /\ records \in RecordStates
  BY AllCallsByKind DEF AllInv, AllTypeOK
<1>2. /\ records' \in RecordStates /\ records'.sites = records.sites \union {<<c.what, c.of>>}
      /\ records'.claims = records.claims + 1
  <2> DEFINE sites == records.sites \union {<<c.what, c.of>>}
  <2>1. sites \in SiteSets
    BY <1>1 DEF RecordStates, SiteSets
  <2> DEFINE claims   == records.claims + 1
             tracked  == records.tracked \union {c.of}
             manifest == records.manifest \union {c.of}
  <2>2. claims \in Nat /\ tracked \in SUBSET Machines /\ manifest \in SUBSET Machines
    BY <1>1 DEF RecordStates
  <2>3. records' = [records EXCEPT !.sites = sites, !.tracked = tracked, !.manifest = manifest,
                                   !.claims = claims]
    BY DEF Claimed
  <2> HIDE DEF sites, claims, tracked, manifest
  <2>4. records' \in RecordStates /\ records'.sites = sites /\ records'.claims = claims
    BY <1>1, <2>1, <2>2, <2>3 DEF RecordStates
  <2> QED
    BY <2>4 DEF sites, claims
<1>3. \A d \in allCalls : d.kind = "list" /\ d.got # <<>> => d.got[3] \in Nat
  BY AllCallsByKind, ReadingsHold DEF AllInv
<1>4. records.claims \in Nat
  BY <1>1 DEF RecordStates
<1> QED
  BY <1>2, <1>3, <1>4 DEF AllInv, ReadingsInv

LEMMA ClaimDoneKeeps ==
  ASSUME AllInv, NEW c \in allCalls, c.kind = "claim", records' = Claimed(c),
         all' \in DialogStates, ~all'.saving, all'.late = all.late,
         \/ ~Rows' /\ all'.target = NoMachine /\ all'.lost = all.lost
         \/ all'.lost,
         \A d \in allCalls' : (d \in allCalls /\ d # c) \/ d = List
  PROVE  AllInv'
<1>1. /\ records' \in RecordStates /\ records'.sites = records.sites \union {<<c.what, c.of>>}
      /\ \A d \in allCalls : d.kind = "list" /\ d.got # <<>> =>
             d.got[3] <= records'.claims /\ d.got[3] # records'.claims
  BY ClaimedOutdates
<1>2. AllTypeOK'
  BY <1>1, NewListing DEF AllInv, AllTypeOK
<1>3. ReadingsInv'
  BY <1>1, NewListing DEF ReadingsInv
<1>4. ClaimCalls' = {}
  BY NewListing DEF AllInv, OneClaimInv, ClaimCalls
<1>5. OneClaimInv' /\ FreshInv'
  BY <1>4 DEF OneClaimInv, FreshInv
<1>6. OneSiteEach'
  <2> SUFFICES ASSUME ~all'.late, ~all'.lost,
                      NEW s \in records'.sites, NEW t \in records'.sites, s[2] = t[2]
               PROVE  s = t
    BY DEF OneSiteEach
  <2>1. c.of \notin Owned /\ \A x, y \in records.sites : x[2] = y[2] => x = y
    BY DEF AllInv, FreshInv, ClaimCalls, OneSiteEach
  <2>2. \A x \in records.sites : x[2] # c.of
    BY <2>1 DEF Owned
  <2> QED
    BY <1>1, <2>1, <2>2
<1> QED
  BY <1>2, <1>3, <1>5, <1>6 DEF AllInv

LEMMA ClaimAnsweredKeeps == ASSUME AllInv, NEW c \in allCalls, ClaimAnswered(c) PROVE AllInv'
<1>1. /\ c.kind = "claim" /\ records' = Claimed(c) /\ allCalls' = (allCalls \ {c}) \union {List}
      /\ all' = [all EXCEPT !.saving = FALSE, !.target = NoMachine, !.loading = TRUE, !.error = FALSE]
  BY DEF ClaimAnswered
<1>2. /\ all' \in DialogStates /\ ~all'.saving /\ all'.late = all.late /\ all'.lost = all.lost
      /\ all'.target = NoMachine /\ ~Rows'
  BY <1>1 DEF AllInv, AllTypeOK, DialogStates, AnyMachine, Rows
<1> QED
  BY <1>1, <1>2, ClaimDoneKeeps

LEMMA ClaimFailsKeeps ==
  ASSUME AllInv, NEW c \in allCalls, NEW done \in BOOLEAN, ClaimFails(c, done)
  PROVE  AllInv'
<1>1. /\ c.kind = "claim" /\ records' = (IF done THEN Claimed(c) ELSE records)
      /\ allCalls' = allCalls \ {c} /\ all' = [all EXCEPT !.saving = FALSE, !.lost = @ \/ done]
  BY DEF ClaimFails
<1>2. CASE done
  <2>1. all' = [all EXCEPT !.saving = FALSE, !.lost = TRUE]
    BY <1>1, <1>2
  <2>2. all' \in DialogStates /\ ~all'.saving /\ all'.late = all.late /\ all'.lost
    BY <2>1 DEF AllInv, AllTypeOK, DialogStates
  <2> QED
    BY <1>1, <1>2, <2>2, ClaimDoneKeeps
<1>3. CASE ~done
  <2>1. all' = [all EXCEPT !.saving = FALSE]
    BY <1>1, <1>3 DEF AllInv, AllTypeOK, DialogStates
  <2>2. /\ all' \in DialogStates /\ all'.tier = all.tier /\ all'.target = all.target
        /\ all'.late = all.late /\ all'.lost = all.lost /\ Rows' = Rows
    BY <2>1 DEF AllInv, AllTypeOK, DialogStates, Rows
  <2>3. AllTypeOK' /\ Owned' = Owned /\ UNCHANGED records
    BY <1>1, <1>3, <2>2 DEF AllInv, AllTypeOK, Owned
  <2>4. ReadingsInv'
    BY <1>1, <2>3 DEF AllInv, ReadingsInv, Truthful
  <2>5. ClaimCalls' = {}
    BY <1>1 DEF AllInv, OneClaimInv, ClaimCalls
  <2>6. OneClaimInv' /\ FreshInv'
    BY <2>2, <2>3, <2>5 DEF AllInv, OneClaimInv, FreshInv, Truthful
  <2> QED
    BY <2>2, <2>3, <2>4, <2>6 DEF AllInv, OneSiteEach
<1> QED
  BY <1>2, <1>3

\* Every step keeps the invariant.
LEMMA AllStep == AllInv /\ [AllNext]_allVars => AllInv'
<1> SUFFICES ASSUME AllInv, [AllNext]_allVars PROVE AllInv'
  OBVIOUS
<1>1. ASSUME NEW m \in Machines,
             NEW kind \in {"start", "stop", "restart", "track", "untrack", "write-manifest"},
             PressRow(m, kind)
      PROVE  AllInv'
  BY <1>1, PressRowKeeps
<1>2. CASE \/ \E m \in Machines : AskDelete(m) \/ OpenClaim(m)
           \/ CancelRecordDelete \/ CancelClaim \/ \E d \in Domains : TypeDomain(d)
  BY <1>2, DialogClickKeeps
<1>3. CASE ConfirmDelete \/ SubmitClaim
  BY <1>3, ConfirmDeleteKeeps, SubmitClaimKeeps
<1>4. ASSUME NEW c \in allCalls,
             \/ ListRead(c) \/ ListShown(c) \/ ListFails(c) \/ ClaimAnswered(c)
             \/ \E b \in BOOLEAN : RowAnswered(c, b) \/ ClaimFails(c, b)
      PROVE  AllInv'
  BY <1>4, ListReadKeeps, ListShownKeeps, ListFailsKeeps, ClaimAnsweredKeeps, RowAnsweredKeeps,
     ClaimFailsKeeps
<1>5. CASE UNCHANGED allVars
  BY <1>5 DEF allVars, AllInv, AllTypeOK, ReadingsInv, OneClaimInv, ClaimCalls, FreshInv, Rows, Owned,
     Truthful, OneSiteEach
<1> QED
  BY <1>1, <1>2, <1>3, <1>4, <1>5 DEF AllNext

\* While no late listing was shown and no answer lost, neither the rows nor the
\* form nor the claim under way takes a container with a site for one without
\* (AllContainersModal.tsx; handlers/containers.go).
THEOREM NoSiteIsClaimed == AllSpec => []AllInv
  BY AllInitially, AllStep, PTL DEF AllSpec

\* Claiming gives a container one site, unless a listing from before a claim was
\* shown after it or the answer to a claim was lost, for any number of
\* containers, domains and calls (AllContainersModal.tsx).
THEOREM OneSiteEachAlways == AllSpec => []OneSiteEach
<1>1. AllInv => OneSiteEach
  BY DEF AllInv
<1> QED
  BY <1>1, NoSiteIsClaimed, PTL

-----------------------------------------------------------------------------
(* The pages beside each other: what one page does is no step of another.    *)

\* The composition gives each page the behaviours of its own specification, so
\* what is proved of a page holds of the dashboard that opens one of them.
THEOREM EachPageRunsByItself ==
  ActionSpec => /\ UsersSpec /\ ServerSpec /\ AllSpec /\ FilesSpec /\ DbSpec
                /\ BackupsSpec /\ RestoreTabSpec /\ FormSpec
  <1>1. ActionInit => /\ UsersInit /\ ServerInit /\ AllInit /\ FilesInit /\ DbInit
                      /\ BackupsInit /\ RestoreInit /\ FormInit
    BY DEF ActionInit
  <1>2. [ActionNext]_actionVars =>
          /\ [UsersNext]_userVars /\ [ServerNext]_serverVars /\ [AllNext]_allVars
          /\ [FilesNext]_fileVars /\ [DbNext]_dbVars /\ [BackupsNext]_backupVars
          /\ [RestoreTabNext]_restoreVars /\ [FormNext]_formVars
    BY DEF ActionNext, actionVars
  <1> QED
    BY <1>1, <1>2, PTL DEF ActionSpec, UsersSpec, ServerSpec, AllSpec, FilesSpec, DbSpec,
       BackupsSpec, RestoreTabSpec, FormSpec
==============================================================================
