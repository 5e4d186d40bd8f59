------------------------------ MODULE LivePages ------------------------------
(***************************************************************************)
(* The pages of the dashboard that keep themselves up to date: the         *)
(* databases, the containers, one container's details, the update card and *)
(* the certificates.  The dashboard shows one page at a time and builds it *)
(* anew when it is opened, so a behaviour is the life of one page, chosen  *)
(* at the start; the others stay as they would begin.                      *)
(***************************************************************************)
EXTENDS Naturals

CONSTANTS Databases, Tabular, MaxListCalls, NoDatabase,
          DockerOrder, Kind, Folders, Default, MaxContainerCalls, NoContainer,
          LogLines, DefaultLines, MaxDetailCalls,
          MaxUpdateCalls,
          CertDomains, MaxCertCalls, NoCert

VARIABLES screen,
          databases, list, listCalls,
          docker, cards, containerCalls,
          detail, detailCalls,
          job, card, updateCalls,
          certs, listing, certCalls

DB == INSTANCE DatabasesPage
CP == INSTANCE ContainersPage
CD == INSTANCE ContainerDetails
UC == INSTANCE UpdateCard
CE == INSTANCE Certificates

ASSUME LivePagesAssumption ==
    /\ DB!DatabasesPageAssumption /\ CP!ContainersPageAssumption /\ CD!ContainerDetailsAssumption
    /\ UC!UpdateAssumption /\ CE!CertificatesAssumption

databasesVars    == <<databases, list, listCalls>>
containersVars   == <<docker, cards, containerCalls>>
containerVars    == <<detail, detailCalls>>
updateVars       == <<job, card, updateCalls>>
certificatesVars == <<certs, listing, certCalls>>
liveVars == <<screen, databasesVars, containersVars, containerVars, updateVars, certificatesVars>>

LiveInit ==
    /\ screen \in {"databases", "containers", "container", "update", "certificates"}
    /\ DB!ListInit       /\ (screen # "databases" => databases = {})
    /\ CP!ContainersInit
    /\ CD!DetailsInit    /\ (screen # "container" => detail.view = "page")
    /\ UC!UpdateInit     /\ (screen # "update" => job.state = "idle")
    /\ CE!CertInit       /\ (screen # "certificates" => certs = [held |-> {}, readable |-> TRUE])

OnDatabases(A)    == screen = "databases" /\ A
                     /\ UNCHANGED <<screen, containersVars, containerVars, updateVars, certificatesVars>>
OnContainers(A)   == screen = "containers" /\ A
                     /\ UNCHANGED <<screen, databasesVars, containerVars, updateVars, certificatesVars>>
OnContainer(A)    == screen = "container" /\ A
                     /\ UNCHANGED <<screen, databasesVars, containersVars, updateVars, certificatesVars>>
OnUpdate(A)       == screen = "update" /\ A
                     /\ UNCHANGED <<screen, databasesVars, containersVars, containerVars, certificatesVars>>
OnCertificates(A) == screen = "certificates" /\ A
                     /\ UNCHANGED <<screen, databasesVars, containersVars, containerVars, updateVars>>

LiveNext == \/ OnDatabases(DB!ListNext)
            \/ OnContainers(CP!ContainersNext)
            \/ OnContainer(CD!DetailsNext)
            \/ OnUpdate(UC!UpdateNext)
            \/ OnCertificates(CE!CertNext)

(***************************************************************************)
(* Fairness: what each page's own specification assumes.  The page never   *)
(* changes, so one condition may speak for several pages.                  *)
(***************************************************************************)
Polls    == \/ OnDatabases(DB!PollDatabases) \/ OnContainers(CP!FetchData)
            \/ OnContainer(CD!PollLogs) \/ OnUpdate(UC!Poll) \/ OnCertificates(CE!CertPolls)
Serves   == \/ OnDatabases(DB!ServesAListing) \/ OnContainers(CP!ServesTheCards)
            \/ OnContainer(CD!AnswersThePoll) \/ OnUpdate(UC!UpdateServes)
            \/ OnCertificates(CE!ServesStatus)
Delivers == \/ OnDatabases(DB!DeliversAListing) \/ OnContainers(CP!DeliversTheCards)
            \/ OnContainer(CD!AnswersTheLoad) \/ OnUpdate(UC!UpdateDelivers)
            \/ OnCertificates(CE!DeliversStatus)

LiveFairness == /\ WF_liveVars(Polls) /\ SF_liveVars(Serves) /\ WF_liveVars(Delivers)
                /\ WF_liveVars(OnUpdate(UC!AgentStarts)) /\ WF_liveVars(OnUpdate(UC!UpdateSettles))

LiveSpec == LiveInit /\ [][LiveNext]_liveVars /\ LiveFairness

(***************************************************************************)
(* Properties                                                              *)
(***************************************************************************)
\* When the agent's databases stop changing, the databases page ends by
\* showing exactly them, whatever old answers were still on their way
\* (databases/page.tsx: fetchDatabases and its timer).
ListCatchesUp == screen = "databases" => DB!ListCatchesUp

\* When the containers stop changing and no card is dragged, the containers
\* page ends by showing what the agent has, also after a drop that failed
\* unnoticed, unless an error took the page's place.
CardsCatchUp == screen = "containers" => CP!CardsCatchUp

\* The number of log lines chosen is the number drawn in the end, though
\* choosing it asks for the old number (ContainerDetailsModal, ContainerPage),
\* unless an inspection failed, which takes their place for good.
LogsFollowTheChoice == screen = "container" => CD!LogsFollowTheChoice

\* When the update the card started has ended, the card comes to show how,
\* through the agent's restart, unless it took an answer from before the
\* update for one about it.
OutcomeIsShown == screen = "update" => UC!OutcomeIsShown

\* When the certificates stay as they are and the agent can read them, their
\* list comes to show exactly them; a read that fails is answered like an empty
\* list (ssl.go:230-234).
ListShowsTheCertificates == screen = "certificates" => CE!ListShowsTheCertificates

=============================================================================
