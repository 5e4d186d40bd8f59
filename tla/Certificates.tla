---------------------------- MODULE Certificates ----------------------------
(***************************************************************************)
(* The list of certificates (components/SslStatus.tsx) over the agent's    *)
(* certbot calls (handlers/ssl.go).  One name says which certificate is    *)
(* busy, though orders for several may be out at once; the list is         *)
(* fetched again after each success and every five minutes.  The agent     *)
(* serves a call at some point between its sending and its answer, and     *)
(* answers may overtake each other.  A certificate has one name here.      *)
(***************************************************************************)
EXTENDS Naturals, FiniteSets

CONSTANTS CertDomains, MaxCertCalls, NoCert

CertificatesAssumption == NoCert \notin CertDomains /\ MaxCertCalls \in Nat

VARIABLES certs,    \* the domains that have one, and whether the agent can list them
          listing,  \* the page
          certCalls \* the calls not answered

certVars == <<certs, listing, certCalls>>

(***************************************************************************)
(* A call is "sent", then served "ok"; one that fails does so as it is     *)
(* answered.  A served listing holds the certificates and the sites it     *)
(* tells of.                                                               *)
(***************************************************************************)
Sent(kind, d, form) == [kind |-> kind, domain |-> d, form |-> form,
                        at |-> "sent", certs |-> {}, sites |-> {}]
Status   == Sent("status", NoCert, FALSE)
Listings == {c \in certCalls : c.kind = "status"}
Room     == Cardinality(certCalls) < MaxCertCalls

CertInit ==
    /\ certs \in [held : SUBSET CertDomains, readable : BOOLEAN]
    /\ listing = [shown |-> {}, sites |-> {}, loaded |-> FALSE, refreshing |-> TRUE,
                  busy |-> NoCert, issuing |-> FALSE]
    /\ certCalls = {Status}

(***************************************************************************)
(* The agent.  A listing of certificates that fails is answered like an    *)
(* empty one, and so is the store's listing of sites.                      *)
(***************************************************************************)
ServeStatus(c) ==
    /\ c \in Listings /\ c.at = "sent"
    /\ \E sites \in {CertDomains, {}} :
         certCalls' = (certCalls \ {c}) \union
             {[c EXCEPT !.at = "ok", !.sites = sites,
                        !.certs = IF certs.readable THEN certs.held ELSE {}]}
    /\ UNCHANGED <<certs, listing>>

ServeOrder(c) ==
    /\ c \notin Listings /\ c.at = "sent"
    /\ certs' = [certs EXCEPT !.held = IF c.kind = "delete" THEN @ \ {c.domain} ELSE @ \union {c.domain}]
    /\ certCalls' = (certCalls \ {c}) \union {[c EXCEPT !.at = "ok"]}
    /\ UNCHANGED listing

\* Another administrator, or an order whose answer nobody waited for.
ChangedElsewhere(d) ==
    /\ certs' = [certs EXCEPT !.held = IF d \in @ THEN @ \ {d} ELSE @ \union {d}]
    /\ UNCHANGED <<listing, certCalls>>

\* Neither the folder of certificates nor the root helper answers, or one does again.
ReadableChanges ==
    /\ certs' = [certs EXCEPT !.readable = ~@]
    /\ UNCHANGED <<listing, certCalls>>

(***************************************************************************)
(* The listing                                                             *)
(***************************************************************************)
\* By the clock, or with the button while no fetch is on its way.
FetchStatus(byTimer) ==
    /\ byTimer \/ (~listing.refreshing /\ ~listing.issuing)
    /\ Cardinality(Listings) < MaxCertCalls /\ Status \notin certCalls
    /\ listing' = [listing EXCEPT !.refreshing = TRUE]
    /\ certCalls' = certCalls \union {Status}
    /\ UNCHANGED certs

\* Mutant: only the first answer is shown.
FirstArrived(c, ok) ==
    /\ c \in Listings /\ (ok => c.at = "ok")
    /\ LET ended == [listing EXCEPT !.refreshing = FALSE, !.loaded = TRUE]
       IN listing' = IF ok /\ ~listing.loaded THEN [ended EXCEPT !.shown = c.certs, !.sites = c.sites] ELSE ended
    /\ certCalls' = certCalls \ {c}
    /\ UNCHANGED certs

\* A failing fetch leaves the list as it was.
StatusArrived(c, ok) ==
    /\ c \in Listings /\ c.at = IF ok THEN "ok" ELSE "sent"
    /\ LET ended == [listing EXCEPT !.refreshing = FALSE, !.loaded = TRUE]
       IN listing' = IF ok THEN [ended EXCEPT !.shown = c.certs, !.sites = c.sites] ELSE ended
    /\ certCalls' = certCalls \ {c}
    /\ UNCHANGED certs

(***************************************************************************)
(* Orders                                                                  *)
(***************************************************************************)
Order(kind, d, form) ==
    /\ listing' = [listing EXCEPT !.busy = d]
    /\ certCalls' = certCalls \union {Sent(kind, d, form)}
    /\ UNCHANGED certs

\* A row: renew and delete with a certificate, issue for a site without one.
PressRow(kind, d) ==
    /\ listing.loaded /\ ~listing.issuing /\ listing.busy # d /\ Room
    /\ \/ kind \in {"renew", "delete"} /\ d \in listing.shown
       \/ kind = "issue" /\ d \in listing.sites \ listing.shown
    /\ Order(kind, d, FALSE)

OpenIssueForm ==
    /\ ~listing.issuing
    /\ listing' = [listing EXCEPT !.issuing = TRUE]
    /\ UNCHANGED <<certs, certCalls>>

\* A click beside the form closes it at any time.
CloseIssueForm ==
    /\ listing.issuing
    /\ listing' = [listing EXCEPT !.issuing = FALSE]
    /\ UNCHANGED <<certs, certCalls>>

SubmitIssueForm(d) ==
    /\ listing.issuing /\ listing.busy = NoCert /\ Room
    /\ Order("issue", d, TRUE)

\* The answer frees whatever name is busy; the form closes, also when the
\* order failed, and also one opened since.  A good answer may be lost on its way.
OrderAnswered(c, ok) ==
    /\ c \in certCalls \ Listings /\ (ok => c.at = "ok")
    /\ listing' = [listing EXCEPT !.busy = NoCert, !.issuing = @ /\ ~c.form, !.refreshing = @ \/ ok]
    /\ certCalls' = (certCalls \ {c}) \union IF ok THEN {Status} ELSE {}
    /\ UNCHANGED certs

-----------------------------------------------------------------------------
CertNext == \/ \E byTimer \in BOOLEAN : FetchStatus(byTimer)
            \/ OpenIssueForm \/ CloseIssueForm \/ ReadableChanges
            \/ \E d \in CertDomains : \/ SubmitIssueForm(d) \/ ChangedElsewhere(d)
                                      \/ \E kind \in {"issue", "renew", "delete"} : PressRow(kind, d)
            \/ \E c \in certCalls : \/ ServeStatus(c) \/ ServeOrder(c)
                                  \/ \E ok \in BOOLEAN : StatusArrived(c, ok) \/ OrderAnswered(c, ok)

(***************************************************************************)
(* What is fair: the timer fires, the agent serves a listing again and     *)
(* again, and what it answers arrives.  No click is fair.                  *)
(***************************************************************************)
CertPolls      == FetchStatus(TRUE)
ServesStatus   == \E c \in certCalls : ServeStatus(c)
DeliversStatus == \E c \in certCalls : StatusArrived(c, TRUE)

CertFairness == WF_certVars(CertPolls) /\ SF_certVars(ServesStatus) /\ WF_certVars(DeliversStatus)
CertSpec     == CertInit /\ [][CertNext]_certVars /\ CertFairness

(***************************************************************************)
(* Properties                                                              *)
(***************************************************************************)
\* When the certificates stay as they are and the agent can read them, the
\* list comes to show exactly them, whatever old answers were on their way.
\* An agent that cannot read them answers 200 and none (ssl.go:230-234), so
\* without the second condition the list may be empty for good.
ListShowsTheCertificates ==
    <>[][UNCHANGED certs]_certs /\ <>[]certs.readable => <>[](listing.shown = certs.held)

=============================================================================
