---------------------------- MODULE AllContainers ----------------------------
(***************************************************************************)
(* The list of all Docker containers (components/AllContainersModal.tsx)   *)
(* over the agent's site and tracking records (ListAllContainers,          *)
(* TrackContainer, ClaimContainer, write-manifest).  A claim makes a new   *)
(* site record whatever the container has, so only the list keeps a        *)
(* container from being claimed twice, and several listings may be on      *)
(* their way at once.  Finding and taking over sites on disk is left out.  *)
(***************************************************************************)
EXTENDS Naturals, FiniteSets

CONSTANTS Machines, Domains, MaxListings, NoMachine

AllContainersAssumption == NoMachine \notin Machines /\ MaxListings \in Nat

VARIABLES records,    \* the agent: sites, tracking, manifests, what runs
          all,        \* the dialog
          allCalls    \* the calls not answered

allVars == <<records, all, allCalls>>

Unlisted == "unlisted"

(***************************************************************************)
(* records.sites is a set of <<domain, container>>: the domain is unique,  *)
(* the container is not.  A listing is read and then shown, in any order.  *)
(* History: "late", a listing read before a claim was shown after it;      *)
(* "lost", the answer to a claim that was carried out did not arrive.      *)
(***************************************************************************)
AllInit ==
    /\ records \in [sites : {{}}, tracked : SUBSET Machines, manifest : {{}}, running : {{}}, claims : {0}]
    /\ all = [tier |-> [m \in Machines |-> Unlisted], running |-> {}, loading |-> TRUE, error |-> FALSE,
              target |-> NoMachine, domain |-> "", saving |-> FALSE, dying |-> NoMachine,
              late |-> FALSE, lost |-> FALSE]
    /\ allCalls = {[kind |-> "list", of |-> NoMachine, what |-> "", got |-> <<>>]}

List            == [kind |-> "list", of |-> NoMachine, what |-> "", got |-> <<>>]
Ask(kind, m, w) == [kind |-> kind, of |-> m, what |-> w, got |-> <<>>]
AllRoom         == Cardinality(allCalls) < MaxListings
Owned           == {s[2] : s \in records.sites}

TrackingTier(m) ==
    IF m \in Owned THEN (IF m \in records.manifest THEN "managed" ELSE "no-manifest")
    ELSE IF m \in records.tracked THEN "tracked" ELSE "untracked"

(***************************************************************************)
(* Listing.  The rows are shown only while no listing is asked for and the *)
(* last one did not fail; the claim form always is.                        *)
(***************************************************************************)
ListRead(c) ==
    /\ c.kind = "list" /\ c.got = <<>>
    /\ allCalls' = (allCalls \ {c}) \union
           {[c EXCEPT !.got = <<[m \in Machines |-> TrackingTier(m)], records.running, records.claims>>]}
    /\ UNCHANGED <<records, all>>

ListShown(c) ==
    /\ c.kind = "list" /\ c.got # <<>>
    /\ all' = [all EXCEPT !.tier = c.got[1], !.running = c.got[2], !.loading = FALSE,
                          !.late = @ \/ c.got[3] # records.claims]
    /\ allCalls' = allCalls \ {c}
    /\ UNCHANGED records

ListFails(c) ==
    /\ c.kind = "list"
    /\ all' = [all EXCEPT !.loading = FALSE, !.error = TRUE]
    /\ allCalls' = allCalls \ {c}
    /\ UNCHANGED records

Rows       == ~all.loading /\ ~all.error
Offers(m)  == (IF m \in all.running THEN {"restart", "stop"} ELSE {"start"}) \union
              (CASE all.tier[m] = "no-manifest" -> {"write-manifest"}
                 [] all.tier[m] = "untracked"   -> {"track"}
                 [] all.tier[m] = "tracked"     -> {"untrack"}
                 [] OTHER                       -> {})

\* The buttons of a row do not wait for each other.
PressRow(m, kind) ==
    /\ Rows /\ all.dying = NoMachine /\ all.tier[m] # Unlisted /\ kind \in Offers(m) /\ AllRoom
    /\ allCalls' = allCalls \union {Ask(kind, m, "")}
    /\ UNCHANGED <<records, all>>

Serve(c) ==
    CASE c.kind = "track"          -> [records EXCEPT !.tracked = @ \union {c.of}]
      [] c.kind = "untrack"        -> [records EXCEPT !.tracked = @ \ {c.of}]
      [] c.kind = "write-manifest" -> [records EXCEPT !.manifest = @ \union {c.of}]
      [] c.kind = "stop"           -> [records EXCEPT !.running = @ \ {c.of}]
      [] c.kind = "delete"         -> records  \* the agent takes only DELETE here
      [] OTHER                     -> [records EXCEPT !.running = @ \union {c.of}]

RowAnswered(c, ok) ==
    /\ c.kind \notin {"list", "claim"} /\ (ok => c.kind # "delete")
    /\ records' = IF ok THEN Serve(c) ELSE records
    /\ allCalls' = (allCalls \ {c}) \union IF ok THEN {List} ELSE {}
    /\ all' = [all EXCEPT !.loading = ok \/ @, !.error = @ /\ ~ok,
                          !.dying = IF c.kind = "delete" THEN NoMachine ELSE @]

\* "Delete" asks first; the question can be confirmed again while it waits.
AskDelete(m) ==
    /\ Rows /\ all.dying = NoMachine /\ all.tier[m] # Unlisted
    /\ all' = [all EXCEPT !.dying = m]
    /\ UNCHANGED <<records, allCalls>>

ConfirmDelete ==
    /\ all.dying # NoMachine /\ AllRoom
    /\ allCalls' = allCalls \union {Ask("delete", all.dying, "")}
    /\ UNCHANGED <<records, all>>

CancelRecordDelete ==
    /\ all.dying # NoMachine
    /\ all' = [all EXCEPT !.dying = NoMachine]
    /\ UNCHANGED <<records, allCalls>>

(***************************************************************************)
(* Claiming.  The form can be cancelled while its claim is out and opened  *)
(* for another container; an answer closes whichever form is open.         *)
(***************************************************************************)
OpenClaim(m) ==
    /\ Rows /\ all.dying = NoMachine /\ all.tier[m] = "untracked"
    /\ all' = [all EXCEPT !.target = m, !.domain = ""]
    /\ UNCHANGED <<records, allCalls>>

TypeDomain(d) ==
    /\ all.target # NoMachine /\ all.dying = NoMachine /\ d # all.domain
    /\ all' = [all EXCEPT !.domain = d]
    /\ UNCHANGED <<records, allCalls>>

CancelClaim ==
    /\ all.target # NoMachine /\ all.dying = NoMachine
    /\ all' = [all EXCEPT !.target = NoMachine]
    /\ UNCHANGED <<records, allCalls>>

\* Mutant: the button does not wait for the answer.
ClaimAgain ==
    /\ all.target # NoMachine /\ all.dying = NoMachine /\ all.domain # "" /\ AllRoom
    /\ all' = [all EXCEPT !.saving = TRUE]
    /\ allCalls' = allCalls \union {Ask("claim", all.target, all.domain)}
    /\ UNCHANGED records

SubmitClaim ==
    /\ all.target # NoMachine /\ all.dying = NoMachine /\ all.domain # "" /\ ~all.saving /\ AllRoom
    /\ all' = [all EXCEPT !.saving = TRUE]
    /\ allCalls' = allCalls \union {Ask("claim", all.target, all.domain)}
    /\ UNCHANGED records

Claimable(c) == c.what \notin {s[1] : s \in records.sites}
Claimed(c)   == [records EXCEPT !.sites = @ \union {<<c.what, c.of>>}, !.tracked = @ \union {c.of},
                                !.manifest = @ \union {c.of}, !.claims = @ + 1]

ClaimAnswered(c) ==
    /\ c.kind = "claim" /\ Claimable(c)
    /\ records' = Claimed(c)
    /\ all' = [all EXCEPT !.saving = FALSE, !.target = NoMachine, !.loading = TRUE, !.error = FALSE]
    /\ allCalls' = (allCalls \ {c}) \union {List}

ClaimFails(c, done) ==
    /\ c.kind = "claim" /\ (done => Claimable(c))
    /\ records' = IF done THEN Claimed(c) ELSE records
    /\ all' = [all EXCEPT !.saving = FALSE, !.lost = @ \/ done]
    /\ allCalls' = allCalls \ {c}

-----------------------------------------------------------------------------
AllNext == \/ \E m \in Machines : \/ AskDelete(m) \/ OpenClaim(m)
                                  \/ \E kind \in {"start", "stop", "restart", "track", "untrack",
                                                  "write-manifest"} : PressRow(m, kind)
           \/ ConfirmDelete \/ CancelRecordDelete \/ CancelClaim \/ SubmitClaim
           \/ \E d \in Domains : TypeDomain(d)
           \/ \E c \in allCalls : \/ ListRead(c) \/ ListShown(c) \/ ListFails(c) \/ ClaimAnswered(c)
                                  \/ \E b \in BOOLEAN : RowAnswered(c, b) \/ ClaimFails(c, b)

AllSpec == AllInit /\ [][AllNext]_allVars

(***************************************************************************)
(* Properties                                                              *)
(***************************************************************************)
\* Claiming gives a container one site, however forms are cancelled and
\* reopened and rows pressed, unless a listing from before a claim was
\* shown after it or the answer to a claim was lost.
OneSiteEach ==
    ~all.late /\ ~all.lost => \A s, t \in records.sites : s[2] = t[2] => s = t

=============================================================================
