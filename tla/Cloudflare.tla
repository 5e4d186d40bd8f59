------------------------------ MODULE Cloudflare ------------------------------
(***************************************************************************)
(* The Cloudflare token form (network/CloudflareSetup.tsx) and the SSL     *)
(* controls of a zone (network/ZoneSslControls.tsx) over the agent's       *)
(* setting and the zone's mode at Cloudflare (handlers/cloudflare.go).     *)
(* The controls are mounted afresh whenever they are shown, so a change    *)
(* sent by controls now hidden is still on its way while new ones load;    *)
(* and the agent gives Cloudflare 20 seconds, after which a change is      *)
(* answered as failed whether it was, or will be, carried out or not.      *)
(* Which token is typed, what a check of it says, and the second setting   *)
(* of the controls ("always use HTTPS") are left out.                      *)
(***************************************************************************)
EXTENDS Naturals, FiniteSets

CONSTANTS Modes, MaxCfCalls, NoMode

ASSUME CloudflareAssumption == NoMode \notin Modes /\ MaxCfCalls \in Nat

VARIABLES cf,       \* the agent: has it a token, is it switched on; the zone's mode at Cloudflare
          setup,    \* the form: the agent's setting as last loaded, and which button is busy
          controls, \* the SSL controls
          cfCalls   \* the calls not answered, and the changes Cloudflare may yet carry out

cfVars == <<cf, setup, controls, cfCalls>>

(***************************************************************************)
(* controls.mount counts the times the controls were shown; an answer to   *)
(* an earlier mount changes nothing.  A call is "sent", "done" when the    *)
(* agent or Cloudflare has done its part, or "left" when the agent gave up *)
(* on it.  History: "unseen", since these controls were shown a change     *)
(* reached Cloudflare of which they are not told, or told that it failed.  *)
(***************************************************************************)
CfInit ==
    /\ cf \in {[token |-> FALSE, on |-> FALSE, mode |-> m] : m \in Modes}
    /\ setup = [token |-> FALSE, on |-> FALSE, busy |-> "none"]
    /\ controls = [mount |-> 0, open |-> FALSE, loading |-> FALSE, saving |-> FALSE,
                   mode |-> NoMode, unseen |-> FALSE]
    /\ cfCalls = {}

CfCall(kind, v)  == [kind |-> kind, value |-> v, mount |-> controls.mount, at |-> "sent"]
CfRoom           == Cardinality(cfCalls) < MaxCfCalls
Becomes(c, next) == cfCalls' = (cfCalls \ {c}) \union next

(***************************************************************************)
(* The form.  Its buttons wait while one of its calls is out.              *)
(***************************************************************************)
PressSetup(kind) ==
    /\ setup.busy = "none" /\ CfRoom
    /\ kind = "toggle" => setup.token
    /\ setup' = [setup EXCEPT !.busy = kind]
    /\ cfCalls' = cfCalls \union {CfCall(kind, IF kind = "toggle" THEN ~setup.on ELSE TRUE)}
    /\ UNCHANGED <<cf, controls>>

\* The agent asks Cloudflare about a token before it keeps it; a check keeps
\* nothing.  After a toggle the setting is read again whatever the answer.
Saved(c, ok) ==
    /\ c.kind \in {"check", "save", "toggle"}
    /\ cf' = IF ok /\ c.kind # "check" THEN [cf EXCEPT !.token = @ \/ c.kind = "save", !.on = c.value] ELSE cf
    /\ setup' = [setup EXCEPT !.busy = "none"]
    /\ Becomes(c, IF c.kind = "toggle" \/ (ok /\ c.kind = "save") THEN {CfCall("config", TRUE)} ELSE {})
    /\ UNCHANGED controls

ConfigRead(c, ok) ==
    /\ c.kind = "config"
    /\ setup' = IF ok THEN [setup EXCEPT !.token = cf.token, !.on = cf.on] ELSE setup
    /\ Becomes(c, {})
    /\ UNCHANGED <<cf, controls>>

(***************************************************************************)
(* The SSL controls.                                                       *)
(***************************************************************************)
ShowControls ==
    /\ ~controls.open /\ setup.token /\ setup.on /\ CfRoom /\ controls.mount < MaxCfCalls
    /\ controls' = [mount |-> controls.mount + 1, open |-> TRUE, loading |-> TRUE, saving |-> FALSE,
                    mode |-> NoMode, unseen |-> FALSE]
    /\ cfCalls' = cfCalls \union {[CfCall("ssl", NoMode) EXCEPT !.mount = @ + 1]}
    /\ UNCHANGED <<cf, setup>>

HideControls ==
    /\ controls.open
    /\ controls' = [controls EXCEPT !.open = FALSE]
    /\ UNCHANGED <<cf, setup, cfCalls>>

Mounted(c) == controls.open /\ c.mount = controls.mount

\* The agent asks Cloudflare for the mode; the answer arrives later.
ModeRead(c) ==
    /\ c.kind = "ssl" /\ c.at = "sent" /\ cf.on
    /\ Becomes(c, {[c EXCEPT !.at = "done", !.value = cf.mode]})
    /\ UNCHANGED <<cf, setup, controls>>

SslLoaded(c, ok) ==
    /\ c.kind = "ssl" /\ (ok => c.at = "done")
    /\ controls' = IF ~Mounted(c) THEN controls
                   ELSE [controls EXCEPT !.loading = FALSE, !.mode = IF ok THEN c.value ELSE @]
    /\ Becomes(c, {})
    /\ UNCHANGED <<cf, setup>>

\* Nothing is offered before the mode has been loaded.
ChangeMode(m) ==
    /\ controls.open /\ ~controls.loading /\ controls.mode # NoMode
    /\ ~controls.saving /\ m # controls.mode /\ CfRoom
    /\ controls' = [controls EXCEPT !.saving = TRUE]
    /\ cfCalls' = cfCalls \union {CfCall("mode", m)}
    /\ UNCHANGED <<cf, setup>>

\* Cloudflare carries a change out, one the agent has given up on included.
ModeAtCloudflare(c) ==
    /\ c.kind = "mode" /\ (c.at = "left" \/ (c.at = "sent" /\ cf.on))
    /\ cf' = [cf EXCEPT !.mode = c.value]
    /\ Becomes(c, IF c.at = "left" THEN {} ELSE {[c EXCEPT !.at = "done"]})
    /\ controls' = [controls EXCEPT !.unseen = @ \/ c.at = "left" \/ c.mount # controls.mount]
    /\ UNCHANGED setup

\* Mutant: the mode asked for is shown also when the change failed.
ModeAssumed(c, ok) ==
    /\ c.kind = "mode" /\ c.at # "left" /\ (ok => c.at = "done")
    /\ controls' = IF ~Mounted(c) THEN controls
                   ELSE [controls EXCEPT !.saving = FALSE, !.mode = c.value,
                                         !.unseen = @ \/ (~ok /\ c.at = "done")]
    /\ \E left \in IF ok \/ c.at = "done" \/ ~cf.on THEN {{}} ELSE {{}, {[c EXCEPT !.at = "left"]}} : Becomes(c, left)
    /\ UNCHANGED <<cf, setup>>

\* A change that failed leaves the mode as it was; it may have been carried
\* out, or be left for Cloudflare to carry out later.
ModeChanged(c, ok) ==
    /\ c.kind = "mode" /\ c.at # "left" /\ (ok => c.at = "done")
    /\ controls' = IF ~Mounted(c) THEN controls
                   ELSE [controls EXCEPT !.saving = FALSE, !.mode = IF ok THEN c.value ELSE @,
                                         !.unseen = @ \/ (~ok /\ c.at = "done")]
    /\ \E left \in IF ok \/ c.at = "done" \/ ~cf.on THEN {{}} ELSE {{}, {[c EXCEPT !.at = "left"]}} : Becomes(c, left)
    /\ UNCHANGED <<cf, setup>>

-----------------------------------------------------------------------------
CfNext == \/ \E kind \in {"check", "save", "toggle"} : PressSetup(kind)
          \/ ShowControls \/ HideControls \/ \E m \in Modes : ChangeMode(m)
          \/ \E c \in cfCalls :
               \/ ModeRead(c) \/ ModeAtCloudflare(c)
               \/ \E ok \in BOOLEAN : Saved(c, ok) \/ ConfigRead(c, ok) \/ SslLoaded(c, ok) \/ ModeChanged(c, ok)

CfSpec == CfInit /\ [][CfNext]_cfVars

(***************************************************************************)
(* Properties                                                              *)
(***************************************************************************)
\* The mode the controls show as chosen is the zone's at Cloudflare, unless a
\* change of theirs is out or, since they were shown, a change reached
\* Cloudflare of which they were told nothing (one sent by controls now
\* hidden) or only that it failed (one that took the agent too long).
ControlsShowTheMode ==
    controls.open /\ controls.mode # NoMode /\ ~controls.saving /\ ~controls.unseen
        => controls.mode = cf.mode

=============================================================================
