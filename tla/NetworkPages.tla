----------------------------- MODULE NetworkPages -----------------------------
(***************************************************************************)
(* The network page: the nginx editor, the DNS panel and the Cloudflare    *)
(* settings with the SSL controls of a zone; and the agent's requests      *)
(* about DNS records, from any number of such pages.  One section of the   *)
(* page is open at a time and starts anew when it is opened, so a          *)
(* behaviour is the life of one part, chosen at the start; the others stay *)
(* as they would begin.                                                    *)
(***************************************************************************)
EXTENDS NginxPanel, Dns, DnsAgent, Cloudflare

VARIABLE section

NetworkInit ==
    /\ section \in {"nginx", "dns", "agent", "cloudflare"}
    /\ EditorInit /\ (section # "nginx" => nginx = [s \in Sites |-> NoFile])
    /\ DnsInit    /\ (section # "dns" => dnsZones = Zones)
    /\ AgentInit  /\ (section # "agent" => ~store.on /\ store.cloud = {})
    /\ CfInit     /\ (section # "cloudflare" => cf.mode = CHOOSE m \in Modes : TRUE)

NetworkNext ==
    \/ section = "nginx" /\ EditorNext /\ UNCHANGED <<section, dnsVars, agentVars, cfVars>>
    \/ section = "dns" /\ DnsNext /\ UNCHANGED <<section, nginxVars, agentVars, cfVars>>
    \/ section = "agent" /\ AgentNext /\ UNCHANGED <<section, nginxVars, dnsVars, cfVars>>
    \/ section = "cloudflare" /\ CfNext /\ UNCHANGED <<section, nginxVars, dnsVars, agentVars>>

NetworkSpec == NetworkInit /\ [][NetworkNext]_<<section, nginxVars, dnsVars, agentVars, cfVars>>

=============================================================================
