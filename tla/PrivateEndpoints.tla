-------------------------- MODULE PrivateEndpoints --------------------------
(* Private links to Capella clusters (cmd/privateendpoints-*.go and the       *)
(* controllers in utils/awscontrol, azurecontrol and gcpcontrol): setup-link  *)
(* creates a link's parts in the user's own cloud account, one call after the *)
(* other and without rollback, and cleanup finds again what it may remove by  *)
(* the parts' tags, names and connection states.                              *)
EXTENDS Naturals, Sequences, FiniteSets

CONSTANT Links  \* a link is the cluster it leads to; a cluster has one in the model

VARIABLES
  provider,  \* provider[l]: the cloud of the cluster
  service,   \* service[l]: the private endpoint service of the cluster
  parts,     \* parts[l]: what exists of the link in the user's account
  conn,      \* conn[l]: the state of the connection of the endpoint or the rules
  listed,    \* the links whose endpoint Capella lists
  setup, at, \* setup-link for each cluster: whether it runs, and its next call
  drop,      \* drop[l]: what the command that removes the cluster deletes next of a GCP link
  phase,     \* where the cleanup is
  faulty,    \* whether calls of this cleanup may fail
  names,     \* Azure: the endpoints that existed when they were listed
  victims,   \* what the running cleaner has found to remove
  nets,      \* Azure: the network links it has found in those zones
  fresh,     \* history: Azure endpoints created before the zones were listed
  due        \* history: what this cleanup had to remove

cluster == <<provider, service, drop>>
link == <<parts, conn, listed>>
plan == <<setup, at>>
run == <<names, victims, nets>>
vars == <<cluster, link, plan, phase, faulty, run, fresh, due>>

(* The calls of setup-link, in their order. Each creates a part, but for the  *)
(* acceptance of the link by Capella, the switch to private DNS of AWS, and   *)
(* the records, which come and go with their zone.                            *)
Calls == [aws   |-> <<"endpoint", "accept", "private-dns">>,
          azure |-> <<"endpoint", "accept", "zone", "records", "net">>,
          gcp   |-> <<"zone", "address", "rule", "address2", "rule2", "records", "accept">>]
Parts == {"endpoint", "zone", "net", "address", "rule", "address2", "rule2"}
Rules == {"rule", "rule2"}
Connected == Rules \cup {"endpoint"}
AddressOf == [rule |-> "address", rule2 |-> "address2"]
In(p) == {l \in Links : provider[l] = p}

Phases == {"aws", "aws-delete", "azure", "azure-delete", "names", "zones", "nets",
           "nets-delete", "zones-delete", "gcp", "gcp-rules", "gcp-addresses", "gcp-zone", "ok", "failed"}

TypeOK ==
  /\ provider \in [Links -> {"aws", "azure", "gcp"}]
  /\ service \in [Links -> {"off", "on", "ended"}]
  /\ parts \in [Links -> SUBSET Parts]
  /\ conn \in [Links -> {"none", "pending", "linked", "dead"}]
  /\ listed \subseteq Links
  /\ setup \in [Links -> {"idle", "running", "ended"}]
  /\ at \in [Links -> 1..7]
  /\ drop \in [Links -> {"none", "rules", "addresses", "zone"}]
  /\ phase \in Phases /\ faulty \in BOOLEAN
  /\ names \subseteq Links /\ victims \subseteq Links /\ nets \subseteq Links
  /\ fresh \subseteq Links /\ due \subseteq Links

Init ==
  /\ provider \in [Links -> {"aws", "azure", "gcp"}]
  /\ service = [l \in Links |-> "off"]
  /\ parts = [l \in Links |-> {}] /\ conn = [l \in Links |-> "none"] /\ listed = {}
  /\ setup = [l \in Links |-> "idle"] /\ at = [l \in Links |-> 1]
  /\ drop = [l \in Links |-> "none"]
  /\ phase = "ok" /\ faulty = TRUE
  /\ names = {} /\ victims = {} /\ nets = {} /\ fresh = {} /\ due = {}

-----------------------------------------------------------------------------
(* The cluster, and the clouds.                                               *)

Enable(l) ==
  /\ service[l] = "off" /\ service' = [service EXCEPT ![l] = "on"]
  /\ UNCHANGED <<provider, drop, link, plan, phase, faulty, run, fresh, due>>

(* The service is disabled, or the cluster removed, perhaps as expired by the *)
(* cleaner of the cloud deployer, which comes before those below. Only remove *)
(* and remove-all go on with the link, and only with one of GCP.              *)
EndService(l) ==
  /\ service[l] = "on" /\ service' = [service EXCEPT ![l] = "ended"]
  /\ \/ drop' = drop
     \/ provider[l] = "gcp" /\ drop' = [drop EXCEPT ![l] = "rules"]
  /\ UNCHANGED <<provider, link, plan, phase, faulty, run, fresh, due>>

Without(l, gone) == [parts EXCEPT ![l] = @ \ gone]
Unlink(l, gone) == conn' = IF (parts[l] \ gone) \cap Connected = {} THEN [conn EXCEPT ![l] = "none"] ELSE conn

(* An address that a rule uses cannot be deleted.                             *)
\* Mutant: the address of the second rule is forgotten.
UnusedFirst(l) == {AddressOf[r] : r \in {"rule"} \ parts[l]} \cap parts[l]
Unused(l) == {AddressOf[r] : r \in Rules \ parts[l]} \cap parts[l]

(* RemovePrivateDnsZone, after the removal of the cluster: a deletion that    *)
(* fails is logged only, whatever the state of the connection.                *)
Drop(l, what, gone, next) ==
  /\ drop[l] = what /\ drop' = [drop EXCEPT ![l] = next]
  /\ \E some \in SUBSET gone : parts' = Without(l, some) /\ Unlink(l, some)
  /\ UNCHANGED <<provider, service, listed, plan, phase, faulty, run, fresh, due>>

RemoveLink(l) ==
  \/ Drop(l, "rules", parts[l] \cap Rules, "addresses")
  \/ Drop(l, "addresses", Unused(l), "zone")
  \/ Drop(l, "zone", parts[l] \cap {"zone"}, "none")

Live(l) == conn[l] \in {"pending", "linked"}

(* Capella learns of an endpoint some time after it was created; what it      *)
(* lists of GCP is never asked for.                                           *)
Propagate(l) ==
  /\ provider[l] # "gcp" /\ conn[l] = "pending" /\ l \notin listed
  /\ listed' = listed \cup {l}
  /\ UNCHANGED <<cluster, parts, conn, plan, phase, faulty, run, fresh, due>>

(* The connections of a service end with it, and one of AWS may fail before.  *)
Disconnect(l) ==
  /\ \/ service[l] = "ended" /\ Live(l)
     \/ provider[l] = "aws" /\ conn[l] = "pending"
  /\ conn' = [conn EXCEPT ![l] = "dead"]
  /\ listed' = listed \ {l}
  /\ UNCHANGED <<cluster, parts, plan, phase, faulty, run, fresh, due>>

-----------------------------------------------------------------------------
(* setup-link.                                                                *)

Call(l) == Calls[provider[l]][at[l]]
Running(l) == setup[l] = "running"

(* GetPrivateEndpointDetails.                                                 *)
SetupStart(l) ==
  /\ setup[l] = "idle" /\ service[l] = "on"
  /\ setup' = [setup EXCEPT ![l] = "running"]
  /\ UNCHANGED <<cluster, link, at, phase, faulty, run, fresh, due>>

(* What must exist for a call to succeed.                                     *)
Possible(l) ==
  CASE Call(l) = "endpoint" -> service[l] = "on"
    [] Call(l) \in Rules -> service[l] = "on" /\ AddressOf[Call(l)] \in parts[l]
    [] Call(l) = "zone" -> provider[l] = "azure" => "endpoint" \in parts[l]
    [] Call(l) \in {"records", "net"} -> "zone" \in parts[l]
    [] Call(l) = "private-dns" -> conn[l] = "linked"
    [] OTHER -> TRUE

\* Mutant: the index of the next call is reset to the one before the first.
SetupEndsZero(l) == setup' = [setup EXCEPT ![l] = "ended"] /\ at' = [at EXCEPT ![l] = 0]
SetupEnds(l) == setup' = [setup EXCEPT ![l] = "ended"] /\ at' = [at EXCEPT ![l] = 1]
Advance(l) ==
  IF at[l] = Len(Calls[provider[l]]) THEN SetupEnds(l)
                                     ELSE at' = [at EXCEPT ![l] = @ + 1] /\ setup' = setup

Created(l) ==
  /\ parts' = [parts EXCEPT ![l] = @ \cup ({Call(l)} \cap Parts)]
  /\ conn' = IF Call(l) \in Connected /\ conn[l] = "none" THEN [conn EXCEPT ![l] = "pending"] ELSE conn
  /\ fresh' = IF Call(l) = "endpoint" /\ phase = "names" THEN fresh \cup {l} ELSE fresh

Create(l) ==
  /\ Running(l) /\ Call(l) # "accept" /\ Possible(l)
  /\ Created(l) /\ Advance(l)
  /\ UNCHANGED <<cluster, listed, phase, faulty, run, due>>

(* A call fails, perhaps after it took effect; what was created stays.        *)
CreateFails(l) ==
  /\ Running(l)
  /\ \/ Call(l) # "accept" /\ Possible(l) /\ Created(l)
     \/ UNCHANGED <<parts, conn, fresh>>
  /\ SetupEnds(l)
  /\ UNCHANGED <<cluster, listed, phase, faulty, run, due>>

(* AcceptPrivateEndpointLink looks its endpoint up in Capella's list, and     *)
(* then waits for it to be listed; GCP needs no listed endpoint.              *)
Identified(l) == provider[l] = "gcp" \/ l \in listed

Accept(l) ==
  /\ Running(l) /\ Call(l) = "accept" /\ service[l] = "on" /\ Identified(l) /\ conn[l] = "pending"
  /\ conn' = [conn EXCEPT ![l] = "linked"]
  /\ Advance(l)
  /\ UNCHANGED <<cluster, parts, listed, phase, faulty, run, fresh, due>>

AcceptTooEarly(l) ==
  /\ Running(l) /\ Call(l) = "accept" /\ service[l] = "on" /\ ~Identified(l)
  /\ SetupEnds(l)
  /\ UNCHANGED <<cluster, link, phase, faulty, run, fresh, due>>

SetupEnded(l) == setup[l] = "ended"

-----------------------------------------------------------------------------
(* cleanup: the cleaners run in a fixed order, and the first error ends the   *)
(* command.                                                                   *)

Turn(from, to) == phase = from /\ phase' = to

Stop(how) ==
  /\ phase' = how
  /\ names' = {} /\ victims' = {} /\ nets' = {} /\ fresh' = {} /\ due' = {}

CleanupFails ==
  /\ faulty /\ phase \notin {"ok", "failed"} /\ Stop("failed")
  /\ UNCHANGED <<cluster, link, plan, faulty>>

CleanupAgain(fails) ==
  /\ phase \in {"ok", "failed"} /\ phase' = "aws"
  /\ faulty' = fails
  /\ UNCHANGED <<cluster, link, plan, run, fresh, due>>

(* What a cleaner finds, and, for the record, what it ought to remove.        *)
Found(who) == victims' = who
Due(p) == due' = due \cup {l \in In(p) : SetupEnded(l) /\ parts[l] # {} /\ ~Live(l)}

(* AWS: one call deletes all, and does not fail when it leaves some of them.  *)
\* Mutant: an endpoint that waits for its acceptance is taken for a dead one.
AwsRemovablePending(l) == "endpoint" \in parts[l] /\ conn[l] # "linked"
AwsRemovable(l) == "endpoint" \in parts[l] /\ conn[l] = "dead"
AwsList ==
  /\ Turn("aws", "aws-delete")
  /\ Found({l \in In("aws") : AwsRemovable(l)}) /\ Due("aws")
  /\ UNCHANGED <<cluster, link, plan, faulty, names, nets, fresh>>

AwsDelete ==
  /\ Turn("aws-delete", "azure")
  /\ \E gone \in SUBSET victims :
       /\ faulty \/ gone = victims
       /\ parts' = [l \in Links |-> IF l \in gone THEN parts[l] \ {"endpoint"} ELSE parts[l]]
       /\ conn' = [l \in Links |-> IF l \in gone THEN "none" ELSE conn[l]]
  /\ UNCHANGED <<cluster, listed, plan, faulty, run, fresh, due>>

-----------------------------------------------------------------------------
(* Azure: cleanupPrivateEndpoints, then cleanupPrivateDns, which takes the    *)
(* zones whose endpoint was not among those listed before.                    *)

AzureList ==
  /\ Turn("azure", "azure-delete")
  /\ Found({l \in In("azure") : "endpoint" \in parts[l] /\ conn[l] = "dead"}) /\ Due("azure")
  /\ UNCHANGED <<cluster, link, plan, faulty, names, nets, fresh>>

AzureDelete(l) ==
  /\ phase = "azure-delete" /\ l \in victims /\ victims' = victims \ {l}
  /\ parts' = Without(l, {"endpoint"}) /\ Unlink(l, {"endpoint"})
  /\ UNCHANGED <<cluster, listed, plan, phase, faulty, names, nets, fresh, due>>

AzureNames ==
  /\ victims = {} /\ Turn("azure-delete", "names")
  /\ names' = {l \in In("azure") : "endpoint" \in parts[l]}
  /\ UNCHANGED <<cluster, link, plan, faulty, victims, nets, fresh, due>>

AzureZones ==
  /\ Turn("names", "nets")
  /\ Found({l \in In("azure") : "zone" \in parts[l] /\ l \notin names})
  /\ names' = {}
  /\ UNCHANGED <<cluster, link, plan, faulty, nets, fresh, due>>

\* Mutant: the network links of the zones are not looked for.
AzureNetsNone ==
  /\ Turn("nets", "nets-delete")
  /\ UNCHANGED <<cluster, link, plan, faulty, run, fresh, due>>
AzureNets ==
  /\ Turn("nets", "nets-delete")
  /\ nets' = {l \in victims : "net" \in parts[l]}
  /\ UNCHANGED <<cluster, link, plan, faulty, names, victims, fresh, due>>

AzureUnlink(l) ==
  /\ phase = "nets-delete" /\ l \in nets /\ nets' = nets \ {l}
  /\ parts' = Without(l, {"net"})
  /\ UNCHANGED <<cluster, conn, listed, plan, phase, faulty, names, victims, fresh, due>>

AzureUnlinked ==
  /\ nets = {} /\ Turn("nets-delete", "zones-delete")
  /\ UNCHANGED <<cluster, link, plan, faulty, run, fresh, due>>

(* A zone with a network link cannot be deleted, and the retries end.         *)
AzureZone(l) ==
  /\ phase = "zones-delete" /\ l \in victims
  /\ IF "net" \in parts[l]
     THEN Stop("failed") /\ parts' = parts
     ELSE /\ parts' = Without(l, {"zone"}) /\ victims' = victims \ {l}
          /\ UNCHANGED <<phase, names, nets, fresh, due>>
  /\ UNCHANGED <<cluster, conn, listed, plan, faulty>>

AzureDone ==
  /\ victims = {} /\ Turn("zones-delete", "gcp")
  /\ fresh' = {}
  /\ UNCHANGED <<cluster, link, plan, faulty, run, due>>

-----------------------------------------------------------------------------
(* GCP: what is left of a link is found by its rejected forwarding rules, and *)
(* by nothing else. A deletion that fails is logged, and the next one tried.  *)

Leftover(l) == parts[l] \cap Rules # {}

GcpList ==
  /\ Turn("gcp", "gcp-rules")
  /\ Found({l \in In("gcp") : Leftover(l) /\ conn[l] = "dead"})
  /\ due' = due \cup {l \in In("gcp") : SetupEnded(l) /\ Leftover(l) /\ ~Live(l)}
  /\ UNCHANGED <<cluster, link, plan, faulty, names, nets, fresh>>

Deletes(l, which) ==
  \E gone \in SUBSET which :
    /\ faulty \/ gone = which
    /\ parts' = Without(l, gone) /\ Unlink(l, gone)

(* The identifier whose turn it is; the others wait in victims.               *)
Chosen == CHOOSE l \in victims : TRUE

GcpRules ==
  /\ victims # {} /\ Turn("gcp-rules", "gcp-addresses")
  /\ Deletes(Chosen, parts[Chosen] \cap Rules)
  /\ UNCHANGED <<cluster, listed, plan, faulty, run, fresh, due>>

GcpAddresses ==
  /\ Turn("gcp-addresses", "gcp-zone")
  /\ Deletes(Chosen, Unused(Chosen))
  /\ UNCHANGED <<cluster, listed, plan, faulty, run, fresh, due>>

(* With a record left the zone cannot be deleted.                             *)
GcpZone ==
  /\ Turn("gcp-zone", "gcp-rules")
  /\ \E gone \in SUBSET {"zone"} :
       /\ faulty \/ gone = {"zone"}
       /\ parts' = Without(Chosen, gone)
  /\ victims' = victims \ {Chosen}
  /\ UNCHANGED <<cluster, conn, listed, plan, faulty, names, nets, fresh, due>>

GcpDone ==
  /\ phase = "gcp-rules" /\ victims = {} /\ Stop("ok")
  /\ UNCHANGED <<cluster, link, plan, faulty>>

-----------------------------------------------------------------------------
Setup(l) == SetupStart(l) \/ Create(l) \/ CreateFails(l) \/ Accept(l) \/ AcceptTooEarly(l)
Outside(l) == Enable(l) \/ EndService(l) \/ RemoveLink(l) \/ Propagate(l)
Azure(l) == AzureDelete(l) \/ AzureUnlink(l) \/ AzureZone(l)
Cleanup ==
  \/ AwsList \/ AwsDelete
  \/ AzureList \/ AzureNames \/ AzureZones \/ AzureNets \/ AzureUnlinked \/ AzureDone
  \/ GcpList \/ GcpRules \/ GcpAddresses \/ GcpZone \/ GcpDone
  \/ \E l \in Links : Azure(l)

Next ==
  \/ Cleanup \/ CleanupFails \/ \E fails \in BOOLEAN : CleanupAgain(fails)
  \/ \E l \in Links : Setup(l) \/ Outside(l) \/ Disconnect(l)

(* A command goes on until it ends, a connection of an ended service is       *)
(* rejected some time, and cleanup is run for ever, and for ever with runs in *)
(* which no call fails.                                                       *)
Fairness ==
  /\ WF_vars(Cleanup) /\ SF_vars(CleanupAgain(FALSE))
  /\ \A l \in Links : WF_vars(Setup(l)) /\ WF_vars(Disconnect(l))

Spec == Init /\ [][Next]_vars /\ Fairness

-----------------------------------------------------------------------------
(* Cleanup removes no part of a link whose connection is pending or accepted, *)
(* but for a zone of Azure whose endpoint was created after the endpoints     *)
(* were listed and before the zones were. (phase, run: a step of cleanup.)    *)
SparesLive ==
  [][\A l \in Links : Live(l) => \A p \in parts[l] \ parts'[l] :
       p \in {"zone", "net"} /\ l \in fresh]_<<phase, run>>

(* A cleanup of which no call fails leaves nothing of a link that was dead    *)
(* and no longer being set up when its provider's turn came; of GCP, if a     *)
(* forwarding rule was left.                                                  *)
CleanRunIsComplete ==
  [][phase' = "ok" /\ ~faulty => \A l \in due : parts'[l] = {}]_phase

(* What is left of a link of AWS or Azure after its service has ended is      *)
(* removed some time, wherever setup and earlier cleanups stopped; of GCP,    *)
(* unless its rules are gone, by which alone the rest could be found.         *)
DeadIsReclaimed ==
  \A l \in Links : (service[l] = "ended" /\ SetupEnded(l)) ~>
    (parts[l] = {} \/ (provider[l] = "gcp" /\ ~Leftover(l)))
=============================================================================
