----------------------- MODULE PrivateEndpoints_proofs -----------------------
(* Proofs about PrivateEndpoints, for every set of links and any clouds.      *)
EXTENDS PrivateEndpoints, TLAPS

(* A link that is not set up yet has no part; the next call is one of its     *)
(* provider's; only links of GCP are removed with their cluster.              *)
SetupInv ==
  \A l \in Links :
    /\ setup[l] = "idle" => parts[l] = {} /\ conn[l] = "none" /\ at[l] = 1
    /\ at[l] <= Len(Calls[provider[l]])
    /\ drop[l] # "none" => provider[l] = "gcp" /\ service[l] = "ended"

(* What is dead can no longer come to life, and Azure's connection comes and  *)
(* goes with the endpoint, which setup-link creates before the zone.          *)
PastEndpoint(l) == setup[l] = "ended" \/ at[l] > 1
ConnInv ==
  \A l \in Links :
    /\ provider[l] # "aws" /\ conn[l] = "dead" => service[l] = "ended"
    /\ provider[l] = "azure" =>
         /\ Live(l) => "endpoint" \in parts[l]
         /\ "zone" \in parts[l] => PastEndpoint(l)

(* Azure: an endpoint that was created since the endpoints were listed.       *)
NamesInv ==
  phase = "names" =>
    \A l \in Links : provider[l] = "azure" /\ "endpoint" \in parts[l] => l \in names \cup fresh

(* What the running cleaner has found is of its provider, and dead for good,  *)
(* but for a zone of a fresh endpoint.                                        *)
ZonePhases == {"nets", "nets-delete", "zones-delete"}
GcpPhases == {"gcp-rules", "gcp-addresses", "gcp-zone"}
VictimsInv ==
  /\ \A l \in victims :
       /\ phase = "aws-delete" => provider[l] = "aws" /\ conn[l] = "dead"
       /\ phase = "azure-delete" => provider[l] = "azure" /\ conn[l] = "dead"
       /\ phase \in ZonePhases => provider[l] = "azure" /\ PastEndpoint(l) /\ (Live(l) => l \in fresh)
       /\ phase \in GcpPhases => provider[l] = "gcp" /\ service[l] = "ended" /\ ~Live(l)
  /\ phase = "nets-delete" => nets \subseteq victims
  /\ phase \in {"gcp-addresses", "gcp-zone"} => victims # {}

IndInv == TypeOK /\ SetupInv /\ ConnInv /\ NamesInv /\ VictimsInv

-----------------------------------------------------------------------------
LEMMA CallOf ==
  ASSUME NEW l \in Links, provider[l] \in {"aws", "azure", "gcp"}, at[l] \in 1..7, at[l] <= Len(Calls[provider[l]])
  PROVE  /\ Len(Calls[provider[l]]) <= 7
         /\ Call(l) \in {"endpoint", "rule", "rule2"} => provider[l] # "azure" \/ at[l] = 1
         /\ provider[l] = "azure" /\ Call(l) = "zone" => at[l] > 1
         /\ provider[l] = "azure" /\ Call(l) \in Connected => Call(l) = "endpoint"
         /\ Call(l) \in Connected /\ Possible(l) => service[l] = "on"
<1>1. /\ Len(Calls[provider[l]]) <= 7
      /\ Call(l) \in {"endpoint", "rule", "rule2"} => provider[l] # "azure" \/ at[l] = 1
      /\ provider[l] = "azure" /\ Call(l) = "zone" => at[l] > 1
      /\ provider[l] = "azure" /\ Call(l) \in Connected => Call(l) = "endpoint"
  <2>1. CASE provider[l] = "azure"
    <3>1. Calls[provider[l]] = <<"endpoint", "accept", "zone", "records", "net">>
      BY <2>1 DEF Calls
    <3>2. Len(Calls[provider[l]]) = 5 /\ at[l] \in 1..5 /\ Call(l) = <<"endpoint", "accept", "zone", "records", "net">>[at[l]]
      BY <3>1 DEF Call
    <3> QED
      BY <2>1, <3>2 DEF Connected, Rules
  <2>2. CASE provider[l] = "aws"
    <3>1. Calls[provider[l]] = <<"endpoint", "accept", "private-dns">>
      BY <2>2 DEF Calls
    <3> QED
      BY <2>2, <3>1
  <2>3. CASE provider[l] = "gcp"
    <3>1. Calls[provider[l]] = <<"zone", "address", "rule", "address2", "rule2", "records", "accept">>
      BY <2>3 DEF Calls
    <3> QED
      BY <2>3, <3>1
  <2> QED
    BY <2>1, <2>2, <2>3
<1>2. ASSUME Call(l) \in Connected, Possible(l) PROVE Call(l) # "accept" /\ service[l] = "on"
  <2>1. CASE Call(l) = "endpoint"
    BY <1>2, <2>1 DEF Possible
  <2>2. CASE Call(l) \in Rules
    <3>1. Call(l) # "endpoint"
      BY <2>2 DEF Rules
    <3> QED
      BY <1>2, <2>2, <3>1 DEF Possible, Rules
  <2> QED
    BY <1>2, <2>1, <2>2 DEF Connected
<1> QED
  BY <1>1, <1>2

LEMMA EnableInd == ASSUME IndInv, NEW l \in Links, Enable(l) PROVE IndInv'
<1> USE DEF IndInv, cluster, link, plan, run, Enable
<1>1. TypeOK'
  BY DEF TypeOK, Phases, Parts
<1>2. SetupInv'
  BY DEF SetupInv, TypeOK
<1>3. ConnInv'
  BY DEF ConnInv, SetupInv, VictimsInv, PastEndpoint, Live, TypeOK
<1>4. NamesInv'
  BY DEF NamesInv, VictimsInv, TypeOK
<1>5. VictimsInv'
  BY DEF VictimsInv, ConnInv, SetupInv, NamesInv, ZonePhases, GcpPhases, PastEndpoint, Live, TypeOK
<1> QED
  BY <1>1, <1>2, <1>3, <1>4, <1>5

LEMMA EndServiceInd == ASSUME IndInv, NEW l \in Links, EndService(l) PROVE IndInv'
<1> USE DEF IndInv, cluster, link, plan, run, EndService
<1>1. TypeOK'
  BY DEF TypeOK, Phases, Parts
<1>2. SetupInv'
  BY DEF SetupInv, TypeOK
<1>3. ConnInv'
  BY DEF ConnInv, SetupInv, VictimsInv, PastEndpoint, Live, TypeOK
<1>4. NamesInv'
  BY DEF NamesInv, VictimsInv, TypeOK
<1>5. VictimsInv'
  BY DEF VictimsInv, ConnInv, SetupInv, NamesInv, ZonePhases, GcpPhases, PastEndpoint, Live, TypeOK
<1> QED
  BY <1>1, <1>2, <1>3, <1>4, <1>5

LEMMA RemoveLinkInd == ASSUME IndInv, NEW l \in Links, RemoveLink(l) PROVE IndInv'
<1> USE DEF IndInv, cluster, link, plan, run, RemoveLink, Drop, Without, Unlink, Unused, Connected, Rules
<1>1. TypeOK'
  BY DEF TypeOK, Phases, Parts
<1>2. SetupInv'
  BY DEF SetupInv, TypeOK
<1>3. ConnInv'
  BY DEF ConnInv, SetupInv, VictimsInv, PastEndpoint, Live, TypeOK
<1>4. NamesInv'
  BY DEF NamesInv, VictimsInv, TypeOK
<1>5. VictimsInv'
  BY DEF VictimsInv, ConnInv, SetupInv, NamesInv, ZonePhases, GcpPhases, PastEndpoint, Live, TypeOK
<1> QED
  BY <1>1, <1>2, <1>3, <1>4, <1>5

LEMMA PropagateInd == ASSUME IndInv, NEW l \in Links, Propagate(l) PROVE IndInv'
<1> USE DEF IndInv, cluster, link, plan, run, Propagate
<1>1. TypeOK'
  BY DEF TypeOK, Phases, Parts
<1>2. SetupInv'
  BY DEF SetupInv, TypeOK
<1>3. ConnInv'
  BY DEF ConnInv, SetupInv, VictimsInv, PastEndpoint, Live, TypeOK
<1>4. NamesInv'
  BY DEF NamesInv, VictimsInv, TypeOK
<1>5. VictimsInv'
  BY DEF VictimsInv, ConnInv, SetupInv, NamesInv, ZonePhases, GcpPhases, PastEndpoint, Live, TypeOK
<1> QED
  BY <1>1, <1>2, <1>3, <1>4, <1>5

LEMMA DisconnectInd == ASSUME IndInv, NEW l \in Links, Disconnect(l) PROVE IndInv'
<1> USE DEF IndInv, cluster, link, plan, run, Disconnect, Live
<1>1. TypeOK'
  BY DEF TypeOK, Phases, Parts
<1>2. SetupInv'
  BY DEF SetupInv, TypeOK
<1>3. ConnInv'
  BY DEF ConnInv, SetupInv, VictimsInv, PastEndpoint, Live, TypeOK
<1>4. NamesInv'
  BY DEF NamesInv, VictimsInv, TypeOK
<1>5. VictimsInv'
  BY DEF VictimsInv, ConnInv, SetupInv, NamesInv, ZonePhases, GcpPhases, PastEndpoint, Live, TypeOK
<1> QED
  BY <1>1, <1>2, <1>3, <1>4, <1>5

LEMMA SetupStartInd == ASSUME IndInv, NEW l \in Links, SetupStart(l) PROVE IndInv'
<1> USE DEF IndInv, cluster, link, plan, run, SetupStart
<1>1. TypeOK'
  BY DEF TypeOK, Phases, Parts
<1>2. SetupInv'
  BY DEF SetupInv, TypeOK
<1>3. ConnInv'
  BY DEF ConnInv, SetupInv, VictimsInv, PastEndpoint, Live, TypeOK
<1>4. NamesInv'
  BY DEF NamesInv, VictimsInv, TypeOK
<1>5. VictimsInv'
  BY DEF VictimsInv, ConnInv, SetupInv, NamesInv, ZonePhases, GcpPhases, PastEndpoint, Live, TypeOK
<1> QED
  BY <1>1, <1>2, <1>3, <1>4, <1>5

LEMMA CreateInd == ASSUME IndInv, NEW l \in Links, Create(l) PROVE IndInv'
<1>a. /\ Len(Calls[provider[l]]) <= 7
      /\ Call(l) \in {"endpoint", "rule", "rule2"} => provider[l] # "azure" \/ at[l] = 1
      /\ provider[l] = "azure" /\ Call(l) = "zone" => at[l] > 1
      /\ provider[l] = "azure" /\ Call(l) \in Connected => Call(l) = "endpoint"
      /\ Call(l) \in Connected /\ Possible(l) => service[l] = "on"
  BY CallOf DEF IndInv, TypeOK, SetupInv
<1> USE <1>a DEF IndInv, cluster, link, plan, run, Create, Running, Created, Advance, SetupEnds
<1>1. TypeOK'
  <2>1. at' \in [Links -> 1..7] /\ setup' \in [Links -> {"idle", "running", "ended"}]
    <3>1. at \in [Links -> 1..7] /\ setup \in [Links -> {"idle", "running", "ended"}]
      BY DEF TypeOK
    <3>2. CASE at[l] = Len(Calls[provider[l]])
      BY <3>1, <3>2
    <3>3. CASE at[l] # Len(Calls[provider[l]])
      <4>1. at[l] + 1 \in 1..7 /\ at' = [at EXCEPT ![l] = at[l] + 1] /\ setup' = setup
        BY <3>1, <3>3 DEF SetupInv
      <4> QED
        BY <3>1, <4>1
    <3> QED
      BY <3>2, <3>3
  <2>2. /\ parts' \in [Links -> SUBSET Parts] /\ fresh' \subseteq Links
        /\ conn' \in [Links -> {"none", "pending", "linked", "dead"}]
    BY DEF TypeOK, Parts
  <2> QED
    BY <2>1, <2>2 DEF TypeOK
<1>2. SetupInv'
  BY DEF SetupInv, TypeOK
<1>3. ConnInv'
  <2>1. /\ Live(l)' /\ provider[l] = "azure" => "endpoint" \in parts'[l]
        /\ provider[l] # "aws" /\ conn'[l] = "dead" => service[l] = "ended"
    <3>1. parts'[l] = parts[l] \cup ({Call(l)} \cap Parts) \/ parts' = parts
      BY DEF TypeOK
    <3>2. \/ conn'[l] = conn[l]
          \/ conn'[l] = "pending" /\ Call(l) \in Connected /\ parts'[l] = parts[l] \cup ({Call(l)} \cap Parts)
      BY DEF TypeOK
    <3>3. "endpoint" \in Parts
      BY DEF Parts
    <3> QED
      BY <3>1, <3>2, <3>3 DEF ConnInv, Live
  <2>2. provider[l] = "azure" /\ "zone" \in parts'[l] => PastEndpoint(l)'
    <3>1. "zone" \in parts'[l] => "zone" \in parts[l] \/ Call(l) = "zone"
      BY DEF TypeOK
    <3>2. PastEndpoint(l) => PastEndpoint(l)'
      BY DEF PastEndpoint, TypeOK, SetupInv
    <3>3. at[l] > 1 => PastEndpoint(l)
      BY DEF PastEndpoint
    <3> QED
      BY <3>1, <3>2, <3>3 DEF ConnInv
  <2>3. \A k \in Links \ {l} : /\ parts'[k] = parts[k] /\ conn'[k] = conn[k]
                             /\ setup'[k] = setup[k] /\ at'[k] = at[k]
    BY DEF TypeOK
  <2>4. UNCHANGED <<provider, service>>
    OBVIOUS
  <2> QED
    BY <2>1, <2>2, <2>3, <2>4 DEF ConnInv, PastEndpoint, Live
<1>4. NamesInv'
  BY DEF NamesInv, VictimsInv, TypeOK
<1>5. VictimsInv'
  BY DEF VictimsInv, ConnInv, SetupInv, NamesInv, ZonePhases, GcpPhases, PastEndpoint, Live, TypeOK
<1> QED
  BY <1>1, <1>2, <1>3, <1>4, <1>5

LEMMA CreateFailsInd == ASSUME IndInv, NEW l \in Links, CreateFails(l) PROVE IndInv'
<1>a. /\ Len(Calls[provider[l]]) <= 7
      /\ Call(l) \in {"endpoint", "rule", "rule2"} => provider[l] # "azure" \/ at[l] = 1
      /\ provider[l] = "azure" /\ Call(l) = "zone" => at[l] > 1
      /\ provider[l] = "azure" /\ Call(l) \in Connected => Call(l) = "endpoint"
      /\ Call(l) \in Connected /\ Possible(l) => service[l] = "on"
  BY CallOf DEF IndInv, TypeOK, SetupInv
<1> USE <1>a DEF IndInv, cluster, link, plan, run, CreateFails, Running, Created, SetupEnds
<1>1. TypeOK'
  BY DEF TypeOK, Phases, Parts
<1>2. SetupInv'
  BY DEF SetupInv, TypeOK
<1>3. ConnInv'
  <2>1. /\ Live(l)' /\ provider[l] = "azure" => "endpoint" \in parts'[l]
        /\ provider[l] # "aws" /\ conn'[l] = "dead" => service[l] = "ended"
    <3>1. parts'[l] = parts[l] \cup ({Call(l)} \cap Parts) \/ parts' = parts
      BY DEF TypeOK
    <3>2. \/ conn'[l] = conn[l]
          \/ conn'[l] = "pending" /\ Call(l) \in Connected /\ parts'[l] = parts[l] \cup ({Call(l)} \cap Parts)
      BY DEF TypeOK
    <3>3. "endpoint" \in Parts
      BY DEF Parts
    <3> QED
      BY <3>1, <3>2, <3>3 DEF ConnInv, Live
  <2>2. provider[l] = "azure" /\ "zone" \in parts'[l] => PastEndpoint(l)'
    <3>1. "zone" \in parts'[l] => "zone" \in parts[l] \/ Call(l) = "zone"
      BY DEF TypeOK
    <3>2. PastEndpoint(l) => PastEndpoint(l)'
      BY DEF PastEndpoint, TypeOK, SetupInv
    <3>3. at[l] > 1 => PastEndpoint(l)
      BY DEF PastEndpoint
    <3> QED
      BY <3>1, <3>2, <3>3 DEF ConnInv
  <2>3. \A k \in Links \ {l} : /\ parts'[k] = parts[k] /\ conn'[k] = conn[k]
                             /\ setup'[k] = setup[k] /\ at'[k] = at[k]
    BY DEF TypeOK
  <2>4. UNCHANGED <<provider, service>>
    OBVIOUS
  <2> QED
    BY <2>1, <2>2, <2>3, <2>4 DEF ConnInv, PastEndpoint, Live
<1>4. NamesInv'
  BY DEF NamesInv, VictimsInv, TypeOK
<1>5. VictimsInv'
  BY DEF VictimsInv, ConnInv, SetupInv, NamesInv, ZonePhases, GcpPhases, PastEndpoint, Live, TypeOK
<1> QED
  BY <1>1, <1>2, <1>3, <1>4, <1>5

LEMMA AcceptInd == ASSUME IndInv, NEW l \in Links, Accept(l) PROVE IndInv'
<1>a. Len(Calls[provider[l]]) <= 7
  BY CallOf DEF IndInv, TypeOK, SetupInv
<1> USE <1>a DEF IndInv, cluster, link, plan, run, Accept, Running, Advance, SetupEnds
<1>1. TypeOK'
  <2>1. at' \in [Links -> 1..7] /\ setup' \in [Links -> {"idle", "running", "ended"}]
    <3>1. at \in [Links -> 1..7] /\ setup \in [Links -> {"idle", "running", "ended"}]
      BY DEF TypeOK
    <3>2. CASE at[l] = Len(Calls[provider[l]])
      <4>1. at' = [at EXCEPT ![l] = 1] /\ setup' = [setup EXCEPT ![l] = "ended"]
        BY <3>2
      <4> QED
        BY <3>1, <4>1
    <3>3. CASE at[l] # Len(Calls[provider[l]])
      <4>1. at[l] + 1 \in 1..7 /\ at' = [at EXCEPT ![l] = at[l] + 1] /\ setup' = setup
        BY <3>1, <3>3 DEF SetupInv
      <4> QED
        BY <3>1, <4>1
    <3> QED
      BY <3>2, <3>3
  <2>2. /\ parts' \in [Links -> SUBSET Parts] /\ fresh' \subseteq Links
        /\ conn' \in [Links -> {"none", "pending", "linked", "dead"}]
    BY DEF TypeOK, Parts
  <2> QED
    BY <2>1, <2>2 DEF TypeOK
<1>2. SetupInv'
  BY DEF SetupInv, TypeOK
<1>3. ConnInv'
  BY DEF ConnInv, SetupInv, VictimsInv, PastEndpoint, Live, TypeOK
<1>4. NamesInv'
  BY DEF NamesInv, VictimsInv, TypeOK
<1>5. VictimsInv'
  BY DEF VictimsInv, ConnInv, SetupInv, NamesInv, ZonePhases, GcpPhases, PastEndpoint, Live, TypeOK
<1> QED
  BY <1>1, <1>2, <1>3, <1>4, <1>5

LEMMA AcceptTooEarlyInd == ASSUME IndInv, NEW l \in Links, AcceptTooEarly(l) PROVE IndInv'
<1> USE DEF IndInv, cluster, link, plan, run, AcceptTooEarly, SetupEnds
<1>1. TypeOK'
  BY DEF TypeOK, Phases, Parts
<1>2. SetupInv'
  BY DEF SetupInv, TypeOK
<1>3. ConnInv'
  BY DEF ConnInv, SetupInv, VictimsInv, PastEndpoint, Live, TypeOK
<1>4. NamesInv'
  BY DEF NamesInv, VictimsInv, TypeOK
<1>5. VictimsInv'
  BY DEF VictimsInv, ConnInv, SetupInv, NamesInv, ZonePhases, GcpPhases, PastEndpoint, Live, TypeOK
<1> QED
  BY <1>1, <1>2, <1>3, <1>4, <1>5

LEMMA CleanupFailsInd == ASSUME IndInv, CleanupFails PROVE IndInv'
<1> USE DEF IndInv, cluster, link, plan, run, CleanupFails, Stop
<1>1. TypeOK'
  BY DEF TypeOK, Phases, Parts
<1>2. SetupInv'
  BY DEF SetupInv, TypeOK
<1>3. ConnInv'
  BY DEF ConnInv, SetupInv, VictimsInv, PastEndpoint, Live, TypeOK
<1>4. NamesInv'
  BY DEF NamesInv, VictimsInv, TypeOK
<1>5. VictimsInv'
  BY DEF VictimsInv, ConnInv, SetupInv, NamesInv, ZonePhases, GcpPhases, PastEndpoint, Live, TypeOK
<1> QED
  BY <1>1, <1>2, <1>3, <1>4, <1>5

LEMMA CleanupAgainInd == ASSUME IndInv, NEW fails \in BOOLEAN, CleanupAgain(fails) PROVE IndInv'
<1> USE DEF IndInv, cluster, link, plan, run, CleanupAgain
<1>1. TypeOK'
  BY DEF TypeOK, Phases, Parts
<1>2. SetupInv'
  BY DEF SetupInv, TypeOK
<1>3. ConnInv'
  BY DEF ConnInv, SetupInv, VictimsInv, PastEndpoint, Live, TypeOK
<1>4. NamesInv'
  BY DEF NamesInv, VictimsInv, TypeOK
<1>5. VictimsInv'
  BY DEF VictimsInv, ConnInv, SetupInv, NamesInv, ZonePhases, GcpPhases, PastEndpoint, Live, TypeOK
<1> QED
  BY <1>1, <1>2, <1>3, <1>4, <1>5

LEMMA AwsListInd == ASSUME IndInv, AwsList PROVE IndInv'
<1> USE DEF IndInv, cluster, link, plan, run, AwsList, Turn, Found, Due, AwsRemovable, In
<1>1. TypeOK'
  BY DEF TypeOK, Phases, Parts
<1>2. SetupInv'
  BY DEF SetupInv, TypeOK
<1>3. ConnInv'
  BY DEF ConnInv, SetupInv, VictimsInv, PastEndpoint, Live, TypeOK
<1>4. NamesInv'
  BY DEF NamesInv, VictimsInv, TypeOK
<1>5. VictimsInv'
  BY DEF VictimsInv, ConnInv, SetupInv, NamesInv, ZonePhases, GcpPhases, PastEndpoint, Live, TypeOK
<1> QED
  BY <1>1, <1>2, <1>3, <1>4, <1>5

LEMMA AwsDeleteInd == ASSUME IndInv, AwsDelete PROVE IndInv'
<1> USE DEF IndInv, cluster, link, plan, run, AwsDelete, Turn
<1>1. TypeOK'
  BY DEF TypeOK, Phases, Parts
<1>2. SetupInv'
  BY DEF SetupInv, TypeOK
<1>3. ConnInv'
  BY DEF ConnInv, SetupInv, VictimsInv, PastEndpoint, Live, TypeOK
<1>4. NamesInv'
  BY DEF NamesInv, VictimsInv, TypeOK
<1>5. VictimsInv'
  BY DEF VictimsInv, ConnInv, SetupInv, NamesInv, ZonePhases, GcpPhases, PastEndpoint, Live, TypeOK
<1> QED
  BY <1>1, <1>2, <1>3, <1>4, <1>5

LEMMA AzureListInd == ASSUME IndInv, AzureList PROVE IndInv'
<1> USE DEF IndInv, cluster, link, plan, run, AzureList, Turn, Found, Due, In
<1>1. TypeOK'
  BY DEF TypeOK, Phases, Parts
<1>2. SetupInv'
  BY DEF SetupInv, TypeOK
<1>3. ConnInv'
  BY DEF ConnInv, SetupInv, VictimsInv, PastEndpoint, Live, TypeOK
<1>4. NamesInv'
  BY DEF NamesInv, VictimsInv, TypeOK
<1>5. VictimsInv'
  BY DEF VictimsInv, ConnInv, SetupInv, NamesInv, ZonePhases, GcpPhases, PastEndpoint, Live, TypeOK
<1> QED
  BY <1>1, <1>2, <1>3, <1>4, <1>5

LEMMA AzureDeleteInd == ASSUME IndInv, NEW l \in Links, AzureDelete(l) PROVE IndInv'
<1> USE DEF IndInv, cluster, link, plan, run, AzureDelete, Without, Unlink
<1>1. TypeOK'
  BY DEF TypeOK, Phases, Parts
<1>2. SetupInv'
  BY DEF SetupInv, TypeOK
<1>3. ConnInv'
  BY DEF ConnInv, SetupInv, VictimsInv, PastEndpoint, Live, TypeOK
<1>4. NamesInv'
  BY DEF NamesInv, VictimsInv, TypeOK
<1>5. VictimsInv'
  BY DEF VictimsInv, ConnInv, SetupInv, NamesInv, ZonePhases, GcpPhases, PastEndpoint, Live, TypeOK
<1> QED
  BY <1>1, <1>2, <1>3, <1>4, <1>5

LEMMA AzureNamesInd == ASSUME IndInv, AzureNames PROVE IndInv'
<1> USE DEF IndInv, cluster, link, plan, run, AzureNames, Turn, In
<1>1. TypeOK'
  BY DEF TypeOK, Phases, Parts
<1>2. SetupInv'
  BY DEF SetupInv, TypeOK
<1>3. ConnInv'
  BY DEF ConnInv, SetupInv, VictimsInv, PastEndpoint, Live, TypeOK
<1>4. NamesInv'
  BY DEF NamesInv, VictimsInv, TypeOK
<1>5. VictimsInv'
  BY DEF VictimsInv, ConnInv, SetupInv, NamesInv, ZonePhases, GcpPhases, PastEndpoint, Live, TypeOK
<1> QED
  BY <1>1, <1>2, <1>3, <1>4, <1>5

LEMMA AzureZonesInd == ASSUME IndInv, AzureZones PROVE IndInv'
<1> USE DEF IndInv, cluster, link, plan, run, AzureZones, Turn, Found, In
<1>1. TypeOK'
  BY DEF TypeOK, Phases, Parts
<1>2. SetupInv'
  BY DEF SetupInv, TypeOK
<1>3. ConnInv'
  BY DEF ConnInv, SetupInv, VictimsInv, PastEndpoint, Live, TypeOK
<1>4. NamesInv'
  BY DEF NamesInv, VictimsInv, TypeOK
<1>5. VictimsInv'
  BY DEF VictimsInv, ConnInv, SetupInv, NamesInv, ZonePhases, GcpPhases, PastEndpoint, Live, TypeOK
<1> QED
  BY <1>1, <1>2, <1>3, <1>4, <1>5

LEMMA AzureNetsInd == ASSUME IndInv, AzureNets PROVE IndInv'
<1> USE DEF IndInv, cluster, link, plan, run, AzureNets, Turn
<1>1. TypeOK'
  BY DEF TypeOK, Phases, Parts
<1>2. SetupInv'
  BY DEF SetupInv, TypeOK
<1>3. ConnInv'
  BY DEF ConnInv, SetupInv, VictimsInv, PastEndpoint, Live, TypeOK
<1>4. NamesInv'
  BY DEF NamesInv, VictimsInv, TypeOK
<1>5. VictimsInv'
  BY DEF VictimsInv, ConnInv, SetupInv, NamesInv, ZonePhases, GcpPhases, PastEndpoint, Live, TypeOK
<1> QED
  BY <1>1, <1>2, <1>3, <1>4, <1>5

LEMMA AzureUnlinkInd == ASSUME IndInv, NEW l \in Links, AzureUnlink(l) PROVE IndInv'
<1> USE DEF IndInv, cluster, link, plan, run, AzureUnlink, Without
<1>1. TypeOK'
  BY DEF TypeOK, Phases, Parts
<1>2. SetupInv'
  BY DEF SetupInv, TypeOK
<1>3. ConnInv'
  BY DEF ConnInv, SetupInv, VictimsInv, PastEndpoint, Live, TypeOK
<1>4. NamesInv'
  BY DEF NamesInv, VictimsInv, TypeOK
<1>5. VictimsInv'
  BY DEF VictimsInv, ConnInv, SetupInv, NamesInv, ZonePhases, GcpPhases, PastEndpoint, Live, TypeOK
<1> QED
  BY <1>1, <1>2, <1>3, <1>4, <1>5

LEMMA AzureUnlinkedInd == ASSUME IndInv, AzureUnlinked PROVE IndInv'
<1> USE DEF IndInv, cluster, link, plan, run, AzureUnlinked, Turn
<1>1. TypeOK'
  BY DEF TypeOK, Phases, Parts
<1>2. SetupInv'
  BY DEF SetupInv, TypeOK
<1>3. ConnInv'
  BY DEF ConnInv, SetupInv, VictimsInv, PastEndpoint, Live, TypeOK
<1>4. NamesInv'
  BY DEF NamesInv, VictimsInv, TypeOK
<1>5. VictimsInv'
  BY DEF VictimsInv, ConnInv, SetupInv, NamesInv, ZonePhases, GcpPhases, PastEndpoint, Live, TypeOK
<1> QED
  BY <1>1, <1>2, <1>3, <1>4, <1>5

LEMMA AzureZoneInd == ASSUME IndInv, NEW l \in Links, AzureZone(l) PROVE IndInv'
<1> USE DEF IndInv, cluster, link, plan, run, AzureZone, Stop, Without
<1>1. TypeOK'
  BY DEF TypeOK, Phases, Parts
<1>2. SetupInv'
  BY DEF SetupInv, TypeOK
<1>3. ConnInv'
  BY DEF ConnInv, SetupInv, VictimsInv, PastEndpoint, Live, TypeOK
<1>4. NamesInv'
  BY DEF NamesInv, VictimsInv, TypeOK
<1>5. VictimsInv'
  BY DEF VictimsInv, ConnInv, SetupInv, NamesInv, ZonePhases, GcpPhases, PastEndpoint, Live, TypeOK
<1> QED
  BY <1>1, <1>2, <1>3, <1>4, <1>5

LEMMA AzureDoneInd == ASSUME IndInv, AzureDone PROVE IndInv'
<1> USE DEF IndInv, cluster, link, plan, run, AzureDone, Turn
<1>1. TypeOK'
  BY DEF TypeOK, Phases, Parts
<1>2. SetupInv'
  BY DEF SetupInv, TypeOK
<1>3. ConnInv'
  BY DEF ConnInv, SetupInv, VictimsInv, PastEndpoint, Live, TypeOK
<1>4. NamesInv'
  BY DEF NamesInv, VictimsInv, TypeOK
<1>5. VictimsInv'
  BY DEF VictimsInv, ConnInv, SetupInv, NamesInv, ZonePhases, GcpPhases, PastEndpoint, Live, TypeOK
<1> QED
  BY <1>1, <1>2, <1>3, <1>4, <1>5

LEMMA GcpListInd == ASSUME IndInv, GcpList PROVE IndInv'
<1> USE DEF IndInv, cluster, link, plan, run, GcpList, Turn, Found, In
<1>1. TypeOK'
  BY DEF TypeOK, Phases, Parts
<1>2. SetupInv'
  BY DEF SetupInv, TypeOK
<1>3. ConnInv'
  BY DEF ConnInv, SetupInv, VictimsInv, PastEndpoint, Live, TypeOK
<1>4. NamesInv'
  BY DEF NamesInv, VictimsInv, TypeOK
<1>5. VictimsInv'
  BY DEF VictimsInv, ConnInv, SetupInv, NamesInv, ZonePhases, GcpPhases, PastEndpoint, Live, TypeOK
<1> QED
  BY <1>1, <1>2, <1>3, <1>4, <1>5

LEMMA GcpRulesInd == ASSUME IndInv, GcpRules PROVE IndInv'
<1>a. Chosen \in victims
  BY DEF Chosen, GcpRules, IndInv, VictimsInv, Turn
<1> USE <1>a DEF IndInv, cluster, link, plan, run, GcpRules, Turn, Deletes, Without, Unlink
<1>1. TypeOK'
  BY DEF TypeOK, Phases, Parts
<1>2. SetupInv'
  BY DEF SetupInv, TypeOK
<1>3. ConnInv'
  <2>1. \A k \in Links : conn'[k] = conn[k] \/ conn'[k] = "none"
    BY DEF TypeOK
  <2>2. \A k \in Links : provider[k] = "azure" => parts'[k] = parts[k]
    BY DEF TypeOK, VictimsInv, GcpPhases
  <2>3. UNCHANGED <<provider, service, setup, at>>
    OBVIOUS
  <2> QED
    BY <2>1, <2>2, <2>3 DEF ConnInv, PastEndpoint, Live
<1>4. NamesInv'
  BY DEF NamesInv, VictimsInv, TypeOK
<1>5. VictimsInv'
  BY DEF VictimsInv, ConnInv, SetupInv, NamesInv, ZonePhases, GcpPhases, PastEndpoint, Live, TypeOK
<1> QED
  BY <1>1, <1>2, <1>3, <1>4, <1>5

LEMMA GcpAddressesInd == ASSUME IndInv, GcpAddresses PROVE IndInv'
<1>a. Chosen \in victims
  BY DEF Chosen, GcpAddresses, IndInv, VictimsInv, Turn
<1> USE <1>a DEF IndInv, cluster, link, plan, run, GcpAddresses, Turn, Deletes, Without, Unlink, Unused
<1>1. TypeOK'
  BY DEF TypeOK, Phases, Parts
<1>2. SetupInv'
  BY DEF SetupInv, TypeOK
<1>3. ConnInv'
  <2>1. \A k \in Links : conn'[k] = conn[k] \/ conn'[k] = "none"
    BY DEF TypeOK
  <2>2. \A k \in Links : provider[k] = "azure" => parts'[k] = parts[k]
    BY DEF TypeOK, VictimsInv, GcpPhases
  <2>3. UNCHANGED <<provider, service, setup, at>>
    OBVIOUS
  <2> QED
    BY <2>1, <2>2, <2>3 DEF ConnInv, PastEndpoint, Live
<1>4. NamesInv'
  BY DEF NamesInv, VictimsInv, TypeOK
<1>5. VictimsInv'
  BY DEF VictimsInv, ConnInv, SetupInv, NamesInv, ZonePhases, GcpPhases, PastEndpoint, Live, TypeOK
<1> QED
  BY <1>1, <1>2, <1>3, <1>4, <1>5

LEMMA GcpZoneInd == ASSUME IndInv, GcpZone PROVE IndInv'
<1>a. Chosen \in victims
  BY DEF Chosen, GcpZone, IndInv, VictimsInv, Turn
<1> USE <1>a DEF IndInv, cluster, link, plan, run, GcpZone, Turn, Without
<1>1. TypeOK'
  BY DEF TypeOK, Phases, Parts
<1>2. SetupInv'
  BY DEF SetupInv, TypeOK
<1>3. ConnInv'
  BY DEF ConnInv, SetupInv, VictimsInv, PastEndpoint, Live, TypeOK
<1>4. NamesInv'
  BY DEF NamesInv, VictimsInv, TypeOK
<1>5. VictimsInv'
  BY DEF VictimsInv, ConnInv, SetupInv, NamesInv, ZonePhases, GcpPhases, PastEndpoint, Live, TypeOK
<1> QED
  BY <1>1, <1>2, <1>3, <1>4, <1>5

LEMMA GcpDoneInd == ASSUME IndInv, GcpDone PROVE IndInv'
<1> USE DEF IndInv, cluster, link, plan, run, GcpDone, Stop
<1>1. TypeOK'
  BY DEF TypeOK, Phases, Parts
<1>2. SetupInv'
  BY DEF SetupInv, TypeOK
<1>3. ConnInv'
  BY DEF ConnInv, SetupInv, VictimsInv, PastEndpoint, Live, TypeOK
<1>4. NamesInv'
  BY DEF NamesInv, VictimsInv, TypeOK
<1>5. VictimsInv'
  BY DEF VictimsInv, ConnInv, SetupInv, NamesInv, ZonePhases, GcpPhases, PastEndpoint, Live, TypeOK
<1> QED
  BY <1>1, <1>2, <1>3, <1>4, <1>5

-----------------------------------------------------------------------------
LEMMA InitInd == Init => IndInv
<1> SUFFICES ASSUME Init PROVE IndInv
  OBVIOUS
<1>1. TypeOK
  BY DEF Init, TypeOK, Phases
<1>2. SetupInv
  <2>1. \A p \in {"aws", "azure", "gcp"} : Len(Calls[p]) \in Nat /\ 1 <= Len(Calls[p])
    <3>1. ASSUME NEW p \in {"aws", "azure", "gcp"} PROVE Len(Calls[p]) \in Nat /\ 1 <= Len(Calls[p])
      <4>1. CASE p = "aws"
        <5>1. Calls[p] = <<"endpoint", "accept", "private-dns">>
          BY <4>1 DEF Calls
        <5> QED
          BY <5>1
      <4>2. CASE p = "azure"
        <5>1. Calls[p] = <<"endpoint", "accept", "zone", "records", "net">>
          BY <4>2 DEF Calls
        <5> QED
          BY <5>1
      <4>3. CASE p = "gcp"
        <5>1. Calls[p] = <<"zone", "address", "rule", "address2", "rule2", "records", "accept">>
          BY <4>3 DEF Calls
        <5> QED
          BY <5>1
      <4> QED
        BY <4>1, <4>2, <4>3
    <3> QED
      BY <3>1
  <2>2. \A l \in Links : provider[l] \in {"aws", "azure", "gcp"} /\ at[l] = 1
    BY DEF Init
  <2> QED
    BY <2>1, <2>2 DEF Init, SetupInv
<1> QED
  BY <1>1, <1>2 DEF Init, IndInv, ConnInv, NamesInv, VictimsInv, ZonePhases, GcpPhases, Live, PastEndpoint

LEMMA InductiveStep == IndInv /\ [Next]_vars => IndInv'
<1> SUFFICES ASSUME IndInv, [Next]_vars PROVE IndInv'
  OBVIOUS
<1>1. CASE Cleanup
  BY <1>1, AwsListInd, AwsDeleteInd, AzureListInd, AzureNamesInd, AzureZonesInd, AzureNetsInd, AzureUnlinkedInd,
     AzureDoneInd, GcpListInd, GcpRulesInd, GcpAddressesInd, GcpZoneInd, GcpDoneInd,
     AzureDeleteInd, AzureUnlinkInd, AzureZoneInd DEF Cleanup, Azure
<1>2. CASE CleanupFails \/ \E fails \in BOOLEAN : CleanupAgain(fails)
  BY <1>2, CleanupFailsInd, CleanupAgainInd
<1>3. ASSUME NEW l \in Links, Setup(l) PROVE IndInv'
  BY <1>3, SetupStartInd, CreateInd, CreateFailsInd, AcceptInd, AcceptTooEarlyInd DEF Setup
<1>4. ASSUME NEW l \in Links, Outside(l) PROVE IndInv'
  BY <1>4, EnableInd, EndServiceInd, RemoveLinkInd, PropagateInd DEF Outside
<1>5. ASSUME NEW l \in Links, Disconnect(l) PROVE IndInv'
  BY <1>5, DisconnectInd
<1>6. CASE UNCHANGED vars
  BY <1>6 DEF vars, cluster, link, plan, run, IndInv, TypeOK, SetupInv, ConnInv, NamesInv, VictimsInv, Live, PastEndpoint
<1> QED
  BY <1>1, <1>2, <1>3, <1>4, <1>5, <1>6 DEF Next

THEOREM Invariance == Spec => []IndInv
  BY InitInd, InductiveStep, PTL DEF Spec

(* Every variable of the model of the private links has its type; the calls   *)
(* of setup-link stay within those of its provider.                           *)
THEOREM TypeCorrect == Spec => []TypeOK
<1>1. IndInv => TypeOK
  BY DEF IndInv
<1> QED
  BY <1>1, Invariance, PTL

-----------------------------------------------------------------------------
Spares(l) == Live(l) => \A p \in parts[l] \ parts'[l] : p \in {"zone", "net"} /\ l \in fresh

(* What a cleaner removes is of a link it has found, and that is dead, or of  *)
(* Azure and fresh.                                                           *)
LEMMA CleanersSpare == ASSUME IndInv, Cleanup, NEW l \in Links PROVE Spares(l)
<1> USE DEF IndInv
<1>1. CASE AwsList \/ AzureList \/ AzureNames \/ AzureZones \/ AzureNets \/ AzureUnlinked \/ AzureDone \/ GcpList \/ GcpDone
  <2>1. parts' = parts
    BY <1>1 DEF AwsList, AzureList, AzureNames, AzureZones, AzureNets, AzureUnlinked, AzureDone, GcpList, GcpDone, link
  <2> QED
    BY <2>1 DEF Spares
<1>2. CASE AwsDelete
  BY <1>2 DEF AwsDelete, Turn, VictimsInv, Live, Spares
<1>3. CASE \E k \in Links : Azure(k)
  <2>1. PICK k \in Links : AzureDelete(k) \/ AzureUnlink(k) \/ AzureZone(k)
    BY <1>3 DEF Azure
  <2>2. CASE AzureDelete(k)
    BY <2>2 DEF AzureDelete, Without, VictimsInv, Live, Spares, TypeOK
  <2>3. CASE AzureUnlink(k)
    BY <2>3 DEF AzureUnlink, Without, VictimsInv, ZonePhases, Live, Spares, TypeOK
  <2>4. CASE AzureZone(k)
    BY <2>4 DEF AzureZone, Without, VictimsInv, ZonePhases, Live, Spares, TypeOK
  <2> QED
    BY <2>1, <2>2, <2>3, <2>4
<1>4. CASE GcpRules \/ GcpAddresses \/ GcpZone
  <2>1. Chosen \in victims
    BY <1>4 DEF Chosen, GcpRules, GcpAddresses, GcpZone, VictimsInv, Turn
  <2>2. \A k \in Links \ {Chosen} : parts'[k] = parts[k]
    BY <1>4, <2>1 DEF GcpRules, GcpAddresses, GcpZone, Deletes, Without, TypeOK
  <2>3. ~Live(Chosen)
    BY <1>4, <2>1 DEF GcpRules, GcpAddresses, GcpZone, Turn, VictimsInv, GcpPhases
  <2> QED
    BY <2>2, <2>3 DEF Spares
<1> QED
  BY <1>1, <1>2, <1>3, <1>4 DEF Cleanup

(* Nothing else that moves the cleanup removes a part.                        *)
LEMMA OthersSpare ==
  ASSUME IndInv, Next, ~Cleanup, ~(UNCHANGED <<phase, run>>), NEW l \in Links PROVE Spares(l)
<1>1. CASE CleanupFails \/ \E fails \in BOOLEAN : CleanupAgain(fails)
  BY <1>1 DEF CleanupFails, CleanupAgain, link, Spares
<1>2. ASSUME NEW k \in Links, Setup(k) \/ Outside(k) \/ Disconnect(k) PROVE FALSE
  BY <1>2 DEF Setup, SetupStart, Create, CreateFails, Accept, AcceptTooEarly, Outside, Enable, EndService,
              RemoveLink, Drop, Propagate, Disconnect, run
<1> QED
  BY <1>1, <1>2 DEF Next

(* Whatever setup-link, the clouds and removals do between the listings and   *)
(* the deletions of a cleanup, it removes no part of a link whose connection  *)
(* is pending or accepted, unless it is a zone of Azure, or its network link, *)
(* whose endpoint is younger than the list of endpoints.                      *)
THEOREM CleanupSparesLive == Spec => SparesLive
<1>1. IndInv /\ [Next]_vars => [\A l \in Links : Spares(l)]_<<phase, run>>
  <2> SUFFICES ASSUME IndInv, [Next]_vars, ~(UNCHANGED <<phase, run>>), NEW l \in Links PROVE Spares(l)
    OBVIOUS
  <2>1. Next
    BY DEF vars
  <2> QED
    BY <2>1, CleanersSpare, OthersSpare
<1>2. IndInv /\ [Next]_vars =>
        [\A l \in Links : Live(l) => \A p \in parts[l] \ parts'[l] : p \in {"zone", "net"} /\ l \in fresh]_<<phase, run>>
  BY <1>1 DEF Spares
<1> QED
  BY <1>2, Invariance, PTL DEF Spec, SparesLive
-----------------------------------------------------------------------------
(* A cleanup without failing calls is complete.                               *)

Owners == [aws |-> {"endpoint"}, azure |-> {"endpoint", "zone", "net"},
           gcp |-> {"zone", "address", "rule", "address2", "rule2"}]

(* A link has the parts of its provider; what connects has a connection; a    *)
(* network link of Azure hangs on a zone.                                     *)
PartsInv ==
  \A l \in Links :
    /\ parts[l] \subseteq Owners[provider[l]]
    /\ parts[l] \cap Connected # {} => conn[l] # "none"
    /\ "net" \in parts[l] => "zone" \in parts[l]

(* What is left of a link that was to be removed is among what the cleaners   *)
(* have found, or will be when its turn comes.                                *)
AwsOwed(l) == provider[l] = "aws" => parts[l] = {} \/ (phase = "aws-delete" /\ l \in victims)
AzureOwed(l) ==
  provider[l] = "azure" =>
    /\ "endpoint" \in parts[l] => phase = "azure-delete" /\ l \in victims
    /\ phase = "names" => l \notin names
    /\ "zone" \in parts[l] => phase \in {"azure-delete", "names"} \/ (phase \in ZonePhases /\ l \in victims)
    /\ "net" \in parts[l] => phase \in {"azure-delete", "names", "nets"} \/ (phase = "nets-delete" /\ l \in nets)
GcpOwed(l) ==
  provider[l] = "gcp" =>
    /\ parts[l] = {} \/ (phase \in GcpPhases /\ l \in victims)
    /\ phase = "gcp-addresses" /\ l = Chosen => parts[l] \cap Rules = {}
    /\ phase = "gcp-zone" /\ l = Chosen => parts[l] \subseteq {"zone"}
Owed(l) == setup[l] = "ended" /\ ~Live(l) /\ AwsOwed(l) /\ AzureOwed(l) /\ GcpOwed(l)

DueInv ==
  /\ phase \in {"ok", "failed"} => due = {}
  /\ ~faulty => \A l \in due : Owed(l)

LEMMA OwnersOf ==
  /\ Owners["aws"] = {"endpoint"} /\ Owners["azure"] = {"endpoint", "zone", "net"}
  /\ Owners["gcp"] = {"zone", "address", "rule", "address2", "rule2"}
  BY DEF Owners

LEMMA CallOwner ==
  ASSUME NEW l \in Links, provider[l] \in {"aws", "azure", "gcp"}, at[l] \in 1..7, at[l] <= Len(Calls[provider[l]])
  PROVE  {Call(l)} \cap Parts \subseteq Owners[provider[l]]
<1>1. CASE provider[l] = "azure"
  <2>1. Calls[provider[l]] = <<"endpoint", "accept", "zone", "records", "net">>
    BY <1>1 DEF Calls
  <2>2. at[l] \in 1..5 /\ Call(l) = <<"endpoint", "accept", "zone", "records", "net">>[at[l]]
    BY <2>1 DEF Call
  <2>3. Call(l) \in {"endpoint", "accept", "zone", "records", "net"}
    BY <2>2
  <2> QED
    BY <1>1, <2>3, OwnersOf DEF Parts
<1>2. CASE provider[l] = "aws"
  <2>1. Calls[provider[l]] = <<"endpoint", "accept", "private-dns">>
    BY <1>2 DEF Calls
  <2>2. at[l] \in 1..3 /\ Call(l) = <<"endpoint", "accept", "private-dns">>[at[l]]
    BY <2>1 DEF Call
  <2>3. Call(l) \in {"endpoint", "accept", "private-dns"}
    BY <2>2
  <2> QED
    BY <1>2, <2>3, OwnersOf DEF Parts
<1>3. CASE provider[l] = "gcp"
  <2>1. Calls[provider[l]] = <<"zone", "address", "rule", "address2", "rule2", "records", "accept">>
    BY <1>3 DEF Calls
  <2>2. Call(l) = <<"zone", "address", "rule", "address2", "rule2", "records", "accept">>[at[l]]
    BY <2>1 DEF Call
  <2>3. Call(l) \in {"zone", "address", "rule", "address2", "rule2", "records", "accept"}
    BY <2>2
  <2> QED
    BY <1>3, <2>3, OwnersOf DEF Parts
<1> QED
  BY <1>1, <1>2, <1>3

(* Steps that neither create nor remove anything.                             *)
Quiet ==
  /\ UNCHANGED <<provider, parts>>
  /\ \A k \in Links : conn[k] # "none" => conn'[k] # "none"

LEMMA PartsQuiet == ASSUME PartsInv, Quiet PROVE PartsInv'
  BY DEF PartsInv, Quiet

LEMMA PartsCreated ==
  ASSUME IndInv, PartsInv, NEW l \in Links, Possible(l), Created(l), UNCHANGED provider
  PROVE  PartsInv'
<1>1. provider[l] \in {"aws", "azure", "gcp"} /\ at[l] \in 1..7 /\ at[l] <= Len(Calls[provider[l]])
  BY DEF IndInv, TypeOK, SetupInv
<1>2. {Call(l)} \cap Parts \subseteq Owners[provider[l]]
  BY <1>1, CallOwner
<1>3. parts'[l] = parts[l] \cup ({Call(l)} \cap Parts)
  BY DEF Created, IndInv, TypeOK
<1>4. conn[l] # "none" => conn'[l] = conn[l]
  BY DEF Created, IndInv, TypeOK
<1>5. Call(l) \in Connected => conn'[l] # "none"
  BY DEF Created, IndInv, TypeOK
<1>6. \A k \in Links \ {l} : parts'[k] = parts[k] /\ conn'[k] = conn[k]
  BY DEF Created, IndInv, TypeOK
<1>7. "net" \in parts'[l] => "zone" \in parts'[l]
  BY <1>3 DEF PartsInv, Possible, Rules
<1>8. parts'[l] \subseteq Owners[provider[l]]
  BY <1>2, <1>3 DEF PartsInv
<1>9. parts'[l] \cap Connected # {} => conn'[l] # "none"
  BY <1>3, <1>4, <1>5 DEF PartsInv
<1> QED
  BY <1>6, <1>7, <1>8, <1>9 DEF PartsInv

(* Only parts of one link go, its connection with the last that connects, and *)
(* a zone after its network link.                                             *)
LEMMA PartsRemoved ==
  ASSUME IndInv, PartsInv, NEW l \in Links, NEW gone, parts' = Without(l, gone), Unlink(l, gone) \/ conn' = conn,
         UNCHANGED provider, "zone" \in gone => "net" \notin parts[l]
  PROVE  PartsInv'
<1>1. parts'[l] = parts[l] \ gone /\ \A k \in Links \ {l} : parts'[k] = parts[k]
  BY DEF Without, IndInv, TypeOK
<1>2. \A k \in Links \ {l} : conn'[k] = conn[k]
  BY DEF Unlink, IndInv, TypeOK
<1>3. (parts[l] \ gone) \cap Connected # {} => conn'[l] = conn[l]
  BY DEF Unlink, IndInv, TypeOK
<1>4. parts'[l] \cap Connected # {} => conn'[l] # "none"
  BY <1>1, <1>3 DEF PartsInv
<1> QED
  BY <1>1, <1>2, <1>4 DEF PartsInv

LEMMA PartsInd == ASSUME IndInv, PartsInv, [Next]_vars PROVE PartsInv'
<1>1. CASE UNCHANGED vars
  BY <1>1, PartsQuiet DEF vars, cluster, link, Quiet
<1>2. CASE CleanupFails \/ \E fails \in BOOLEAN : CleanupAgain(fails)
  BY <1>2, PartsQuiet DEF CleanupFails, CleanupAgain, cluster, link, Quiet
<1>3. ASSUME NEW l \in Links, Setup(l) PROVE PartsInv'
  <2>1. CASE SetupStart(l) \/ AcceptTooEarly(l)
    BY <2>1, PartsQuiet DEF SetupStart, AcceptTooEarly, cluster, link, Quiet
  <2>2. CASE Accept(l)
    BY <2>2, PartsQuiet DEF Accept, cluster, Quiet, IndInv, TypeOK
  <2>3. CASE Create(l)
    BY <2>3, PartsCreated DEF Create, cluster
  <2>4. CASE CreateFails(l)
    BY <2>4, PartsCreated, PartsQuiet DEF CreateFails, cluster, Quiet
  <2> QED
    BY <1>3, <2>1, <2>2, <2>3, <2>4 DEF Setup
<1>4. ASSUME NEW l \in Links, Outside(l) \/ Disconnect(l) PROVE PartsInv'
  <2>1. CASE Enable(l) \/ EndService(l) \/ Propagate(l)
    BY <2>1, PartsQuiet DEF Enable, EndService, Propagate, cluster, link, Quiet
  <2>2. CASE Disconnect(l)
    BY <2>2, PartsQuiet DEF Disconnect, cluster, Quiet, IndInv, TypeOK
  <2>3. CASE RemoveLink(l)
    <3>1. PICK some : /\ parts' = Without(l, some) /\ Unlink(l, some) /\ UNCHANGED provider
                      /\ drop[l] # "none"
      BY <2>3 DEF RemoveLink, Drop
    <3>2. "net" \notin parts[l]
      BY <3>1, OwnersOf DEF IndInv, SetupInv, PartsInv
    <3> QED
      BY <3>1, <3>2, PartsRemoved
  <2> QED
    BY <1>4, <2>1, <2>2, <2>3 DEF Outside
<1>5. CASE Cleanup
  <2>1. CASE AwsList \/ AzureList \/ AzureNames \/ AzureZones \/ AzureNets \/ AzureUnlinked \/ AzureDone \/ GcpList \/ GcpDone
    BY <2>1, PartsQuiet DEF AwsList, AzureList, AzureNames, AzureZones, AzureNets, AzureUnlinked, AzureDone, GcpList,
       GcpDone, cluster, link, Quiet
  <2>2. CASE AwsDelete
    <3>1. PICK gone \in SUBSET victims :
            /\ parts' = [l \in Links |-> IF l \in gone THEN parts[l] \ {"endpoint"} ELSE parts[l]]
            /\ conn' = [l \in Links |-> IF l \in gone THEN "none" ELSE conn[l]]
      BY <2>2 DEF AwsDelete
    <3>2. \A l \in gone : l \in Links /\ provider[l] = "aws" /\ parts[l] \subseteq {"endpoint"}
      BY <2>2, OwnersOf DEF AwsDelete, Turn, IndInv, VictimsInv, TypeOK, PartsInv
    <3>3. \A l \in gone : parts'[l] = {}
      BY <3>1, <3>2
    <3>4. provider' = provider
      BY <2>2 DEF AwsDelete, cluster
    <3> QED
      BY <3>1, <3>3, <3>4 DEF PartsInv
  <2>3. ASSUME NEW l \in Links, Azure(l) PROVE PartsInv'
    <3>1. CASE AzureDelete(l)
      BY <3>1, PartsRemoved DEF AzureDelete, cluster
    <3>2. CASE AzureUnlink(l)
      BY <3>2, PartsRemoved DEF AzureUnlink, cluster
    <3>3. CASE AzureZone(l)
      BY <3>3, PartsRemoved, PartsQuiet DEF AzureZone, cluster, Quiet
    <3> QED
      BY <2>3, <3>1, <3>2, <3>3 DEF Azure
  <2>4. CASE GcpRules \/ GcpAddresses \/ GcpZone
    <3>1. Chosen \in victims
      BY <2>4 DEF Chosen, GcpRules, GcpAddresses, GcpZone, IndInv, VictimsInv, Turn
    <3>2. Chosen \in Links /\ provider[Chosen] = "gcp"
      BY <2>4, <3>1 DEF GcpRules, GcpAddresses, GcpZone, Turn, GcpPhases, IndInv, VictimsInv, TypeOK
    <3>3. "net" \notin parts[Chosen]
      BY <3>2, OwnersOf DEF PartsInv
    <3>4. PICK gone : parts' = Without(Chosen, gone) /\ (Unlink(Chosen, gone) \/ conn' = conn) /\ UNCHANGED provider
      BY <2>4 DEF GcpRules, GcpAddresses, GcpZone, Deletes, cluster
    <3> QED
      BY <3>2, <3>3, <3>4, PartsRemoved
  <2> QED
    BY <1>5, <2>1, <2>2, <2>3, <2>4 DEF Cleanup
<1> QED
  BY <1>1, <1>2, <1>3, <1>4, <1>5 DEF Next

(* Steps that are not of the cleanup leave what is due where it is, or take   *)
(* parts of it away.                                                          *)
LEMMA DueKept ==
  ASSUME DueInv, UNCHANGED <<provider, phase, faulty, names, victims, nets, due>>,
         \A l \in due : setup[l] = "ended" /\ ~Live(l) =>
           setup'[l] = "ended" /\ ~Live(l)' /\ parts'[l] \subseteq parts[l]
  PROVE  DueInv'
<1>1. Chosen' = Chosen
  BY DEF Chosen
<1>2. ASSUME ~faulty, NEW l \in due PROVE Owed(l)'
  <2>1. Owed(l) /\ setup'[l] = "ended" /\ ~Live(l)' /\ parts'[l] \subseteq parts[l]
    BY <1>2 DEF DueInv, Owed
  <2> QED
    BY <1>1, <2>1 DEF Owed, AwsOwed, AzureOwed, GcpOwed
<1> QED
  BY <1>2 DEF DueInv

LEMMA DueOthers ==
  ASSUME IndInv, DueInv, NEW l \in Links, Setup(l) \/ Outside(l) \/ Disconnect(l)
  PROVE  DueInv'
<1> USE DEF IndInv, TypeOK
<1>1. due \subseteq Links /\ due' = due
  BY DEF Setup, SetupStart, Create, CreateFails, Accept, AcceptTooEarly, Outside, Enable, EndService,
         RemoveLink, Drop, Propagate, Disconnect
<1>2. UNCHANGED <<provider, phase, faulty, names, victims, nets>>
  BY DEF Setup, SetupStart, Create, CreateFails, Accept, AcceptTooEarly, Outside, Enable, EndService,
         RemoveLink, Drop, Propagate, Disconnect, cluster, run
<1>3. ASSUME Setup(l), NEW k \in due, setup[k] = "ended", ~Live(k)
      PROVE  setup'[k] = "ended" /\ ~Live(k)' /\ parts'[k] \subseteq parts[k]
  <2>1. k # l
    BY <1>3 DEF Setup, SetupStart, Create, CreateFails, Accept, AcceptTooEarly, Running
  <2>2. setup'[k] = setup[k] /\ conn'[k] = conn[k] /\ parts'[k] = parts[k]
    BY <1>1, <1>3, <2>1 DEF Setup, SetupStart, Create, CreateFails, Accept, AcceptTooEarly, Created, Advance, SetupEnds, link
  <2> QED
    BY <1>3, <2>2 DEF Live
<1>4. ASSUME Outside(l), NEW k \in due, setup[k] = "ended", ~Live(k)
      PROVE  setup'[k] = "ended" /\ ~Live(k)' /\ parts'[k] \subseteq parts[k]
  <2>1. setup'[k] = setup[k] /\ (conn'[k] = conn[k] \/ conn'[k] = "none") /\ parts'[k] \subseteq parts[k]
    BY <1>1, <1>4 DEF Outside, Enable, EndService, RemoveLink, Drop, Unlink, Without, Propagate, link, plan
  <2> QED
    BY <1>4, <2>1 DEF Live
<1>5. ASSUME Disconnect(l), NEW k \in due, setup[k] = "ended", ~Live(k)
      PROVE  setup'[k] = "ended" /\ ~Live(k)' /\ parts'[k] \subseteq parts[k]
  <2>1. setup'[k] = setup[k] /\ (conn'[k] = conn[k] \/ conn'[k] = "dead") /\ parts'[k] = parts[k]
    BY <1>1, <1>5 DEF Disconnect, plan
  <2> QED
    BY <1>5, <2>1 DEF Live
<1> QED
  BY <1>1, <1>2, <1>3, <1>4, <1>5, DueKept

(* What a listing adds to what is due is dead and found.                      *)
LEMMA DueFound ==
  ASSUME IndInv, PartsInv, NEW l \in Links, parts[l] \cap Connected # {}, ~Live(l)
  PROVE  conn[l] = "dead"
  BY DEF IndInv, TypeOK, PartsInv, Live

LEMMA DueAws == ASSUME IndInv, PartsInv, DueInv, AwsList \/ AwsDelete PROVE DueInv'
<1> USE DEF IndInv, TypeOK, cluster, link, plan, run, Turn
<1>1. SUFFICES ASSUME ~faulty, NEW l \in due' PROVE Owed(l)'
  BY DEF DueInv, AwsList, AwsDelete
<1>2. CASE AwsList
  <2>1. l \in due => Owed(l)
    BY <1>1, <1>2 DEF DueInv, AwsList
  <2>2. UNCHANGED <<provider, setup, conn, parts>> /\ phase = "aws" /\ phase' = "aws-delete" /\ Live(l)' = Live(l)
    BY <1>2 DEF AwsList, Live
  <2>3. CASE l \in due
    BY <2>1, <2>2, <2>3 DEF Owed, AwsOwed, AzureOwed, GcpOwed, ZonePhases, GcpPhases
  <2>4. CASE l \notin due
    <3>1. l \in Links /\ provider[l] = "aws" /\ setup[l] = "ended" /\ parts[l] # {} /\ ~Live(l)
      BY <1>2, <2>4 DEF AwsList, Due, In, SetupEnded
    <3>2. "endpoint" \in parts[l]
      BY <3>1, OwnersOf DEF PartsInv
    <3>3. l \in victims'
      BY <1>2, <3>1, <3>2, DueFound DEF AwsList, Found, In, AwsRemovable, Connected
    <3> QED
      BY <2>2, <3>1, <3>3 DEF Owed, AwsOwed, AzureOwed, GcpOwed
  <2> QED
    BY <2>3, <2>4
<1>3. CASE AwsDelete
  <2>1. /\ parts' = [k \in Links |-> IF k \in victims THEN parts[k] \ {"endpoint"} ELSE parts[k]]
        /\ conn' = [k \in Links |-> IF k \in victims THEN "none" ELSE conn[k]]
    BY <1>1, <1>3 DEF AwsDelete
  <2>2. Owed(l) /\ l \in Links
    BY <1>1, <1>3 DEF DueInv, AwsDelete
  <2>3. UNCHANGED <<provider, setup>> /\ phase = "aws-delete" /\ phase' = "azure"
    BY <1>3 DEF AwsDelete
  <2>4. ~Live(l)'
    BY <2>1, <2>2 DEF Owed, Live
  <2>5. CASE provider[l] = "aws"
    <3>1. parts[l] \subseteq {"endpoint"}
      BY <2>2, <2>5, OwnersOf DEF PartsInv
    <3>2. parts'[l] = {}
      BY <2>1, <2>2, <2>3, <2>5, <3>1 DEF Owed, AwsOwed
    <3> QED
      BY <2>2, <2>3, <2>4, <2>5, <3>2 DEF Owed, AwsOwed, AzureOwed, GcpOwed
  <2>6. CASE provider[l] # "aws"
    <3>1. parts'[l] \subseteq parts[l]
      BY <2>1, <2>2
    <3> QED
      BY <2>2, <2>3, <2>4, <2>6, <3>1 DEF Owed, AwsOwed, AzureOwed, GcpOwed, ZonePhases, GcpPhases
  <2> QED
    BY <2>5, <2>6
<1> QED
  BY <1>2, <1>3

LEMMA DueAzureEndpoints == ASSUME IndInv, PartsInv, DueInv, AzureList \/ AzureNames PROVE DueInv'
<1> USE DEF IndInv, TypeOK, cluster, link, plan, run, Turn
<1>1. SUFFICES ASSUME ~faulty, NEW l \in due' PROVE Owed(l)'
  BY DEF DueInv, AzureList, AzureNames
<1>2. UNCHANGED <<provider, setup, conn, parts>> /\ Live(l)' = Live(l)
  BY DEF AzureList, AzureNames, Live
<1>3. l \in due => Owed(l)
  BY <1>1 DEF DueInv, AzureList, AzureNames
<1>4. CASE AzureList
  <2>1. phase = "azure" /\ phase' = "azure-delete"
    BY <1>4 DEF AzureList
  <2>2. CASE l \in due
    BY <1>2, <1>3, <2>1, <2>2 DEF Owed, AwsOwed, AzureOwed, GcpOwed, ZonePhases, GcpPhases
  <2>3. CASE l \notin due
    <3>1. l \in Links /\ provider[l] = "azure" /\ setup[l] = "ended" /\ ~Live(l)
      BY <1>4, <2>3 DEF AzureList, Due, In, SetupEnded
    <3>2. "endpoint" \in parts[l] => l \in victims'
      BY <1>4, <3>1, DueFound DEF AzureList, Found, In, Connected
    <3> QED
      BY <1>2, <2>1, <3>1, <3>2 DEF Owed, AwsOwed, AzureOwed, GcpOwed
  <2> QED
    BY <2>2, <2>3
<1>5. CASE AzureNames
  <2>1. phase = "azure-delete" /\ phase' = "names" /\ victims = {} /\ l \in due
    BY <1>1, <1>5 DEF AzureNames
  <2>2. l \in names' => "endpoint" \in parts[l]
    BY <1>5 DEF AzureNames
  <2> QED
    BY <1>2, <1>3, <2>1, <2>2 DEF Owed, AwsOwed, AzureOwed, GcpOwed, ZonePhases, GcpPhases
<1> QED
  BY <1>4, <1>5

LEMMA DueAzureZones ==
  ASSUME IndInv, PartsInv, DueInv, AzureZones \/ AzureNets \/ AzureUnlinked \/ AzureDone
  PROVE  DueInv'
<1> USE DEF IndInv, TypeOK, cluster, link, plan, run, Turn
<1>1. SUFFICES ASSUME ~faulty, NEW l \in due PROVE Owed(l)'
  BY DEF DueInv, AzureZones, AzureNets, AzureUnlinked, AzureDone
<1>2. UNCHANGED <<provider, setup, conn, parts>> /\ Live(l)' = Live(l)
  BY DEF AzureZones, AzureNets, AzureUnlinked, AzureDone, Live
<1>3. Owed(l) /\ l \in Links
  BY <1>1 DEF DueInv
<1> USE DEF Owed, AwsOwed, AzureOwed, GcpOwed, ZonePhases, GcpPhases
<1>4. CASE AzureZones
  <2>1. phase = "names" /\ phase' = "nets"
    BY <1>4 DEF AzureZones
  <2>2. provider[l] = "azure" /\ "zone" \in parts[l] => l \in victims'
    BY <1>3, <1>4, <2>1 DEF AzureZones, Found, In
  <2> QED
    BY <1>2, <1>3, <2>1, <2>2
<1>5. CASE AzureNets
  <2>1. phase = "nets" /\ phase' = "nets-delete" /\ victims' = victims
    BY <1>5 DEF AzureNets
  <2>2. provider[l] = "azure" /\ "net" \in parts[l] => l \in nets'
    BY <1>3, <1>5, <2>1 DEF AzureNets, PartsInv
  <2> QED
    BY <1>2, <1>3, <2>1, <2>2
<1>6. CASE AzureUnlinked
  <2>1. phase = "nets-delete" /\ phase' = "zones-delete" /\ nets = {} /\ victims' = victims
    BY <1>6 DEF AzureUnlinked
  <2> QED
    BY <1>2, <1>3, <2>1
<1>7. CASE AzureDone
  <2>1. phase = "zones-delete" /\ phase' = "gcp" /\ victims = {}
    BY <1>7 DEF AzureDone
  <2> QED
    BY <1>2, <1>3, <2>1
<1> QED
  BY <1>4, <1>5, <1>6, <1>7

LEMMA DueAzure == ASSUME IndInv, PartsInv, DueInv, NEW k \in Links, Azure(k) PROVE DueInv'
<1> USE DEF IndInv, TypeOK, cluster, plan, Without, Unlink
<1>1. CASE phase' = "failed"
  <2>1. due' = {}
    BY <1>1 DEF Azure, AzureDelete, AzureUnlink, AzureZone, Stop
  <2> QED
    BY <2>1 DEF DueInv
<1>2. CASE phase' # "failed"
  <2>1. UNCHANGED <<provider, setup, faulty, due, phase, names>>
    BY <1>2 DEF Azure, AzureDelete, AzureUnlink, AzureZone, Stop
  <2>2. phase \in {"azure-delete", "nets-delete", "zones-delete"}
    BY DEF Azure, AzureDelete, AzureUnlink, AzureZone
  <2>3. SUFFICES ASSUME ~faulty, NEW l \in due PROVE Owed(l)'
    BY <2>1, <2>2 DEF DueInv
  <2>4. Owed(l) /\ l \in Links
    BY <2>3 DEF DueInv
  <2>5. parts'[l] \subseteq parts[l] /\ (conn'[l] = conn[l] \/ conn'[l] = "none")
    BY <2>4 DEF Azure, AzureDelete, AzureUnlink, AzureZone
  <2>6. ~Live(l)'
    BY <2>4, <2>5 DEF Owed, Live
  <2>7. CASE l # k
    <3>1. (l \in victims => l \in victims') /\ (l \in nets => l \in nets')
      BY <1>2, <2>7 DEF Azure, AzureDelete, AzureUnlink, AzureZone, Stop
    <3> QED
      BY <2>1, <2>2, <2>4, <2>5, <2>6, <3>1 DEF Owed, AwsOwed, AzureOwed, GcpOwed, GcpPhases
  <2>8. CASE l = k
    <3>1. CASE AzureDelete(k)
      <4>1. phase = "azure-delete" /\ "endpoint" \notin parts'[l]
        BY <2>4, <2>8, <3>1 DEF AzureDelete
      <4> QED
        BY <2>1, <2>4, <2>5, <2>6, <4>1 DEF Owed, AwsOwed, AzureOwed, GcpOwed, GcpPhases
    <3>2. CASE AzureUnlink(k)
      <4>1. phase = "nets-delete" /\ "net" \notin parts'[l] /\ victims' = victims
        BY <2>4, <2>8, <3>2 DEF AzureUnlink
      <4> QED
        BY <2>1, <2>4, <2>5, <2>6, <4>1 DEF Owed, AwsOwed, AzureOwed, GcpOwed, GcpPhases
    <3>3. CASE AzureZone(k)
      <4>1. phase = "zones-delete" /\ "zone" \notin parts'[l] /\ nets' = nets
        BY <1>2, <2>4, <2>8, <3>3 DEF AzureZone, Stop
      <4> QED
        BY <2>1, <2>4, <2>5, <2>6, <4>1 DEF Owed, AwsOwed, AzureOwed, GcpOwed, GcpPhases
    <3> QED
      BY <3>1, <3>2, <3>3 DEF Azure
  <2> QED
    BY <2>7, <2>8
<1> QED
  BY <1>1, <1>2

LEMMA DueGcpList == ASSUME IndInv, PartsInv, DueInv, GcpList PROVE DueInv'
<1> USE DEF IndInv, TypeOK, cluster, link, plan, Turn
<1>1. SUFFICES ASSUME ~faulty, NEW l \in due' PROVE Owed(l)'
  BY DEF DueInv, GcpList
<1>2. UNCHANGED <<provider, setup, conn, parts>> /\ Live(l)' = Live(l) /\ phase = "gcp" /\ phase' = "gcp-rules"
  BY DEF GcpList, Live
<1>3. CASE l \in due
  <2>1. Owed(l)
    BY <1>1, <1>3 DEF DueInv, GcpList
  <2> QED
    BY <1>2, <2>1 DEF Owed, AwsOwed, AzureOwed, GcpOwed, ZonePhases, GcpPhases
<1>4. CASE l \notin due
  <2>1. l \in Links /\ provider[l] = "gcp" /\ setup[l] = "ended" /\ Leftover(l) /\ ~Live(l)
    BY <1>4 DEF GcpList, In, SetupEnded
  <2>2. parts[l] \cap Connected # {}
    BY <2>1 DEF Leftover, Connected, Rules
  <2>3. l \in victims'
    BY <2>1, <2>2, DueFound DEF GcpList, Found, In
  <2> QED
    BY <1>2, <2>1, <2>3 DEF Owed, AwsOwed, AzureOwed, GcpOwed, GcpPhases
<1> QED
  BY <1>3, <1>4

(* One link of GCP at a time: its rules, then all its addresses, as no rule   *)
(* uses them any more, then its zone.                                         *)
LEMMA DueGcp == ASSUME IndInv, PartsInv, DueInv, GcpRules \/ GcpAddresses \/ GcpZone PROVE DueInv'
<1> USE DEF IndInv, TypeOK, cluster, plan, run, Turn
<1>1. SUFFICES ASSUME ~faulty, NEW l \in due PROVE Owed(l)'
  BY DEF DueInv, GcpRules, GcpAddresses, GcpZone
<1>2. Owed(l) /\ l \in Links
  BY <1>1 DEF DueInv
<1>3. UNCHANGED <<provider, setup>> /\ phase \in GcpPhases /\ phase' \in GcpPhases
  BY DEF GcpRules, GcpAddresses, GcpZone, GcpPhases
<1>4. Chosen \in victims /\ Chosen \in Links
  BY DEF Chosen, GcpRules, GcpAddresses, GcpZone, VictimsInv
<1>5. parts'[l] \subseteq parts[l] /\ (conn'[l] = conn[l] \/ conn'[l] = "none")
  BY <1>2, <1>4 DEF GcpRules, GcpAddresses, GcpZone, Deletes, Without, Unlink
<1>6. ~Live(l)'
  BY <1>2, <1>5 DEF Owed, Live
<1>7. AwsOwed(l)' /\ AzureOwed(l)'
  BY <1>2, <1>3, <1>5 DEF Owed, AwsOwed, AzureOwed, GcpPhases, ZonePhases
<1>8. ASSUME provider[l] = "gcp", GcpRules \/ GcpAddresses PROVE GcpOwed(l)'
  <2>1. victims' = victims /\ Chosen' = Chosen
    BY <1>8 DEF GcpRules, GcpAddresses, Chosen
  <2>2. parts[l] = {} \/ l \in victims
    BY <1>2, <1>8 DEF Owed, GcpOwed
  <2>3. ASSUME GcpRules, l = Chosen PROVE parts'[l] \cap Rules = {} /\ phase' = "gcp-addresses"
    BY <1>1, <1>2, <2>3 DEF GcpRules, Deletes, Without
  <2>4. ASSUME GcpAddresses, l = Chosen PROVE parts'[l] \subseteq {"zone"} /\ phase' = "gcp-zone"
    <3>1. parts[l] \cap Rules = {}
      BY <1>2, <1>8, <2>4 DEF Owed, GcpOwed, GcpAddresses
    <3>2. parts[l] \subseteq {"zone", "address", "address2"}
      BY <1>2, <1>8, <3>1, OwnersOf DEF PartsInv, Rules
    <3>3. AddressOf["rule"] = "address" /\ AddressOf["rule2"] = "address2"
      BY DEF AddressOf
    <3>4. Unused(l) = parts[l] \cap {"address", "address2"}
      BY <3>1, <3>3 DEF Unused, Rules
    <3>5. parts'[l] = parts[l] \ Unused(l) /\ phase' = "gcp-zone"
      BY <1>1, <1>2, <2>4 DEF GcpAddresses, Deletes, Without
    <3> QED
      BY <3>2, <3>4, <3>5
  <2>5. (GcpRules => phase' = "gcp-addresses") /\ (GcpAddresses => phase' = "gcp-zone")
    BY DEF GcpRules, GcpAddresses
  <2> QED
    BY <1>3, <1>5, <1>8, <2>1, <2>2, <2>3, <2>4, <2>5 DEF GcpOwed
<1>9. ASSUME provider[l] = "gcp", GcpZone PROVE GcpOwed(l)'
  <2>1. phase = "gcp-zone" /\ phase' = "gcp-rules" /\ victims' = victims \ {Chosen}
    BY <1>9 DEF GcpZone
  <2>2. parts' = Without(Chosen, {"zone"})
    BY <1>1, <1>9 DEF GcpZone
  <2>3. CASE l = Chosen
    <3>1. parts[l] \subseteq {"zone"}
      BY <1>2, <1>9, <2>1, <2>3 DEF Owed, GcpOwed
    <3>2. parts'[l] = {}
      BY <1>2, <2>2, <2>3, <3>1 DEF Without
    <3> QED
      BY <2>1, <3>2 DEF GcpOwed
  <2>4. CASE l # Chosen
    <3>1. parts[l] = {} \/ l \in victims
      BY <1>2, <1>9 DEF Owed, GcpOwed
    <3> QED
      BY <1>3, <1>5, <2>1, <2>4, <3>1 DEF GcpOwed
  <2> QED
    BY <2>3, <2>4
<1> QED
  BY <1>2, <1>3, <1>6, <1>7, <1>8, <1>9 DEF Owed, GcpOwed

LEMMA DueInd == ASSUME IndInv, PartsInv, DueInv, [Next]_vars PROVE DueInv'
<1>1. CASE UNCHANGED vars
  BY <1>1, DueKept DEF vars, cluster, link, plan, run, Live
<1>2. CASE CleanupFails \/ \E fails \in BOOLEAN : CleanupAgain(fails)
  <2>1. due' = {}
    BY <1>2 DEF CleanupFails, CleanupAgain, Stop, DueInv
  <2> QED
    BY <2>1 DEF DueInv
<1>3. ASSUME NEW l \in Links, Setup(l) \/ Outside(l) \/ Disconnect(l) PROVE DueInv'
  BY <1>3, DueOthers
<1>4. CASE GcpDone
  BY <1>4 DEF GcpDone, Stop, DueInv
<1>5. CASE Cleanup /\ ~GcpDone
  BY <1>5, DueAws, DueAzureEndpoints, DueAzureZones, DueAzure, DueGcpList, DueGcp DEF Cleanup
<1> QED
  BY <1>1, <1>2, <1>3, <1>4, <1>5 DEF Next

(* A cleanup of which no call fails leaves nothing of a link that was dead    *)
(* and no longer being set up when its provider's turn came, whatever         *)
(* setup-link, removals and the clouds do to other links meanwhile.           *)
THEOREM CleanupIsComplete == Spec => CleanRunIsComplete
<1>1. Init => PartsInv /\ DueInv
  BY DEF Init, PartsInv, DueInv
<1>2. IndInv /\ PartsInv /\ DueInv /\ [Next]_vars => PartsInv' /\ DueInv'
  BY PartsInd, DueInd
<1>3. IndInv /\ PartsInv /\ DueInv /\ [Next]_vars =>
        [phase' = "ok" /\ ~faulty => \A l \in due : parts'[l] = {}]_phase
  <2> SUFFICES ASSUME IndInv, PartsInv, DueInv, [Next]_vars, phase' # phase, phase' = "ok", ~faulty, NEW l \in due
               PROVE  parts'[l] = {}
    OBVIOUS
  <2>1. GcpDone
    <3>1. ~CleanupFails /\ ~(UNCHANGED vars) /\ ~(\E fails \in BOOLEAN : CleanupAgain(fails))
      BY DEF CleanupFails, CleanupAgain, Stop, vars
    <3>2. ASSUME NEW k \in Links, Setup(k) \/ Outside(k) \/ Disconnect(k) PROVE FALSE
      BY <3>2 DEF Setup, SetupStart, Create, CreateFails, Accept, AcceptTooEarly, Outside, Enable, EndService,
                  RemoveLink, Drop, Propagate, Disconnect
    <3>3. ~AwsList /\ ~AwsDelete /\ ~AzureList /\ ~AzureNames /\ ~AzureZones /\ ~AzureNets /\ ~AzureUnlinked /\ ~AzureDone
      BY DEF AwsList, AwsDelete, AzureList, AzureNames, AzureZones, AzureNets, AzureUnlinked, AzureDone, Turn
    <3>4. ~GcpList /\ ~GcpRules /\ ~GcpAddresses /\ ~GcpZone
      BY DEF GcpList, GcpRules, GcpAddresses, GcpZone, Turn
    <3>5. \A k \in Links : ~Azure(k)
      BY DEF Azure, AzureDelete, AzureUnlink, AzureZone, Stop
    <3> QED
      BY <3>1, <3>2, <3>3, <3>4, <3>5 DEF Next, Cleanup
  <2>2. phase = "gcp-rules" /\ victims = {} /\ parts' = parts
    BY <2>1 DEF GcpDone, link
  <2>3. Owed(l) /\ l \in Links /\ provider[l] \in {"aws", "azure", "gcp"}
    BY DEF DueInv, IndInv, TypeOK
  <2>4. provider[l] = "azure" => parts[l] = {}
    <3>1. provider[l] = "azure" => "endpoint" \notin parts[l] /\ "zone" \notin parts[l] /\ "net" \notin parts[l]
      BY <2>2, <2>3 DEF Owed, AzureOwed, ZonePhases
    <3> QED
      BY <2>3, <3>1, OwnersOf DEF PartsInv
  <2> QED
    BY <2>2, <2>3, <2>4 DEF Owed, AwsOwed, GcpOwed
<1> QED
  BY <1>1, <1>2, <1>3, Invariance, PTL DEF Spec, CleanRunIsComplete
=============================================================================
