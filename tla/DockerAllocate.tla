--------------------------- MODULE DockerAllocate ---------------------------
(***************************************************************************)
(* Allocation of a cluster on a Docker host: newCluster of                 *)
(* deployment/dockerdeploy and the DeployNode, RemoveNode, ListNodes and   *)
(* WriteNodeState calls of its controller.                                 *)
(*                                                                         *)
(* The main goroutine deploys the auxiliary containers (S3 mock, nginx,    *)
(* haproxy), starts one goroutine per node, collects their results over an *)
(* unbuffered channel, joins the nodes into a cluster and returns.  After  *)
(* the node goroutines exist, an error runs the deferred cleanupNodes; the *)
(* process then exits, whatever its goroutines are doing.                  *)
(***************************************************************************)
EXTENDS Naturals, Sequences, Functions

CONSTANTS
    Node,       \* the node containers of the definition
    S3Mock, Nginx, Haproxy,
    DefSeq,     \* Node, in the order in which the definition lists them
    Defs        \* the definitions that may be asked for

Aux == {S3Mock, Nginx, Haproxy}
Container == Node \union Aux

DefRecords ==
    [columnar : BOOLEAN, passive : BOOLEAN, active : BOOLEAN,
     expires : BOOLEAN, version : [Node -> Nat]]

ASSUME NodeAssumption ==
    /\ Node # {}
    /\ Node \intersect Aux = {}
    /\ S3Mock # Nginx /\ S3Mock # Haproxy /\ Nginx # Haproxy

ASSUME DefSeqAssumption ==
    DefSeq \in Seq(Node) /\ IsInjective(DefSeq) /\ Range(DefSeq) = Node

ASSUME DefsAssumption == Defs \subseteq DefRecords

VARIABLES
    def,        \* the definition, chosen once
    main,       \* where the main goroutine is
    worker,     \* where the goroutine of each node is
    box,        \* each container on the Docker host
    record,     \* the /var/cbdyncluster/state file in each container
    nodes,      \* the shared slice the goroutines append to
    header,     \* the slice a goroutine has read but not yet written back
    listed,     \* the containers cleanupNodes has still to remove
    missed,     \* those whose removal failed, or all if they were not listed
    cleaned,    \* cleanupNodes has run
    joined,     \* the nodes set up; the k-th with the group of DefSeq[k]
    result

vars == <<def, main, worker, box, record, nodes, header, listed, missed,
          cleaned, joined, result>>

hostVars == <<box, record>>
sliceVars == <<nodes, header>>
cleanupVars == <<listed, missed, cleaned>>

-----------------------------------------------------------------------------
\* The containers the chosen definition needs.
Required ==
    Node \union (IF def.columnar THEN {S3Mock} ELSE {})
         \union (IF def.passive THEN {Nginx} ELSE {})
         \union (IF def.active THEN {Haproxy} ELSE {})

\* What WriteNodeState stores: a zero time never expires.
NewRecord == IF def.expires THEN "dated" ELSE "forever"

Running == main # "exited"

Init ==
    /\ def \in Defs
    /\ main = "s3mock"
    /\ worker = [n \in Node |-> "idle"]
    /\ box = [c \in Container |-> "absent"]
    /\ record = [c \in Container |-> "none"]
    /\ nodes = <<>>
    /\ header = [n \in Node |-> <<>>]
    /\ listed = {} /\ missed = {} /\ cleaned = FALSE
    /\ joined = <<>>
    /\ result = "none"

-----------------------------------------------------------------------------
(* Before the node goroutines: an error returns with no cleanup deferred.  *)

\* Validation of the definition: nothing has been deployed.
Reject ==
    /\ main = "s3mock"
    /\ main' = "exited" /\ result' = "err"
    /\ UNCHANGED <<def, worker, hostVars, sliceVars, cleanupVars, joined>>

\* The states a failed deployment of an auxiliary container may leave it in.
Partial == {<<"absent", "none">>, <<"created", "none">>,
            <<"running", "none">>, <<"running", NewRecord>>}

DeployAux(here, wanted, c, next) ==
    /\ main = here
    /\ \/ /\ ~wanted
          /\ main' = next
          /\ UNCHANGED <<hostVars, result>>
       \/ /\ wanted
          /\ box' = [box EXCEPT ![c] = "running"]
          /\ record' = [record EXCEPT ![c] = NewRecord]
          /\ main' = next
          /\ UNCHANGED result
       \/ /\ wanted
          /\ \E left \in Partial :
                /\ box' = [box EXCEPT ![c] = left[1]]
                /\ record' = [record EXCEPT ![c] = left[2]]
          /\ main' = "exited" /\ result' = "err"
    /\ UNCHANGED <<def, worker, sliceVars, cleanupVars, joined>>

DeployS3MockNode == DeployAux("s3mock", def.columnar, S3Mock, "nginx")
DeployNginxNode == DeployAux("nginx", def.passive, Nginx, "haproxy")
DeployHaproxyNode == DeployAux("haproxy", def.active, Haproxy, "images")

\* Mutant: a goroutine is started for each image, not for each node.
GetImagesEach ==
    /\ main = "images"
    /\ main' = "collect"
    /\ worker' = [n \in Node |->
                     IF \E i \in DOMAIN DefSeq :
                           DefSeq[i] = n /\ \A j \in 1 .. i - 1 : def.version[DefSeq[j]] # def.version[n]
                     THEN "create" ELSE "idle"]
    /\ UNCHANGED <<def, hostVars, sliceVars, cleanupVars, joined, result>>

\* Fetch the images, then start every node goroutine.
GetImages ==
    /\ main = "images"
    /\ \/ /\ main' = "collect"
          /\ worker' = [n \in Node |-> "create"]
          /\ UNCHANGED result
       \/ /\ main' = "exited" /\ result' = "err"
          /\ UNCHANGED worker
    /\ UNCHANGED <<def, hostVars, sliceVars, cleanupVars, joined>>

-----------------------------------------------------------------------------
(* A node goroutine: DeployNode, the append, the send.                     *)

Advance(n, from, to) ==
    /\ Running
    /\ worker[n] = from
    /\ worker' = [worker EXCEPT ![n] = to]
    /\ UNCHANGED <<def, main, cleanupVars, joined, result>>

ContainerCreate(n) ==
    /\ Advance(n, "create", "start")
    /\ box' = [box EXCEPT ![n] = "created"]
    /\ UNCHANGED <<record, sliceVars>>

ContainerStart(n) ==
    /\ Advance(n, "start", "write")
    /\ box[n] = "created"
    /\ box' = [box EXCEPT ![n] = "running"]
    /\ UNCHANGED <<record, sliceVars>>

\* Mutant: the state file holds the lifetime asked for, not the expiry.
WriteNodeStateLifetime(n) ==
    /\ Advance(n, "write", "find")
    /\ box[n] # "absent"
    /\ record' = [record EXCEPT ![n] = IF def.expires THEN "lifetime" ELSE "forever"]
    /\ UNCHANGED <<box, sliceVars>>

WriteNodeState(n) ==
    /\ Advance(n, "write", "find")
    /\ box[n] # "absent"
    /\ record' = [record EXCEPT ![n] = NewRecord]
    /\ UNCHANGED <<box, sliceVars>>

\* ListNodes, and the search for the container just created.
FindContainer(n) ==
    /\ Advance(n, "find", "online")
    /\ box[n] # "absent"
    /\ UNCHANGED <<hostVars, sliceVars>>

WaitForOnline(n) ==
    /\ Advance(n, "online", "load")
    /\ box[n] = "running"
    /\ UNCHANGED <<hostVars, sliceVars>>

\* Any of DeployNode's calls may fail; the container stays as it is.
DeployFails(n) ==
    /\ \E from \in {"create", "start", "write", "find", "online"} :
          Advance(n, from, "sendErr")
    /\ UNCHANGED <<hostVars, sliceVars>>

\* nodes = append(nodes, node): a read of the shared slice ...
LoadSlice(n) ==
    /\ Advance(n, "load", "store")
    /\ header' = [header EXCEPT ![n] = nodes]
    /\ UNCHANGED <<hostVars, nodes>>

\* ... and a write, with no lock between the two.
StoreSlice(n) ==
    /\ Advance(n, "store", "sendOk")
    /\ nodes' = Append(header[n], n)
    /\ header' = [header EXCEPT ![n] = <<>>]
    /\ UNCHANGED hostVars

-----------------------------------------------------------------------------
(* The main goroutine, from the receive loop to the return.                *)

\* Mutant: the loop stops at the first result.
ReceiveOkOnce(n) ==
    /\ main = "collect" /\ worker[n] = "sendOk"
    /\ worker' = [worker EXCEPT ![n] = "done"]
    /\ main' = "configure"
    /\ UNCHANGED <<def, hostVars, sliceVars, cleanupVars, joined, result>>

\* The channel is unbuffered: a goroutine passes its send when main receives.
\* Each goroutine sends once, so the loop has counted its len(nodeOpts)
\* results when every goroutine is done.
ReceiveOk(n) ==
    /\ main = "collect" /\ worker[n] = "sendOk"
    /\ worker' = [worker EXCEPT ![n] = "done"]
    /\ main' = IF \A m \in Node \ {n} : worker[m] = "done"
               THEN "configure" ELSE "collect"
    /\ UNCHANGED <<def, hostVars, sliceVars, cleanupVars, joined, result>>

ReceiveErr(n) ==
    /\ main = "collect" /\ worker[n] = "sendErr"
    /\ worker' = [worker EXCEPT ![n] = "done"]
    /\ main' = "cleanupList" /\ result' = "err"
    /\ UNCHANGED <<def, hostVars, sliceVars, cleanupVars, joined>>

\* getCluster, certificates, DNS records, load balancer configuration.
Configure ==
    /\ main = "configure"
    /\ main' = "setup"
    /\ UNCHANGED <<def, worker, hostVars, sliceVars, cleanupVars, joined, result>>

\* Mutant: the nodes are sorted by IP address only.
IsAddressOrder(order) ==
    /\ Len(order) = Len(nodes)
    /\ Range(order) = Range(nodes)

\* SortFunc by version, then by IP address; Docker hands out the addresses,
\* so nodes of one version may come in any order.
IsSetupOrder(order) ==
    /\ Len(order) = Len(nodes)
    /\ Range(order) = Range(nodes)
    /\ \A i, j \in DOMAIN order :
          i < j => def.version[order[i]] <= def.version[order[j]]

\* The k-th node of the sorted slice gets the k-th node group.
SetupNewCluster ==
    /\ main = "setup"
    /\ \E order \in [DOMAIN nodes -> Node] :
          /\ IsSetupOrder(order)
          /\ joined' = order
    /\ main' = "auth"
    /\ UNCHANGED <<def, worker, hostVars, sliceVars, cleanupVars, result>>

\* Mutant: the deferred cleanup runs on success as well.
FinishCleaning ==
    /\ main = "auth"
    /\ main' = "cleanupList" /\ result' = "ok"
    /\ UNCHANGED <<def, worker, hostVars, sliceVars, cleanupVars, joined>>

\* Client certificate and JWT authentication, then a normal return.
Finish ==
    /\ main = "auth"
    /\ main' = "exited" /\ result' = "ok"
    /\ UNCHANGED <<def, worker, hostVars, sliceVars, cleanupVars, joined>>

\* Any error after the collection returns through the deferred cleanup.
FailLate ==
    /\ main \in {"configure", "setup", "auth"}
    /\ main' = "cleanupList" /\ result' = "err"
    /\ UNCHANGED <<def, worker, hostVars, sliceVars, cleanupVars, joined>>

-----------------------------------------------------------------------------
(* cleanupNodes, and the end of the process.                               *)

\* Mutant: only running containers are listed.
CleanupListRunning ==
    /\ main = "cleanupList"
    /\ cleaned' = TRUE
    /\ \/ /\ listed' = {c \in Container : box[c] = "running"}
          /\ main' = "cleanup"
          /\ UNCHANGED missed
       \/ /\ missed' = Container
          /\ main' = "exited"
          /\ UNCHANGED listed
    /\ UNCHANGED <<def, worker, hostVars, sliceVars, joined, result>>

\* The error of ListNodes is dropped: nothing is removed then.
CleanupList ==
    /\ main = "cleanupList"
    /\ cleaned' = TRUE
    /\ \/ /\ listed' = {c \in Container : box[c] # "absent"}
          /\ main' = "cleanup"
          /\ UNCHANGED missed
       \/ /\ missed' = Container
          /\ main' = "exited"
          /\ UNCHANGED listed
    /\ UNCHANGED <<def, worker, hostVars, sliceVars, joined, result>>

\* RemoveNode, its error dropped.  A stopped container disappears, except
\* haproxy, the one created without AutoRemove.
CleanupRemove(c) ==
    /\ main = "cleanup" /\ c \in listed
    /\ listed' = listed \ {c}
    /\ \/ /\ box' = [box EXCEPT ![c] = "absent"]
          /\ record' = [record EXCEPT ![c] = "none"]
          /\ UNCHANGED missed
       \/ /\ \/ UNCHANGED box
             \/ c = Haproxy /\ box' = [box EXCEPT ![c] = "created"]
          /\ missed' = missed \union {c}
          /\ UNCHANGED record
    /\ UNCHANGED <<def, main, worker, sliceVars, cleaned, joined, result>>

CleanupDone ==
    /\ main = "cleanup" /\ listed = {}
    /\ main' = "exited"
    /\ UNCHANGED <<def, worker, hostVars, sliceVars, cleanupVars, joined, result>>

\* An interrupt: no signal is handled, so no deferred call runs.
Kill ==
    /\ Running
    /\ main' = "exited" /\ result' = "killed"
    /\ UNCHANGED <<def, worker, hostVars, sliceVars, cleanupVars, joined>>

Exited == ~Running /\ UNCHANGED vars

-----------------------------------------------------------------------------
Deploy(n) ==
    \/ ContainerCreate(n) \/ ContainerStart(n) \/ WriteNodeState(n)
    \/ FindContainer(n) \/ WaitForOnline(n) \/ DeployFails(n)
    \/ LoadSlice(n) \/ StoreSlice(n)

Main ==
    \/ Reject \/ DeployS3MockNode \/ DeployNginxNode \/ DeployHaproxyNode
    \/ GetImages
    \/ \E n \in Node : ReceiveOk(n) \/ ReceiveErr(n)
    \/ Configure \/ SetupNewCluster \/ Finish \/ FailLate
    \/ CleanupList \/ (\E c \in Container : CleanupRemove(c)) \/ CleanupDone

Next ==
    \/ Main
    \/ \E n \in Node : Deploy(n)
    \/ Kill
    \/ Exited

Spec == Init /\ [][Next]_vars

\* Goroutines are scheduled, Docker answers, and a started node comes online
\* (WaitForOnline polls without a limit).
Fairness == WF_vars(Main) /\ \A n \in Node : WF_vars(Deploy(n))

FairSpec == Spec /\ Fairness
-----------------------------------------------------------------------------
(* Properties.                                                             *)

Phase ==
    CASE main \in {"cleanupList", "cleanup"} -> "undoing"
      [] main = "exited" /\ result = "ok" -> "ready"
      [] main = "exited" /\ result # "ok" -> "failed"
      [] OTHER -> "building"

Up == {c \in Container : box[c] = "running"}

Contract == INSTANCE AllocateContract WITH
    required <- Required, phase <- Phase, up <- Up

\* The allocation keeps the contract: it succeeds only with every required
\* container running, removes only after it gave up, and is still at the end.
RefinesContract == Contract!Spec

WorkerStates == {"idle", "create", "start", "write", "find", "online", "load",
                 "store", "sendOk", "sendErr", "done"}
MainStates == {"s3mock", "nginx", "haproxy", "images", "collect", "configure",
               "setup", "auth", "cleanupList", "cleanup", "exited"}

\* Every variable has its type.
TypeOK ==
    /\ def \in Defs
    /\ main \in MainStates
    /\ worker \in [Node -> WorkerStates]
    /\ box \in [Container -> {"absent", "created", "running"}]
    /\ record \in [Container -> {"none", "dated", "forever"}]
    /\ nodes \in Seq(Node)
    /\ header \in [Node -> Seq(Node)]
    /\ listed \in SUBSET Container
    /\ missed \in SUBSET Container
    /\ cleaned \in BOOLEAN
    /\ joined \in Seq(Node)
    /\ result \in {"none", "ok", "err", "killed"}

\* newCluster returns without an error only when every goroutine has finished,
\* exactly the required containers exist, all running, and each carries the
\* expiry record that lets Cleanup reclaim it.
SuccessDeploysEveryNode ==
    result = "ok" =>
        /\ \A n \in Node : worker[n] = "done"
        /\ \A c \in Required : box[c] = "running" /\ record[c] = NewRecord
        /\ \A c \in Container \ Required : box[c] = "absent"

\* The unlocked append loses nodes but never invents or repeats one: whatever
\* the interleaving, the slice names distinct nodes that DeployNode returned.
NodesAppendedOnce ==
    /\ IsInjective(nodes)
    /\ \A n \in Range(nodes) : worker[n] \in {"sendOk", "done"}

\* SetupNewCluster takes Nodes[0] and the loop before it nodeNodeGrps[nodeIdx]:
\* however many appends were lost, neither index is out of range.
SetupIndexesInRange ==
    main = "setup" => Len(nodes) \in 1 .. Len(DefSeq)

\* When a failed allocation has run its cleanup, a container that is still
\* there, and whose removal did not fail, belongs to a goroutine that was still
\* to create it when cleanupNodes listed the host, and whose result is lost.
LeftoverIsStraggler ==
    (main = "exited" /\ result = "err" /\ cleaned) =>
        \A c \in Container \ missed :
            box[c] # "absent" =>
                c \in Node /\ worker[c] \notin {"idle", "create", "done"}

\* A definition that lists its node groups oldest version first gives each
\* node that joins a group of the version it runs, if no append was lost.
AscendingDefinitionKeepsGroups ==
    LET version == def.version
        ascending == \A i, j \in DOMAIN DefSeq :
                        i < j => version[DefSeq[i]] <= version[DefSeq[j]]
    IN  (ascending /\ Len(joined) = Len(DefSeq)) =>
            \A k \in DOMAIN joined : version[joined[k]] = version[DefSeq[k]]

\* The command ends: no goroutine, removal or full channel holds it for ever.
Terminates == <>(main = "exited")

\* What the documentation says of every successful allocation.  The README
\* allocates "a simple local 3-node cluster": all nodes become members.
EveryNodeJoins == result = "ok" => Range(joined) = Node
=============================================================================
