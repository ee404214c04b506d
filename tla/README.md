# A TLA+ model of cbdinocluster

cbdinocluster allocates, changes, disturbs and reclaims Couchbase clusters: as
containers on a Docker host, in Capella, in Kubernetes, or on the local
machine. Each command is one process that keeps no state of its own. The state
is in the Docker host, in a file inside each container, in iptables, in the
Couchbase cluster, or in the cloud account, and several commands may work on it
at once. That is where the interesting behaviour is, and what this project
models.

1. [The system](#1-the-system)
2. [The modules](#2-the-modules)
3. [What the runs show](#3-what-the-runs-show)
4. [What is proved](#4-what-is-proved)
5. [Disagreements found](#5-disagreements-found)
6. [Abstractions and assumptions](#6-abstractions-and-assumptions)
7. [Not modelled, and the plan](#7-not-modelled-and-the-plan)

Run a configuration with `tlc -config DockerAllocate.cfg MCDockerAllocate`
and the proofs with `tlapm DockerAllocate_proofs.tla`. `PROJECT.json` has the
machine-readable side: each run with its properties, each definition with the
lines of the source it stands for, the hazards, the theorems, and for each
property one mutant, an operator of the module that changes a mapped definition
the way a plausible bug would and that must break the property.

## 1. The system

### 1.1 The components

**Docker cluster allocation** (`newCluster` in
`deployment/dockerdeploy/deployer_newaddremove.go`, with `DeployNode`,
`RemoveNode`, `ListNodes`, `WriteNodeState` of `controller.go`).
*State*: the containers of the host, the state file in each, and in memory the
slice of deployed nodes. *Operations*: validate the definition; deploy an S3
mock, an nginx and a haproxy if the definition asks for them; fetch the images;
start one goroutine per node, each of which creates and starts a container,
writes its state file, finds it and waits until it is online, appends it to the
shared slice and sends its error on an unbuffered channel; collect the results;
configure; sort the nodes; set the cluster up. From the image lookup on, an
error runs a deferred cleanup that lists the host and removes the containers of
this cluster. *Hard*: the goroutines append without a lock; the loop returns at
the first error while the other goroutines go on; the cleanup takes a snapshot
of a host that still changes; the process exits without waiting. *Correct when*:
success means that all required containers are up and can be reclaimed, every
node has joined with the services of its own group, and failure leaves nothing.

**Docker cluster expiry** (`UpdateClusterExpiry`, `Cleanup`, `AddNode` in
`deployer.go`, `listClusters` in `deployer_clusterinfo.go`, `addRemoveNodes`,
`UpdateExpiry`, `ReadNodeState`).
*State*: one expiry per container, in its state file; the clock. *Operations*:
`refresh` rewrites the files one by one and stops at the first error; `cleanup`
reads all files, then removes the containers that are expired; `nodes add`
gives a new container the time the cluster has left. *Hard*: three commands,
no lock, a read and a write of the same files at different times; zero means
"never"; a file may be missing, or a read of it fail. *Correct when*: what is
removed is expired, what is expired is removed in the end, and a node lives as
long as its cluster.

**Cluster identification** (`IdentifyCluster` in `cmd/cmdhelper.go`), the first
step of nearly every command. *State*: a wait group, a channel of capacity one,
a context. *Operations*: one goroutine per deployer lists its clusters and
sends the matches, one closes the channel, main takes the first match and
cancels the rest. *Hard*: error paths, a closer that depends on all goroutines,
cancellation racing with answers. *Correct when*: the answer is a listed
cluster, "not found" is only said when it is true, nothing is sent on a closed
channel, and the command ends.

**Docker chaos commands** (`BlockNodeTraffic`, `AllowNodeTraffic`,
`PartitionNodeTraffic`, `PauseNode`, `UnpauseNode`, `KillCouchbase` in
`deployer.go`, `SetTrafficControl` in `controller.go`). *State*: the iptables
of each container, and whether it is paused. *Operations*: flush the chains of
one container after the other and append rules to them. *Hard*: the first rule
that matches decides, so the order is the meaning; the rules are appended one
by one and each may fail. *Correct when*: a block blocks what it says and spares
the rest, at every moment, and a partition cuts exactly what lies across it.

**Docker node membership** (`addRemoveNodes`, `ModifyCluster`, `AddNode`,
`RemoveNode`, `deployer_rebalance.go`, `deployer_dns.go`, `deployer_lb.go`).
*State*: the members of the Couchbase cluster, the DNS records, the backends of
the load balancers, the containers. *Operations*: deploy and register new nodes,
shrink the DNS records and the passive load balancer, rebalance, remove the old
containers, refresh the load balancers. *Hard*: four stores changed one after
the other with no rollback; the order decides what a client sees in between.
*Correct when*: a client is never sent to a node that is not a member, and a
failure leaves a state that a retry repairs.

**Server cluster control** (`utils/clustercontrol`). *State*: the Couchbase
cluster itself. *Operations*: set up, add, fail over, rebalance with retries
(`RebalanceWithRetry`), wait for tasks. *Hard*: polling without limits, retries
after a lost answer, a set of nodes read before it is used. *Correct when*: the
call returns without an error only if the cluster is balanced without the
ejected nodes.

**Cloud deployer and Capella control** (`deployment/clouddeploy`,
`utils/capellacontrol`, `utils/capellav4`). *State*: projects, clusters and
columnar instances in Capella; the identifier and the expiry of a cluster are
part of its project's name. *Operations*: create a project and then a cluster in
it, poll until it is healthy, find it again by listing everything; rename the
project to change the expiry; change the nodes and then the version, with two
waits each; delete the cluster, wait, delete the project; do that to all
projects (`removeall`) or to those that are empty or expired (`cleanup`).
*Hard*: nothing is rolled back; the waits poll without a limit and some on one
page of a list; a cleanup acts on what it has listed, while projects are
created, renamed and removed; a request of the old API is repeated after a
renewed login. *Correct when*: what is not expired stays, a project is asked for
only after its clusters, a cluster is created once, and whatever a failure
leaves is reclaimed in the end.

**CAO deployer** (`deployment/caodeploy`, `utils/caocontrol`). *State*: a
namespace per cluster, with its expiry as a label, an operator, a
`CouchbaseCluster` resource, a gateway (CNG), routes or Istio services; the
resource definitions and the admission controller for all. *Operations*: create
these one by one and wait until the cluster has looked available for 15 seconds;
change the resource and wait again; enable and disable ingresses; strip the
finalizers and delete the namespaces of one, all or the expired clusters;
replace the resource definitions; replace the admission controller. *Hard*: the
operator works when it likes, and a cluster looks available before it begins
and between two pieces of work; finalizers block the deletion of a namespace
whose operator is gone; nothing that exists can be created again. *Correct
when*: a wait that succeeds has seen the work done, what is enabled can be used,
and what is expired goes.

**Private endpoint controllers** (`utils/awscontrol`, `utils/azurecontrol`,
`utils/gcpcontrol`, `cmd/privateendpoints-*.go`, `cmd/cleanup.go`). *State*: in
the user's own cloud account endpoints, addresses, forwarding rules, DNS zones
and their network links; in Capella the list of endpoints that connect.
*Operations*: enable the service; `setup-link`, which creates the parts of a
link one after the other and has Capella accept it in between; the cleaners of
the three clouds, run in a fixed order after the one that removes clusters.
*Hard*: what a failed setup leaves must be found by a tag, a name or the state
of a connection; the cleaners list first and remove later, while links are set
up. *Correct when*: nothing in use or being set up is removed, and what is dead
is found and removed completely.

**Local deployer** (`deployment/localdeploy`): one macOS application.
**Commands** (`cmd/`): flags, the order in which `cleanup` calls the deployers,
the concurrent `list`. **Docker DNS and certificates, Docker images, setup and
configuration, definitions and versions, the certificate authority, file,
archive and web helpers**: sequential code, parsing or pure input and output.

### 1.2 How they interact

```
 allocate ──▶ newCluster ──┬─ goroutine per node ──▶ Docker host, state files
                           └─ SetupNewCluster ─────▶ Couchbase cluster
 every other command ──▶ IdentifyCluster ──▶ ListClusters of every deployer
 refresh ──▶ UpdateClusterExpiry ──▶ state files ◀── Cleanup ◀── cleanup
 nodes add ─▶ AddNode ─▶ listClusters (reads state files) ─▶ DeployNode (writes one)
 chaos ──▶ SetTrafficControl ──▶ iptables of a container

 allocate, refresh, modify, remove ─┬─ clouddeploy ──▶ Capella: projects, clusters
 removeall, cleanup ────────────────┤                       ▲ accept, list
 setup-link ───────────────────────────────────────────┬────┘
 cleanup ─▶ docker, cloud, aws, azure, gcp ────────────┴──▶ the user's cloud account
                                    └─ caodeploy ──▶ Kubernetes ◀── operator
 tools-cao ──▶ caocontrol ──▶ resource definitions, admission controller
```

The commands share nothing but the stores on the right. Within a command the
goroutines of `newCluster`, of `IdentifyCluster`, of `removeNodes` and of `list`
share memory.

## 2. The modules

| Module | Models | Proved in |
|---|---|---|
| `AllocateContract` | what an allocation promises its caller (abstract) | |
| `DockerAllocate` | `newCluster` and the controller calls it makes | `DockerAllocate_proofs` |
| `DockerExpiry` | `Cleanup`, `refresh` and `nodes add` as processes on one cluster | `DockerExpiry_proofs` |
| `SearchContract` | what a search promises its caller (abstract) | |
| `IdentifyCluster` | the search for a cluster over all deployers | `IdentifyCluster_proofs` |
| `TrafficControl` | the chaos commands on traffic and pausing, rule by rule | `TrafficControl_proofs` |
| `Rebalance` | `RebalanceWithRetry` and its check, and the Couchbase cluster it works on | |
| `DockerMembership` | adding, removing and replacing nodes, on top of `Rebalance` | `DockerMembership_proofs` |
| `CloudLifecycle` | allocation, change, removal and cleanup of clusters in Capella | `CloudLifecycle_proofs` |
| `PrivateEndpoints` | the setup of private links in three clouds, and their cleaners | `PrivateEndpoints_proofs` |
| `CaoClusters` | clusters of the Kubernetes operator, and the tools installed for it | `CaoClusters_proofs` |
| `MC*` | instances and symmetry sets for TLC | |

Each specification begins with its constants and variables, then one action per
operation in the order of the source, then the properties. Definitions keep the
names of the source (`WriteNodeState`, `SetupNewCluster`, `AddNode`,
`PartitionNodeTraffic`). A definition commented `Mutant:` is used by no
specification. `Rebalance` has actions and no specification of its own:
`DockerMembership` extends it and composes its steps with the command's.
`PrivateEndpoints` meets `CloudLifecycle` in one step only, the end of a
cluster's service (`EndService`), and `CaoClusters` shares no state with the
others; neither is composed with another module.

### DockerAllocate

`main` is where the main goroutine is, `worker[n]` where the goroutine of node
`n` is. `box` is the Docker host: each container is absent, created or running;
`record` is the state file in it. `nodes` is the shared slice. The append of
`deployer_newaddremove.go:323` is two steps, `LoadSlice` and `StoreSlice`, with
the slice read in between kept in `header[n]`. The unbuffered channel needs no
variable: a goroutine sits in `sendOk` or `sendErr` until `ReceiveOk` or
`ReceiveErr` takes it, in one step of both. `listed`, `missed` and `cleaned`
describe `cleanupNodes`. `joined` is the result of `SetupNewCluster`, its `k`-th
node set up with the `k`-th group of `DefSeq`. `Kill` is the interrupt:
`GetContext` installs no handler, so no deferred call runs. After `exited` no
goroutine takes a step.

`AllocateContract` is what a caller may rely on: containers come up one by one,
"ready" only when all the required ones are up, taken down only after giving up,
and nothing after the end. `DockerAllocate!Contract` maps the phases and the
running containers to it.

### DockerExpiry

Each process has a position and what it has read: `clean`, `reading`, `seen`,
`victims` for a `Cleanup`, `refresh`, `target`, `todo` for a `refresh`, `add`,
`base`, `life` for a `nodes add`. `dirty[k]` is a history variable, the
containers whose file was rewritten after Cleanup `k` had read it. A read of a
state file that fails for any reason counts as a zero date (`ReadMiss`), as
`ListNodes` drops the error. `RemoveNode` fails silently (`CleanupMiss`), as
`removeNodes` drops that one. `refresh` stops where it fails (`RefreshFails`)
and `nodes add` leaves what it has created (`AddFails`).

### IdentifyCluster

`matches` and `fails`, chosen once, are what each listing would answer. A
goroutine is listing, sending, done, or has `returned` on one of the two error
branches, which skip `wg.Done()`. `Close` waits for the counter. `Receive` and
`NotFound` are the two ends of the range loop.

`SearchContract` is what every command that names a cluster relies on: one
answer, never taken back, which is a match that its deployer lists, or "not
found" if all deployers have answered and none has a match. Nothing promises an
answer: a search may wait for ever. `IdentifyCluster!Contract` maps `main` and
`found` to it; that a goroutine is slow, cancelled or still sending when main
has gone on is what the contract does not show.

### TrafficControl

`rules[c]` is the list of rules of a container, of both chains in the order in
which they were appended. A command is a record; `left`, `current` and `todo`
say which containers it has to treat, which one it is treating and which rules
it has still to append there, `flushed` which it has flushed. `Plan(cmd)` is the
list `SetTrafficControl` appends. `Fail` ends a command between any two Docker
calls. `Matches` and `Passes` are the semantics of iptables, `Arrives` and
`Talk` what they mean for two containers.

### Rebalance and DockerMembership

The Couchbase cluster is external: `member`, `pending` (added, not yet
rebalanced in), `orch`, whether a rebalance has left it `broken`, and the
`running` one as the set it ejects. `FinishRebalance`, `FailRebalance`,
`StopAnswering`, `AnswerAgain` and `Elect` are what it may do by itself.
`Agrees` is the comparison of the known nodes that makes a rebalance request
fail. `box` is the containers.

Each process is at a `step` and knows what the code has in local variables:
`addrs` and `heard` from its one look at the cluster (`Start`), `eject` the OTP
names it passes, `ctrl` the node it talks to, `known` what `ListNodeOTPs`
answered, `unread` and `orchs` of the running check, `attempts` instead of the
time limit. `RebalanceWithRetry` keeps the places where another process may come
between: selection, list, begin, each wait and each single answer of a check.
`BeginUnanswered` is a request that took effect and is sent again by
`doRetriableReq`. `blind` is a history variable: nodes that did not answer a
process that wanted to eject them.

`Start` is the beginning of `nodes add`, `nodes remove` or `modify`;
`DeployNode`, `Register`, `GrowActive`, `ShrinkDns`, `ShrinkPassive`,
`ReconcileRebalance`, `RemoveContainer`, `GrowDns`, `GrowPassive` and
`ShrinkActive` are the steps of `addRemoveNodes` in its order. `Fail` ends a
command anywhere, and nothing is undone. `passive` and `active` are the
configurations of nginx and haproxy with the two switches the code passes;
`updatePassiveLoadBalancer` and `updateActiveLoadBalancer` take them in different
orders, as in the source. `Concurrent` says whether commands may overlap.

### CloudLifecycle

`projects` and `expiry` are the projects of Capella and the expiry in their
names, `state[q][s]` the `s`-th cluster created in project `q`, which is `gone`
only when nothing of it is left: of a columnar instance the cluster behind it
outlives the list entry (`lingering`). What Capella does by itself are
`Deployed`, `Changed` and `Destroyed`, each with its failed state.

A process has a command `op` and a `step`, one for each place between two calls;
`target` and `slot` are the project and cluster it works on, `seen` is what a
listing told it of each project, `unread` what it has still to inspect (one call
for the names, then calls for each project), `todo`, `jobs` and `failed` what
`Cleanup` and `RemoveAll` have still to treat or have given up. `Fail` ends a
command before any call; a call that takes effect and fails is an alternative of
that call where a later step can tell (`CreateProject`, `CreateUnanswered`).
`reauthed` remembers that `doRetriableReq` of the old API has logged in again:
its loop goes on with the next number and compares it with `maxRetries` by
`==` (`capellacontrol/controller.go:184`), so from then on also a create is
repeated. `Crowded` says that the account has more clusters than a page of the
old API lists; its wait then takes a cluster for gone (`OffPage`). `renamed` is a
history variable, the projects refreshed since a process listed them.

`CleanupStart` is `Cleanup`'s decision about what it has listed: a project
without a cluster goes; of the expired ones, one with a failed deletion is
skipped, of one with several clusters the project only is asked for, and the
others are removed with their cluster. `WaitForModified` is the pair of waits of `ModifyCluster` and
`UpgradeCluster`, first for the transient state and then for the healthy one.

### PrivateEndpoints

`parts[l]` is what exists of a link in the user's account, `conn[l]` the
connection of its endpoint or rules, `listed` the links that Capella lists.
`Calls` has the calls of `setup-link` for each cloud in their order, `at[l]` the
next one, `Possible` what a call needs to succeed; `CreateFails` is a call that
fails, perhaps after it took effect. `AcceptTooEarly` is an acceptance before
Capella knows of the endpoint. `phase` is where `cleanup` is: the cleaners of
AWS, Azure and GCP in the order of `cmd/cleanup.go`, each with the calls it
makes in sequence, `victims` what it has found, `names` and `nets` the two other
lists of the Azure cleaner. `drop[l]` is `RemovePrivateDnsZone` after `remove`,
for GCP only. `fresh` and `due` are history variables: endpoints created while
Azure's lists are taken, and what a cleanup had to remove when the turn of its
cloud came.

### CaoClusters

A cluster is a namespace: `ns`, `expiry`, `contents` (secrets, operator,
gateway, node port), `ingress`, and the resource with its state `cr`. The
operator is external: a new specification is `fresh` until it notices, `busy`
while it works, and looks available in a `gap` and when `settled`. `Poll` is the
ticker of `waitCouchbaseClusterAvailable` for all that wait, `calm[x]` how many
polls the cluster has looked available to `x`; a misleading moment lasts `Lag`
polls at most, which `lag` counts. `writer` is a history variable. A resource
whose operator is gone may be `stuck`, which keeps its namespace. `crd` is the
set of resource definitions, deleted and created together; `adm` and `home` are
the admission controllers in the default namespace and in one of their own.

A process runs commands one after the other; `FirstStep` and the step in each
action give the order of the calls, `Possible` what a call needs, and `Fail`
what happens otherwise, also when a wait times out. `faulty` says whether other
calls of this command may fail. Errors that the code takes for an answer
are alternatives: `FindGateway` and `CngService` (no gateway), `ForceDelete`
(skipped), `DisableIngresses` (fails only when nothing could be deleted).

## 3. What the runs show

| Run | Instance | Properties |
|---|---|---|
| `allocate` | 3 nodes: newer ones first or last; of one version with a haproxy and no expiry, with an nginx, or with an S3 mock | `TypeOK`, `AscendingDefinitionKeepsGroups`, `SuccessDeploysEveryNode`, `LeftoverIsStraggler`, `Terminates`, `RefinesContract` |
| `identify` | 3 deployers, 2 clusters with the prefix | `TypeOK`, `NoSendAfterClose`, `ResolvesIfAnswered`, `RefinesSearch` |
| `expiry` | a container and one being added; one Cleanup, one refresh; dates to 4 | `TypeOK`, `VictimsExpiredUnlessRewritten`, `BareIsNeverVictim`, `AddedNodeOutlives`, `ExpiredIsReclaimed` |
| `traffic` | 2 peers, a load balancer, any 2 commands | `TypeOK`, `SparesThroughout`, `BlockTakesEffect`, `PartitionSeparates` |
| `membership` | a node and two that can be added, 2 commands at once that add and remove one at most, one retry each, one outage | `TypeOK`, `RemovedHaveLeft`, `AddedAreMembers` |
| `membership_sequence` | the same nodes, 2 commands one after the other that add and remove two in all, with DNS, nginx and haproxy, no retry | `NamesExist`, `NamesAreMembers`, `NamesComplete`, `Ends` |
| `cloud` | a server and a columnar project, any one command, a cleanup run for ever | `TypeOK`, `VictimsWereExpired`, `CreatedOnceOrReauthenticated`, `ProjectAfterClusters` |
| `cloud_live` | the same with an allocation, of a server cluster beside a columnar one or of a columnar one alone, or a removal | `LeftoversAreReclaimed`, `CommandsEnd` |
| `endpoints` | two links, of AWS and Azure or both of Azure, or one of GCP | `TypeOK`, `CleanRunIsComplete`, `SparesLive`, `DeadIsReclaimed` |
| `cao` | a namespace, any 2 commands, or one beside a process that modifies; that one cleans up for ever | `TypeOK`, `SettledOnSuccess`, `EnabledIsServed`, `ExpiredIsReclaimed` |
| `allocate_lostnode`, `cao_admission` | as `allocate` with server nodes only; as `cao`, from any admission controller and namespace | one property each, violated: section 5 |

In short:

* Success of an allocation means that exactly the required containers run and
  can be reclaimed, but not that all of them have joined (section 5). Failure
  after the cleanup leaves a container only if its removal failed or its
  goroutine had not created it when the host was listed.
* The search for a cluster says "not found" only if that is true; it may not
  answer.
* A Cleanup removes a container that is not expired only if its file was
  rewritten after it read it. A half-deployed container neither becomes a victim
  nor keeps the others from being reclaimed.
* No order of rules, and no command cut short, cuts off what a block means to
  spare; a finished block or partition blocks the incoming packets it should.
* Two commands on one cluster can fail each other, but neither removes a
  container whose node is in the cluster, retries and lost answers included; the
  exception are nodes that did not answer, which are removed without being
  ejected (`deployer_clusterinfo.go:193`, `nodemanager.go:309`). A command that
  gets past its rebalance has its new nodes in the cluster, unless another one
  was told to take them out.
* As long as commands do not overlap, no client is sent to a container that is
  gone, also after failures; none is sent to a non-member unless a command has
  failed; and all names are complete when all have succeeded. Every command ends.
* In Capella a cleanup deletes the cluster of a project only if the project's
  expiry has passed, or was rewritten or its project removed after the listing.
  Its waits may take a cluster for gone that is not; the deletion events, and
  Capella's refusal, keep projects from going before their clusters all the same.
  One allocation creates two clusters only through the old API after a renewed
  login.
* What an allocation or a removal leaves where it fails is reclaimed by a later
  cleanup, and every command but a modification ends. Three things stay: a
  project with two clusters, a cluster whose deletion failed, and whatever waits
  for a columnar instance in a failed state, which the old wait never notices.
* The cleaners of private endpoints spare every link that is pending or
  accepted, but for Azure: an endpoint created between the list of the endpoints
  and that of the zones loses its zone. A cleanup without failing calls leaves
  nothing of a dead link; what is left of a GCP link without rules is never found.
* A wait for the operator that succeeds has seen its last specification
  fulfilled. The gateway's route to CNG never stays without its TLS rule when
  ingresses are enabled. An expired namespace goes, also with its resource stuck.

### Bounds, and why they are enough

Lost appends need two goroutines; three allow one to be lost behind the back of
two others. The order of the versions is ascending, descending or equal. The
auxiliary containers are deployed one after the other before any node, so that
each is there alone; haproxy is the one that survives a failed removal. An
interrupt, after which nothing happens, is tried with server nodes only. For the
search, two deployers show each error path; the third keeps the channel full
while another fails. In `DockerExpiry` the fresh container is the second one of
a partial refresh and of a cluster whose containers expire at different times,
and the one without a state file that must not block reclaiming. `MaxTime` lets
the dates of the allocation pass, and those of a refresh before the first tick. In `TrafficControl` two commands are needed for one to meet the
rules of another; `MaxCommands` is the only bound on behaviour. The safety
properties are proved without these bounds (section 4). In `DockerMembership`
there is one node at first and two can come, of which any can go again, so that
each command can add, remove or replace also what the other one has added. The
two new nodes are interchangeable, and of two commands at once each adds and
removes one node at most, in sequence two in all; two attempts are needed to meet the filter that forgets the
nodes already ejected, one outage to be taken for an ejected node. With commands
in sequence a retry changes nothing that the names depend on.

In `CloudLifecycle` the projects are one of each API; a command has one project,
and the second one is what it lists by the way, what another cleanup removes
meanwhile, and what a corrupted project must not keep from being reclaimed. One
tick separates the expiries that have passed from those that have not. A second
cluster in a project (`Slots`) is the least that makes it corrupted. `Crowded`
is true: then a wait may find its cluster or miss it at every poll, which
contains what it sees in an account that fits on a page. The liveness run has the two
commands that leave something and only expiries that pass; a cluster is
allocated beside one of the other kind, which need be tried in one order only.
In
`PrivateEndpoints` two links are needed for one to be set up while another is
cleaned, and two of Azure for two zones in one sweep; the cleaner of GCP reads
and removes one link at a time and runs last, so that its link is there alone. In `CaoClusters` the second command meets what
the first one left, and the other process takes the namespace away, or, beside a
single command, writes the specification, under it; `Settle` = 2 and `Lag` = 1 are the least values
with `Lag` < `Settle`, and `SettledOnSuccess` is proved for all others.

The counters that are capped: `MaxTime` (clock, in `Tick`), `MaxCommands`
(commands, in `TrafficControl!Start` and `CaoClusters!Begin`), `MaxAttempts` (rebalances of one call, in
`SelectControlNode`; it stands for the limit of 15 minutes), `MaxOutages` (in
`StopAnswering`), `Slots` (clusters of a project, in `Create` and
`CreateUnanswered`), `Settle` and `Lag` (polls, in `Poll`).

### Fairness

* `DockerAllocate!Fairness`: weak fairness of main and of every goroutine. The
  Go scheduler runs what can run, Docker answers in the end, and
  `WaitForOnline` polls without a limit, so that it is taken to end. A failing
  call is a step too, so this assumes nothing about success.
* `IdentifyCluster!Fairness`: weak fairness of each goroutine, of the closer and
  of the range loop.
* `DockerExpiry!Fairness`: time passes, `cleanup` is run again and again (it is
  meant for a cron job), and a read or a removal that is tried for ever
  succeeds at some time. The last is strong fairness of `ReadNodeState` and
  `CleanupRemove`: each may fail any finite number of times in between. Nothing
  is assumed of `refresh` and `nodes add`, which users may run or not.

* `DockerMembership!Fairness`: a rebalance that runs ends, well or not; a
  process goes on (weak fairness of its steps, failing ones included); and, by
  strong fairness of `StartOver`, a check that is repeated for fifteen seconds
  stops being repeated. Success is not assumed of anything.
* `CloudLifecycle!Fairness`: time passes; Capella finishes what it has begun,
  well or not; a command goes on until it ends or fails; and `cleanup` is run
  again for ever, among these runs for ever some in which no call fails (strong
  fairness of `CleanupAgain(x, FALSE)`). Nothing is assumed of `Fail`.
* `PrivateEndpoints!Fairness`: a running `setup-link` and a running cleanup go
  on; the connection of a service that has ended is rejected some time; cleanup
  is run again, for ever also without failing calls. `remove` may stop anywhere.
* `CaoClusters!Fairness`: Kubernetes empties and removes namespaces; a process
  that cleans up goes on with what it does, and begins a cleanup without failing
  calls again and again. All other commands may be killed anywhere, and nothing
  is assumed of the operator.

Deadlock is checked in `DockerAllocate`, where only the end of the process
stutters, in `DockerExpiry`, `PrivateEndpoints` and `CaoClusters`, where a
cleanup can always be run again. It is not checked in `IdentifyCluster`, which
really can stop (section 5), nor in `TrafficControl`, which stops at
`MaxCommands`, nor in `DockerMembership`, where each process runs one command,
nor in `CloudLifecycle`, where every command and the cleanup may wait for the
end of a columnar instance that is in a failed state.

## 4. What is proved

For every value of the constants that meets the named assumptions:

| Module | Theorems |
|---|---|
| `DockerAllocate_proofs` | `TypeCorrect`, `Invariance`, `SuccessComplete`, `AppendedOnce`, `IndexesInRange`, `LeftoversAreStragglers`, `Refinement`, `AscendingKeepsGroups` |
| `IdentifyCluster_proofs` | `TypeCorrect`, `Invariance`, `ResultSound`, `CloseSafe`, `Refinement` |
| `DockerExpiry_proofs` | `Invariance`, `TypeCorrect`, `VictimsExpired`, `BareSurvives`, `AddedOutlives` |
| `TrafficControl_proofs` | `Invariance`, `TypeCorrect`, `SparesAlways`, `BlockEffective`, `PartitionCuts` |
| `DockerMembership_proofs` | `Types`, `NoMemberRemoved`, `AddedStay`, `ClusterSurvives`, `NamedExist`, `NamedAreMembers`, `NamedAreComplete` |
| `CloudLifecycle_proofs` | `Invariance`, `TypeCorrect`, `OnlyExpiredClustersAreDeleted`, `ProjectsGoAfterClusters`, `ClustersAreCreatedOnce` |
| `PrivateEndpoints_proofs` | `Invariance`, `TypeCorrect`, `CleanupSparesLive`, `CleanupIsComplete` |
| `CaoClusters_proofs` | `Invariance`, `TypeCorrect`, `WaitsUntilSettled`, `ServedWhenAlone`, `OnlyWhatWasAsked` |

`AppendedOnce`, `IndexesInRange`, `ClusterSurvives` and `OnlyWhatWasAsked` say
more than the runs check (`ResultSound` is part of what `RefinesSearch` says):
whatever the interleaving of the unlocked appends, the shared slice names
distinct deployed nodes and is not empty when it is indexed; commands that
replace the nodes of a cluster leave it a member that has a container, while
every node that was to be ejected has answered; and a cleanup of the operator's
clusters deletes only namespaces whose expiry has passed, a removal only the one
it was given, however old the listing is that they act on.

*Assumptions.* `NodeAssumption` (there is a node, and nodes, S3 mock, nginx and
haproxy are different containers), `DefSeqAssumption` (the definition lists each
node once), `DefsAssumption` (definitions are records of the given form),
`ContainerAssumption` (what is added is a container), `TimeAssumption` (dates and
durations are positive), `DeployerAssumption` (finitely many deployers), `SourceAssumption` (peers,
proxies, gateway, loopback and the outside are different),
`CommandAssumption`, `InitialAssumption` (a cluster has a node),
`BoundAssumption`, `ConcurrentAssumption` and `ClustersAssumption` (what kinds
of clusters an allocation can have made). Of the clusters in Capella:
`TimeAssumption` (times are natural numbers), `DutyAssumption`, `KindAssumption`,
`CrowdedAssumption` (each constant has its type). Of the operator's:
`DutyAssumption`, `BoundAssumption`, `ActorAssumption` (there is a cluster and a
process), and `SettleAssumption`, the one that matters: the operator reacts
within fewer polls than the wait asks for. `PrivateEndpoints` assumes nothing.
TLC evaluates the assumptions on the instances.

*The allocation.* Neither the contents of the slice nor the state of the host is
inductive by itself. `IndInv` ties them to the positions of the goroutines:
`WorkerInv` says where goroutines can be while main is at each place,
`NodeBoxInv` and `AuxBoxInv` what each of them has achieved as long as nothing
has failed, `SliceInv` that the stale slice in the hands of a goroutine obeys
the same rules as the shared one and does not contain the goroutine, which is
why a lost update cannot duplicate a node, `SomeNodeInv` that the slice is never
empty again after one append, and `StragglerInv` what the cleanup has left. The
refinement of `AllocateContract` maps each action to one of its steps or to a
stutter, using `IndInv` for the step that commits. `AscendingKeepsGroups` counts: the
nodes that are set up are different and sorted by version (`JoinedInv`), and of
two ascending sequences of the same elements neither can run ahead of the other
at any place, because a stretch of one would have to fit in a shorter stretch of
the other (`NotLonger`, `SameValues`).

*The search.* The wait group is the number of goroutines that have not called
`Done` (`WaitGroupInv`), so the channel closes only when all are done;
`KeptInv` says that a listed match is unsent or in the channel until main takes
one, and therefore "not found" is true. The
refinement of `SearchContract` maps the step that takes the head of the channel
to `Found`, the end of the range to `NotFound`, and every other to a stutter;
`ChannelInv` gives the first, since it says that a cluster that is still on its
way was listed by the deployer it travels with, and `KeptInv` the second.

*Expiry.* That a victim is expired is not inductive: `SeenInv` follows the date
from the moment it is read, when it is still the one in the file unless the file
was rewritten, and `NewInv` and `BareInv` exclude that a container in the hands
of a Cleanup disappears and is created again. `LifeInv` says that the time that
passes during a deployment only adds to the expiry of the new node.

*Traffic.* `PassesConcat` reduces a list of rules to its parts: a packet that
the first part accepts cannot be blocked by the second, and a list cut short
blocks no more than the whole. `PlanFacts` computes from it what each plan lets
in. The invariant is that the rules of a flushed container followed by `todo`
are the plan (`RulesInv`), and that no container is forgotten (`CoverInv`).

*Membership.* `RemovedHaveLeft` speaks of containers that are gone; the invariant
must say of each one still to be removed why it may go. `Removable(n)` is that
reason: the node has not answered, or it is out of the cluster and nobody is
going to register it. `Stable` says that no step of anyone takes the reason
away, which rests on `Apart` (a node is deployed by one process and registered
once) and `Ejecting` (a running rebalance ejects members only). `Knows` follows
it through a command: before the rebalance the nodes that were not heard are
removable, during it those that are no longer ejected, in a check those that
have been asked, and after a check with no objection all of them. That last step
is where an answer that never came, a filtered retry or a rebalance of somebody
else could have gone wrong.

`AddedStay` follows what a command adds (`JInv`): a registered node is in the
cluster, and a check that has heard an orchestrator without an objection has
seen that nothing is pending, so that the node is a member. It leaves only in a
rebalance that ejects it, and these eject what some command was told to remove
(`Gone`). Nobody undoes what others rely on: `Framed` is the list of what a step
of one process leaves alone of the others. `ClusterSurvives` adds to
`RemovedHaveLeft` that no rebalance takes the last node out (`Manned`), since the
server compares the nodes when it begins one and none is added while it runs.

The three theorems on the names are about commands that do not overlap. There is
then at most one that is under way (`Alone`), and its position says what the
others have left. `NInv`: what it is going to write into a list exists, and
before a container goes, neither list names any that leave; that a failure leaves
only the first half of this to the next command is why the invariant does not
speak of members. `MInv` does, while none has failed (`ErrStays`: a failure is
not forgotten): containers are members, but for those that the one command adds
or removes, and a rebalance that runs is the one it waits for. `CInv`: each list
is right, or the step that writes it is still due; the lists are written
only if something was added, or removed, and that the code skips the right ones
is what `Complete` says for each position. `NInv` is used in the proof of `MInv`,
and both in that of `CInv`.

*Capella.* A cleanup acts on a listing that is never read again. `SweepInv`
carries its truth along: what was seen of an expiry is still in the name, or the
project was renamed or removed (`AsSeen`), so that what was expired when decided
is expired, renamed or removed ever after (`Lapsed`). That a removed project
does not come back with another expiry is the reason for `StartInv` and
`Started`: an allocation creates a project of its own, once. `Kept` is
the fact about the service that nearly every step uses: clusters only move on,
none comes back from `gone`. `HeldInv` and `WaitInv` follow a cluster through
`RemoveAll`: waited for, gone, or its project given up, which gives `AfterInv`
before the projects are asked for. `OnceInv` counts creates: none has taken
effect while an allocation that has kept its session still tries.

*Private endpoints.* The cleaner has found something dead; in between others
act. `VictimsInv` says that it stays dead, which needs a reason for each cloud:
a dead connection of AWS or Azure is not accepted any more, and of GCP or Azure
it means that the service has ended, so that no rule and no endpoint can be
created (`ConnInv`). For the zones, `NamesInv` says that an endpoint that exists
was listed or is fresh, and the order of the calls (`CallOf`, `SetupInv`) that a
zone comes after its endpoint, so that an endpoint that was gone when the names
were listed cannot be created for the zone afterwards.
`CleanupIsComplete` is the other half: nothing that was due when the cleanup
began is left by a run without a fault. `PartsInv` says what a link of each cloud
can consist of, and `DueInv` what is left of each link that was due: it is among
what the cleaner has found, or will be when its turn comes. For Azure that is a
statement on each kind of part and the phases that come before its removal; for
GCP on one link at a time, whose rules go before its addresses and these before
its zone.

*The operator.* `CalmInv`: to the process that wrote the specification last, a
cluster that looks available and is not finished has looked so for at least as
many polls as the process has counted (`calm[x] <= lag[c]`), since the process
counts anew whenever it has seen the operator at work, and work lasts for a poll.
`lag` stays below `Settle`, so a wait that ends has not been misled.

`EnabledIsServed` is not true of every set of duties: a `disable` at the same
time can remove the rule between two calls of an `enable`. `ServedWhenAlone`
therefore assumes that one process alone allocates, enables and disables, as in
the run, and lets the others remove, clean up, modify and reinstall as they like.
The point of it is that the gateway may be missing when `enable` looks for it, in
which case no rule is made, while a route is there from an earlier command.
`GatewayInv` says that a route means a gateway, which stays as long as its
namespace does, and that a namespace is made once; `RuleInv` that the rule
precedes the last route.

`OnlyWhatWasAsked` is about the time between the listing of the namespaces and
the deletion of the last of them, in which others allocate, remove and clean up.
`Asked` keeps what the listing said: a namespace that had expired is expired
until it is gone. It could become false if a name were used again, with a new
expiry; `Fresh` says that nobody is about to do that, since an allocation takes an
unused name that no other is about to take. `Ages` is what steps of anybody may
do to a namespace without making a listing wrong.

*Only model-checked:* the liveness properties, `Terminates`,
`ResolvesIfAnswered`, `ExpiredIsReclaimed` (of Docker and of the operator), `Ends`,
`LeftoversAreReclaimed`, `CommandsEnd` and `DeadIsReclaimed`, since fairness and
ENABLED are out of the prover's reach. All others that a passing run checks are
proved, the refinement among them.

## 5. Disagreements found

* `allocate_lostnode`: two goroutines read the slice header before either writes
  it back; the node of one is lost, and the allocation succeeds although that
  node never joins (`deployer_newaddremove.go:323`). No error is reported and
  its container keeps running.
* `cao_admission`: the wait for the end of an uninstalled admission controller
  compares the names of the deployments with the text
  `"DefaultAdmissionControllerName"` instead of the constant of that name
  (`utils/caocontrol/controller.go:687`), and ends at once. An installation in
  another namespace may then find the one that is still being deleted, stop at
  it, and leave the one that works where it is: two stay installed.

Found while modelling, without a run of their own:

* The comment at `deployer_newaddremove.go:279-280` copies the group out for each
  node, but line 396 indexes the groups by the position after the sort by
  version. A definition that lists its newer nodes first gives each node the
  services of another's group. `AscendingDefinitionKeepsGroups` is what is left.
* A goroutine of the search whose listing fails does not call `wg.Done()`
  (`cmd/cmdhelper.go:518`), so if no other deployer has a match the command
  waits for ever. `ResolvesIfAnswered` excludes that case.
* A node added to a cluster whose expiry has passed but which is not yet cleaned
  gets a lifetime that is not positive, which `DeployNode` takes for none
  (`controller.go:988`): it never expires. `AddedNodeOutlives` speaks of clusters
  that have not lapsed.
* `allow-traffic` drops the error of `iptables -F` (`controller.go:1161`), so
  that a command that reports success may have left the traffic blocked.
* `updatePassiveLoadBalancer` takes `(isColumnar, enableSsl)`,
  `updateActiveLoadBalancer` takes `(enableSsl, isColumnar)`; lines 367, 720 and
  787 of `deployer_newaddremove.go` pass the two the wrong way round. A cluster
  with certificates that is not columnar loses TLS on its haproxy when a node is
  added, and has none on its nginx until one is removed, although load balancers
  are what `docs/DINO_CERTS.md:4` names as a use of certificates.
* The acceptance of a private link looks its endpoint up in Capella's list
  before it waits for the endpoint to be listed
  (`clouddeploy/deployer.go:1434`): `setup-link` for AWS or Azure fails when Capella is slower
  than the call (`AcceptTooEarly`), and leaves the endpoint pending.
* "Writes are never retried to prevent e.g. a repeated create which provisions
  the resource twice" (`capellav4/client.go:215`) holds of the new API only. The
  old one repeats a create after a renewed login (`capellacontrol/controller.go:184`);
  a second cluster makes the project corrupted, and nothing but `removeall`
  takes it away.
* `cleanup` removes a project without a cluster at once
  (`clouddeploy/deployer.go:1674`), also that of an allocation which is about to
  create the cluster; the allocation fails.
* An installation of the admission controller that fails leaves the namespace it
  has created, in which the next one with the same choice fails. Enabling the
  gateway twice fails likewise, until `ingresses disable`.

* A node that does not answer is removed without being ejected, whatever it
  becomes meanwhile. If an interrupted command has left a rebalance running, the
  node may answer again and take over from the one that rebalance ejects; its
  container is removed all the same, and the cluster has no member left
  (`Survives` without its condition, on three commands in sequence).

Two more things the models show. Cleanup removes a
container whose expiry was extended between its read and its removal
(`deployer.go:448`), which is why `VictimsExpiredUnlessRewritten` has its
exception. The rule that accepts all OUTPUT (`controller.go:1256`) precedes
those that block OUTPUT, so these never apply: `PlanFacts` proves that no plan
keeps a container from sending, and `PartitionSeparates` that the INPUT rules do
the work alone.

## 6. Abstractions and assumptions

* A Go slice is a sequence that is read and written back as a whole. The backing
  array two appends may share, and a torn slice header, are not modelled: they
  change which of the racing nodes is lost or repeated in memory, which Go
  leaves undefined, and not that a node can be lost.
* There is at least one node. A definition with a load balancer and no nodes
  reaches `opts.Nodes[0]` in `clustermanager.go` with an empty list.
* Containers do not die on their own. `RemoveNode` is one step per container:
  it is gone, it is kept, or (haproxy, created without AutoRemove) it is
  stopped and kept.
* Deploying an auxiliary container is one step with all the states a failure can
  leave; it runs before any concurrency.
* The clock of `DockerExpiry` ticks in whole units and all processes read the
  same one. `getCluster` in `AddNode` reads the files in one step, any of them
  failing; `Cleanup` reads them one by one. Only the containers of one cluster
  are followed, as clusters do not share files.
* A listing of `IdentifyCluster` answers or fails; a prefix matches a set of
  identifiers.
* `TrafficControl` runs one command at a time. The addresses of containers,
  gateway, loopback and all others are classes of source addresses; the address
  range of the Docker network contains all containers. Reject types other than
  the empty one and `tcp-reset` append the same rules as the empty one does.
  Installing iptables on demand is part of the call that needs it; a call that
  fails after it took effect is its step followed by `Fail`. `extraBlocked` is
  always nil. Rules for the single addresses of `extraAllowed` are taken together.
  Connection tracking plays no part, since the code adds no rule about it.
* In `DockerMembership` the look at the cluster (`getCluster`,
  `getClusterInfoEx`) is one step, as is the wait for a container and its
  certificates. The nodes of one call are deployed, registered and asked in any
  order. A call that fails after it took effect is its step followed by `Fail`.
  What a command asks for is any set of nodes to add and to remove that the
  three commands can ask for; a node that was not heard matches no definition,
  and `nodes add` is refused next to a load balancer, which has no version. Name
  records are replaced as a whole; Route 53 takes no empty set of them.
* The server: a node outside the cluster has no local info; a request that
  meets a running rebalance is answered without effect; known nodes must be its
  nodes and the ejected ones among them; nodes cannot be added during a
  rebalance; one that a node of the cluster does not take part in can only fail;
  it may fail before or after it has moved data. `HardFailOver`, `SetRecovery`
  and `RebalanceCluster` (the command) are left out.
* In `CloudLifecycle` a create, a change or a delete that is refused and one
  whose request is lost are the same. A project of another tenant, or one not
  made by cbdinocluster, is not listed and not modelled. Which cluster of a
  project is created first has no meaning. `RemoveAll` treats its clusters in any
  order, as does `Cleanup`. A project that was removed is not created again,
  since its name holds a new identifier. Users, buckets, allow lists, logs,
  certificates, load samples and the redeployment tool are single requests.
* The service in `CloudLifecycle`: a deployment, a change and a deletion end, or
  fail where the code knows a failed state; a cluster that is changing may or may
  not take a deletion; no project is deleted that holds a cluster; a columnar
  instance leaves the list before the cluster behind it is gone.
* A cluster has one private link in `PrivateEndpoints`, and a link is set up
  once. The records of a zone come and go with it. An endpoint can be created
  only while the service is on; a pending or accepted connection is rejected after
  the service has ended; an address in use, a zone with a network link and a
  service without acceptance behave as the clouds document them. The cleaner of
  the cloud deployer is the end of the service here, at any time; that GCP's
  cleaner treats links in an order of its own is a fixed choice of the model.
* `CaoClusters`: Kubernetes takes nothing new in a namespace that is being
  deleted; a resource without its operator keeps its finalizer; deleting a
  definition deletes its resources where an operator lets them go. The operator
  takes at most `Lag` polls to react, and its work lasts for a poll at least,
  which is what a debounced wait presupposes. All definitions are one.
  `tools-cao uninstalladmission` is an installation that fails after it has
  uninstalled. `init` installs the same tools with the same calls.
* nginx does not reload with TLS and no certificate, so that a columnar cluster
  with a passive load balancer and no certificates fails to be allocated and
  does not occur in `Clusters`.

## 7. Not modelled, and the plan

*Not modelled.* The certificate authority, images, definitions, versions, and
the file, archive and web helpers have no state that another step races with.
The local deployer starts and stops one application with a handful of calls.
`init` is a dialogue that writes one file. `KillCouchbase` changes nothing a
command reads. Buckets, scopes, users, links, settings, logs and metrics are
single requests that every deployer passes on.

What would come next, the most important first:

1. Fail-over, recovery and `RebalanceCluster` as further commands of
   `DockerMembership`.
2. `SetupNewCluster` and `SetupOneNodeCluster` step by step, with lost answers.
3. The records and hosted names that Docker's `cleanup` and `RemoveCluster`
   delete.
4. The concurrent listing of `cmd/list.go`, next to `IdentifyCluster`.
5. Proofs: what a retry needs, that a command that fails leaves a state
   from which the same command can succeed.
