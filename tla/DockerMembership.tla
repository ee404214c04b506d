-------------------------- MODULE DockerMembership --------------------------
(***************************************************************************)
(* `nodes add', `nodes remove' and `modify' on a Docker cluster.  Each     *)
(* looks at the cluster once, deploys and registers new containers, takes  *)
(* the nodes that are to go out of the DNS records and the passive load    *)
(* balancer, rebalances, removes their containers and brings records and   *)
(* load balancers up to date.  Nothing is undone when a step fails, and    *)
(* nothing keeps two commands from working on one cluster.                 *)
(*                                                                         *)
(* Source: deployment/dockerdeploy (deployer_newaddremove.go, deployer.go, *)
(* deployer_clusterinfo.go, deployer_rebalance.go, deployer_dns.go,        *)
(* deployer_lb.go).                                                        *)
(***************************************************************************)
EXTENDS Rebalance

CONSTANTS
    Initial,   \* the nodes of the cluster as it was allocated
    Clusters,  \* what kind of cluster it may be
    Concurrent \* whether commands may work on it at the same time

ASSUME ConcurrentAssumption == Concurrent \in BOOLEAN
ASSUME InitialAssumption == Initial \subseteq Node /\ Initial # {}

\* The features and certificates it was allocated with, and whether it is
\* columnar.  nginx does not start with TLS and no certificate (see Init), and
\* a columnar cluster with a load balancer has no records of its nodes.
ASSUME ClustersAssumption ==
    \A k \in Clusters :
        /\ k \in [features : SUBSET {"dns", "nginx", "haproxy"},
                 certs : BOOLEAN, columnar : BOOLEAN]
        /\ k.columnar /\ "nginx" \in k.features => k.certs
        /\ k.columnar /\ "dns" \in k.features => k.features = {"dns"}

VARIABLES
    kind,       \* the cluster's kind
    dns,        \* the nodes the DNS records name
    passive,    \* the configuration of nginx,
    active,     \* and of haproxy, which checks the health of its backends
    fresh,      \* each process: the nodes it adds,
    leaving,    \*   the nodes it removes,
    heard,      \*   those that answered when it looked,
    todo,       \*   those the current step has still to treat,
    latest      \*   the containers it has listed last

recordVars == <<kind, dns, passive, active>>
planVars == <<fresh, leaving, heard>>
dockerVars == <<recordVars, planVars, todo, latest>>
vars == <<clusterVars, healthVars, step, jobVars, callVars, blind, dockerVars>>

Has(feature) == feature \in kind.features

Named(feature) == IF Has(feature) THEN Initial ELSE {}

\* The two take their last arguments in different orders.
updatePassiveLoadBalancer(nodes, isColumnar, enableSsl) ==
    passive' = [nodes |-> nodes, tls |-> enableSsl, columnar |-> isColumnar]

updateActiveLoadBalancer(nodes, enableSsl, isColumnar) ==
    active' = [nodes |-> nodes, tls |-> enableSsl, columnar |-> isColumnar]

Init ==
    /\ member = Initial /\ pending = {} /\ orch \in Initial
    /\ broken = FALSE /\ running = {}
    /\ down = {} /\ outages = 0 /\ box = Initial
    /\ step = [p \in Proc |-> "idle"]
    /\ addrs = [p \in Proc |-> {}] /\ eject = [p \in Proc |-> {}]
    /\ ctrl = [p \in Proc |-> {}] /\ known = [p \in Proc |-> {}]
    /\ unread = [p \in Proc |-> {}] /\ orchs = [p \in Proc |-> 0]
    /\ attempts = [p \in Proc |-> 0] /\ blind = {}
    /\ kind \in Clusters
    /\ dns = Named("dns")
    /\ passive = [nodes |-> Named("nginx"), tls |-> kind.columnar, columnar |-> kind.certs]
    /\ active = [nodes |-> Named("haproxy"), tls |-> kind.certs, columnar |-> kind.columnar]
    /\ fresh = [p \in Proc |-> {}] /\ leaving = [p \in Proc |-> {}]
    /\ heard = [p \in Proc |-> {}] /\ todo = [p \in Proc |-> {}]
    /\ latest = [p \in Proc |-> {}]

Busy(p) == step[p] \notin {"idle", "ok", "err"}

-----------------------------------------------------------------------------
(* What the commands ask of addRemoveNodes.                                *)

\* getClusterInfoEx: a node that does not answer has no OTP and no services.
Heard == {n \in box : Responds(n)}

\* A load balancer has neither a version nor services, so that it is refused.
AddNode(new, old) ==
    /\ Cardinality(new) = 1 /\ old = {}
    /\ kind.features \subseteq {"dns"}
    /\ Heard \in {box, {}}

RemoveNode(new, old) == new = {} /\ Cardinality(old) = 1

\* A node whose services are unknown matches none that is defined.
ModifyCluster(new, old) == box \ Heard \subseteq old /\ new \union old # {}

Unused == Node \ (Initial \union UNION {fresh[p] : p \in Proc})

\* The first step after the new nodes are registered.
Shrink(old) ==
    IF old = {} THEN "reconcile"
    ELSE IF Has("dns") THEN "shrinkDns"
    ELSE IF Has("nginx") THEN "shrinkPassive" ELSE "reconcile"

\* getCluster and getClusterInfoEx, the latter as one step.  The first of the
\* nodes may be a load balancer, which always forwards to the same node.
Start(p) ==
    /\ step[p] = "idle" /\ (Concurrent \/ \A q \in Proc : ~Busy(q))
    /\ \E new \in SUBSET Unused, old \in SUBSET box, first \in box :
          /\ AddNode(new, old) \/ RemoveNode(new, old) \/ ModifyCluster(new, old)
          /\ fresh' = [fresh EXCEPT ![p] = new]
          /\ leaving' = [leaving EXCEPT ![p] = old]
          /\ todo' = [todo EXCEPT ![p] = new]
          /\ ctrl' = [ctrl EXCEPT ![p] = IF new = {} THEN {} ELSE {first}]
          /\ blind' = blind \union (old \ Heard)
          /\ GoTo(p, IF new = {} THEN Shrink(old) ELSE "deploy")
    /\ addrs' = [addrs EXCEPT ![p] = box]
    /\ heard' = [heard EXCEPT ![p] = Heard]
    /\ UNCHANGED <<clusterVars, healthVars, eject, known, unread, orchs, attempts,
                   recordVars, latest>>

-----------------------------------------------------------------------------
(* addRemoveNodes up to the rebalance.                                     *)

\* The last one is followed by the registration of all.
DeployNode(p, n) ==
    /\ step[p] = "deploy" /\ n \in todo[p]
    /\ box' = box \union {n}
    /\ \/ todo[p] # {n} /\ todo' = [todo EXCEPT ![p] = @ \ {n}] /\ UNCHANGED step
       \/ todo[p] = {n} /\ todo' = [todo EXCEPT ![p] = fresh[p]] /\ GoTo(p, "register")
    /\ UNCHANGED <<clusterVars, down, outages, jobVars, callVars, blind,
                   recordVars, planVars, latest>>

\* Controller.AddNode: no node can be added during a rebalance.
Register(p, n) ==
    /\ step[p] = "register" /\ n \in todo[p]
    /\ CtrlResponds(p) /\ running = {} /\ n \in Alive \ Joined
    /\ pending' = pending \union {n}
    /\ todo' = [todo EXCEPT ![p] = @ \ {n}]
    /\ UNCHANGED <<member, orch, broken, running, healthVars, step, jobVars, callVars,
                   blind, recordVars, planVars, latest>>

\* Only if nodes were added: the active load balancer learns of them now.
Registered(p) ==
    /\ step[p] = "register" /\ todo[p] = {}
    /\ latest' = [latest EXCEPT ![p] = IF Has("haproxy") THEN box ELSE {}]
    /\ GoTo(p, IF Has("haproxy") THEN "growActive" ELSE Shrink(leaving[p]))
    /\ UNCHANGED <<clusterVars, healthVars, jobVars, callVars, blind, recordVars,
                   planVars, todo>>

GrowActive(p) ==
    /\ step[p] = "growActive"
    /\ updateActiveLoadBalancer(latest[p], kind.columnar, kind.certs)
    /\ latest' = [latest EXCEPT ![p] = {}]
    /\ GoTo(p, Shrink(leaving[p]))
    /\ UNCHANGED <<clusterVars, healthVars, jobVars, callVars, blind, kind, dns, passive,
                   planVars, todo>>

\* Mutant: the records are left as they are until the nodes are gone.
ShrinkDnsLater(p) ==
    /\ step[p] = "shrinkDns"
    /\ GoTo(p, IF Has("nginx") THEN "shrinkPassive" ELSE "reconcile")
    /\ UNCHANGED <<clusterVars, healthVars, jobVars, callVars, blind, recordVars,
                   planVars, todo, latest>>

\* postRemovalNodes; the name service takes no empty set of records.
ShrinkDns(p) ==
    /\ step[p] = "shrinkDns" /\ addrs[p] # leaving[p]
    /\ dns' = addrs[p] \ leaving[p]
    /\ GoTo(p, IF Has("nginx") THEN "shrinkPassive" ELSE "reconcile")
    /\ UNCHANGED <<clusterVars, healthVars, jobVars, callVars, blind, kind, passive, active,
                   planVars, todo, latest>>

ShrinkPassive(p) ==
    /\ step[p] = "shrinkPassive"
    /\ updatePassiveLoadBalancer(addrs[p] \ leaving[p], kind.columnar, kind.certs)
    /\ GoTo(p, "reconcile")
    /\ UNCHANGED <<clusterVars, healthVars, jobVars, callVars, blind, kind, dns, active,
                   planVars, todo, latest>>

\* Mutant: a node that did not answer before is not waited for.
ReconcileRebalanceAll(p) ==
    /\ step[p] = "reconcile" /\ heard[p] \ leaving[p] # {}
    /\ eject' = [eject EXCEPT ![p] = {}]
    /\ ctrl' = [ctrl EXCEPT ![p] = {}]
    /\ heard' = [heard EXCEPT ![p] = {}]
    /\ todo' = [todo EXCEPT ![p] = leaving[p]]
    /\ GoTo(p, "select")
    /\ UNCHANGED <<clusterVars, healthVars, addrs, known, unread, orchs, attempts, blind,
                   recordVars, fresh, leaving, latest>>

\* Only a node whose OTP name is known can be ejected.
ReconcileRebalance(p) ==
    /\ step[p] = "reconcile" /\ heard[p] \ leaving[p] # {}
    /\ eject' = [eject EXCEPT ![p] = heard[p] \intersect leaving[p]]
    /\ ctrl' = [ctrl EXCEPT ![p] = {}]
    /\ heard' = [heard EXCEPT ![p] = {}]
    /\ todo' = [todo EXCEPT ![p] = leaving[p]]
    /\ GoTo(p, "select")
    /\ UNCHANGED <<clusterVars, healthVars, addrs, known, unread, orchs, attempts, blind,
                   recordVars, fresh, leaving, latest>>

-----------------------------------------------------------------------------
(* ... and after it.                                                       *)

\* Controller.RemoveNode
RemoveContainer(p, n) ==
    /\ step[p] = "balanced" /\ n \in todo[p] \intersect box
    /\ box' = box \ {n}
    /\ down' = down \ {n}
    /\ todo' = [todo EXCEPT ![p] = @ \ {n}]
    /\ UNCHANGED <<clusterVars, outages, step, jobVars, callVars, blind, recordVars,
                   planVars, latest>>

\* What is left to do at the end, in order.
Rest == <<"growDns", "growPassive", "shrinkActive", "ok">>

Due(p, s) ==
    CASE s = "growDns" -> fresh[p] # {} /\ Has("dns")
      [] s = "growPassive" -> fresh[p] # {} /\ Has("nginx")
      [] s = "shrinkActive" -> leaving[p] # {} /\ Has("haproxy")
      [] s = "ok" -> TRUE

\* Go on with the first that is due after the first k.
Continue(p, k) ==
    \E i \in k + 1 .. 4 :
        /\ Due(p, Rest[i]) /\ \A j \in k + 1 .. i - 1 : ~Due(p, Rest[j])
        /\ GoTo(p, Rest[i])

Removed(p) ==
    /\ step[p] = "balanced" /\ todo[p] = {} /\ box # {}
    /\ latest' = [latest EXCEPT ![p] = box]
    /\ Continue(p, 0)
    /\ UNCHANGED <<clusterVars, healthVars, jobVars, callVars, blind, recordVars,
                   planVars, todo>>

\* Mutant: the records are replaced by those of the new nodes.
GrowDnsNew(p) ==
    /\ step[p] = "growDns"
    /\ dns' = fresh[p]
    /\ Continue(p, 1)
    /\ UNCHANGED <<clusterVars, healthVars, jobVars, callVars, blind, kind, passive, active,
                   planVars, todo, latest>>

GrowDns(p) ==
    /\ step[p] = "growDns"
    /\ dns' = latest[p]
    /\ Continue(p, 1)
    /\ UNCHANGED <<clusterVars, healthVars, jobVars, callVars, blind, kind, passive, active,
                   planVars, todo, latest>>

GrowPassive(p) ==
    /\ step[p] = "growPassive"
    /\ updatePassiveLoadBalancer(latest[p], kind.certs, kind.columnar)
    /\ Continue(p, 2)
    /\ UNCHANGED <<clusterVars, healthVars, jobVars, callVars, blind, kind, dns, active,
                   planVars, todo, latest>>

ShrinkActive(p) ==
    /\ step[p] = "shrinkActive"
    /\ updateActiveLoadBalancer(latest[p], kind.certs, kind.columnar)
    /\ Continue(p, 3)
    /\ UNCHANGED <<clusterVars, healthVars, jobVars, callVars, blind, kind, dns, passive,
                   planVars, todo, latest>>

\* A step that cannot succeed, whatever is tried.
Refused(p) ==
    \/ step[p] = "register" /\ todo[p] # {}
         /\ (~CtrlResponds(p) \/ running # {} \/ ~(todo[p] \subseteq Alive \ Joined))
    \/ step[p] = "shrinkDns" /\ addrs[p] = leaving[p]
    \/ step[p] = "reconcile" /\ heard[p] \subseteq leaving[p]
    \/ step[p] = "balanced" /\ ~(todo[p] \subseteq box)
    \/ step[p] = "balanced" /\ box = {}

\* Nothing is undone.
Abandon(p) ==
    /\ Leave(p, "err")
    /\ heard' = [heard EXCEPT ![p] = {}]
    /\ todo' = [todo EXCEPT ![p] = {}]
    /\ latest' = [latest EXCEPT ![p] = {}]
    /\ UNCHANGED <<blind, recordVars, fresh, leaving>>

GiveUp(p) == Refused(p) /\ Abandon(p)

\* A call fails, having taken effect or not, or the command is interrupted.
Fail(p) == Busy(p) /\ Abandon(p)

AddRemoveNodes(p) ==
    \/ \E n \in Node : DeployNode(p, n) \/ Register(p, n) \/ RemoveContainer(p, n)
    \/ Registered(p) \/ GrowActive(p) \/ ShrinkDns(p)
    \/ ShrinkPassive(p) \/ ReconcileRebalance(p) \/ Removed(p)
    \/ GrowDns(p) \/ GrowPassive(p) \/ ShrinkActive(p) \/ GiveUp(p)

Progress(p) == AddRemoveNodes(p) \/ (RebalanceWithRetry(p) /\ UNCHANGED dockerVars)

Next ==
    \/ Cluster /\ UNCHANGED dockerVars
    \/ \E p \in Proc : Start(p) \/ Progress(p) \/ Fail(p)

\* A rebalance ends, a process goes on, and a check is not repeated for ever.
Fairness ==
    /\ WF_vars((FinishRebalance \/ FailRebalance) /\ UNCHANGED dockerVars)
    /\ \A p \in Proc :
          /\ WF_vars(Progress(p))
          /\ SF_vars((StartOver(p) \/ CannotStartOver(p)) /\ UNCHANGED dockerVars)

Spec == Init /\ [][Next]_vars /\ Fairness

-----------------------------------------------------------------------------
(* Properties                                                              *)

Steps ==
    {"idle", "deploy", "register", "growActive", "shrinkDns",
     "shrinkPassive", "reconcile", "select", "list", "begin", "beginAgain", "wait",
     "check", "unbalanced", "balanced", "growDns", "growPassive",
     "shrinkActive", "ok", "err"}

TypeOK ==
    /\ member \in SUBSET Node /\ pending \in SUBSET Node /\ orch \in Node
    /\ broken \in BOOLEAN /\ running \in SUBSET SUBSET Node
    /\ down \in SUBSET box /\ outages \in 0 .. MaxOutages /\ box \in SUBSET Node
    /\ step \in [Proc -> Steps]
    /\ addrs \in [Proc -> SUBSET Node] /\ eject \in [Proc -> SUBSET Node]
    /\ ctrl \in [Proc -> SUBSET Node] /\ known \in [Proc -> SUBSET Node]
    /\ unread \in [Proc -> SUBSET Node] /\ orchs \in [Proc -> Nat]
    /\ attempts \in [Proc -> 0 .. MaxAttempts] /\ blind \in SUBSET Node
    /\ kind \in Clusters /\ dns \in SUBSET Node
    /\ {passive, active} \subseteq
           [nodes : SUBSET Node, tls : BOOLEAN, columnar : BOOLEAN]
    /\ fresh \in [Proc -> SUBSET Node] /\ leaving \in [Proc -> SUBSET Node]
    /\ heard \in [Proc -> SUBSET Node] /\ todo \in [Proc -> SUBSET Node]
    /\ latest \in [Proc -> SUBSET Node]

\* Whatever two commands do to each other, and however often a rebalance is
\* tried again, a container is removed only when its node has left the
\* Couchbase cluster, or has not answered when it was to be ejected.
RemovedHaveLeft == Joined \ box \subseteq blind

\* A command that gets past its rebalance has the nodes it added in the
\* cluster, unless another command has taken them out.
AddedAreMembers ==
    \A p \in Proc :
        step[p] \in {"balanced", "growDns", "growPassive", "shrinkActive", "ok"} =>
            \A n \in fresh[p] \ member : \E q \in Proc : n \in leaving[q]

\* As long as commands come one after the other, also when they fail or are
\* interrupted anywhere, a client is never sent to a container that is gone.
NamesExist == ~Concurrent => dns \union passive.nodes \subseteq box

\* If none has failed either, it is only ever sent to members of the cluster.
NamesAreMembers ==
    (~Concurrent /\ \A p \in Proc : step[p] # "err") => dns \union passive.nodes \subseteq member

\* Whenever all is quiet then, each of the records names the whole cluster.
NamesComplete ==
    (~Concurrent /\ \A p \in Proc : step[p] \in {"idle", "ok"}) =>
        /\ Has("dns") => dns = box
        /\ Has("nginx") => passive.nodes = box
        /\ Has("haproxy") => active.nodes = box

\* Every command ends: polls and retries do not go on for ever.
Ends == \A p \in Proc : Busy(p) ~> step[p] \in {"ok", "err"}
=============================================================================
