----------------------------- MODULE Rebalance -----------------------------
(***************************************************************************)
(* RebalanceWithRetry: pick a node that stays, list the nodes, start a     *)
(* rebalance, wait until no task runs, and ask the nodes one by one        *)
(* whether the cluster is balanced; if it is not for a while, start over.  *)
(* Several processes may do so on one Couchbase cluster, whose nodes may   *)
(* stop answering and whose rebalance may fail.                            *)
(*                                                                         *)
(* Source: utils/clustercontrol (nodemanager.go, controller.go).  The      *)
(* cluster itself is external and modelled from what the code relies on.   *)
(***************************************************************************)
EXTENDS Naturals, FiniteSets

CONSTANTS
    Node,         \* the server nodes
    Proc,         \* the processes that work on the cluster
    MaxAttempts,  \* bound on the rebalances one call starts
    MaxOutages    \* bound on how often a node stops answering

ASSUME BoundAssumption == MaxAttempts \in Nat /\ MaxOutages \in Nat

VARIABLES
    member,    \* the active nodes of the Couchbase cluster
    pending,   \* those added and not yet rebalanced in
    orch,      \* its orchestrator
    broken,    \* whether a rebalance has failed half way
    running,   \* the running rebalance, as the set it ejects: one or none
    down,      \* the nodes that do not answer
    outages,   \* how often one has stopped answering
    box,       \* the nodes whose container exists
    step,      \* each process: where it is,
    addrs,     \*   the addresses it knows,
    eject,     \*   the nodes it ejects (those whose OTP name it knows),
    ctrl,      \*   the node it talks to: one or none,
    known,     \*   the nodes it has listed,
    unread,    \*   the nodes it has still to ask in this check,
    orchs,     \*   how many have claimed to be the orchestrator,
    attempts,  \*   how often it has started over
    blind      \* nodes that did not answer a process that wanted to eject them

clusterVars == <<member, pending, orch, broken, running>>
healthVars == <<down, outages, box>>
callVars == <<ctrl, known, unread, orchs, attempts>>
jobVars == <<addrs, eject>>

-----------------------------------------------------------------------------
(* The Couchbase cluster.                                                  *)

Joined == member \union pending

Alive == box \ down

\* GetLocalInfo answers: a node outside the cluster has no local info.
Responds(n) == n \in Joined \intersect Alive

IsBalanced == pending = {} /\ ~broken

\* A finished rebalance lets the new nodes in and the ejected ones out.
FinishRebalance ==
    /\ Joined \subseteq Alive
    /\ \E e \in running :
          /\ member' = Joined \ e
          /\ orch' \in IF orch \in e THEN Joined \ e ELSE {orch}
          /\ blind' = blind \ e
    /\ pending' = {} /\ broken' = FALSE /\ running' = {}
    /\ UNCHANGED <<healthVars, step, jobVars, callVars>>

\* It fails at once, or when it has moved some data.
FailRebalance ==
    /\ running # {}
    /\ running' = {}
    /\ broken' \in {broken, TRUE}
    /\ UNCHANGED <<member, pending, orch, healthVars, step, jobVars, callVars, blind>>

\* (Whether a container outside the cluster answers makes no difference.)
StopAnswering(n) ==
    /\ Responds(n) /\ outages < MaxOutages
    /\ down' = down \union {n} /\ outages' = outages + 1
    /\ UNCHANGED <<clusterVars, box, step, jobVars, callVars, blind>>

AnswerAgain(n) ==
    /\ n \in down
    /\ down' = down \ {n}
    /\ UNCHANGED <<clusterVars, outages, box, step, jobVars, callVars, blind>>

Elect(n) ==
    /\ orch \notin Alive /\ n \in member \intersect Alive
    /\ orch' = n
    /\ UNCHANGED <<member, pending, broken, running, healthVars, step, jobVars,
                   callVars, blind>>

Cluster ==
    \/ FinishRebalance \/ FailRebalance
    \/ \E n \in Node : StopAnswering(n) \/ AnswerAgain(n) \/ Elect(n)

-----------------------------------------------------------------------------
(* RebalanceWithRetry                                                      *)

GoTo(p, to) == step' = [step EXCEPT ![p] = to]

\* The call returns and forgets what it has read.
Leave(p, to) ==
    /\ GoTo(p, to)
    /\ ctrl' = [ctrl EXCEPT ![p] = {}]
    /\ known' = [known EXCEPT ![p] = {}]
    /\ unread' = [unread EXCEPT ![p] = {}]
    /\ orchs' = [orchs EXCEPT ![p] = 0]
    /\ attempts' = [attempts EXCEPT ![p] = 0]
    /\ addrs' = [addrs EXCEPT ![p] = {}]
    /\ eject' = [eject EXCEPT ![p] = {}]
    /\ UNCHANGED <<clusterVars, healthVars>>

CtrlResponds(p) == \A c \in ctrl[p] : Responds(c)

\* time.Now().After(lastAllowedRetryTime)
Exhausted(p) ==
    /\ step[p] = "select" /\ attempts[p] > 0
    /\ Leave(p, "err") /\ UNCHANGED blind

\* Mutant: the time limit is not looked at.
SelectAnyTime(p) ==
    /\ step[p] = "select"
    /\ \E n \in addrs[p] \ eject[p] :
          /\ Responds(n)
          /\ ctrl' = [ctrl EXCEPT ![p] = {n}]
    /\ GoTo(p, "list")
    /\ UNCHANGED <<clusterVars, healthVars, jobVars, known, unread, orchs, attempts, blind>>

\* The first node that answers and stays; one that answered late is skipped.
SelectControlNode(p) ==
    /\ step[p] = "select" /\ attempts[p] < MaxAttempts
    /\ \E n \in addrs[p] \ eject[p] :
          /\ Responds(n)
          /\ ctrl' = [ctrl EXCEPT ![p] = {n}]
    /\ GoTo(p, "list")
    /\ UNCHANGED <<clusterVars, healthVars, jobVars, known, unread, orchs, attempts, blind>>

NoControlNode(p) ==
    /\ step[p] = "select"
    /\ \A n \in addrs[p] \ eject[p] : ~Responds(n)
    /\ Leave(p, "err") /\ UNCHANGED blind

ListNodeOTPs(p) ==
    /\ step[p] = "list" /\ CtrlResponds(p)
    /\ known' = [known EXCEPT ![p] = Joined]
    /\ GoTo(p, "begin")
    /\ UNCHANGED <<clusterVars, healthVars, jobVars, ctrl, unread, orchs, attempts, blind>>

\* The cluster compares the nodes it is told with those it has.
Agrees(p) ==
    /\ known[p] = Joined /\ eject[p] \subseteq Joined
    /\ Joined \ eject[p] # {}

\* A request that meets a running rebalance is answered as if it had begun.
BeginRebalance(p) ==
    /\ step[p] \in {"begin", "beginAgain"} /\ CtrlResponds(p)
    /\ \/ running = {} /\ Agrees(p) /\ running' = {eject[p]}
       \/ running # {} /\ UNCHANGED running
    /\ GoTo(p, "wait")
    /\ known' = [known EXCEPT ![p] = {}]
    /\ UNCHANGED <<member, pending, orch, broken, healthVars, jobVars, ctrl,
                   unread, orchs, attempts, blind>>

\* The answer is lost: doRetriableReq sends the request again.
BeginUnanswered(p) ==
    /\ step[p] = "begin" /\ CtrlResponds(p)
    /\ running = {} /\ Agrees(p) /\ running' = {eject[p]}
    /\ GoTo(p, "beginAgain")
    /\ UNCHANGED <<member, pending, orch, broken, healthVars, jobVars, callVars, blind>>

BeginRefused(p) ==
    /\ step[p] \in {"begin", "beginAgain"} /\ CtrlResponds(p)
    /\ running = {} /\ ~Agrees(p)
    /\ Leave(p, "err") /\ UNCHANGED blind

\* All retries of a request to the control node have failed.
Unreachable(p) ==
    /\ step[p] \in {"list", "begin", "beginAgain", "wait"}
    /\ ~CtrlResponds(p)
    /\ Leave(p, "err") /\ UNCHANGED blind

StartCheck(p) ==
    /\ GoTo(p, "check")
    /\ unread' = [unread EXCEPT ![p] = addrs[p]]
    /\ orchs' = [orchs EXCEPT ![p] = 0]
    /\ UNCHANGED <<clusterVars, healthVars, jobVars, ctrl, known, attempts, blind>>

WaitForNoRunningTasks(p) ==
    /\ step[p] = "wait" /\ CtrlResponds(p) /\ running = {}
    /\ StartCheck(p)

\* checkClusterIsBalanced asks node n; whoever does not answer is skipped.
SkipNode(p, n) ==
    /\ step[p] = "check" /\ n \in unread[p] /\ ~Responds(n)
    /\ unread' = [unread EXCEPT ![p] = @ \ {n}]
    /\ blind' = blind \union ({n} \intersect eject[p] \intersect Joined)
    /\ UNCHANGED <<clusterVars, healthVars, step, jobVars, ctrl, known, orchs, attempts>>

Unbalanced(p) ==
    /\ GoTo(p, "unbalanced")
    /\ unread' = [unread EXCEPT ![p] = {}]
    /\ orchs' = [orchs EXCEPT ![p] = 0]
    /\ UNCHANGED <<clusterVars, healthVars, jobVars, ctrl, known, attempts>>

\* An orchestrator of an unbalanced cluster, or a node that was to be ejected.
Objects(p, n) == (n = orch /\ ~IsBalanced) \/ n \in eject[p]

PassNode(p, n) ==
    /\ step[p] = "check" /\ n \in unread[p] /\ Responds(n) /\ ~Objects(p, n)
    /\ unread' = [unread EXCEPT ![p] = @ \ {n}]
    /\ orchs' = [orchs EXCEPT ![p] = IF n = orch THEN @ + 1 ELSE @]
    /\ UNCHANGED <<clusterVars, healthVars, step, jobVars, ctrl, known, attempts, blind>>

\* Or a node that is not healthy, for example still warming up.
ObjectNode(p, n) ==
    /\ step[p] = "check" /\ n \in unread[p] /\ Responds(n)
    /\ \E healthy \in BOOLEAN : Objects(p, n) \/ ~healthy
    /\ Unbalanced(p) /\ UNCHANGED blind

\* Mutant: the orchestrators are not counted.
CheckedUncounted(p) ==
    /\ step[p] = "check" /\ unread[p] = {}
    /\ Leave(p, "balanced") /\ UNCHANGED blind

Checked(p) ==
    /\ step[p] = "check" /\ unread[p] = {}
    /\ IF orchs[p] = 1 THEN Leave(p, "balanced") ELSE Unbalanced(p)
    /\ UNCHANGED blind

CheckAgain(p) == step[p] = "unbalanced" /\ StartCheck(p)

\* Mutant: the filter keeps the nodes that have left.
StartOverKeepGone(p) ==
    /\ step[p] = "unbalanced"
    /\ eject[p] # {} => CtrlResponds(p)
    /\ eject' = [eject EXCEPT ![p] = @ \ Joined]
    /\ attempts' = [attempts EXCEPT ![p] = @ + 1]
    /\ ctrl' = [ctrl EXCEPT ![p] = {}]
    /\ GoTo(p, "select")
    /\ UNCHANGED <<clusterVars, healthVars, addrs, known, unread, orchs, blind>>

\* Mutant: the time limit is taken anew for each attempt.
StartOverAnew(p) ==
    /\ step[p] = "unbalanced"
    /\ eject[p] # {} => CtrlResponds(p)
    /\ eject' = [eject EXCEPT ![p] = @ \intersect Joined]
    /\ ctrl' = [ctrl EXCEPT ![p] = {}]
    /\ GoTo(p, "select")
    /\ UNCHANGED <<clusterVars, healthVars, addrs, known, unread,
                   orchs, attempts, blind>>

\* Fifteen seconds have passed: what has left need not be ejected again.
StartOver(p) ==
    /\ step[p] = "unbalanced"
    /\ eject[p] # {} => CtrlResponds(p)
    /\ eject' = [eject EXCEPT ![p] = @ \intersect Joined]
    /\ attempts' = [attempts EXCEPT ![p] = @ + 1]
    /\ ctrl' = [ctrl EXCEPT ![p] = {}]
    /\ GoTo(p, "select")
    /\ UNCHANGED <<clusterVars, healthVars, addrs, known, unread, orchs, blind>>

\* ListNodeOTPs fails during the filtering.
CannotStartOver(p) ==
    /\ step[p] = "unbalanced" /\ eject[p] # {} /\ ~CtrlResponds(p)
    /\ Leave(p, "err") /\ UNCHANGED blind

RebalanceWithRetry(p) ==
    \/ Exhausted(p) \/ SelectControlNode(p) \/ NoControlNode(p)
    \/ ListNodeOTPs(p) \/ BeginRebalance(p) \/ BeginUnanswered(p) \/ BeginRefused(p)
    \/ Unreachable(p) \/ WaitForNoRunningTasks(p)
    \/ \E n \in Node : SkipNode(p, n) \/ PassNode(p, n) \/ ObjectNode(p, n)
    \/ Checked(p) \/ CheckAgain(p) \/ StartOver(p) \/ CannotStartOver(p)
=============================================================================
