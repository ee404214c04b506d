----------------------- MODULE DockerMembership_proofs -----------------------
(***************************************************************************)
(* What is proved of DockerMembership, for every set of nodes, processes   *)
(* and kinds of clusters, and for any bounds: the type invariant, that no  *)
(* container is removed under a node of the Couchbase cluster, that the    *)
(* added nodes are members of it, and what the records and load balancers  *)
(* name while commands come one after the other.                           *)
(***************************************************************************)
EXTENDS DockerMembership, TLAPS, FiniteSetTheorems

\* The time limit has not passed between the selection and the end of a check.
Attempting == {"list", "begin", "beginAgain", "wait", "check", "unbalanced"}

TInv ==
    /\ TypeOK
    /\ \A p \in Proc : step[p] \in Attempting => attempts[p] < MaxAttempts

-----------------------------------------------------------------------------
(* The inductive invariant of RemovedHaveLeft.                             *)

\* Nodes that a process will still register.
Awaits(q, n) ==
    \/ step[q] = "deploy" /\ n \in fresh[q]
    \/ step[q] = "register" /\ n \in todo[q]

Awaited(n) == \E q \in Proc : Awaits(q, n)

Used(n) == n \in Initial \/ \E q \in Proc : n \in fresh[q]

\* The container of the node may be removed, now and later: the node is out of
\* the cluster for good, or has not answered.
Removable(n) == n \in blind \/ (n \notin Joined /\ ~Awaited(n))

Before == {"deploy", "register", "growActive", "shrinkDns", "shrinkPassive", "reconcile"}
During == Attempting \union {"select"}

\* A running rebalance ejects nodes of the cluster.
Ejecting == \A e \in running : e \subseteq Joined

\* Every node is deployed by one process, and registered once.
Apart ==
    /\ \A q \in Proc : \A n \in fresh[q] : n \notin Initial
    /\ \A q, r \in Proc : \A n \in fresh[q] : q # r => n \notin fresh[r]
    /\ \A q \in Proc : step[q] = "idle" => fresh[q] = {}
    /\ \A q \in Proc : step[q] \in {"deploy", "register"} => todo[q] \subseteq fresh[q]
    /\ \A n \in Joined : Used(n) /\ ~Awaited(n)
    /\ \A n \in box : Used(n)

\* What process p knows of the nodes it removes.
Knows(p) ==
    /\ eject[p] \subseteq leaving[p]
    /\ \A n \in leaving[p] : Used(n)
    /\ \A n \in heard[p] \union eject[p] : Used(n) /\ ~Awaited(n)
    /\ step[p] = "idle" => eject[p] = {}
    /\ step[p] \in Before \union During => leaving[p] \subseteq addrs[p]
    /\ step[p] \in Before => \A n \in leaving[p] \ heard[p] : Removable(n)
    /\ step[p] \in During =>
          /\ todo[p] = leaving[p]
          /\ \A n \in leaving[p] \ eject[p] : Removable(n)
    /\ step[p] = "check" => \A n \in eject[p] \ unread[p] : Removable(n)
    /\ step[p] = "balanced" =>
          /\ todo[p] \subseteq leaving[p]
          /\ \A n \in todo[p] : Removable(n)

IInv ==
    /\ TypeOK /\ Ejecting /\ Apart /\ RemovedHaveLeft
    /\ \A p \in Proc : Knows(p)

-----------------------------------------------------------------------------
(* Types                                                                   *)

USE DEF Steps

LEMMA InitTypes == Init => TInv
<1> SUFFICES ASSUME Init PROVE TInv
  OBVIOUS
<1>1. kind \in [features : SUBSET {"dns", "nginx", "haproxy"}, certs : BOOLEAN, columnar : BOOLEAN]
  BY ClustersAssumption DEF Init
<1>2. {passive, active} \subseteq [nodes : SUBSET Node, tls : BOOLEAN, columnar : BOOLEAN]
  BY <1>1, InitialAssumption DEF Init, Named
<1>3. attempts \in [Proc -> 0 .. MaxAttempts] /\ outages \in 0 .. MaxOutages
  BY BoundAssumption DEF Init
<1>4. /\ member \in SUBSET Node /\ pending \in SUBSET Node /\ orch \in Node
      /\ down \in SUBSET box /\ box \in SUBSET Node /\ dns \in SUBSET Node
  BY InitialAssumption DEF Init, Named
<1>5. TypeOK
  BY <1>2, <1>3, <1>4 DEF Init, TypeOK
<1> QED
  BY <1>5 DEF Init, TInv, Attempting

LEMMA ClusterTypes == TInv /\ Cluster /\ UNCHANGED dockerVars => TInv'
<1> SUFFICES ASSUME TInv, Cluster, UNCHANGED dockerVars PROVE TInv'
  OBVIOUS
<1> USE DEF TInv, TypeOK, Attempting, dockerVars, recordVars, planVars, Joined, Alive,
        Responds, clusterVars, healthVars, callVars, jobVars
<1>1. CASE FinishRebalance
  BY <1>1 DEF FinishRebalance
<1>2. CASE FailRebalance
  BY <1>2 DEF FailRebalance
<1>3. ASSUME NEW n \in Node, StopAnswering(n) PROVE TInv'
  BY <1>3, BoundAssumption DEF StopAnswering
<1>4. ASSUME NEW n \in Node, AnswerAgain(n) PROVE TInv'
  BY <1>4 DEF AnswerAgain
<1>5. ASSUME NEW n \in Node, Elect(n) PROVE TInv'
  BY <1>5 DEF Elect
<1> QED
  BY <1>1, <1>2, <1>3, <1>4, <1>5 DEF Cluster

LEMMA LeaveTypes ==
  ASSUME NEW p \in Proc, NEW to \in {"balanced", "err"}, TInv, Leave(p, to),
         blind' \in SUBSET Node, UNCHANGED <<recordVars, fresh, leaving>>,
         heard' \in [Proc -> SUBSET Node], todo' \in [Proc -> SUBSET Node],
         latest' \in [Proc -> SUBSET Node]
  PROVE  TInv'
<1>1. step' \in [Proc -> Steps] /\ attempts' \in [Proc -> 0 .. MaxAttempts]
  BY BoundAssumption DEF TInv, TypeOK, Leave, GoTo
<1>2. /\ addrs' \in [Proc -> SUBSET Node] /\ eject' \in [Proc -> SUBSET Node]
      /\ ctrl' \in [Proc -> SUBSET Node] /\ known' \in [Proc -> SUBSET Node]
      /\ unread' \in [Proc -> SUBSET Node] /\ orchs' \in [Proc -> Nat]
  BY DEF TInv, TypeOK, Leave
<1>3. TypeOK'
  BY <1>1, <1>2 DEF TInv, TypeOK, Leave, recordVars, clusterVars, healthVars
<1>4. \A q \in Proc : step'[q] \in Attempting => attempts'[q] < MaxAttempts
  BY DEF TInv, TypeOK, Leave, GoTo, Attempting
<1> QED
  BY <1>3, <1>4 DEF TInv

LEMMA RebalanceTypes ==
  ASSUME NEW p \in Proc, TInv, RebalanceWithRetry(p), UNCHANGED dockerVars
  PROVE  TInv'
<1> USE DEF dockerVars, planVars
<1>1. ASSUME NEW to \in {"balanced", "err"}, Leave(p, to), UNCHANGED blind PROVE TInv'
  BY <1>1, LeaveTypes DEF TInv, TypeOK
<1> USE BoundAssumption DEF TInv, TypeOK, Attempting, recordVars, Joined,
        clusterVars, healthVars, callVars, jobVars, GoTo
<1>2. CASE Exhausted(p) \/ NoControlNode(p) \/ BeginRefused(p) \/ Unreachable(p)
             \/ CannotStartOver(p)
  BY <1>1, <1>2 DEF Exhausted, NoControlNode, BeginRefused, Unreachable, CannotStartOver
<1>3. CASE SelectControlNode(p)
  BY <1>3 DEF SelectControlNode
<1>4. CASE ListNodeOTPs(p)
  BY <1>4 DEF ListNodeOTPs
<1>5. CASE BeginRebalance(p)
  BY <1>5 DEF BeginRebalance
<1>6. CASE BeginUnanswered(p)
  BY <1>6 DEF BeginUnanswered
<1>7. CASE WaitForNoRunningTasks(p)
  BY <1>7 DEF WaitForNoRunningTasks, StartCheck
<1>8. ASSUME NEW n \in Node, SkipNode(p, n) PROVE TInv'
  BY <1>8 DEF SkipNode
<1>9. ASSUME NEW n \in Node, PassNode(p, n) PROVE TInv'
  BY <1>9 DEF PassNode
<1>10. ASSUME NEW n \in Node, ObjectNode(p, n) PROVE TInv'
  BY <1>10 DEF ObjectNode, Unbalanced
<1>11. CASE Checked(p)
  <2>1. CASE orchs[p] = 1
    BY <1>1, <1>11, <2>1 DEF Checked
  <2>2. CASE orchs[p] # 1
    BY <1>11, <2>2 DEF Checked, Unbalanced
  <2> QED
    BY <2>1, <2>2
<1>12. CASE CheckAgain(p)
  BY <1>12 DEF CheckAgain, StartCheck
<1>13. CASE StartOver(p)
  BY <1>13 DEF StartOver
<1> HIDE DEF TInv, TypeOK, Attempting, recordVars, Joined, clusterVars, healthVars,
        callVars, jobVars, GoTo, dockerVars, planVars
<1> QED
  BY <1>2, <1>3, <1>4, <1>5, <1>6, <1>7, <1>8, <1>9, <1>10, <1>11, <1>12, <1>13
     DEF RebalanceWithRetry

LEMMA AddRemoveTypes ==
  ASSUME NEW p \in Proc, TInv, AddRemoveNodes(p)
  PROVE  TInv'
<1>1. CASE GiveUp(p)
  BY <1>1, LeaveTypes DEF GiveUp, Abandon, TInv, TypeOK, recordVars
<1>2. \A i \in 1 .. 4 : Rest[i] \in {"growDns", "growPassive", "shrinkActive", "ok"}
  BY DEF Rest
<1>3. kind \in [features : SUBSET {"dns", "nginx", "haproxy"}, certs : BOOLEAN, columnar : BOOLEAN]
  BY ClustersAssumption DEF TInv, TypeOK
<1>4. \A k \in 0 .. 3 : Continue(p, k) =>
         step' = [step EXCEPT ![p] = step'[p]] /\ step'[p] \in Steps \ Attempting
  BY <1>2 DEF Continue, GoTo, TInv, TypeOK, Attempting
<1> USE DEF TInv, TypeOK, Attempting, GoTo, Shrink, recordVars, planVars, clusterVars,
        healthVars, callVars, jobVars
<1>5. ASSUME NEW n \in Node, DeployNode(p, n) PROVE TInv'
  BY <1>5 DEF DeployNode
<1>6. ASSUME NEW n \in Node, Register(p, n) PROVE TInv'
  BY <1>6 DEF Register
<1>7. ASSUME NEW n \in Node, RemoveContainer(p, n) PROVE TInv'
  BY <1>7 DEF RemoveContainer
<1>8. CASE Registered(p)
  BY <1>8 DEF Registered
<1>9. CASE GrowActive(p)
  BY <1>3, <1>9 DEF GrowActive, updateActiveLoadBalancer
<1>10. CASE ShrinkDns(p)
  BY <1>10 DEF ShrinkDns
<1>11. CASE ShrinkPassive(p)
  BY <1>3, <1>11 DEF ShrinkPassive, updatePassiveLoadBalancer
<1>12. CASE ReconcileRebalance(p)
  BY <1>12 DEF ReconcileRebalance
<1>13. CASE Removed(p)
  BY <1>4, <1>13 DEF Removed
<1>14. CASE GrowDns(p)
  BY <1>4, <1>14 DEF GrowDns
<1>15. CASE GrowPassive(p)
  BY <1>3, <1>4, <1>15 DEF GrowPassive, updatePassiveLoadBalancer
<1>16. CASE ShrinkActive(p)
  BY <1>3, <1>4, <1>16 DEF ShrinkActive, updateActiveLoadBalancer
<1> QED
  BY <1>1, <1>5, <1>6, <1>7, <1>8, <1>9, <1>10, <1>11, <1>12, <1>13, <1>14, <1>15, <1>16
     DEF AddRemoveNodes

LEMMA StartTypes ==
  ASSUME NEW p \in Proc, TInv, Start(p)
  PROVE  TInv'
<1>1. box \subseteq Node /\ Unused \subseteq Node
  BY DEF TInv, TypeOK, Unused
<1> USE DEF TInv, TypeOK, Attempting, GoTo, Shrink, recordVars, clusterVars, healthVars
<1>2. PICK new \in SUBSET Unused, old \in SUBSET box, first \in box :
         /\ fresh' = [fresh EXCEPT ![p] = new]
         /\ leaving' = [leaving EXCEPT ![p] = old]
         /\ todo' = [todo EXCEPT ![p] = new]
         /\ ctrl' = [ctrl EXCEPT ![p] = IF new = {} THEN {} ELSE {first}]
         /\ blind' = blind \union (old \ Heard)
         /\ GoTo(p, IF new = {} THEN Shrink(old) ELSE "deploy")
  BY DEF Start
<1>3. step' \in [Proc -> Steps] /\ step' = [step EXCEPT ![p] = step'[p]]
      /\ step'[p] \notin Attempting
  BY <1>2
<1>4. blind' \in SUBSET Node /\ Heard \in SUBSET Node
  BY <1>1, <1>2 DEF Heard
<1>5. /\ fresh' \in [Proc -> SUBSET Node] /\ leaving' \in [Proc -> SUBSET Node]
      /\ todo' \in [Proc -> SUBSET Node] /\ ctrl' \in [Proc -> SUBSET Node]
  BY <1>1, <1>2
<1>6. TypeOK'
  BY <1>1, <1>3, <1>4, <1>5 DEF Start
<1> QED
  BY <1>3, <1>6 DEF Start

LEMMA StepTypes == TInv /\ [Next]_vars => TInv'
<1> SUFFICES ASSUME TInv, [Next]_vars PROVE TInv'
  OBVIOUS
<1>1. CASE UNCHANGED vars
  BY <1>1 DEF vars, TInv, TypeOK, dockerVars, recordVars, planVars, clusterVars,
     healthVars, callVars, jobVars
<1>2. ASSUME NEW p \in Proc, Fail(p) PROVE TInv'
  BY <1>2, LeaveTypes DEF Fail, Abandon, TInv, TypeOK, recordVars
<1> QED
  BY <1>1, <1>2, ClusterTypes, StartTypes, RebalanceTypes, AddRemoveTypes DEF Next, Progress

\* Every variable keeps its type; in particular a rebalance is tried at most
\* MaxAttempts times, and only a container that exists can be down.
THEOREM Types == Spec => []TypeOK
<1> QED
  BY InitTypes, StepTypes, PTL DEF Spec, TInv

-----------------------------------------------------------------------------
(* RemovedHaveLeft                                                         *)

\* What is known of a node in use is not lost by a step.
Stable ==
    \A n \in Node : Used(n) =>
        /\ Used(n)'
        /\ ~Awaited(n) => ~Awaited(n)'
        /\ Removable(n) => Removable(n)'

Private(q) ==
    /\ step'[q] = step[q] /\ eject'[q] = eject[q] /\ leaving'[q] = leaving[q]
    /\ heard'[q] = heard[q] /\ addrs'[q] = addrs[q] /\ todo'[q] = todo[q]
    /\ unread'[q] = unread[q]

LEMMA Others ==
  ASSUME NEW q \in Proc, TypeOK, Stable, Knows(q), Private(q)
  PROVE  Knows(q)'
<1>1. leaving[q] \subseteq Node /\ heard[q] \subseteq Node
  BY DEF TypeOK
<1>2. todo[q] \subseteq Node /\ eject[q] \subseteq Node
  BY DEF TypeOK
<1> HIDE DEF Steps
<1> QED
  BY <1>1, <1>2 DEF Stable, Knows, Private

\* Most steps of a process change neither the cluster nor any container.
Quiet(p) ==
    /\ UNCHANGED <<member, pending, box, fresh, leaving>>
    /\ blind \subseteq blind'
    /\ \E to \in Steps \ {"idle", "deploy", "register"} : step' = [step EXCEPT ![p] = to]
    /\ \A q \in Proc \ {p} : Private(q)

LEMMA QuietStable ==
  ASSUME NEW p \in Proc, IInv, Quiet(p)
  PROVE  Stable /\ Apart' /\ RemovedHaveLeft'
<1>1. \A n \in Node : Used(n)' <=> Used(n)
  BY DEF Quiet, Used
<1>2. \A q \in Proc, n \in Node : Awaits(q, n)' => Awaits(q, n)
  BY DEF Quiet, Private, Awaits, IInv, TypeOK
<1>3. \A n \in Node : Awaited(n)' => Awaited(n)
  BY <1>2 DEF Awaited
<1>4. Joined' = Joined /\ Joined \subseteq Node /\ box \subseteq Node
  BY DEF Quiet, Joined, IInv, TypeOK
<1>5. \A n \in Node : Removable(n) => Removable(n)'
  BY <1>3, <1>4 DEF Removable, Quiet
<1>6. Apart'
  BY <1>1, <1>3, <1>4 DEF Apart, Quiet, Private, IInv, TypeOK
<1>7. RemovedHaveLeft'
  BY <1>4 DEF RemovedHaveLeft, Quiet, IInv
<1> QED
  BY <1>1, <1>3, <1>5, <1>6, <1>7 DEF Stable

LEMMA QuietStep ==
  ASSUME NEW p \in Proc, IInv, TypeOK', Quiet(p), Ejecting', Knows(p)'
  PROVE  IInv'
<1>1. Stable /\ Apart' /\ RemovedHaveLeft'
  BY QuietStable
<1>2. \A q \in Proc \ {p} : Knows(q)'
  BY <1>1, Others DEF Quiet, IInv
<1> QED
  BY <1>1, <1>2 DEF IInv

\* The process gives up, or has seen a balanced cluster.
LEMMA LeaveStep ==
  ASSUME NEW p \in Proc, NEW to \in {"balanced", "err"}, IInv, TypeOK',
         Leave(p, to), UNCHANGED <<blind, fresh, leaving>>,
         heard'[p] = {} \/ heard'[p] = heard[p],
         \A q \in Proc \ {p} : heard'[q] = heard[q] /\ todo'[q] = todo[q],
         to = "balanced" =>
            /\ todo'[p] \subseteq leaving[p]
            /\ \A n \in todo'[p] : Removable(n)
  PROVE  IInv'
<1>1. Quiet(p)
  <2>1. \A q \in Proc \ {p} : Private(q)
    BY DEF Leave, GoTo, Private, IInv, TypeOK
  <2>2. UNCHANGED <<member, pending, box, fresh, leaving>> /\ blind \subseteq blind'
    BY DEF Leave, clusterVars, healthVars
  <2>3. step' = [step EXCEPT ![p] = to] /\ to \in Steps \ {"idle", "deploy", "register"}
    BY DEF Leave, GoTo
  <2> QED
    BY <2>1, <2>2, <2>3 DEF Quiet
<1>2. Stable
  BY <1>1, QuietStable
<1>3. Ejecting'
  BY DEF Leave, clusterVars, Ejecting, IInv, Joined
<1>4. step'[p] = to /\ eject'[p] = {} /\ leaving'[p] = leaving[p]
  BY DEF Leave, GoTo, IInv, TypeOK
<1>5. /\ \A n \in leaving[p] : n \in Node /\ Used(n)
      /\ \A n \in heard[p] : n \in Node /\ Used(n) /\ ~Awaited(n)
  <2>1. leaving[p] \subseteq Node /\ heard[p] \subseteq Node
    BY DEF IInv, TypeOK
  <2> QED
    BY <2>1 DEF Knows, IInv
<1>6. /\ \A n \in leaving'[p] : Used(n)'
      /\ \A n \in heard'[p] \union eject'[p] : Used(n)' /\ ~Awaited(n)'
  BY <1>2, <1>4, <1>5 DEF Stable
<1>7. to = "balanced" => todo'[p] \subseteq leaving'[p] /\ \A n \in todo'[p] : Removable(n)'
  BY <1>2, <1>4, <1>5 DEF Stable
<1>8. Knows(p)'
  BY <1>4, <1>6, <1>7 DEF Knows, Before, During, Attempting
<1> QED
  BY <1>1, <1>3, <1>8, QuietStep

\* The nodes a process has in its hands.
LEMMA Hands ==
  ASSUME NEW p \in Proc, IInv
  PROVE  /\ leaving[p] \subseteq Node /\ heard[p] \subseteq Node /\ eject[p] \subseteq Node
         /\ todo[p] \subseteq Node
         /\ \A n \in leaving[p] : Used(n)
         /\ \A n \in heard[p] \union eject[p] : Used(n) /\ ~Awaited(n)
<1>1. /\ leaving[p] \subseteq Node /\ heard[p] \subseteq Node /\ eject[p] \subseteq Node
      /\ todo[p] \subseteq Node
  BY DEF IInv, TypeOK
<1> QED
  BY <1>1 DEF Knows, IInv

\* A step of RebalanceWithRetry that goes on.
LEMMA GoOn ==
  ASSUME NEW p \in Proc, IInv, TypeOK', step[p] \in During,
         NEW to \in During, step' = [step EXCEPT ![p] = to],
         UNCHANGED <<member, pending, box, dockerVars, addrs>>,
         blind \subseteq blind', Ejecting',
         \A q \in Proc \ {p} : unread'[q] = unread[q] /\ eject'[q] = eject[q],
         eject'[p] \subseteq eject[p],
         \A n \in eject[p] \ eject'[p] : n \notin Joined,
         to = "check" => \A n \in eject[p] \ unread'[p] : Removable(n) \/ Removable(n)'
  PROVE  IInv'
<1> USE DEF dockerVars, planVars
<1>1. Quiet(p)
  <2>1. \A q \in Proc \ {p} : Private(q)
    BY DEF Private, IInv, TypeOK
  <2>2. to \in Steps \ {"idle", "deploy", "register"}
    BY DEF During, Attempting
  <2> QED
    BY <2>1, <2>2 DEF Quiet
<1> HIDE DEF Steps
<1>2. Stable
  BY <1>1, QuietStable
<1>3. step'[p] = to
  BY DEF IInv, TypeOK
<1>4. /\ \A n \in leaving'[p] : Used(n)'
      /\ \A n \in heard'[p] \union eject'[p] : Used(n)' /\ ~Awaited(n)'
  BY <1>2, Hands DEF Stable
<1>5. leaving'[p] \subseteq addrs'[p] /\ eject'[p] \subseteq leaving'[p] /\ todo'[p] = leaving'[p]
  BY DEF Knows, IInv
<1>6. ASSUME NEW n \in leaving'[p] \ eject'[p] PROVE Removable(n)'
  <2>1. n \notin eject[p] => Removable(n)
    BY <1>6 DEF Knows, IInv
  <2>2. n \in eject[p] => Removable(n)
    BY <1>6, Hands DEF Removable
  <2> QED
    BY <1>2, <1>6, <2>1, <2>2, Hands DEF Stable
<1>7. to = "check" => \A n \in eject'[p] \ unread'[p] : Removable(n)'
  BY <1>2, Hands DEF Stable
<1>8. to \notin Before \union {"idle", "balanced"}
  BY DEF During, Attempting, Before
<1>9. Knows(p)'
  BY <1>3, <1>4, <1>5, <1>6, <1>7, <1>8 DEF Knows
<1> QED
  BY <1>1, <1>9, QuietStep

\* StartCheck: nobody has been asked, and every ejected node will be.
LEMMA StartCheckStep ==
  ASSUME NEW p \in Proc, IInv, TypeOK', step[p] \in During, StartCheck(p),
         UNCHANGED <<dockerVars, blind>>
  PROVE  IInv'
<1>1. step' = [step EXCEPT ![p] = "check"] /\ "check" \in During
  BY DEF StartCheck, GoTo, During, Attempting
<1>2. UNCHANGED <<member, pending, box, running, addrs, eject>>
  BY DEF StartCheck, clusterVars, healthVars, jobVars
<1>3. Ejecting'
  BY <1>2 DEF Ejecting, IInv, Joined
<1>4. unread'[p] = addrs[p] /\ \A q \in Proc \ {p} : unread'[q] = unread[q]
  BY DEF StartCheck, IInv, TypeOK
<1>5. eject[p] \ unread'[p] = {}
  BY <1>4 DEF Knows, IInv
<1> QED
  BY <1>1, <1>2, <1>3, <1>4, <1>5, GoOn

LEMMA RebalanceStep ==
  ASSUME NEW p \in Proc, IInv, TypeOK', RebalanceWithRetry(p), UNCHANGED dockerVars
  PROVE  IInv'
<1> HIDE DEF Steps
<1> USE DEF clusterVars, healthVars, callVars, jobVars, GoTo
<1>1. ASSUME Leave(p, "err"), UNCHANGED blind PROVE IInv'
  BY <1>1, LeaveStep DEF dockerVars, planVars
<1>2. ASSUME UNCHANGED <<member, pending, running>> PROVE Ejecting'
  BY <1>2 DEF Ejecting, IInv, Joined
<1>3. "list" \in During /\ "begin" \in During /\ "beginAgain" \in During /\ "wait" \in During
      /\ "check" \in During /\ "unbalanced" \in During /\ "select" \in During
  BY DEF During, Attempting
<1>4. CASE Exhausted(p) \/ NoControlNode(p) \/ BeginRefused(p) \/ Unreachable(p)
             \/ CannotStartOver(p)
  BY <1>1, <1>4 DEF Exhausted, NoControlNode, BeginRefused, Unreachable, CannotStartOver
<1>5. CASE SelectControlNode(p) \/ ListNodeOTPs(p)
  BY <1>2, <1>3, <1>5, GoOn DEF SelectControlNode, ListNodeOTPs
<1>6. CASE BeginRebalance(p) \/ BeginUnanswered(p)
  <2>1. Ejecting'
    BY <1>6 DEF BeginRebalance, BeginUnanswered, Agrees, Ejecting, IInv, Joined
  <2> QED
    BY <1>3, <1>6, <2>1, GoOn DEF BeginRebalance, BeginUnanswered
<1>7. CASE WaitForNoRunningTasks(p)
  BY <1>3, <1>7, StartCheckStep DEF WaitForNoRunningTasks, StartCheck
<1>8. CASE CheckAgain(p)
  BY <1>3, <1>8, StartCheckStep DEF CheckAgain, StartCheck
<1>9. ASSUME NEW n \in Node, SkipNode(p, n) PROVE IInv'
  <2>1. unread' = [unread EXCEPT ![p] = @ \ {n}] /\ step' = [step EXCEPT ![p] = "check"]
    BY <1>9 DEF SkipNode, IInv, TypeOK
  <2>2. Ejecting' /\ Joined' = Joined
    BY <1>2, <1>9 DEF SkipNode, Joined
  <2>3. ASSUME NEW m \in eject[p] \ unread'[p] PROVE Removable(m) \/ Removable(m)'
    <3>1. m # n => Removable(m)
      BY <1>9, <2>1, <2>3 DEF SkipNode, Knows, IInv, TypeOK
    <3>2. m = n /\ n \in Joined => Removable(m)'
      BY <1>9, <2>3 DEF SkipNode, Removable
    <3>3. m = n /\ n \notin Joined => Removable(m)
      BY <2>3, Hands DEF Removable
    <3> QED
      BY <3>1, <3>2, <3>3
  <2>4. \A q \in Proc \ {p} : unread'[q] = unread[q]
    BY <2>1 DEF IInv, TypeOK
  <2> QED
    BY <1>3, <1>9, <2>1, <2>2, <2>3, <2>4, GoOn DEF SkipNode
<1>10. ASSUME NEW n \in Node, PassNode(p, n) PROVE IInv'
  <2>1. unread' = [unread EXCEPT ![p] = @ \ {n}] /\ step' = [step EXCEPT ![p] = "check"]
    BY <1>10 DEF PassNode, IInv, TypeOK
  <2>2. Ejecting'
    BY <1>2, <1>10 DEF PassNode
  <2>3. ASSUME NEW m \in eject[p] \ unread'[p] PROVE Removable(m)
    BY <1>10, <2>1, <2>3 DEF PassNode, Objects, Knows, IInv, TypeOK
  <2>4. \A q \in Proc \ {p} : unread'[q] = unread[q]
    BY <2>1 DEF IInv, TypeOK
  <2> QED
    BY <1>3, <1>10, <2>1, <2>2, <2>3, <2>4, GoOn DEF PassNode
<1>11. ASSUME step[p] = "check", Unbalanced(p), UNCHANGED blind PROVE IInv'
  <2>1. \A q \in Proc \ {p} : unread'[q] = unread[q]
    BY <1>11 DEF Unbalanced, IInv, TypeOK
  <2> QED
    BY <1>2, <1>3, <1>11, <2>1, GoOn DEF Unbalanced
<1>12. ASSUME NEW n \in Node, ObjectNode(p, n) PROVE IInv'
  BY <1>11, <1>12 DEF ObjectNode
<1>13. CASE Checked(p)
  <2>1. CASE orchs[p] # 1
    BY <1>11, <1>13, <2>1 DEF Checked
  <2>2. CASE orchs[p] = 1
    <3>1. todo[p] \subseteq leaving[p] /\ \A n \in todo[p] : Removable(n)
      BY <1>3, <1>13 DEF Checked, Knows, IInv
    <3> QED
      BY <1>13, <2>2, <3>1, LeaveStep DEF Checked, dockerVars, planVars
  <2> QED
    BY <2>1, <2>2
<1>14. CASE StartOver(p)
  <2>1. /\ eject'[p] = eject[p] \intersect Joined
        /\ \A q \in Proc \ {p} : eject'[q] = eject[q]
    BY <1>14 DEF StartOver, IInv, TypeOK
  <2> QED
    BY <1>2, <1>3, <1>14, <2>1, GoOn DEF StartOver
<1> HIDE DEF clusterVars, healthVars, callVars, jobVars, GoTo
<1> QED
  BY <1>4, <1>5, <1>6, <1>7, <1>8, <1>9, <1>10, <1>12, <1>13, <1>14 DEF RebalanceWithRetry

LEMMA ClusterStep == IInv /\ TypeOK' /\ Cluster /\ UNCHANGED dockerVars => IInv'
<1> SUFFICES ASSUME IInv, TypeOK', Cluster, UNCHANGED dockerVars PROVE IInv'
  OBVIOUS
<1> HIDE DEF Steps
<1>1. UNCHANGED <<step, jobVars, callVars, box>>
  BY DEF Cluster, FinishRebalance, FailRebalance, StopAnswering, AnswerAgain, Elect, healthVars
<1>2. /\ \A n \in Node : Awaited(n)' = Awaited(n) /\ Used(n)' = Used(n)
      /\ \A q \in Proc : Private(q)
  BY <1>1 DEF Awaited, Awaits, Used, Private, dockerVars, planVars, jobVars, callVars
<1>3. Joined \subseteq Node /\ box \subseteq Node /\ \A q \in Proc : fresh[q] \subseteq Node
  BY DEF IInv, TypeOK, Joined
<1>4. CASE FinishRebalance
  <2>1. PICK e \in running : Joined' = Joined \ e /\ blind' = blind \ e /\ running' = {}
    BY <1>4 DEF FinishRebalance, Joined
  <2>2. e \subseteq Joined
    BY DEF IInv, Ejecting
  <2>3. \A n \in Joined : ~Awaited(n)
    BY DEF IInv, Apart
  <2>4. \A n \in Node : Removable(n) => Removable(n)'
    BY <1>2, <2>1, <2>2, <2>3 DEF Removable
  <2>5. Stable
    BY <1>2, <2>4 DEF Stable
  <2>6. Apart'
    BY <1>1, <1>2, <1>3, <2>1 DEF Apart, IInv, dockerVars, planVars
  <2>7. RemovedHaveLeft' /\ Ejecting'
    BY <1>1, <2>1 DEF RemovedHaveLeft, Ejecting, IInv
  <2> QED
    BY <1>2, <2>5, <2>6, <2>7, Others DEF IInv
<1>5. CASE ~FinishRebalance
  <2>1. Joined' = Joined /\ blind' = blind /\ running' \subseteq running
    BY <1>5 DEF Cluster, FailRebalance, StopAnswering, AnswerAgain, Elect, clusterVars, Joined
  <2>2. Stable
    BY <1>2, <2>1 DEF Stable, Removable
  <2>3. Apart'
    BY <1>1, <1>2, <1>3, <2>1 DEF Apart, IInv, dockerVars, planVars
  <2>4. RemovedHaveLeft' /\ Ejecting'
    BY <1>1, <2>1 DEF RemovedHaveLeft, Ejecting, IInv
  <2> QED
    BY <1>2, <2>2, <2>3, <2>4, Others DEF IInv
<1> QED
  BY <1>4, <1>5

LEMMA RegisterStep ==
  ASSUME NEW p \in Proc, NEW n \in Node, IInv, TypeOK', Register(p, n)
  PROVE  IInv'
<1> HIDE DEF Steps
<1>1. /\ n \in fresh[p] /\ n \in box /\ n \notin Joined /\ Joined' = Joined \union {n}
      /\ UNCHANGED <<step, fresh, blind, box>>
  BY DEF Register, Alive, Joined, IInv, Apart, callVars, planVars, healthVars
<1>2. todo'[p] = todo[p] \ {n} /\ \A q \in Proc \ {p} : todo'[q] = todo[q]
  BY DEF Register, IInv, TypeOK
<1>3. \A m \in Node : Used(m)' = Used(m)
  BY <1>1 DEF Used
<1>4. \A m \in Node : Awaited(m)' => Awaited(m)
  BY <1>1, <1>2 DEF Awaited, Awaits
<1>5. Awaited(n) /\ ~Awaited(n)'
  <2>1. Awaited(n)
    BY DEF Awaited, Awaits, Register
  <2>2. \A q \in Proc \ {p} : n \notin fresh[q]
    BY <1>1 DEF IInv, Apart
  <2>3. \A q \in Proc \ {p} : ~Awaits(q, n)'
    BY <1>1, <1>2, <2>2 DEF Awaits, IInv, Apart
  <2>4. ~Awaits(p, n)'
    BY <1>1, <1>2 DEF Awaits, Register
  <2> QED
    BY <2>1, <2>3, <2>4 DEF Awaited
<1>6. \A m \in Node : Removable(m) => Removable(m)'
  BY <1>1, <1>4, <1>5 DEF Removable
<1>7. Stable
  BY <1>3, <1>4, <1>6 DEF Stable
<1>8. Apart'
  <2>1. Joined' \subseteq Node /\ box \subseteq Node
    BY <1>1 DEF IInv, TypeOK, Joined
  <2>2. Used(n)
    BY <1>1 DEF Used
  <2> QED
    BY <1>1, <1>2, <1>3, <1>4, <1>5, <2>1, <2>2 DEF IInv, Apart
<1>9. RemovedHaveLeft' /\ Ejecting'
  BY <1>1 DEF RemovedHaveLeft, Ejecting, IInv, Register
<1>10. ASSUME NEW q \in Proc PROVE Knows(q)'
  <2>1. CASE q = p
    <3>1. /\ step'[p] = "register" /\ eject'[p] = eject[p] /\ leaving'[p] = leaving[p]
          /\ heard'[p] = heard[p] /\ addrs'[p] = addrs[p]
      BY DEF Register, planVars, jobVars
    <3>2. leaving[p] \subseteq addrs[p] /\ \A m \in leaving[p] \ heard[p] : Removable(m)'
      BY <1>7, Hands DEF Stable, Register, Knows, Before, IInv
    <3> QED
      BY <1>7, <2>1, <3>1, <3>2, Hands DEF Stable, Knows, During, Attempting, IInv
  <2>2. CASE q # p
    BY <1>2, <1>7, <2>2, Others DEF Private, Register, IInv, planVars, jobVars, callVars
  <2> QED
    BY <2>1, <2>2
<1> QED
  BY <1>8, <1>9, <1>10 DEF IInv

LEMMA RemoveContainerStep ==
  ASSUME NEW p \in Proc, NEW n \in Node, IInv, TypeOK', RemoveContainer(p, n)
  PROVE  IInv'
<1> HIDE DEF Steps
<1>1. /\ box' = box \ {n} /\ Joined' = Joined
      /\ UNCHANGED <<step, fresh, blind, running>>
  BY DEF RemoveContainer, Joined, callVars, planVars, clusterVars
<1>2. todo'[p] = todo[p] \ {n} /\ \A q \in Proc \ {p} : todo'[q] = todo[q]
  BY DEF RemoveContainer, IInv, TypeOK
<1>3. \A m \in Node : Used(m)' = Used(m)
  BY <1>1 DEF Used
<1>4. \A m \in Node : Awaited(m)' => Awaited(m)
  BY <1>1, <1>2 DEF Awaited, Awaits
<1>5. Stable
  BY <1>1, <1>3, <1>4 DEF Stable, Removable
<1>6. Apart'
  <2>1. Joined \subseteq Node /\ box \subseteq Node
    BY DEF IInv, TypeOK, Joined
  <2> QED
    BY <1>1, <1>2, <1>3, <1>4, <2>1 DEF IInv, Apart
<1>7. Removable(n)
  BY DEF RemoveContainer, Knows, IInv
<1>8. RemovedHaveLeft' /\ Ejecting'
  BY <1>1, <1>7 DEF RemovedHaveLeft, Ejecting, Removable, IInv
<1>9. ASSUME NEW q \in Proc PROVE Knows(q)'
  <2>1. CASE q = p
    <3>1. /\ step'[p] = "balanced" /\ eject'[p] = eject[p] /\ leaving'[p] = leaving[p]
          /\ heard'[p] = heard[p]
      BY DEF RemoveContainer, planVars, jobVars
    <3>2. todo[p] \subseteq leaving[p] /\ \A m \in todo[p] : Removable(m)'
      BY <1>5, Hands DEF Stable, RemoveContainer, Knows, IInv
    <3> QED
      BY <1>2, <1>5, <2>1, <3>1, <3>2, Hands
         DEF Stable, Knows, Before, During, Attempting, IInv
  <2>2. CASE q # p
    BY <1>2, <1>5, <2>2, Others DEF Private, RemoveContainer, IInv, planVars, jobVars, callVars
  <2> QED
    BY <2>1, <2>2
<1> QED
  BY <1>6, <1>8, <1>9 DEF IInv

LEMMA DeployNodeStep ==
  ASSUME NEW p \in Proc, NEW n \in Node, IInv, TypeOK', DeployNode(p, n)
  PROVE  IInv'
<1> HIDE DEF Steps
<1>1. /\ n \in fresh[p] /\ box' = box \union {n} /\ Joined' = Joined
      /\ UNCHANGED <<fresh, blind, running>>
  BY DEF DeployNode, Joined, IInv, Apart, clusterVars, planVars
<1>2. /\ \/ step' = step /\ todo'[p] = todo[p] \ {n}
         \/ step' = [step EXCEPT ![p] = "register"] /\ todo'[p] = fresh[p]
      /\ \A q \in Proc \ {p} : todo'[q] = todo[q] /\ step'[q] = step[q]
  BY DEF DeployNode, GoTo, IInv, TypeOK
<1>3. \A m \in Node : Used(m)' = Used(m)
  BY <1>1 DEF Used
<1>4. \A q \in Proc, m \in Node : Awaits(q, m)' => Awaits(q, m)
  BY <1>1, <1>2 DEF Awaits, DeployNode, IInv, TypeOK
<1>5. \A m \in Node : Awaited(m)' => Awaited(m)
  BY <1>4 DEF Awaited
<1>6. Stable
  BY <1>1, <1>3, <1>5 DEF Stable, Removable
<1>7. step[p] = "deploy" /\ step'[p] \in {"deploy", "register"} /\ todo'[p] \subseteq fresh[p]
  BY <1>2 DEF DeployNode, IInv, Apart, TypeOK
<1>8. Apart'
  <2>1. Joined \subseteq Node /\ box \subseteq Node
    BY DEF IInv, TypeOK, Joined
  <2>2. Used(n)
    BY <1>1 DEF Used
  <2> QED
    BY <1>1, <1>2, <1>3, <1>5, <1>7, <2>1, <2>2 DEF IInv, Apart
<1>9. RemovedHaveLeft' /\ Ejecting'
  BY <1>1 DEF RemovedHaveLeft, Ejecting, IInv
<1>10. ASSUME NEW q \in Proc PROVE Knows(q)'
  <2>1. CASE q = p
    <3>1. /\ eject'[p] = eject[p] /\ leaving'[p] = leaving[p]
          /\ heard'[p] = heard[p] /\ addrs'[p] = addrs[p]
      BY DEF DeployNode, planVars, jobVars
    <3>2. leaving[p] \subseteq addrs[p] /\ \A m \in leaving[p] \ heard[p] : Removable(m)'
      BY <1>6, <1>7, Hands DEF Stable, Knows, Before, IInv
    <3> QED
      BY <1>6, <1>7, <2>1, <3>1, <3>2, Hands DEF Stable, Knows, During, Attempting, IInv
  <2>2. CASE q # p
    BY <1>2, <1>6, <2>2, Others DEF Private, DeployNode, IInv, planVars, jobVars, callVars
  <2> QED
    BY <2>1, <2>2
<1> QED
  BY <1>8, <1>9, <1>10 DEF IInv

\* A step before the rebalance that goes on, or the end of a command.
LEMMA PlainStep ==
  ASSUME NEW p \in Proc, IInv, TypeOK', NEW to \in Steps \ (During \union {"idle", "balanced"}),
         to \in Before => step[p] \in Before, to \notin {"deploy", "register"},
         step' = [step EXCEPT ![p] = to],
         UNCHANGED <<clusterVars, healthVars, jobVars, callVars, blind, fresh, leaving, heard, todo>>
  PROVE  IInv'
<1>1. Quiet(p)
  BY DEF Quiet, Private, IInv, TypeOK, clusterVars, healthVars, jobVars, callVars
<1> HIDE DEF Steps
<1>2. Stable
  BY <1>1, QuietStable
<1>3. Ejecting'
  BY DEF Ejecting, IInv, Joined, clusterVars
<1>4. step'[p] = to /\ UNCHANGED <<eject, addrs>>
  BY DEF IInv, TypeOK, jobVars
<1>5. /\ \A n \in leaving'[p] : Used(n)'
      /\ \A n \in heard'[p] \union eject'[p] : Used(n)' /\ ~Awaited(n)'
  BY <1>2, <1>4, Hands DEF Stable
<1>6. to \in Before => leaving'[p] \subseteq addrs'[p] /\ \A n \in leaving'[p] \ heard'[p] : Removable(n)'
  BY <1>2, <1>4, Hands DEF Stable, Knows, IInv
<1>7. eject'[p] \subseteq leaving'[p] /\ to \notin During \union {"check", "idle", "balanced"}
  BY <1>4 DEF Knows, IInv, During, Attempting
<1>8. Knows(p)'
  BY <1>4, <1>5, <1>6, <1>7 DEF Knows
<1> QED
  BY <1>1, <1>3, <1>8, QuietStep

LEMMA ReconcileStep ==
  ASSUME NEW p \in Proc, IInv, TypeOK', ReconcileRebalance(p)
  PROVE  IInv'
<1>1. Quiet(p)
  <2>1. \A q \in Proc \ {p} : Private(q)
    BY DEF ReconcileRebalance, Private, GoTo, IInv, TypeOK
  <2> QED
    BY <2>1 DEF ReconcileRebalance, Quiet, GoTo, clusterVars, healthVars
<1> HIDE DEF Steps
<1>2. Stable
  BY <1>1, QuietStable
<1>3. Ejecting'
  BY DEF Ejecting, IInv, Joined, clusterVars, ReconcileRebalance
<1>4. /\ step[p] = "reconcile" /\ step'[p] = "select"
      /\ eject'[p] = heard[p] \intersect leaving[p]
      /\ leaving'[p] = leaving[p] /\ heard'[p] = {} /\ addrs'[p] = addrs[p]
      /\ todo'[p] = leaving[p]
  BY DEF ReconcileRebalance, GoTo, IInv, TypeOK
<1>5. /\ \A n \in leaving'[p] : Used(n)'
      /\ \A n \in heard'[p] \union eject'[p] : Used(n)' /\ ~Awaited(n)'
  BY <1>2, <1>4, Hands DEF Stable
<1>6. leaving[p] \subseteq addrs[p] /\ \A n \in leaving[p] \ heard[p] : Removable(n)'
  BY <1>2, <1>4, Hands DEF Stable, Knows, Before, IInv
<1>7. Knows(p)'
  BY <1>4, <1>5, <1>6 DEF Knows, Before
<1> QED
  BY <1>1, <1>3, <1>7, QuietStep

LEMMA AddRemoveStep ==
  ASSUME NEW p \in Proc, IInv, TypeOK', AddRemoveNodes(p)
  PROVE  IInv'
<1>1. \A k \in 0 .. 3 : Continue(p, k) =>
         \E to \in {"growDns", "growPassive", "shrinkActive", "ok"} :
            step' = [step EXCEPT ![p] = to]
  <2>1. \A i \in 1 .. 4 : Rest[i] \in {"growDns", "growPassive", "shrinkActive", "ok"}
    BY DEF Rest
  <2>2. ASSUME NEW k \in 0 .. 3, Continue(p, k)
        PROVE  \E i \in 1 .. 4 : step' = [step EXCEPT ![p] = Rest[i]]
    <3>1. PICK i \in k + 1 .. 4 : GoTo(p, Rest[i])
      BY <2>2 DEF Continue
    <3>2. i \in 1 .. 4
      OBVIOUS
    <3> QED
      BY <3>1, <3>2 DEF GoTo
  <2> QED
    BY <2>1, <2>2
<1>2. ASSUME NEW to \in {"growDns", "growPassive", "shrinkActive", "ok"},
             step' = [step EXCEPT ![p] = to],
             UNCHANGED <<clusterVars, healthVars, jobVars, callVars, blind, planVars, todo>>
      PROVE  IInv'
  BY <1>2, PlainStep DEF planVars, Before, During, Attempting
<1>3. ASSUME step[p] \in Before,
             NEW to \in {"growActive", "shrinkDns", "shrinkPassive", "reconcile"},
             step' = [step EXCEPT ![p] = to],
             UNCHANGED <<clusterVars, healthVars, jobVars, callVars, blind, planVars, todo>>
      PROVE  IInv'
  BY <1>3, PlainStep DEF planVars, Before, During, Attempting
<1>4. CASE GiveUp(p)
  <2>1. /\ heard'[p] = {}
        /\ \A q \in Proc \ {p} : heard'[q] = heard[q] /\ todo'[q] = todo[q]
    BY <1>4 DEF GiveUp, Abandon, IInv, TypeOK
  <2> QED
    BY <1>4, <2>1, LeaveStep DEF GiveUp, Abandon
<1>5. CASE \E n \in Node : DeployNode(p, n) \/ Register(p, n) \/ RemoveContainer(p, n)
  BY <1>5, DeployNodeStep, RegisterStep, RemoveContainerStep
<1> HIDE DEF Steps
<1>6. CASE Registered(p) \/ GrowActive(p) \/ ShrinkDns(p) \/ ShrinkPassive(p)
  <2>1. step[p] \in Before
    BY <1>6 DEF Registered, GrowActive, ShrinkDns, ShrinkPassive, Before
  <2>2. \E to \in {"growActive", "shrinkDns", "shrinkPassive", "reconcile"} :
           step' = [step EXCEPT ![p] = to]
    <3>1. Shrink(leaving[p]) \in {"shrinkDns", "shrinkPassive", "reconcile"}
      BY DEF Shrink
    <3> QED
      BY <1>6, <3>1 DEF Registered, GrowActive, ShrinkDns, ShrinkPassive, GoTo
  <2> QED
    BY <1>3, <1>6, <2>1, <2>2 DEF Registered, GrowActive, ShrinkDns, ShrinkPassive
<1>7. CASE ReconcileRebalance(p)
  BY <1>7, ReconcileStep
<1>8. CASE Removed(p) \/ GrowDns(p) \/ GrowPassive(p) \/ ShrinkActive(p)
  BY <1>1, <1>2, <1>8 DEF Removed, GrowDns, GrowPassive, ShrinkActive
<1> QED
  BY <1>4, <1>5, <1>6, <1>7, <1>8 DEF AddRemoveNodes

LEMMA StartStep ==
  ASSUME NEW p \in Proc, IInv, TypeOK', Start(p)
  PROVE  IInv'
<1>1. step[p] = "idle" /\ fresh[p] = {} /\ eject[p] = {}
  BY DEF Start, IInv, Apart, Knows
<1>2. PICK new \in SUBSET Unused, old \in SUBSET box :
         /\ fresh' = [fresh EXCEPT ![p] = new]
         /\ leaving' = [leaving EXCEPT ![p] = old]
         /\ todo' = [todo EXCEPT ![p] = new]
         /\ blind' = blind \union (old \ Heard)
         /\ GoTo(p, IF new = {} THEN Shrink(old) ELSE "deploy")
  BY DEF Start
<1>3. Shrink(old) \in {"shrinkDns", "shrinkPassive", "reconcile"}
  BY DEF Shrink
<1> HIDE DEF Steps
<1>4. /\ step'[p] \in Before \ {"register"} /\ (new # {} => step'[p] = "deploy")
      /\ fresh'[p] = new /\ leaving'[p] = old /\ todo'[p] = new
      /\ heard'[p] = Heard /\ addrs'[p] = box
  BY <1>2, <1>3 DEF Start, GoTo, IInv, TypeOK, Before
<1>5. /\ UNCHANGED <<clusterVars, healthVars, eject>>
      /\ \A q \in Proc \ {p} :
            fresh'[q] = fresh[q] /\ todo'[q] = todo[q] /\ step'[q] = step[q]
            /\ Private(q)
  BY <1>2 DEF Start, GoTo, Private, IInv, TypeOK
<1>6. \A n \in new : n \in Node /\ ~Used(n)
  BY <1>2 DEF Unused, Used
<1>7. \A n \in Node : Used(n)' <=> Used(n) \/ n \in new
  BY <1>1, <1>4, <1>5 DEF Used
<1>8. \A n \in Node : Awaited(n)' => Awaited(n) \/ n \in new
  BY <1>4, <1>5 DEF Awaited, Awaits
<1>9. Joined' = Joined /\ Joined \subseteq Node /\ box \subseteq Node
  BY <1>5 DEF Joined, clusterVars, IInv, TypeOK
<1>10. \A n \in Node : Used(n) /\ Removable(n) => Removable(n)'
  BY <1>2, <1>6, <1>8, <1>9 DEF Removable
<1>11. Stable
  BY <1>6, <1>7, <1>8, <1>10 DEF Stable
<1>12. Apart'
  <2>1. /\ \A n \in new : n \notin Initial
        /\ \A q \in Proc \ {p} : \A n \in new : n \notin fresh[q]
    BY <1>6 DEF Used
  <2>2. /\ \A q \in Proc : \A n \in fresh'[q] : n \notin Initial
        /\ \A q, r \in Proc : \A n \in fresh'[q] : q # r => n \notin fresh'[r]
    BY <1>4, <1>5, <2>1 DEF IInv, Apart
  <2>3. \A q \in Proc : step'[q] = "idle" => fresh'[q] = {}
    BY <1>4, <1>5 DEF IInv, Apart, Before
  <2>4. \A q \in Proc : step'[q] \in {"deploy", "register"} => todo'[q] \subseteq fresh'[q]
    BY <1>4, <1>5 DEF IInv, Apart
  <2>5. \A n \in Joined' : Used(n)' /\ ~Awaited(n)'
    BY <1>6, <1>7, <1>8, <1>9 DEF IInv, Apart
  <2>6. \A n \in box' : Used(n)'
    BY <1>5, <1>7, <1>9 DEF IInv, Apart, healthVars
  <2> QED
    BY <2>2, <2>3, <2>4, <2>5, <2>6 DEF Apart
<1>13. RemovedHaveLeft' /\ Ejecting'
  BY <1>2, <1>5, <1>9 DEF RemovedHaveLeft, Ejecting, IInv, clusterVars, healthVars
<1>14. Knows(p)'
  <2>1. \A n \in Heard : n \in Node /\ Used(n)' /\ ~Awaited(n)'
    BY <1>6, <1>7, <1>8, <1>9 DEF Heard, Responds, Alive, IInv, Apart
  <2>2. eject'[p] = {}
    BY <1>1, <1>5
  <2>3. \A n \in old : Used(n)'
    BY <1>2, <1>7, <1>9 DEF IInv, Apart
  <2>4. \A n \in old \ Heard : Removable(n)'
    BY <1>2 DEF Removable
  <2> QED
    BY <1>2, <1>4, <2>1, <2>2, <2>3, <2>4 DEF Knows, Before, During, Attempting
<1>15. \A q \in Proc \ {p} : Knows(q)'
  BY <1>5, <1>11, Others DEF IInv
<1> QED
  BY <1>12, <1>13, <1>14, <1>15 DEF IInv

LEMMA InitSafe == Init => IInv
<1> SUFFICES ASSUME Init PROVE IInv
  OBVIOUS
<1>1. TypeOK
  BY InitTypes DEF TInv
<1> HIDE DEF Steps
<1>2. \A n \in Initial : Used(n) /\ ~Awaited(n)
  BY DEF Init, Used, Awaited, Awaits
<1>3. Apart
  BY <1>2 DEF Init, Apart, Joined
<1>4. Ejecting /\ RemovedHaveLeft
  BY DEF Init, Ejecting, RemovedHaveLeft, Joined
<1>5. \A p \in Proc : Knows(p)
  BY DEF Init, Knows, Before, During, Attempting
<1> QED
  BY <1>1, <1>3, <1>4, <1>5 DEF IInv

LEMMA StepSafe == IInv /\ TypeOK' /\ [Next]_vars => IInv'
<1> SUFFICES ASSUME IInv, TypeOK', [Next]_vars PROVE IInv'
  OBVIOUS
<1> HIDE DEF Steps
<1>1. CASE UNCHANGED vars
  BY <1>1 DEF vars, IInv, Ejecting, Apart, RemovedHaveLeft, Knows, Removable, Awaited, Awaits,
     Used, Joined, dockerVars, recordVars, planVars, clusterVars, healthVars, callVars, jobVars
<1>2. ASSUME NEW p \in Proc, Fail(p) PROVE IInv'
  <2>1. /\ heard'[p] = {}
        /\ \A q \in Proc \ {p} : heard'[q] = heard[q] /\ todo'[q] = todo[q]
    BY <1>2 DEF Fail, Abandon, IInv, TypeOK
  <2> QED
    BY <1>2, <2>1, LeaveStep DEF Fail, Abandon
<1> QED
  BY <1>1, <1>2, ClusterStep, StartStep, RebalanceStep, AddRemoveStep DEF Next, Progress

\* Whatever the commands on one cluster do to each other, however often a
\* rebalance is tried again or a step fails, and whoever stops answering: no
\* container is removed while its node is in the Couchbase cluster, unless the
\* node did not answer when it was to be ejected.
THEOREM NoMemberRemoved == Spec => []RemovedHaveLeft
<1>1. Init => TInv /\ IInv
  BY InitTypes, InitSafe
<1>2. TInv /\ IInv /\ [Next]_vars => (TInv /\ IInv)'
  BY StepTypes, StepSafe DEF TInv
<1>3. IInv => RemovedHaveLeft
  BY DEF IInv
<1> QED
  BY <1>1, <1>2, <1>3, PTL DEF Spec
-----------------------------------------------------------------------------
(* AddedAreMembers                                                         *)

\* The nodes that some command was told to remove.
Gone == UNION {leaving[q] : q \in Proc}

Past == {"balanced", "growDns", "growPassive", "shrinkActive", "ok"}
Placed == {"growActive", "shrinkDns", "shrinkPassive", "reconcile"} \union During

\* What a process has added is in the cluster once it is registered, and a
\* member once an orchestrator has said that the cluster is balanced, unless
\* somebody is to remove it.
Joins(p) ==
    /\ step[p] = "idle" => leaving[p] = {}
    /\ step[p] = "register" => fresh[p] \ todo[p] \subseteq Joined \union Gone
    /\ step[p] \in Placed => fresh[p] \subseteq Joined \union Gone
    /\ step[p] \in Past \/ (step[p] = "check" /\ orchs[p] # 0) =>
          fresh[p] \subseteq member \union Gone

JInv ==
    /\ \A e \in running : e \subseteq Gone
    /\ \A p \in Proc : Joins(p)

\* What a process keeps for itself.
Same(q) ==
    /\ step'[q] = step[q] /\ addrs'[q] = addrs[q] /\ eject'[q] = eject[q]
    /\ unread'[q] = unread[q] /\ orchs'[q] = orchs[q]
    /\ fresh'[q] = fresh[q] /\ leaving'[q] = leaving[q]
    /\ heard'[q] = heard[q] /\ todo'[q] = todo[q] /\ latest'[q] = latest[q]

\* What a step of a process that is under way leaves alone.
Framed(p) ==
    /\ UNCHANGED <<member, fresh, leaving, kind>>
    /\ pending \subseteq pending'
    /\ running' = running \/ running' = {eject[p]}
    /\ \A q \in Proc \ {p} : Same(q)

LEMMA LeaveFrame ==
  ASSUME NEW p \in Proc, NEW to, TypeOK, Leave(p, to), UNCHANGED <<recordVars, fresh, leaving>>,
         \A q \in Proc \ {p} : heard'[q] = heard[q] /\ todo'[q] = todo[q] /\ latest'[q] = latest[q]
  PROVE  Framed(p)
<1> HIDE DEF Steps
<1> QED
  BY DEF Framed, Same, Leave, GoTo, TypeOK, clusterVars, recordVars

LEMMA RebalanceFrame ==
  ASSUME NEW p \in Proc, TypeOK, RebalanceWithRetry(p), UNCHANGED dockerVars
  PROVE  Framed(p)
<1> HIDE DEF Steps
<1> USE DEF dockerVars, planVars
<1>1. ASSUME NEW to, Leave(p, to) PROVE Framed(p)
  BY <1>1, LeaveFrame
<1>2. ASSUME StartCheck(p) PROVE Framed(p)
  BY <1>2 DEF StartCheck, Framed, Same, GoTo, TypeOK, clusterVars, recordVars, jobVars
<1>3. ASSUME Unbalanced(p) PROVE Framed(p)
  BY <1>3 DEF Unbalanced, Framed, Same, GoTo, TypeOK, clusterVars, recordVars, jobVars
<1>4. CASE Exhausted(p) \/ NoControlNode(p) \/ BeginRefused(p) \/ Unreachable(p)
             \/ CannotStartOver(p)
  BY <1>1, <1>4 DEF Exhausted, NoControlNode, BeginRefused, Unreachable, CannotStartOver
<1>5. CASE WaitForNoRunningTasks(p) \/ CheckAgain(p)
  BY <1>2, <1>5 DEF WaitForNoRunningTasks, CheckAgain
<1>6. CASE Checked(p) \/ \E n \in Node : ObjectNode(p, n)
  BY <1>1, <1>3, <1>6 DEF Checked, ObjectNode
<1> USE DEF Framed, Same, GoTo, TypeOK, clusterVars, recordVars, jobVars, callVars
<1>7. CASE SelectControlNode(p)
  BY <1>7 DEF SelectControlNode
<1>8. CASE ListNodeOTPs(p)
  BY <1>8 DEF ListNodeOTPs
<1>9. CASE BeginRebalance(p)
  BY <1>9 DEF BeginRebalance
<1>10. CASE BeginUnanswered(p)
  BY <1>10 DEF BeginUnanswered
<1>11. ASSUME NEW n \in Node, SkipNode(p, n) \/ PassNode(p, n) PROVE Framed(p)
  BY <1>11 DEF SkipNode, PassNode
<1>12. CASE StartOver(p)
  BY <1>12 DEF StartOver
<1> HIDE DEF Framed, Same, GoTo, TypeOK, clusterVars, recordVars, jobVars, callVars
<1> QED
  BY <1>4, <1>5, <1>6, <1>7, <1>8, <1>9, <1>10, <1>11, <1>12 DEF RebalanceWithRetry

LEMMA AddRemoveFrame ==
  ASSUME NEW p \in Proc, TypeOK, AddRemoveNodes(p)
  PROVE  Framed(p)
<1> HIDE DEF Steps
<1>1. CASE GiveUp(p)
  BY <1>1, LeaveFrame DEF GiveUp, Abandon, TypeOK
<1> USE DEF Framed, Same, TypeOK, clusterVars, recordVars, planVars, jobVars, callVars
<1>2. \A k \in 0 .. 3 : Continue(p, k) => \E to : step' = [step EXCEPT ![p] = to]
  BY DEF Continue, GoTo
<1> USE DEF GoTo
<1>3. ASSUME NEW n \in Node, DeployNode(p, n) PROVE Framed(p)
  BY <1>3 DEF DeployNode
<1>4. ASSUME NEW n \in Node, Register(p, n) PROVE Framed(p)
  BY <1>4 DEF Register
<1>5. ASSUME NEW n \in Node, RemoveContainer(p, n) PROVE Framed(p)
  BY <1>5 DEF RemoveContainer
<1>6. CASE Registered(p)
  BY <1>6 DEF Registered
<1>7. CASE GrowActive(p)
  BY <1>7 DEF GrowActive
<1>8. CASE ShrinkDns(p)
  BY <1>8 DEF ShrinkDns
<1>9. CASE ShrinkPassive(p)
  BY <1>9 DEF ShrinkPassive
<1>10. CASE ReconcileRebalance(p)
  BY <1>10 DEF ReconcileRebalance
<1>11. CASE Removed(p)
  BY <1>2, <1>11 DEF Removed
<1>12. CASE GrowDns(p)
  BY <1>2, <1>12 DEF GrowDns
<1>13. CASE GrowPassive(p)
  BY <1>2, <1>13 DEF GrowPassive
<1>14. CASE ShrinkActive(p)
  BY <1>2, <1>14 DEF ShrinkActive
<1> HIDE DEF Framed, Same, GoTo, TypeOK, clusterVars, recordVars, planVars, jobVars, callVars
<1> QED
  BY <1>1, <1>3, <1>4, <1>5, <1>6, <1>7, <1>8, <1>9, <1>10, <1>11, <1>12, <1>13, <1>14
     DEF AddRemoveNodes

LEMMA FailFrame ==
  ASSUME NEW p \in Proc, TypeOK, Fail(p)
  PROVE  Framed(p)
BY LeaveFrame DEF Fail, Abandon, TypeOK

\* Who has nothing new to show has what it had.
LEMMA JoinsKept ==
  ASSUME NEW q \in Proc, Joins(q),
         step'[q] = step[q], fresh'[q] = fresh[q], leaving'[q] = leaving[q],
         todo'[q] = todo[q], orchs'[q] = orchs[q],
         Joined \subseteq Joined' \union Gone', member \subseteq member' \union Gone',
         Gone \subseteq Gone'
  PROVE  Joins(q)'
BY DEF Joins

LEMMA JoinsFrame ==
  ASSUME NEW p \in Proc, IInv, JInv, Framed(p), Joins(p)'
  PROVE  JInv'
<1>1. Gone' = Gone
  BY DEF Framed, Gone
<1>2. \A e \in running' : e \subseteq Gone'
  BY <1>1 DEF Framed, JInv, IInv, Knows, Gone
<1>3. Joined \subseteq Joined' /\ member' = member
  BY DEF Framed, Joined
<1>4. \A q \in Proc \ {p} : Joins(q)'
  BY <1>1, <1>3, JoinsKept DEF Framed, Same, JInv
<1> QED
  BY <1>2, <1>4 DEF JInv

LEMMA RebalanceJoins ==
  ASSUME NEW p \in Proc, IInv, JInv, RebalanceWithRetry(p), UNCHANGED dockerVars
  PROVE  JInv'
<1> HIDE DEF Steps
<1>1. Framed(p) /\ TypeOK
  BY RebalanceFrame DEF IInv
<1>2. /\ Gone' = Gone /\ Joined \subseteq Joined' /\ member' = member
      /\ fresh' = fresh /\ leaving' = leaving
  BY <1>1 DEF Framed, Gone, Joined
<1>3. ASSUME NEW to \in {"balanced", "err"}, GoTo(p, to),
             to = "balanced" => fresh[p] \subseteq member \union Gone
      PROVE  JInv'
  <2>1. step'[p] = to
    BY <1>1, <1>3 DEF GoTo, TypeOK
  <2>2. Joins(p)'
    BY <1>2, <1>3, <2>1 DEF Joins, Placed, During, Attempting, Past
  <2> QED
    BY <1>1, <2>2, JoinsFrame
<1>4. ASSUME NEW to \in During, GoTo(p, to), step[p] \in During,
             to = "check" =>
                \/ orchs'[p] = 0 \/ pending = {}
                \/ orchs'[p] = orchs[p] /\ step[p] = "check"
      PROVE  JInv'
  <2>1. step'[p] = to
    BY <1>1, <1>4 DEF GoTo, TypeOK
  <2>2. fresh[p] \subseteq Joined \union Gone
    BY <1>4 DEF JInv, Joins, Placed
  <2>3. to \notin Past \union {"idle", "register"}
    BY DEF During, Attempting, Past
  <2>4. to = "check" /\ orchs'[p] # 0 => fresh[p] \subseteq member \union Gone
    BY <1>4, <2>2 DEF JInv, Joins, Joined
  <2>5. Joins(p)'
    BY <1>2, <2>1, <2>2, <2>3, <2>4 DEF Joins
  <2> QED
    BY <1>1, <2>5, JoinsFrame
<1>5. "list" \in During /\ "begin" \in During /\ "beginAgain" \in During /\ "wait" \in During
      /\ "check" \in During /\ "unbalanced" \in During /\ "select" \in During
  BY DEF During, Attempting
<1>6. CASE Exhausted(p) \/ NoControlNode(p) \/ BeginRefused(p) \/ Unreachable(p)
             \/ CannotStartOver(p)
  BY <1>3, <1>6 DEF Exhausted, NoControlNode, BeginRefused, Unreachable, CannotStartOver, Leave
<1>7. CASE SelectControlNode(p) \/ ListNodeOTPs(p) \/ BeginRebalance(p) \/ BeginUnanswered(p)
             \/ StartOver(p)
  BY <1>4, <1>5, <1>7
     DEF SelectControlNode, ListNodeOTPs, BeginRebalance, BeginUnanswered, StartOver
<1>8. CASE WaitForNoRunningTasks(p) \/ CheckAgain(p)
  <2>1. orchs'[p] = 0
    BY <1>1, <1>8 DEF WaitForNoRunningTasks, CheckAgain, StartCheck, TypeOK
  <2>2. step[p] \in During /\ GoTo(p, "check")
    BY <1>5, <1>8 DEF WaitForNoRunningTasks, CheckAgain, StartCheck
  <2>3. "check" \in During
    BY <1>5
  <2> QED
    BY <1>4, <2>1, <2>2, <2>3
<1>9. ASSUME step[p] = "check", Unbalanced(p) PROVE JInv'
  BY <1>4, <1>5, <1>9 DEF Unbalanced
<1>10. ASSUME NEW n \in Node, SkipNode(p, n) PROVE JInv'
  <2>1. GoTo(p, "check")
    BY <1>1, <1>10 DEF SkipNode, GoTo, TypeOK
  <2> QED
    BY <1>4, <1>5, <1>10, <2>1 DEF SkipNode
<1>11. ASSUME NEW n \in Node, PassNode(p, n) PROVE JInv'
  <2>1. GoTo(p, "check")
    BY <1>1, <1>11 DEF PassNode, GoTo, TypeOK
  <2>2. orchs'[p] = orchs[p] \/ n = orch
    BY <1>1, <1>11 DEF PassNode, TypeOK
  <2>3. n = orch => pending = {}
    BY <1>11 DEF PassNode, Objects, IsBalanced
  <2> QED
    BY <1>4, <1>5, <1>11, <2>1, <2>2, <2>3 DEF PassNode
<1>12. ASSUME NEW n \in Node, ObjectNode(p, n) PROVE JInv'
  BY <1>9, <1>12 DEF ObjectNode
<1>13. CASE Checked(p)
  <2>1. orchs[p] = 1 => fresh[p] \subseteq member \union Gone
    BY <1>13 DEF Checked, JInv, Joins
  <2> QED
    BY <1>3, <1>9, <1>13, <2>1 DEF Checked, Leave
<1> QED
  BY <1>6, <1>7, <1>8, <1>10, <1>11, <1>12, <1>13 DEF RebalanceWithRetry

LEMMA ContinueTo ==
  ASSUME NEW p \in Proc, NEW k \in 0 .. 3, TypeOK, Continue(p, k)
  PROVE  \E i \in k + 1 .. 4 :
            /\ Due(p, Rest[i]) /\ \A j \in k + 1 .. i - 1 : ~Due(p, Rest[j])
            /\ step'[p] = Rest[i] /\ Rest[i] \in {"growDns", "growPassive", "shrinkActive", "ok"}
<1>1. \A i \in 1 .. 4 : Rest[i] \in {"growDns", "growPassive", "shrinkActive", "ok"}
  BY DEF Rest
<1>2. PICK i \in k + 1 .. 4 :
         /\ Due(p, Rest[i]) /\ \A j \in k + 1 .. i - 1 : ~Due(p, Rest[j])
         /\ GoTo(p, Rest[i])
  BY DEF Continue
<1>3. i \in 1 .. 4
  OBVIOUS
<1>4. step'[p] = Rest[i]
  BY <1>2 DEF GoTo, TypeOK
<1> QED
  BY <1>1, <1>2, <1>3, <1>4

LEMMA AddRemoveJoins ==
  ASSUME NEW p \in Proc, IInv, JInv, AddRemoveNodes(p)
  PROVE  JInv'
<1> HIDE DEF Steps
<1>1. Framed(p) /\ TypeOK
  BY AddRemoveFrame DEF IInv
<1>2. /\ Gone' = Gone /\ Joined \subseteq Joined' /\ member' = member
      /\ fresh' = fresh /\ leaving' = leaving
  BY <1>1 DEF Framed, Gone, Joined
<1>3. CASE GiveUp(p)
  <2>1. step'[p] = "err"
    BY <1>1, <1>3 DEF GiveUp, Abandon, Leave, GoTo, TypeOK
  <2> QED
    BY <1>1, <2>1, JoinsFrame DEF Joins, Placed, During, Attempting, Past
<1>4. ASSUME NEW n \in Node, DeployNode(p, n) PROVE JInv'
  <2>1. \/ step'[p] = "deploy"
        \/ step'[p] = "register" /\ todo'[p] = fresh[p]
    BY <1>1, <1>4 DEF DeployNode, GoTo, TypeOK
  <2> QED
    BY <1>1, <1>2, <2>1, JoinsFrame DEF Joins, Placed, During, Attempting, Past
<1>5. ASSUME NEW n \in Node, Register(p, n) PROVE JInv'
  <2>1. /\ step'[p] = "register" /\ step[p] = "register"
        /\ todo'[p] = todo[p] \ {n} /\ n \in Joined'
    BY <1>1, <1>5 DEF Register, TypeOK, Joined
  <2>2. fresh[p] \ todo[p] \subseteq Joined \union Gone
    BY <2>1 DEF JInv, Joins
  <2> QED
    BY <1>1, <1>2, <2>1, <2>2, JoinsFrame DEF Joins, Placed, During, Attempting, Past
<1>6. ASSUME fresh[p] \subseteq Joined \union Gone,
             step'[p] \in {"growActive", "shrinkDns", "shrinkPassive", "reconcile", "select"}
      PROVE  JInv'
  BY <1>1, <1>2, <1>6, JoinsFrame DEF Joins, Past
<1>7. ASSUME step[p] \in Placed,
             step'[p] \in {"growActive", "shrinkDns", "shrinkPassive", "reconcile", "select"}
      PROVE  JInv'
  BY <1>6, <1>7 DEF JInv, Joins
<1>8. Shrink(leaving[p]) \in {"shrinkDns", "shrinkPassive", "reconcile"}
  BY DEF Shrink
<1>9. CASE Registered(p)
  <2>1. fresh[p] \subseteq Joined \union Gone
    BY <1>9 DEF Registered, JInv, Joins
  <2>2. step'[p] \in {"growActive", "shrinkDns", "shrinkPassive", "reconcile"}
    BY <1>1, <1>8, <1>9 DEF Registered, GoTo, TypeOK
  <2> QED
    BY <1>6, <2>1, <2>2
<1>10. CASE GrowActive(p) \/ ShrinkDns(p) \/ ShrinkPassive(p) \/ ReconcileRebalance(p)
  <2>1. step[p] \in Placed
    BY <1>10 DEF GrowActive, ShrinkDns, ShrinkPassive, ReconcileRebalance, Placed
  <2>2. step'[p] \in {"growActive", "shrinkDns", "shrinkPassive", "reconcile", "select"}
    BY <1>1, <1>8, <1>10 DEF GrowActive, ShrinkDns, ShrinkPassive, ReconcileRebalance, GoTo, TypeOK
  <2> QED
    BY <1>7, <2>1, <2>2
<1>11. ASSUME step[p] \in Past, step'[p] \in Past PROVE JInv'
  <2>1. step'[p] \notin Placed \union {"idle", "register"}
    BY <1>11 DEF Placed, During, Attempting, Past
  <2>2. fresh[p] \subseteq member \union Gone
    BY <1>11 DEF JInv, Joins
  <2> QED
    BY <1>1, <1>2, <2>1, <2>2, JoinsFrame DEF Joins
<1>12. ASSUME NEW n \in Node, RemoveContainer(p, n) PROVE JInv'
  BY <1>11, <1>12 DEF RemoveContainer, Past
<1>13. CASE Removed(p) \/ GrowDns(p) \/ GrowPassive(p) \/ ShrinkActive(p)
  <2>1. step[p] \in Past /\ \E k \in 0 .. 3 : Continue(p, k)
    BY <1>13 DEF Removed, GrowDns, GrowPassive, ShrinkActive, Past
  <2>2. step'[p] \in Past
    BY <1>1, <2>1, ContinueTo DEF Past
  <2> QED
    BY <1>11, <2>1, <2>2
<1> QED
  BY <1>3, <1>4, <1>5, <1>9, <1>10, <1>12, <1>13 DEF AddRemoveNodes

LEMMA ClusterJoins == IInv /\ JInv /\ Cluster /\ UNCHANGED dockerVars => JInv'
<1> SUFFICES ASSUME IInv, JInv, Cluster, UNCHANGED dockerVars PROVE JInv'
  OBVIOUS
<1> HIDE DEF Steps
<1>1. UNCHANGED <<step, orchs, fresh, leaving, todo>> /\ Gone' = Gone
  BY DEF Cluster, FinishRebalance, FailRebalance, StopAnswering, AnswerAgain, Elect,
     dockerVars, planVars, callVars, Gone
<1>2. CASE FinishRebalance
  <2>1. PICK e \in running : Joined' = Joined \ e /\ member' = Joined \ e /\ running' = {}
    BY <1>2 DEF FinishRebalance, Joined
  <2>2. e \subseteq Gone
    BY DEF JInv
  <2>3. Joined \subseteq Joined' \union Gone' /\ member \subseteq member' \union Gone'
    BY <1>1, <2>1, <2>2 DEF Joined
  <2> QED
    BY <1>1, <2>1, <2>3, JoinsKept DEF JInv
<1>3. CASE ~FinishRebalance
  <2>1. Joined' = Joined /\ member' = member /\ running' \subseteq running
    BY <1>3 DEF Cluster, FailRebalance, StopAnswering, AnswerAgain, Elect, clusterVars, Joined
  <2> QED
    BY <1>1, <2>1, JoinsKept DEF JInv
<1> QED
  BY <1>2, <1>3

LEMMA StartFrame ==
  ASSUME NEW p \in Proc, TypeOK, Start(p)
  PROVE  \E new \in SUBSET Unused, old \in SUBSET box :
            /\ AddNode(new, old) \/ RemoveNode(new, old) \/ ModifyCluster(new, old)
            /\ fresh' = [fresh EXCEPT ![p] = new] /\ leaving' = [leaving EXCEPT ![p] = old]
            /\ fresh'[p] = new /\ leaving'[p] = old /\ addrs'[p] = box /\ heard'[p] = Heard
            /\ step'[p] = IF new = {} THEN Shrink(old) ELSE "deploy"
            /\ UNCHANGED <<clusterVars, box, kind, dns, passive, active>>
            /\ \A q \in Proc \ {p} : Same(q)
<1> HIDE DEF Steps
<1>1. PICK new \in SUBSET Unused, old \in SUBSET box, first \in box :
         /\ AddNode(new, old) \/ RemoveNode(new, old) \/ ModifyCluster(new, old)
         /\ fresh' = [fresh EXCEPT ![p] = new]
         /\ leaving' = [leaving EXCEPT ![p] = old]
         /\ todo' = [todo EXCEPT ![p] = new]
         /\ GoTo(p, IF new = {} THEN Shrink(old) ELSE "deploy")
  BY DEF Start
<1>2. \A q \in Proc \ {p} : Same(q)
  BY <1>1 DEF Start, Same, GoTo, TypeOK
<1>3. /\ fresh'[p] = new /\ leaving'[p] = old /\ addrs'[p] = box /\ heard'[p] = Heard
      /\ step'[p] = IF new = {} THEN Shrink(old) ELSE "deploy"
  BY <1>1 DEF Start, GoTo, TypeOK
<1> QED
  BY <1>1, <1>2, <1>3 DEF Start, healthVars, recordVars

LEMMA StartJoins ==
  ASSUME NEW p \in Proc, IInv, JInv, Start(p)
  PROVE  JInv'
<1> HIDE DEF Steps
<1>1. TypeOK /\ step[p] = "idle" /\ leaving[p] = {}
  BY DEF IInv, Start, JInv, Joins
<1>2. PICK new \in SUBSET Unused, old \in SUBSET box :
         /\ fresh'[p] = new /\ leaving' = [leaving EXCEPT ![p] = old]
         /\ step'[p] = IF new = {} THEN Shrink(old) ELSE "deploy"
         /\ UNCHANGED <<clusterVars, box, kind, dns, passive, active>>
         /\ \A q \in Proc \ {p} : Same(q)
  BY <1>1, StartFrame
<1>3. Gone \subseteq Gone'
  BY <1>1, <1>2 DEF Gone, Same
<1>4. UNCHANGED <<member, pending, running>> /\ Joined' = Joined
  BY <1>2 DEF clusterVars, Joined
<1>5. \A q \in Proc \ {p} : Joins(q)'
  BY <1>2, <1>3, <1>4, JoinsKept DEF Same, JInv
<1>6. step'[p] = "deploy" \/ (fresh'[p] = {} /\ step'[p] # "idle")
  BY <1>2 DEF Shrink
<1>7. Joins(p)'
  BY <1>6 DEF Joins, Placed, During, Attempting, Past
<1> QED
  BY <1>3, <1>4, <1>5, <1>7 DEF JInv

LEMMA InitJoins == Init => JInv
BY DEF Init, JInv, Joins, Placed, During, Attempting, Past

LEMMA StepJoins == IInv /\ JInv /\ [Next]_vars => JInv'
<1> SUFFICES ASSUME IInv, JInv, [Next]_vars PROVE JInv'
  OBVIOUS
<1> HIDE DEF Steps
<1>1. CASE UNCHANGED vars
  BY <1>1 DEF vars, JInv, Joins, Gone, Joined, dockerVars, planVars, clusterVars, callVars
<1>2. ASSUME NEW p \in Proc, Fail(p) PROVE JInv'
  <2>1. step'[p] = "err"
    BY <1>2 DEF Fail, Abandon, Leave, GoTo, IInv, TypeOK
  <2>2. Framed(p)
    BY <1>2, FailFrame DEF IInv
  <2> QED
    BY <2>1, <2>2, JoinsFrame DEF Joins, Placed, During, Attempting, Past
<1> QED
  BY <1>1, <1>2, ClusterJoins, StartJoins, RebalanceJoins, AddRemoveJoins DEF Next, Progress

LEMMA Safe == Spec => [](TypeOK /\ IInv /\ JInv)
<1>1. Init => TInv /\ IInv /\ JInv
  BY InitTypes, InitSafe, InitJoins
<1>2. TInv /\ IInv /\ JInv /\ [Next]_vars => (TInv /\ IInv /\ JInv)'
  BY StepTypes, StepSafe, StepJoins DEF TInv
<1> QED
  BY <1>1, <1>2, PTL DEF Spec, TInv

\* A command that gets past its rebalance has the nodes it added in the
\* cluster, also if its begin was answered by the rebalance of another command,
\* unless some command was told to remove them.
THEOREM AddedStay == Spec => []AddedAreMembers
<1>1. JInv => AddedAreMembers
  BY DEF JInv, Joins, Past, AddedAreMembers, Gone
<1> QED
  BY <1>1, Safe, PTL
-----------------------------------------------------------------------------
(* The cluster outlives its commands                                       *)

\* No rebalance takes the last node out.
Manned == member # {} /\ \A e \in running : Joined \ e # {}

\* However many commands replace the nodes of one cluster, fail or are tried
\* again, it is never left without a container that is a member, as long as all
\* nodes that were to be ejected have answered.
Survives == blind = {} => member \intersect box # {}

LEMMA RebalanceLeavesSome ==
  ASSUME NEW p \in Proc, TypeOK, RebalanceWithRetry(p), UNCHANGED dockerVars
  PROVE  running' = running \/ (running' = {eject[p]} /\ Joined \ eject[p] # {})
<1> HIDE DEF Steps
<1>1. CASE BeginRebalance(p) \/ BeginUnanswered(p)
  BY <1>1 DEF BeginRebalance, BeginUnanswered, Agrees
<1>2. CASE ~(BeginRebalance(p) \/ BeginUnanswered(p))
  BY <1>2 DEF RebalanceWithRetry, Exhausted, SelectControlNode, NoControlNode, ListNodeOTPs,
     BeginRefused, Unreachable, WaitForNoRunningTasks, SkipNode, PassNode, ObjectNode, Checked,
     CheckAgain, StartOver, CannotStartOver, Leave, StartCheck, Unbalanced, clusterVars
<1> QED
  BY <1>1, <1>2

LEMMA ClusterManned == Manned /\ Cluster => Manned'
<1> SUFFICES ASSUME Manned, Cluster PROVE Manned'
  OBVIOUS
<1>1. CASE FinishRebalance
  BY <1>1 DEF FinishRebalance, Manned
<1>2. CASE ~FinishRebalance
  <2>1. Joined' = Joined /\ member' = member /\ running' \subseteq running
    BY <1>2 DEF Cluster, FailRebalance, StopAnswering, AnswerAgain, Elect, clusterVars, Joined
  <2> QED
    BY <2>1 DEF Manned
<1> QED
  BY <1>1, <1>2

LEMMA StepManned == TypeOK /\ Manned /\ [Next]_vars => Manned'
<1> SUFFICES ASSUME TypeOK, Manned, [Next]_vars PROVE Manned'
  OBVIOUS
<1> HIDE DEF Steps
<1>1. ASSUME UNCHANGED <<member, running>>, pending \subseteq pending' PROVE Manned'
  BY <1>1 DEF Manned, Joined
<1>2. CASE UNCHANGED vars
  BY <1>1, <1>2 DEF vars, clusterVars
<1>3. ASSUME NEW p \in Proc, Start(p) \/ AddRemoveNodes(p) \/ Fail(p) PROVE Manned'
  <2>1. UNCHANGED <<member, running>> /\ pending \subseteq pending'
    BY <1>3 DEF Start, AddRemoveNodes, Fail, DeployNode, Register, RemoveContainer, Registered,
       GrowActive, ShrinkDns, ShrinkPassive, ReconcileRebalance, Removed, GrowDns, GrowPassive,
       ShrinkActive, GiveUp, Abandon, Leave, clusterVars
  <2> QED
    BY <1>1, <2>1
<1>4. ASSUME NEW p \in Proc, RebalanceWithRetry(p), UNCHANGED dockerVars PROVE Manned'
  <2>1. member' = member /\ pending \subseteq pending'
    BY <1>4, RebalanceFrame DEF Framed
  <2> QED
    BY <1>4, <2>1, RebalanceLeavesSome DEF Manned, Joined
<1> QED
  BY <1>2, <1>3, <1>4, ClusterManned DEF Next, Progress

\* The cluster keeps a member whose container exists, whoever removes nodes at
\* the same time, while every node that was to be ejected has answered.
THEOREM ClusterSurvives == Spec => []Survives
<1>1. Init => Manned
  BY InitialAssumption DEF Init, Manned
<1>2. TypeOK /\ Manned /\ [Next]_vars => Manned'
  BY StepManned
<1>3. IInv /\ Manned => Survives
  BY DEF IInv, RemovedHaveLeft, Joined, Manned, Survives
<1> QED
  BY <1>1, <1>2, <1>3, Safe, PTL DEF Spec
-----------------------------------------------------------------------------
(* NamesExist                                                              *)

Shrunk == {"reconcile", "balanced"} \union During

\* Commands that come one after the other leave one of them to look at.
Alone == \A p, q \in Proc : Busy(p) /\ Busy(q) => p = q

\* Only what the cluster has is ever written.
Owned(p) ==
    /\ step[p] \in {"shrinkDns", "growDns"} => Has("dns")
    /\ step[p] \in {"shrinkPassive", "growPassive"} => Has("nginx")
    /\ step[p] \in {"growActive", "shrinkActive"} => Has("haproxy")

\* What a command writes exists, and what it removes is not named any more.
Names(p) ==
    /\ step[p] \in Before \union During => addrs[p] \subseteq box
    /\ step[p] \in {"growActive", "growDns", "growPassive", "shrinkActive"} => latest[p] \subseteq box
    /\ step[p] \in Shrunk \union {"shrinkPassive"} => dns \intersect leaving[p] = {}
    /\ step[p] \in Shrunk => passive.nodes \intersect leaving[p] = {}
    /\ Owned(p)

Unnamed ==
    /\ ~Has("dns") => dns = {}
    /\ ~Has("nginx") => passive.nodes = {}

NInv ==
    /\ Alone /\ Unnamed /\ dns \union passive.nodes \subseteq box
    /\ \A p \in Proc : Names(p)

LEMMA BusySteps ==
  ASSUME NEW p \in Proc, TypeOK, Progress(p) \/ Fail(p)
  PROVE  Busy(p)
<1> HIDE DEF Steps
<1>1. CASE Fail(p)
  BY <1>1 DEF Fail
<1>2. CASE RebalanceWithRetry(p)
  BY <1>2 DEF RebalanceWithRetry, Busy, Exhausted, SelectControlNode, NoControlNode, ListNodeOTPs,
     BeginRebalance, BeginUnanswered, BeginRefused, Unreachable, WaitForNoRunningTasks, SkipNode,
     PassNode, ObjectNode, Checked, CheckAgain, StartOver, CannotStartOver
<1>3. CASE AddRemoveNodes(p)
  BY <1>3 DEF AddRemoveNodes, Busy, DeployNode, Register, RemoveContainer, Registered, GrowActive,
     ShrinkDns, ShrinkPassive, ReconcileRebalance, Removed, GrowDns, GrowPassive, ShrinkActive,
     GiveUp, Refused
<1> QED
  BY <1>1, <1>2, <1>3 DEF Progress

LEMMA RestingNames ==
  ASSUME NEW q \in Proc, ~Busy(q)
  PROVE  Names(q)
<1> HIDE DEF Steps
<1> QED
  BY DEF Busy, Names, Owned, Shrunk, Before, During, Attempting

\* The others rest, so that the process that is under way decides.
LEMMA AloneFrame ==
  ASSUME NEW p \in Proc, Alone, Busy(p), \A q \in Proc \ {p} : Same(q)
  PROVE  /\ Alone'
         /\ \A q \in Proc \ {p} : ~Busy(q) /\ ~Busy(q)'
<1>1. \A q \in Proc \ {p} : ~Busy(q)
  BY DEF Alone
<1>2. \A q \in Proc \ {p} : ~Busy(q)'
  BY <1>1 DEF Same, Busy
<1> QED
  BY <1>1, <1>2 DEF Alone

LEMMA NamesFrame ==
  ASSUME NEW p \in Proc, NInv, Framed(p), Busy(p), Unnamed', Names(p)',
         dns' \union passive'.nodes \subseteq box'
  PROVE  NInv'
<1> HIDE DEF Steps
<1>1. Alone' /\ \A q \in Proc \ {p} : ~Busy(q)'
  BY AloneFrame DEF Framed, NInv
<1>2. \A q \in Proc \ {p} : ~Busy(q)' => Names(q)'
  BY DEF Busy, Names, Owned, Shrunk, Before, During, Attempting
<1> QED
  BY <1>1, <1>2 DEF NInv

\* The call ends in failure: nothing is named anew.
LEMMA LeaveNames ==
  ASSUME NEW p \in Proc, NInv, Framed(p), Busy(p), step'[p] = "err",
         UNCHANGED <<kind, dns, passive, box>>
  PROVE  NInv'
<1> HIDE DEF Steps
<1>1. Names(p)'
  BY DEF Names, Owned, Shrunk, Before, During, Attempting
<1>2. Unnamed' /\ dns' \union passive'.nodes \subseteq box'
  BY DEF NInv, Unnamed, Has
<1> QED
  BY <1>1, <1>2, NamesFrame

\* RebalanceWithRetry goes on, has found the cluster balanced, or fails.
LEMMA RebalanceEnds ==
  ASSUME NEW p \in Proc, TypeOK, RebalanceWithRetry(p), UNCHANGED dockerVars
  PROVE  /\ step[p] \in During /\ UNCHANGED box
         /\ \/ step'[p] = "err"
            \/ step'[p] \in During /\ addrs' = addrs
            \/ step[p] = "check" /\ orchs[p] = 1 /\ step'[p] = "balanced"
<1> HIDE DEF Steps
<1> USE DEF GoTo, TypeOK, During, Attempting, healthVars, jobVars
<1>1. CASE Exhausted(p) \/ NoControlNode(p) \/ BeginRefused(p) \/ Unreachable(p)
             \/ CannotStartOver(p)
  BY <1>1 DEF Exhausted, NoControlNode, BeginRefused, Unreachable, CannotStartOver, Leave
<1>2. CASE SelectControlNode(p) \/ ListNodeOTPs(p) \/ BeginRebalance(p) \/ BeginUnanswered(p)
             \/ StartOver(p)
  BY <1>2 DEF SelectControlNode, ListNodeOTPs, BeginRebalance, BeginUnanswered, StartOver
<1>3. CASE WaitForNoRunningTasks(p) \/ CheckAgain(p)
  BY <1>3 DEF WaitForNoRunningTasks, CheckAgain, StartCheck
<1>4. CASE \E n \in Node : SkipNode(p, n) \/ PassNode(p, n) \/ ObjectNode(p, n)
  BY <1>4 DEF SkipNode, PassNode, ObjectNode, Unbalanced
<1>5. CASE Checked(p)
  BY <1>5 DEF Checked, Leave, Unbalanced
<1> QED
  BY <1>1, <1>2, <1>3, <1>4, <1>5 DEF RebalanceWithRetry

LEMMA RebalanceNames ==
  ASSUME NEW p \in Proc, TypeOK, NInv, RebalanceWithRetry(p), UNCHANGED dockerVars
  PROVE  NInv'
<1> HIDE DEF Steps
<1>1. Framed(p) /\ Busy(p)
  BY RebalanceFrame, BusySteps DEF Progress
<1>2. UNCHANGED <<kind, dns, passive, leaving, latest, box>>
  BY RebalanceEnds DEF dockerVars, recordVars, planVars
<1>3. CASE step'[p] = "err"
  BY <1>1, <1>2, <1>3, LeaveNames
<1>4. CASE step'[p] # "err"
  <2>1. /\ step[p] \in During
        /\ \/ step'[p] \in During /\ addrs' = addrs
           \/ step'[p] = "balanced"
    BY <1>4, RebalanceEnds
  <2>2. Names(p)'
    BY <1>2, <2>1 DEF NInv, Names, Owned, Shrunk, Before, During, Attempting
  <2>3. Unnamed' /\ dns' \union passive'.nodes \subseteq box'
    BY <1>2 DEF NInv, Unnamed, Has
  <2> QED
    BY <1>1, <2>2, <2>3, NamesFrame
<1> QED
  BY <1>3, <1>4

LEMMA ShrinkTo ==
  ASSUME NEW old
  PROVE  \/ Shrink(old) = "shrinkDns" /\ Has("dns") /\ old # {}
         \/ Shrink(old) = "shrinkPassive" /\ ~Has("dns") /\ Has("nginx") /\ old # {}
         \/ Shrink(old) = "reconcile" /\ (old = {} \/ (~Has("dns") /\ ~Has("nginx")))
<1>1. CASE old = {}
  BY <1>1 DEF Shrink
<1>2. CASE old # {} /\ Has("dns")
  BY <1>2 DEF Shrink
<1>3. CASE old # {} /\ ~Has("dns") /\ Has("nginx")
  BY <1>3 DEF Shrink
<1>4. CASE old # {} /\ ~Has("dns") /\ ~Has("nginx")
  BY <1>4 DEF Shrink
<1> QED
  BY <1>1, <1>2, <1>3, <1>4

LEMMA DueSteps ==
  ASSUME NEW p \in Proc
  PROVE  /\ Due(p, "growDns") <=> fresh[p] # {} /\ Has("dns")
         /\ Due(p, "growPassive") <=> fresh[p] # {} /\ Has("nginx")
         /\ Due(p, "shrinkActive") <=> leaving[p] # {} /\ Has("haproxy")
BY DEF Due

\* What is left to do, from each of the steps after the containers are removed.
LEMMA Continues ==
  ASSUME NEW p \in Proc, TypeOK
  PROVE  /\ Continue(p, 0) =>
               \/ step'[p] = "growDns" /\ Due(p, "growDns")
               \/ step'[p] = "growPassive" /\ Due(p, "growPassive") /\ ~Due(p, "growDns")
               \/ step'[p] = "shrinkActive" /\ Due(p, "shrinkActive")
                     /\ ~Due(p, "growDns") /\ ~Due(p, "growPassive")
               \/ step'[p] = "ok" /\ ~Due(p, "growDns") /\ ~Due(p, "growPassive")
                     /\ ~Due(p, "shrinkActive")
         /\ Continue(p, 1) =>
               \/ step'[p] = "growPassive" /\ Due(p, "growPassive")
               \/ step'[p] = "shrinkActive" /\ Due(p, "shrinkActive") /\ ~Due(p, "growPassive")
               \/ step'[p] = "ok" /\ ~Due(p, "growPassive") /\ ~Due(p, "shrinkActive")
         /\ Continue(p, 2) =>
               \/ step'[p] = "shrinkActive" /\ Due(p, "shrinkActive")
               \/ step'[p] = "ok" /\ ~Due(p, "shrinkActive")
         /\ Continue(p, 3) => step'[p] = "ok"
<1>1. Rest[1] = "growDns" /\ Rest[2] = "growPassive" /\ Rest[3] = "shrinkActive" /\ Rest[4] = "ok"
  BY DEF Rest
<1>2. ASSUME NEW i \in 1 .. 4, GoTo(p, Rest[i]) PROVE step'[p] = Rest[i]
  BY <1>2 DEF GoTo, TypeOK
<1>3. ASSUME NEW k \in 0 .. 3, Continue(p, k)
      PROVE  \E i \in 1 .. 4 : /\ i > k /\ Due(p, Rest[i]) /\ step'[p] = Rest[i]
                               /\ \A j \in 1 .. 4 : k < j /\ j < i => ~Due(p, Rest[j])
  <2>1. PICK i \in k + 1 .. 4 :
           /\ Due(p, Rest[i]) /\ \A j \in k + 1 .. i - 1 : ~Due(p, Rest[j])
           /\ GoTo(p, Rest[i])
    BY <1>3 DEF Continue
  <2>2. i \in 1 .. 4 /\ i > k
    OBVIOUS
  <2>3. \A j \in 1 .. 4 : k < j /\ j < i => ~Due(p, Rest[j])
    BY <2>1
  <2> QED
    BY <1>2, <2>1, <2>2, <2>3
<1>4. \A i \in 1 .. 4 : i = 1 \/ i = 2 \/ i = 3 \/ i = 4
  OBVIOUS
<1>5. Continue(p, 0) =>
        \/ step'[p] = Rest[1] /\ Due(p, Rest[1])
        \/ step'[p] = Rest[2] /\ Due(p, Rest[2]) /\ ~Due(p, Rest[1])
        \/ step'[p] = Rest[3] /\ Due(p, Rest[3]) /\ ~Due(p, Rest[1]) /\ ~Due(p, Rest[2])
        \/ step'[p] = Rest[4] /\ ~Due(p, Rest[1]) /\ ~Due(p, Rest[2]) /\ ~Due(p, Rest[3])
  BY <1>3, <1>4
<1>6. Continue(p, 1) =>
        \/ step'[p] = Rest[2] /\ Due(p, Rest[2])
        \/ step'[p] = Rest[3] /\ Due(p, Rest[3]) /\ ~Due(p, Rest[2])
        \/ step'[p] = Rest[4] /\ ~Due(p, Rest[2]) /\ ~Due(p, Rest[3])
  BY <1>3, <1>4
<1>7. Continue(p, 2) =>
        \/ step'[p] = Rest[3] /\ Due(p, Rest[3])
        \/ step'[p] = Rest[4] /\ ~Due(p, Rest[3])
  BY <1>3, <1>4
<1>8. Continue(p, 3) => step'[p] = Rest[4]
  BY <1>3, <1>4
<1> QED
  BY <1>1, <1>5, <1>6, <1>7, <1>8

LEMMA AddRemoveNames ==
  ASSUME NEW p \in Proc, IInv, NInv, AddRemoveNodes(p)
  PROVE  NInv'
<1> HIDE DEF Steps
<1>1. TypeOK /\ Framed(p) /\ Busy(p) /\ leaving' = leaving /\ kind' = kind
  BY AddRemoveFrame, BusySteps DEF Progress, IInv, Framed
<1>2. Unnamed /\ Names(p) /\ dns \union passive.nodes \subseteq box
  BY DEF NInv
<1>3. \A feature : Has(feature)' = Has(feature)
  BY <1>1 DEF Has
<1> USE DEF GoTo, TypeOK
<1>4. CASE GiveUp(p)
  <2>1. step'[p] = "err" /\ UNCHANGED <<dns, passive, box>>
    BY <1>1, <1>4 DEF GiveUp, Abandon, Leave, recordVars, healthVars
  <2> QED
    BY <1>1, <2>1, LeaveNames
<1>5. ASSUME Names(p)', Unnamed', dns' \union passive'.nodes \subseteq box' PROVE NInv'
  BY <1>1, <1>5, NamesFrame
<1>6. ASSUME UNCHANGED <<dns, passive>>, box \subseteq box', Names(p)' PROVE NInv'
  BY <1>2, <1>3, <1>5, <1>6 DEF Unnamed
<1> USE DEF Names, Owned, Shrunk, Before, During, Attempting
<1>7. ASSUME NEW n \in Node, DeployNode(p, n) PROVE NInv'
  <2>1. /\ step[p] = "deploy" /\ step'[p] \in {"deploy", "register"} /\ box' = box \union {n}
        /\ addrs' = addrs /\ UNCHANGED <<dns, passive>>
    BY <1>1, <1>7 DEF DeployNode, jobVars, recordVars
  <2>2. Names(p)'
    BY <1>2, <2>1
  <2> QED
    BY <1>6, <2>1, <2>2
<1>8. ASSUME NEW n \in Node, Register(p, n) PROVE NInv'
  <2>1. /\ step[p] = "register" /\ step'[p] = "register"
        /\ UNCHANGED <<box, addrs, dns, passive>>
    BY <1>8 DEF Register, jobVars, recordVars, healthVars
  <2>2. Names(p)'
    BY <1>2, <2>1
  <2> QED
    BY <1>6, <2>1, <2>2
<1>9. ASSUME NEW n \in Node, RemoveContainer(p, n) PROVE NInv'
  <2>1. /\ step[p] = "balanced" /\ step'[p] = "balanced" /\ box' = box \ {n} /\ n \in todo[p]
        /\ UNCHANGED <<dns, passive>>
    BY <1>9 DEF RemoveContainer, recordVars
  <2>2. n \in leaving[p]
    BY <2>1 DEF IInv, Knows
  <2>3. Names(p)'
    BY <1>1, <1>2, <2>1
  <2>4. dns \intersect leaving[p] = {} /\ passive.nodes \intersect leaving[p] = {}
    BY <1>2, <2>1
  <2>5. dns' \union passive'.nodes \subseteq box'
    BY <1>2, <2>1, <2>2, <2>4
  <2> QED
    BY <1>2, <1>3, <1>5, <2>1, <2>3, <2>5 DEF Unnamed
<1>10. ASSUME step'[p] = Shrink(leaving[p]), step[p] \in Before, UNCHANGED <<box, addrs, dns, passive>>
       PROVE  NInv'
  <2>1. Names(p)'
    BY <1>1, <1>2, <1>3, <1>10, ShrinkTo DEF Unnamed
  <2> QED
    BY <1>6, <1>10, <2>1
<1>11. CASE Registered(p)
  <2>1. step[p] = "register" /\ UNCHANGED <<box, addrs, dns, passive>>
    BY <1>11 DEF Registered, jobVars, recordVars, healthVars
  <2>2. CASE Has("haproxy")
    <3>1. step'[p] = "growActive" /\ latest'[p] = box
      BY <1>1, <1>11, <2>2 DEF Registered
    <3>2. Names(p)'
      BY <1>2, <1>3, <2>1, <2>2, <3>1
    <3> QED
      BY <1>6, <2>1, <3>2
  <2>3. CASE ~Has("haproxy")
    BY <1>1, <1>10, <1>11, <2>1, <2>3 DEF Registered
  <2> QED
    BY <2>2, <2>3
<1>12. CASE GrowActive(p)
  BY <1>1, <1>10, <1>12 DEF GrowActive, jobVars, healthVars
<1>13. CASE ShrinkDns(p)
  <2>1. /\ step[p] = "shrinkDns" /\ UNCHANGED <<box, addrs, passive>>
        /\ dns' = addrs[p] \ leaving[p]
        /\ \/ step'[p] = "shrinkPassive" /\ Has("nginx")
           \/ step'[p] = "reconcile" /\ ~Has("nginx")
    BY <1>1, <1>13 DEF ShrinkDns, jobVars, healthVars
  <2>2. Names(p)'
    BY <1>1, <1>2, <1>3, <2>1 DEF Unnamed
  <2>3. Unnamed'
    BY <1>2, <1>3, <2>1 DEF Unnamed
  <2>4. dns' \union passive'.nodes \subseteq box'
    BY <1>2, <2>1
  <2> QED
    BY <1>5, <2>2, <2>3, <2>4
<1>14. CASE ShrinkPassive(p)
  <2>1. /\ step[p] = "shrinkPassive" /\ step'[p] = "reconcile" /\ UNCHANGED <<box, addrs, dns>>
        /\ passive'.nodes = addrs[p] \ leaving[p]
    BY <1>1, <1>14 DEF ShrinkPassive, updatePassiveLoadBalancer, jobVars, healthVars
  <2>2. Names(p)'
    BY <1>1, <1>2, <1>3, <2>1
  <2>3. Unnamed'
    BY <1>2, <1>3, <2>1 DEF Unnamed
  <2>4. dns' \union passive'.nodes \subseteq box'
    BY <1>2, <2>1
  <2> QED
    BY <1>5, <2>2, <2>3, <2>4
<1>15. CASE ReconcileRebalance(p)
  <2>1. /\ step[p] = "reconcile" /\ step'[p] = "select"
        /\ UNCHANGED <<box, addrs, dns, passive>>
    BY <1>1, <1>15 DEF ReconcileRebalance, healthVars, recordVars
  <2>2. Names(p)'
    BY <1>1, <1>2, <2>1
  <2> QED
    BY <1>6, <2>1, <2>2
<1>16. ASSUME latest'[p] \subseteq box, box' = box,
              \E k \in 0 .. 3 : Continue(p, k)
       PROVE  Names(p)'
  <2>1. \/ step'[p] = "growDns" /\ Has("dns")
        \/ step'[p] = "growPassive" /\ Has("nginx")
        \/ step'[p] = "shrinkActive" /\ Has("haproxy")
        \/ step'[p] = "ok"
    <3>1. PICK k \in 0 .. 3 : Continue(p, k)
      BY <1>16
    <3>2. Continue(p, 0) \/ Continue(p, 1) \/ Continue(p, 2) \/ Continue(p, 3)
      BY <3>1
    <3> QED
      BY <1>1, <3>2, Continues, DueSteps
  <2> QED
    BY <1>3, <1>16, <2>1
<1>17. CASE Removed(p)
  <2>1. latest'[p] = box /\ UNCHANGED <<box, dns, passive>> /\ Continue(p, 0)
    BY <1>1, <1>17 DEF Removed, recordVars, healthVars
  <2> QED
    BY <1>6, <1>16, <2>1
<1>18. CASE GrowDns(p)
  <2>1. latest' = latest /\ UNCHANGED <<box, passive>> /\ Continue(p, 1) /\ dns' = latest[p]
        /\ step[p] = "growDns"
    BY <1>18 DEF GrowDns, healthVars
  <2>2. Unnamed' /\ dns' \union passive'.nodes \subseteq box'
    BY <1>2, <1>3, <2>1 DEF Unnamed
  <2>3. latest'[p] \subseteq box
    BY <1>2, <2>1
  <2> QED
    BY <1>5, <1>16, <2>1, <2>2, <2>3
<1>19. CASE GrowPassive(p)
  <2>1. latest' = latest /\ UNCHANGED <<box, dns>> /\ Continue(p, 2) /\ passive'.nodes = latest[p]
        /\ step[p] = "growPassive"
    BY <1>19 DEF GrowPassive, updatePassiveLoadBalancer, healthVars
  <2>2. Unnamed' /\ dns' \union passive'.nodes \subseteq box'
    BY <1>2, <1>3, <2>1 DEF Unnamed
  <2>3. latest'[p] \subseteq box
    BY <1>2, <2>1
  <2> QED
    BY <1>5, <1>16, <2>1, <2>2, <2>3
<1>20. CASE ShrinkActive(p)
  <2>1. latest' = latest /\ UNCHANGED <<box, dns, passive>> /\ Continue(p, 3)
        /\ step[p] = "shrinkActive"
    BY <1>20 DEF ShrinkActive, healthVars
  <2>2. latest'[p] \subseteq box
    BY <1>2, <2>1
  <2> QED
    BY <1>6, <1>16, <2>1, <2>2
<1> QED
  BY <1>4, <1>7, <1>8, <1>9, <1>11, <1>12, <1>13, <1>14, <1>15, <1>17, <1>18, <1>19, <1>20
     DEF AddRemoveNodes

LEMMA StartNames ==
  ASSUME NEW p \in Proc, ~Concurrent, TypeOK, NInv, Start(p)
  PROVE  NInv'
<1> HIDE DEF Steps
<1>1. PICK new \in SUBSET Unused, old \in SUBSET box :
         /\ leaving'[p] = old /\ addrs'[p] = box
         /\ step'[p] = IF new = {} THEN Shrink(old) ELSE "deploy"
         /\ UNCHANGED <<box, kind, dns, passive>>
         /\ \A q \in Proc \ {p} : Same(q)
  BY StartFrame
<1>2. \A q \in Proc : ~Busy(q)
  BY DEF Start
<1>3. \A q \in Proc \ {p} : ~Busy(q)'
  BY <1>1, <1>2 DEF Same, Busy
<1>4. \A q \in Proc \ {p} : Names(q)'
  BY <1>3 DEF Busy, Names, Owned, Shrunk, Before, During, Attempting
<1>5. Names(p)'
  <2>1. \A feature : Has(feature)' = Has(feature)
    BY <1>1 DEF Has
  <2>2. \/ step'[p] = "deploy"
        \/ step'[p] = "shrinkDns" /\ Has("dns")
        \/ step'[p] = "shrinkPassive" /\ Has("nginx") /\ ~Has("dns")
        \/ step'[p] = "reconcile" /\ (old = {} \/ (~Has("dns") /\ ~Has("nginx")))
    <3>1. CASE new # {}
      BY <1>1, <3>1
    <3>2. CASE new = {}
      BY <1>1, <3>2, ShrinkTo
    <3> QED
      BY <3>1, <3>2
  <2> QED
    BY <1>1, <2>1, <2>2 DEF NInv, Unnamed, Names, Owned, Shrunk, Before, During, Attempting
<1>6. Unnamed' /\ dns' \union passive'.nodes \subseteq box'
  BY <1>1 DEF NInv, Unnamed, Has
<1> QED
  BY <1>3, <1>4, <1>5, <1>6 DEF NInv, Alone

LEMMA StepNames == ~Concurrent /\ IInv /\ NInv /\ [Next]_vars => NInv'
<1> SUFFICES ASSUME ~Concurrent, IInv, NInv, [Next]_vars PROVE NInv'
  OBVIOUS
<1> HIDE DEF Steps
<1>1. TypeOK
  BY DEF IInv
<1>2. CASE UNCHANGED <<step, addrs, leaving, latest, kind, dns, passive, box>>
  BY <1>2 DEF NInv, Alone, Busy, Unnamed, Names, Owned, Has
<1>3. Cluster /\ UNCHANGED dockerVars => UNCHANGED <<step, addrs, leaving, latest, kind, dns, passive, box>>
  BY DEF Cluster, FinishRebalance, FailRebalance, StopAnswering, AnswerAgain, Elect,
     dockerVars, recordVars, planVars, jobVars, healthVars
<1>4. UNCHANGED vars => UNCHANGED <<step, addrs, leaving, latest, kind, dns, passive, box>>
  BY DEF vars, dockerVars, recordVars, planVars, jobVars, healthVars
<1>5. ASSUME NEW p \in Proc, Fail(p) PROVE NInv'
  <2>1. step'[p] = "err" /\ UNCHANGED <<kind, dns, passive, box>>
    BY <1>1, <1>5 DEF Fail, Abandon, Leave, GoTo, TypeOK, recordVars, healthVars
  <2> QED
    BY <1>1, <1>5, <2>1, FailFrame, BusySteps, LeaveNames
<1> QED
  BY <1>1, <1>2, <1>3, <1>4, <1>5, StartNames, RebalanceNames, AddRemoveNames DEF Next, Progress

LEMMA InitNames == Init => NInv
<1> SUFFICES ASSUME Init PROVE NInv
  OBVIOUS
<1> HIDE DEF Steps
<1>1. \A p \in Proc : step[p] = "idle"
  BY DEF Init
<1>2. passive.nodes = Named("nginx") /\ dns = Named("dns") /\ box = Initial
  BY DEF Init
<1> QED
  BY <1>1, <1>2 DEF NInv, Alone, Busy, Unnamed, Named, Names, Owned, Shrunk, Before, During, Attempting

LEMMA SafeNames == Spec => [](~Concurrent => NInv)
<1>1. Concurrent \in BOOLEAN
  BY ConcurrentAssumption
<1>2. Init => (~Concurrent => NInv)
  BY InitNames
<1>3. IInv /\ (~Concurrent => NInv) /\ [Next]_vars => (~Concurrent => NInv)'
  BY StepNames
<1> QED
  BY <1>2, <1>3, Safe, PTL DEF Spec

\* As long as commands come one after the other, and wherever they fail or are
\* interrupted, the records and nginx name only containers that exist.
THEOREM NamedExist == Spec => []NamesExist
<1>1. (~Concurrent => NInv) => NamesExist
  BY DEF NamesExist, NInv
<1> QED
  BY <1>1, SafeNames, PTL
-----------------------------------------------------------------------------
(* NamesAreMembers                                                         *)

NoErr == \A p \in Proc : step[p] # "err"

Idle == \A p \in Proc : ~Busy(p)

\* Containers are members of the cluster, but for those that the process that is
\* under way adds or removes, which are never the same.
Sound(p) ==
    /\ Busy(p) => fresh[p] \intersect Gone = {}
    /\ step[p] \in Before => addrs[p] \subseteq member /\ box \subseteq member \union fresh[p]
    /\ step[p] \in During => box \subseteq member \union fresh[p] \union leaving[p]
    /\ step[p] = "balanced" => box \subseteq member \union todo[p]
    /\ step[p] \in {"growDns", "growPassive", "shrinkActive"} => box \subseteq member

\* A rebalance is that of the process that waits for it.
Runs(p) == step[p] \in {"beginAgain", "wait"} /\ running = {eject[p]}

MInv ==
    /\ running # {} => \E p \in Proc : Runs(p)
    /\ Idle => box \subseteq member
    /\ dns \union passive.nodes \subseteq member
    /\ \A p \in Proc : Sound(p)

LEMMA ErrStays == TypeOK /\ [Next]_vars /\ NoErr' => NoErr
<1> SUFFICES ASSUME TypeOK, [Next]_vars, NoErr' PROVE NoErr
  OBVIOUS
<1> HIDE DEF Steps
<1>1. CASE UNCHANGED step
  BY <1>1 DEF NoErr
<1>2. Cluster \/ UNCHANGED vars => UNCHANGED step
  BY DEF Cluster, FinishRebalance, FailRebalance, StopAnswering, AnswerAgain, Elect, vars
<1>3. ASSUME NEW p \in Proc, step[p] # "err", \A q \in Proc \ {p} : Same(q) PROVE NoErr
  BY <1>3 DEF NoErr, Same
<1>4. ASSUME NEW p \in Proc, Start(p) PROVE NoErr
  <2>1. step[p] # "err"
    BY <1>4 DEF Start
  <2>2. \A q \in Proc \ {p} : Same(q)
    BY <1>4, StartFrame
  <2> QED
    BY <1>3, <2>1, <2>2
<1>5. ASSUME NEW p \in Proc, Progress(p) \/ Fail(p) PROVE NoErr
  <2>1. step[p] # "err"
    BY <1>5, BusySteps DEF Busy
  <2>2. Framed(p)
    BY <1>5, RebalanceFrame, AddRemoveFrame, FailFrame DEF Progress
  <2> QED
    BY <1>3, <2>1, <2>2 DEF Framed
<1> QED
  BY <1>1, <1>2, <1>4, <1>5 DEF Next

LEMMA RestingSound ==
  ASSUME NEW q \in Proc, ~Busy(q)
  PROVE  Sound(q)
<1> HIDE DEF Steps
<1> QED
  BY DEF Busy, Sound, Before, During, Attempting

\* The process that is under way decides.
LEMMA SoundFrame ==
  ASSUME NEW p \in Proc, \A q \in Proc \ {p} : ~Busy(q)', Sound(p)',
         running' # {} => Runs(p)', ~Busy(p)' => box' \subseteq member',
         dns' \union passive'.nodes \subseteq member'
  PROVE  MInv'
<1> HIDE DEF Steps
<1>1. \A q \in Proc : ~Busy(q)' => Sound(q)'
  BY DEF Busy, Sound, Before, During, Attempting
<1> QED
  BY <1>1 DEF MInv, Idle

\* While a process is under way, nobody else has a rebalance.
LEMMA RunsAlone ==
  ASSUME NEW p \in Proc, NInv, MInv, Busy(p), running # {}
  PROVE  Runs(p)
<1>1. PICK q \in Proc : Runs(q)
  BY DEF MInv
<1>2. Busy(q)
  BY <1>1 DEF Runs, Busy
<1>3. q = p
  BY <1>2 DEF NInv, Alone
<1> QED
  BY <1>1, <1>3

LEMMA RebalanceRuns ==
  ASSUME NEW p \in Proc, TypeOK, RebalanceWithRetry(p), step'[p] # "err",
         running # {} => Runs(p)
  PROVE  running' # {} => Runs(p)'
<1> HIDE DEF Steps
<1> USE DEF GoTo, TypeOK, clusterVars, jobVars, Runs
<1>1. CASE Exhausted(p) \/ NoControlNode(p) \/ BeginRefused(p) \/ Unreachable(p)
             \/ CannotStartOver(p)
  BY <1>1 DEF Exhausted, NoControlNode, BeginRefused, Unreachable, CannotStartOver, Leave
<1>2. CASE BeginRebalance(p) \/ BeginUnanswered(p)
  BY <1>2 DEF BeginRebalance, BeginUnanswered
<1>3. ASSUME step[p] \notin {"beginAgain", "wait"} \/ running = {}, running' = running
      PROVE  running' # {} => Runs(p)'
  BY <1>3
<1>4. CASE SelectControlNode(p) \/ ListNodeOTPs(p) \/ StartOver(p)
  BY <1>3, <1>4 DEF SelectControlNode, ListNodeOTPs, StartOver
<1>5. CASE WaitForNoRunningTasks(p) \/ CheckAgain(p)
  BY <1>3, <1>5 DEF WaitForNoRunningTasks, CheckAgain, StartCheck
<1>6. CASE Checked(p) \/ \E n \in Node : SkipNode(p, n) \/ PassNode(p, n) \/ ObjectNode(p, n)
  BY <1>3, <1>6 DEF Checked, SkipNode, PassNode, ObjectNode, Unbalanced, Leave
<1> QED
  BY <1>1, <1>2, <1>4, <1>5, <1>6 DEF RebalanceWithRetry

\* What passes between processes does not concern one that works alone.
LEMMA FreshKept ==
  ASSUME NEW p \in Proc, MInv, Framed(p), Busy(p)
  PROVE  fresh'[p] = fresh[p] /\ leaving'[p] = leaving[p] /\ fresh'[p] \intersect Gone' = {}
BY DEF Framed, Gone, MInv, Sound

LEMMA RebalanceSound ==
  ASSUME NEW p \in Proc, IInv, JInv, NInv, MInv,
         RebalanceWithRetry(p), UNCHANGED dockerVars, step'[p] # "err"
  PROVE  MInv'
<1> HIDE DEF Steps
<1>1. TypeOK /\ Framed(p) /\ Busy(p) /\ member' = member
  BY RebalanceFrame, BusySteps DEF Progress, IInv, Framed
<1>2. \A q \in Proc \ {p} : ~Busy(q)'
  BY <1>1, AloneFrame DEF Framed, NInv
<1>3. running' # {} => Runs(p)'
  BY <1>1, RebalanceRuns, RunsAlone
<1>4. UNCHANGED <<dns, passive, todo>> /\ dns \union passive.nodes \subseteq member
  BY DEF dockerVars, recordVars, MInv
<1>5. fresh'[p] = fresh[p] /\ leaving'[p] = leaving[p] /\ fresh'[p] \intersect Gone' = {}
  BY <1>1, FreshKept
<1>6. /\ step[p] \in During /\ box' = box
      /\ \/ step'[p] \in During
         \/ step[p] = "check" /\ orchs[p] = 1 /\ step'[p] = "balanced"
  BY <1>1, RebalanceEnds
<1>7. box \subseteq member \union fresh[p] \union leaving[p] /\ todo[p] = leaving[p]
  BY <1>6 DEF MInv, Sound, IInv, Knows
<1>8. CASE step'[p] \in During
  <2>1. Busy(p)'
    BY <1>8 DEF Busy, During, Attempting
  <2>2. Sound(p)'
    BY <1>1, <1>5, <1>6, <1>7, <1>8 DEF Sound, Before, During, Attempting
  <2> QED
    BY <1>1, <1>2, <1>3, <1>4, <2>1, <2>2, SoundFrame
<1>9. CASE step[p] = "check" /\ orchs[p] = 1 /\ step'[p] = "balanced"
  <2>1. Busy(p)'
    BY <1>9 DEF Busy
  <2>2. fresh[p] \subseteq member
    <3>1. fresh[p] \subseteq member \union Gone
      BY <1>9 DEF JInv, Joins
    <3>2. fresh[p] \intersect Gone = {}
      BY <1>1 DEF MInv, Sound
    <3> QED
      BY <3>1, <3>2
  <2>3. Sound(p)'
    BY <1>1, <1>4, <1>5, <1>6, <1>7, <1>9, <2>2 DEF Sound, Before, During, Attempting
  <2> QED
    BY <1>1, <1>2, <1>3, <1>4, <2>1, <2>3, SoundFrame
<1> QED
  BY <1>6, <1>8, <1>9

LEMMA AddRemoveSound ==
  ASSUME NEW p \in Proc, IInv, NInv, MInv, AddRemoveNodes(p), step'[p] # "err"
  PROVE  MInv'
<1> HIDE DEF Steps
<1>1. TypeOK /\ Framed(p) /\ Busy(p) /\ member' = member
  BY AddRemoveFrame, BusySteps DEF Progress, IInv, Framed
<1>2. \A q \in Proc \ {p} : ~Busy(q)'
  BY <1>1, AloneFrame DEF Framed, NInv
<1>3. fresh'[p] = fresh[p] /\ leaving'[p] = leaving[p] /\ fresh'[p] \intersect Gone' = {}
  BY <1>1, FreshKept
<1>4. Sound(p) /\ dns \union passive.nodes \subseteq member
  BY DEF MInv
<1>5. running' = {}
  <2>1. step[p] \notin {"beginAgain", "wait"}
    BY DEF AddRemoveNodes, DeployNode, Register, RemoveContainer, Registered, GrowActive,
       ShrinkDns, ShrinkPassive, ReconcileRebalance, Removed, GrowDns, GrowPassive,
       ShrinkActive, GiveUp, Refused
  <2>2. running = {}
    BY <1>1, <2>1, RunsAlone DEF Runs
  <2>3. running' = running
    BY DEF AddRemoveNodes, DeployNode, Register, RemoveContainer, Registered, GrowActive,
       ShrinkDns, ShrinkPassive, ReconcileRebalance, Removed, GrowDns, GrowPassive,
       ShrinkActive, GiveUp, Abandon, Leave, clusterVars
  <2> QED
    BY <2>2, <2>3
<1>6. ASSUME Sound(p)', ~Busy(p)' => box' \subseteq member',
             dns' \union passive'.nodes \subseteq member'
      PROVE  MInv'
  BY <1>2, <1>5, <1>6, SoundFrame
<1>7. ASSUME step'[p] \in Before, addrs' = addrs, box' \subseteq member \union fresh[p], step[p] \in Before,
             dns' \union passive'.nodes \subseteq member'
      PROVE  MInv'
  <2>1. Busy(p)'
    BY <1>7 DEF Busy, Before
  <2>2. Sound(p)'
    BY <1>1, <1>3, <1>4, <1>7 DEF Sound, Before, During, Attempting
  <2> QED
    BY <1>6, <1>7, <2>1, <2>2
<1>8. step[p] \in Before =>
         addrs[p] \subseteq member /\ box \subseteq member \union fresh[p]
  BY <1>4 DEF Sound
<1>9. ASSUME step'[p] \in {"growDns", "growPassive", "shrinkActive", "ok"}, box' = box,
             box \subseteq member, dns' \union passive'.nodes \subseteq member
      PROVE  MInv'
  <2>1. Sound(p)'
    BY <1>1, <1>3, <1>9 DEF Sound, Before, During, Attempting
  <2> QED
    BY <1>1, <1>6, <1>9, <2>1
<1> USE DEF GoTo, TypeOK
<1>10. CASE GiveUp(p)
  BY <1>1, <1>10 DEF GiveUp, Abandon, Leave
<1>11. ASSUME NEW n \in Node, DeployNode(p, n) PROVE MInv'
  <2>1. /\ step[p] = "deploy" /\ step'[p] \in {"deploy", "register"} /\ n \in todo[p]
        /\ box' = box \union {n} /\ addrs' = addrs /\ UNCHANGED <<dns, passive>>
    BY <1>1, <1>11 DEF DeployNode, jobVars, recordVars
  <2>2. n \in fresh[p]
    BY <2>1 DEF IInv, Apart
  <2> QED
    BY <1>1, <1>4, <1>7, <1>8, <2>1, <2>2 DEF Before
<1>12. ASSUME step[p] \in Before, step'[p] \in Before, UNCHANGED <<box, addrs, dns, passive>>
       PROVE  MInv'
  BY <1>1, <1>4, <1>7, <1>8, <1>12
<1>13. ASSUME NEW n \in Node, Register(p, n) PROVE MInv'
  BY <1>12, <1>13 DEF Register, Before, jobVars, recordVars, healthVars
<1>14. Shrink(leaving[p]) \in {"shrinkDns", "shrinkPassive", "reconcile"}
  BY DEF Shrink
<1>15. CASE Registered(p)
  <2>1. step[p] = "register" /\ step'[p] \in {"growActive", "shrinkDns", "shrinkPassive", "reconcile"}
    BY <1>1, <1>14, <1>15 DEF Registered
  <2> QED
    BY <1>12, <1>15, <2>1 DEF Registered, Before, jobVars, recordVars, healthVars
<1>16. CASE GrowActive(p)
  <2>1. step[p] = "growActive" /\ step'[p] \in {"shrinkDns", "shrinkPassive", "reconcile"}
    BY <1>1, <1>14, <1>16 DEF GrowActive
  <2> QED
    BY <1>12, <1>16, <2>1 DEF GrowActive, Before, jobVars, healthVars
<1>17. CASE ShrinkDns(p)
  <2>1. /\ step[p] = "shrinkDns" /\ step'[p] \in {"shrinkPassive", "reconcile"}
        /\ UNCHANGED <<box, addrs, passive>> /\ dns' = addrs[p] \ leaving[p]
    BY <1>1, <1>17 DEF ShrinkDns, jobVars, healthVars
  <2> QED
    BY <1>1, <1>4, <1>7, <1>8, <2>1 DEF Before
<1>18. CASE ShrinkPassive(p)
  <2>1. /\ step[p] = "shrinkPassive" /\ step'[p] = "reconcile"
        /\ UNCHANGED <<box, addrs, dns>> /\ passive'.nodes = addrs[p] \ leaving[p]
    BY <1>1, <1>18 DEF ShrinkPassive, updatePassiveLoadBalancer, jobVars, healthVars
  <2> QED
    BY <1>1, <1>4, <1>7, <1>8, <2>1 DEF Before
<1>19. CASE ReconcileRebalance(p)
  <2>1. /\ step[p] = "reconcile" /\ step'[p] = "select" /\ UNCHANGED <<box, dns, passive>>
    BY <1>1, <1>19 DEF ReconcileRebalance, healthVars, recordVars
  <2>2. box \subseteq member \union fresh[p]
    BY <1>8, <2>1 DEF Before
  <2>3. Sound(p)'
    BY <1>1, <1>3, <2>1, <2>2 DEF Sound, Before, During, Attempting
  <2>4. Busy(p)'
    BY <2>1 DEF Busy
  <2> QED
    BY <1>1, <1>4, <1>6, <2>1, <2>3, <2>4
<1>20. ASSUME NEW n \in Node, RemoveContainer(p, n) PROVE MInv'
  <2>1. /\ step[p] = "balanced" /\ step'[p] = "balanced" /\ box' = box \ {n}
        /\ todo'[p] = todo[p] \ {n} /\ UNCHANGED <<dns, passive>>
    BY <1>1, <1>20 DEF RemoveContainer, recordVars
  <2>2. box \subseteq member \union todo[p]
    BY <1>4, <2>1 DEF Sound
  <2>3. Sound(p)'
    BY <1>1, <1>3, <2>1, <2>2 DEF Sound, Before, During, Attempting
  <2>4. Busy(p)'
    BY <2>1 DEF Busy
  <2> QED
    BY <1>1, <1>4, <1>6, <2>1, <2>3, <2>4
<1>21. ASSUME NEW k \in 0 .. 3, Continue(p, k)
       PROVE  step'[p] \in {"growDns", "growPassive", "shrinkActive", "ok"}
  BY <1>1, <1>21, ContinueTo
<1>22. CASE Removed(p)
  <2>1. step[p] = "balanced" /\ todo[p] = {} /\ UNCHANGED <<box, dns, passive>>
    BY <1>22 DEF Removed, healthVars, recordVars
  <2>2. step'[p] \in {"growDns", "growPassive", "shrinkActive", "ok"}
    BY <1>21, <1>22 DEF Removed
  <2>3. box \subseteq member
    BY <1>4, <2>1 DEF Sound
  <2> QED
    BY <1>4, <1>9, <2>1, <2>2, <2>3
<1>23. step[p] \in {"growDns", "growPassive", "shrinkActive"} =>
          box \subseteq member /\ latest[p] \subseteq member
  <2>1. step[p] \in {"growDns", "growPassive", "shrinkActive"} =>
           box \subseteq member /\ latest[p] \subseteq box
    BY <1>4 DEF Sound, NInv, Names
  <2> QED
    BY <2>1
<1>24. CASE GrowDns(p)
  <2>1. /\ step[p] = "growDns" /\ dns' = latest[p] /\ UNCHANGED <<box, passive>>
        /\ step'[p] \in {"growDns", "growPassive", "shrinkActive", "ok"}
    BY <1>21, <1>24 DEF GrowDns, healthVars
  <2> QED
    BY <1>4, <1>9, <1>23, <2>1
<1>25. CASE GrowPassive(p)
  <2>1. /\ step[p] = "growPassive" /\ passive'.nodes = latest[p] /\ UNCHANGED <<box, dns>>
        /\ step'[p] \in {"growDns", "growPassive", "shrinkActive", "ok"}
    BY <1>21, <1>25 DEF GrowPassive, updatePassiveLoadBalancer, healthVars
  <2> QED
    BY <1>4, <1>9, <1>23, <2>1
<1>26. CASE ShrinkActive(p)
  <2>1. /\ step[p] = "shrinkActive" /\ UNCHANGED <<box, dns, passive>>
        /\ step'[p] \in {"growDns", "growPassive", "shrinkActive", "ok"}
    BY <1>21, <1>26 DEF ShrinkActive, healthVars
  <2> QED
    BY <1>4, <1>9, <1>23, <2>1
<1> QED
  BY <1>10, <1>11, <1>13, <1>15, <1>16, <1>17, <1>18, <1>19, <1>20, <1>22, <1>24, <1>25, <1>26
     DEF AddRemoveNodes

LEMMA ClusterSound ==
  IInv /\ JInv /\ NInv /\ MInv /\ Cluster /\ UNCHANGED dockerVars => MInv'
<1> SUFFICES ASSUME IInv, JInv, NInv, MInv, Cluster, UNCHANGED dockerVars PROVE MInv'
  OBVIOUS
<1> HIDE DEF Steps
<1>1. /\ UNCHANGED <<step, addrs, eject, fresh, leaving, todo, box, dns, passive>>
      /\ Gone' = Gone
  BY DEF Cluster, FinishRebalance, FailRebalance, StopAnswering, AnswerAgain, Elect,
     dockerVars, recordVars, planVars, healthVars, jobVars, Gone
<1>2. \A q \in Proc : Busy(q)' <=> Busy(q)
  BY <1>1 DEF Busy
<1>3. CASE FinishRebalance
  <2>1. PICK e \in running : member' = Joined \ e /\ running' = {}
    BY <1>3 DEF FinishRebalance
  <2>2. PICK p \in Proc : Runs(p)
    BY DEF MInv
  <2>3. step[p] \in {"beginAgain", "wait"} /\ step[p] \in During /\ Busy(p) /\ e = eject[p]
    BY <2>1, <2>2 DEF Runs, During, Attempting, Busy
  <2>4. e \subseteq leaving[p] /\ member \ leaving[p] \subseteq member'
    BY <2>1, <2>3 DEF IInv, Knows, Joined
  <2>5. dns \intersect leaving[p] = {} /\ passive.nodes \intersect leaving[p] = {}
    BY <2>3 DEF NInv, Names, Shrunk
  <2>6. dns' \union passive'.nodes \subseteq member'
    BY <1>1, <2>4, <2>5 DEF MInv
  <2>7. \A q \in Proc \ {p} : ~Busy(q)'
    BY <1>2, <2>3 DEF NInv, Alone
  <2>8. Sound(p)'
    BY <1>1, <1>2, <2>3, <2>4 DEF MInv, Sound, Before, During, Attempting
  <2> QED
    BY <1>2, <2>1, <2>3, <2>6, <2>7, <2>8, SoundFrame
<1>4. CASE ~FinishRebalance
  <2>1. member' = member /\ (running' = running \/ running' = {})
    BY <1>4 DEF Cluster, FailRebalance, StopAnswering, AnswerAgain, Elect, clusterVars
  <2>2. running' # {} => \E p \in Proc : Runs(p)'
    BY <1>1, <2>1 DEF MInv, Runs
  <2>3. \A q \in Proc : Sound(q)'
    BY <1>1, <1>2, <2>1 DEF MInv, Sound
  <2> QED
    BY <1>1, <1>2, <2>1, <2>2, <2>3 DEF MInv, Idle
<1> QED
  BY <1>3, <1>4

LEMMA StartSound ==
  ASSUME NEW p \in Proc, ~Concurrent, IInv, JInv, MInv, Start(p)
  PROVE  MInv'
<1> HIDE DEF Steps
<1>1. PICK new \in SUBSET Unused, old \in SUBSET box :
         /\ fresh'[p] = new /\ leaving'[p] = old /\ addrs'[p] = box
         /\ step'[p] = IF new = {} THEN Shrink(old) ELSE "deploy"
         /\ UNCHANGED <<clusterVars, box, dns, passive>>
         /\ \A q \in Proc \ {p} : Same(q)
  BY StartFrame DEF IInv
<1>2. Idle
  BY DEF Start, Idle
<1>3. \A q \in Proc \ {p} : ~Busy(q)'
  BY <1>1, <1>2 DEF Same, Busy, Idle
<1>4. running' = {} /\ member' = member /\ box \subseteq member
  <2>1. running = {} /\ box \subseteq member
    BY <1>2 DEF MInv, Runs, Idle, Busy
  <2> QED
    BY <1>1, <2>1 DEF clusterVars
<1>5. new \intersect Gone' = {}
  <2>1. \A n \in new : ~Used(n)
    BY DEF Unused, Used
  <2>2. \A q \in Proc : \A n \in leaving'[q] : Used(n)
    BY <1>1 DEF Same, IInv, Knows, Apart
  <2> QED
    BY <2>1, <2>2 DEF Gone
<1>6. step'[p] \in Before
  BY <1>1 DEF Shrink, Before
<1>7. Sound(p)'
  BY <1>1, <1>4, <1>5, <1>6 DEF Sound, Before, During, Attempting
<1>8. Busy(p)'
  BY <1>6 DEF Busy, Before
<1> QED
  BY <1>1, <1>3, <1>4, <1>7, <1>8, SoundFrame DEF MInv

LEMMA StepSound ==
  ~Concurrent /\ IInv /\ JInv /\ NInv /\ MInv /\ [Next]_vars /\ NoErr' => MInv'
<1> SUFFICES ASSUME ~Concurrent, IInv, JInv, NInv, MInv, [Next]_vars, NoErr' PROVE MInv'
  OBVIOUS
<1> HIDE DEF Steps
<1>1. CASE UNCHANGED vars
  <2>1. UNCHANGED <<member, running, step, addrs, eject, fresh, leaving, todo, box, dns, passive>>
    BY <1>1 DEF vars, clusterVars, healthVars, jobVars, dockerVars, recordVars, planVars
  <2>2. Gone' = Gone /\ \A q \in Proc : Busy(q)' <=> Busy(q)
    BY <2>1 DEF Gone, Busy
  <2>3. \A q \in Proc : Sound(q)'
    BY <2>1, <2>2 DEF MInv, Sound
  <2> QED
    BY <2>1, <2>2, <2>3 DEF MInv, Runs, Idle
<1>2. ASSUME NEW p \in Proc, Fail(p) PROVE MInv'
  BY <1>2 DEF Fail, Abandon, Leave, GoTo, IInv, TypeOK, NoErr
<1>3. \A p \in Proc : step'[p] # "err"
  BY DEF NoErr
<1> QED
  BY <1>1, <1>2, <1>3, ClusterSound, StartSound, RebalanceSound, AddRemoveSound DEF Next, Progress

LEMMA InitSound == Init => MInv
<1> SUFFICES ASSUME Init PROVE MInv
  OBVIOUS
<1> HIDE DEF Steps
<1>1. (\A p \in Proc : ~Busy(p)) /\ running = {}
  BY DEF Init, Busy
<1>2. dns \union passive.nodes \subseteq member /\ box \subseteq member
  BY DEF Init, Named
<1> QED
  BY <1>1, <1>2, RestingSound DEF MInv

MembersNamed == ~Concurrent /\ NoErr => MInv

LEMMA SafeSound == Spec => []MembersNamed
<1>1. Init => MembersNamed
  BY InitSound DEF MembersNamed
<1>2. TypeOK /\ IInv /\ JInv /\ (~Concurrent => NInv) /\ MembersNamed /\ [Next]_vars
         => MembersNamed'
  <2> SUFFICES ASSUME TypeOK, IInv, JInv, ~Concurrent => NInv, [Next]_vars,
                      MembersNamed, ~Concurrent, NoErr'
               PROVE  MInv'
    BY DEF MembersNamed
  <2>1. NoErr
    BY ErrStays
  <2> QED
    BY <2>1, StepSound DEF MembersNamed
<1> QED
  BY <1>1, <1>2, Safe, SafeNames, PTL DEF Spec

\* As long as commands come one after the other and none has failed, the records
\* and nginx name only members of the Couchbase cluster.
THEOREM NamedAreMembers == Spec => []NamesAreMembers
<1>1. MembersNamed => NamesAreMembers
  BY DEF NamesAreMembers, NoErr, MInv, MembersNamed
<1> QED
  BY <1>1, SafeSound, PTL
-----------------------------------------------------------------------------
(* NamesComplete                                                           *)

\* What the records name once the nodes that leave are out of them.
Final(p) == box \ leaving[p]

\* Every list is brought up to date by a step that is due, or need not be.
Complete(p) ==
    /\ step[p] \in {"deploy", "register", "growActive", "growDns", "growPassive"} => fresh[p] # {}
    /\ step[p] \in {"shrinkDns", "shrinkPassive", "shrinkActive"} => leaving[p] # {}
    /\ step[p] = "growActive" => latest[p] = box
    /\ step[p] \in {"growDns", "growPassive", "shrinkActive"} =>
          latest[p] = box /\ Final(p) = box
    /\ step[p] = "balanced" => Final(p) = box \ todo[p]
    /\ step[p] \in Before \union During /\ fresh[p] = {} => addrs[p] = box
    /\ Has("dns") =>
          /\ step[p] \in Shrunk \union {"shrinkPassive"} /\ fresh[p] = {} => dns = Final(p)
          /\ step[p] \in {"growPassive", "shrinkActive"} => dns = box
    /\ Has("nginx") =>
          /\ step[p] \in Shrunk /\ fresh[p] = {} => passive.nodes = Final(p)
          /\ step[p] = "shrinkActive" => passive.nodes = box
    /\ Has("haproxy") =>
          (step[p] \in Shrunk \union {"growDns", "growPassive"} /\ leaving[p] = {}
             => active.nodes = box)

Full ==
    /\ Has("dns") => dns = box
    /\ Has("nginx") => passive.nodes = box
    /\ Has("haproxy") => active.nodes = box

CInv == (Idle => Full) /\ \A p \in Proc : Complete(p)

\* The process that is under way decides.
LEMMA CompleteFrame ==
  ASSUME NEW p \in Proc, \A q \in Proc \ {p} : ~Busy(q)', Complete(p)', ~Busy(p)' => Full'
  PROVE  CInv'
<1> HIDE DEF Steps
<1>1. \A q \in Proc : ~Busy(q)' => Complete(q)'
  BY DEF Busy, Complete, Shrunk, Before, During, Attempting
<1> QED
  BY <1>1 DEF CInv, Idle

LEMMA RebalanceComplete ==
  ASSUME NEW p \in Proc, IInv, NInv, CInv,
         RebalanceWithRetry(p), UNCHANGED dockerVars, step'[p] # "err"
  PROVE  CInv'
<1> HIDE DEF Steps
<1>1. TypeOK /\ Framed(p) /\ Busy(p)
  BY RebalanceFrame, BusySteps DEF Progress, IInv
<1>2. \A q \in Proc \ {p} : ~Busy(q)'
  BY <1>1, AloneFrame DEF Framed, NInv
<1>3. UNCHANGED <<kind, dns, passive, active, fresh, leaving, todo>> /\ Complete(p)
  BY DEF dockerVars, recordVars, planVars, CInv
<1>4. /\ step[p] \in During /\ box' = box
      /\ \/ step'[p] \in During /\ addrs' = addrs
         \/ step'[p] = "balanced"
  BY <1>1, RebalanceEnds
<1>5. todo[p] = leaving[p]
  BY <1>4 DEF IInv, Knows
<1>6. Complete(p)'
  BY <1>3, <1>4, <1>5 DEF Complete, Final, Has, Shrunk, Before, During, Attempting
<1>7. Busy(p)'
  BY <1>4 DEF Busy, During, Attempting
<1> QED
  BY <1>2, <1>6, <1>7, CompleteFrame

LEMMA AddRemoveComplete ==
  ASSUME NEW p \in Proc, IInv, NInv, CInv, AddRemoveNodes(p), step'[p] # "err"
  PROVE  CInv'
<1> HIDE DEF Steps
<1>1. /\ TypeOK /\ Framed(p) /\ Busy(p) /\ Complete(p)
      /\ kind' = kind /\ fresh' = fresh /\ leaving' = leaving
  BY AddRemoveFrame, BusySteps DEF Progress, IInv, Framed, CInv
<1>2. \A q \in Proc \ {p} : ~Busy(q)'
  BY <1>1, AloneFrame DEF Framed, NInv
<1>3. \A feature : Has(feature)' = Has(feature)
  BY <1>1 DEF Has
<1>4. ASSUME Complete(p)', ~Busy(p)' => Full' PROVE CInv'
  BY <1>2, <1>4, CompleteFrame
<1> USE DEF GoTo, TypeOK
<1>5. CASE GiveUp(p)
  BY <1>1, <1>5 DEF GiveUp, Abandon, Leave
<1> USE DEF Complete, Final, Shrunk, Before, During, Attempting
<1>6. ASSUME NEW n \in Node, DeployNode(p, n) PROVE CInv'
  <2>1. /\ step[p] = "deploy" /\ step'[p] \in {"deploy", "register"}
    BY <1>1, <1>6 DEF DeployNode
  <2>2. Complete(p)' /\ Busy(p)'
    BY <1>1, <2>1 DEF Busy
  <2> QED
    BY <1>4, <2>2
<1>7. ASSUME NEW n \in Node, Register(p, n) PROVE CInv'
  <2>1. /\ step[p] = "register" /\ step'[p] = "register"
    BY <1>7 DEF Register
  <2>2. Complete(p)' /\ Busy(p)'
    BY <1>1, <2>1 DEF Busy
  <2> QED
    BY <1>4, <2>2
<1>8. ASSUME fresh[p] # {}, step'[p] = Shrink(leaving[p]), box' = box,
             Has("haproxy") /\ leaving[p] = {} => active'.nodes = box
      PROVE  CInv'
  <2>1. /\ step'[p] \in {"shrinkDns", "shrinkPassive", "reconcile"}
        /\ step'[p] \in {"shrinkDns", "shrinkPassive"} => leaving[p] # {}
    BY <1>8, ShrinkTo
  <2>2. Complete(p)' /\ Busy(p)'
    BY <1>1, <1>3, <1>8, <2>1 DEF Busy
  <2> QED
    BY <1>4, <2>2
<1>9. CASE Registered(p)
  <2>1. step[p] = "register" /\ fresh[p] # {} /\ box' = box
    BY <1>1, <1>9 DEF Registered, healthVars
  <2>2. CASE Has("haproxy")
    <3>1. step'[p] = "growActive" /\ latest'[p] = box
      BY <1>1, <1>9, <2>2 DEF Registered
    <3>2. Complete(p)' /\ Busy(p)'
      BY <1>1, <2>1, <3>1 DEF Busy
    <3> QED
      BY <1>4, <3>2
  <2>3. CASE ~Has("haproxy")
    BY <1>1, <1>8, <1>9, <2>1, <2>3 DEF Registered
  <2> QED
    BY <2>2, <2>3
<1>10. CASE GrowActive(p)
  <2>1. step[p] = "growActive" /\ box' = box /\ step'[p] = Shrink(leaving[p])
        /\ active'.nodes = latest[p]
    BY <1>1, <1>10 DEF GrowActive, updateActiveLoadBalancer, healthVars
  <2> QED
    BY <1>1, <1>8, <2>1
<1>11. CASE ShrinkDns(p)
  <2>1. /\ step[p] = "shrinkDns" /\ UNCHANGED <<box, addrs, passive>>
        /\ dns' = addrs[p] \ leaving[p]
        /\ \/ step'[p] = "shrinkPassive" /\ Has("nginx")
           \/ step'[p] = "reconcile" /\ ~Has("nginx")
    BY <1>1, <1>11 DEF ShrinkDns, jobVars, healthVars
  <2>2. leaving[p] # {} /\ (fresh[p] = {} => addrs[p] = box)
    BY <1>1, <2>1
  <2>3. Complete(p)' /\ Busy(p)'
    BY <1>1, <1>3, <2>1, <2>2 DEF Busy
  <2> QED
    BY <1>4, <2>3
<1>12. CASE ShrinkPassive(p)
  <2>1. /\ step[p] = "shrinkPassive" /\ step'[p] = "reconcile" /\ UNCHANGED <<box, addrs, dns>>
        /\ passive'.nodes = addrs[p] \ leaving[p]
    BY <1>1, <1>12 DEF ShrinkPassive, updatePassiveLoadBalancer, jobVars, healthVars
  <2>2. leaving[p] # {} /\ (fresh[p] = {} => addrs[p] = box)
    BY <1>1, <2>1
  <2>3. Complete(p)' /\ Busy(p)'
    BY <1>1, <1>3, <2>1, <2>2 DEF Busy
  <2> QED
    BY <1>4, <2>3
<1>13. CASE ReconcileRebalance(p)
  <2>1. /\ step[p] = "reconcile" /\ step'[p] = "select"
        /\ UNCHANGED <<box, addrs, dns, passive, active>>
    BY <1>1, <1>13 DEF ReconcileRebalance, healthVars, recordVars
  <2>2. Complete(p)' /\ Busy(p)'
    BY <1>1, <1>3, <2>1 DEF Busy
  <2> QED
    BY <1>4, <2>2
<1>14. ASSUME NEW n \in Node, RemoveContainer(p, n) PROVE CInv'
  <2>1. /\ step[p] = "balanced" /\ step'[p] = "balanced" /\ box' = box \ {n}
        /\ todo'[p] = todo[p] \ {n} /\ n \in todo[p] /\ UNCHANGED <<dns, passive, active>>
    BY <1>1, <1>14 DEF RemoveContainer, recordVars
  <2>2. n \in leaving[p]
    BY <2>1 DEF IInv, Knows
  <2>3. Final(p)' = Final(p) /\ Final(p)' = box' \ todo'[p]
    BY <1>1, <2>1, <2>2
  <2>4. Complete(p)' /\ Busy(p)'
    BY <1>1, <1>3, <2>1, <2>2, <2>3 DEF Busy
  <2> QED
    BY <1>4, <2>4
<1> HIDE DEF Complete, Final, Shrunk, Before, During, Attempting
<1>15. CASE Removed(p)
  <2>1. /\ step[p] = "balanced" /\ todo[p] = {} /\ UNCHANGED <<box, dns, passive, active>>
        /\ latest'[p] = box /\ Continue(p, 0)
    BY <1>1, <1>15 DEF Removed, healthVars, recordVars
  <2>2. /\ Final(p) = box
        /\ Has("dns") /\ fresh[p] = {} => dns = box
        /\ Has("nginx") /\ fresh[p] = {} => passive.nodes = box
        /\ Has("haproxy") /\ leaving[p] = {} => active.nodes = box
    BY <1>1, <2>1 DEF Complete, Shrunk
  <2>3. Final(p)' = box'
    BY <1>1, <2>1, <2>2 DEF Final
  <2>4. \/ step'[p] = "growDns" /\ fresh[p] # {}
        \/ step'[p] = "growPassive" /\ fresh[p] # {} /\ ~Has("dns")
        \/ /\ step'[p] = "shrinkActive" /\ leaving[p] # {}
           /\ Has("dns") => fresh[p] = {}
           /\ Has("nginx") => fresh[p] = {}
        \/ /\ step'[p] = "ok"
           /\ Has("dns") => fresh[p] = {}
           /\ Has("nginx") => fresh[p] = {}
           /\ Has("haproxy") => leaving[p] = {}
    BY <1>1, <2>1, Continues, DueSteps
  <2>5. Complete(p)'
    BY <1>1, <1>3, <2>1, <2>2, <2>3, <2>4 DEF Complete, Shrunk, Before, During, Attempting
  <2>6. ~Busy(p)' => Full'
    BY <1>1, <1>3, <2>1, <2>2, <2>4 DEF Busy, Full
  <2> QED
    BY <1>4, <2>5, <2>6
<1>16. CASE GrowDns(p)
  <2>1. /\ step[p] = "growDns" /\ UNCHANGED <<box, passive, active, latest>>
        /\ dns' = latest[p] /\ Continue(p, 1)
    BY <1>1, <1>16 DEF GrowDns, healthVars
  <2>2. /\ Final(p) = box /\ latest[p] = box /\ fresh[p] # {}
        /\ Has("haproxy") /\ leaving[p] = {} => active.nodes = box
    BY <1>1, <2>1 DEF Complete
  <2>3. Final(p)' = box' /\ dns' = box
    BY <1>1, <2>1, <2>2 DEF Final
  <2>4. \/ step'[p] = "growPassive"
        \/ step'[p] = "shrinkActive" /\ leaving[p] # {} /\ ~Has("nginx")
        \/ /\ step'[p] = "ok" /\ ~Has("nginx")
           /\ Has("haproxy") => leaving[p] = {}
    BY <1>1, <2>1, <2>2, Continues, DueSteps
  <2>5. Complete(p)'
    BY <1>1, <1>3, <2>1, <2>2, <2>3, <2>4 DEF Complete, Shrunk, Before, During, Attempting
  <2>6. ~Busy(p)' => Full'
    BY <1>1, <1>3, <2>1, <2>2, <2>3, <2>4 DEF Busy, Full
  <2> QED
    BY <1>4, <2>5, <2>6
<1>17. CASE GrowPassive(p)
  <2>1. /\ step[p] = "growPassive" /\ UNCHANGED <<box, dns, active, latest>>
        /\ passive'.nodes = latest[p] /\ Continue(p, 2)
    BY <1>1, <1>17 DEF GrowPassive, updatePassiveLoadBalancer, healthVars
  <2>2. /\ Final(p) = box /\ latest[p] = box
        /\ Has("dns") => dns = box
        /\ Has("haproxy") /\ leaving[p] = {} => active.nodes = box
    BY <1>1, <2>1 DEF Complete
  <2>3. Final(p)' = box' /\ passive'.nodes = box
    BY <1>1, <2>1, <2>2 DEF Final
  <2>4. \/ step'[p] = "shrinkActive" /\ leaving[p] # {}
        \/ /\ step'[p] = "ok"
           /\ Has("haproxy") => leaving[p] = {}
    BY <1>1, <2>1, Continues, DueSteps
  <2>5. Complete(p)'
    BY <1>1, <1>3, <2>1, <2>2, <2>3, <2>4 DEF Complete, Shrunk, Before, During, Attempting
  <2>6. ~Busy(p)' => Full'
    BY <1>1, <1>3, <2>1, <2>2, <2>3, <2>4 DEF Busy, Full
  <2> QED
    BY <1>4, <2>5, <2>6
<1>18. CASE ShrinkActive(p)
  <2>1. /\ step[p] = "shrinkActive" /\ UNCHANGED <<box, dns, passive>> /\ step'[p] = "ok"
        /\ active'.nodes = latest[p]
    BY <1>1, <1>18, Continues DEF ShrinkActive, updateActiveLoadBalancer, healthVars
  <2>2. /\ latest[p] = box
        /\ Has("dns") => dns = box
        /\ Has("nginx") => passive.nodes = box
    BY <1>1, <2>1 DEF Complete
  <2>3. Complete(p)'
    BY <2>1 DEF Complete, Shrunk, Before, During, Attempting
  <2>4. Full'
    BY <1>3, <2>1, <2>2 DEF Full
  <2> QED
    BY <1>4, <2>3, <2>4
<1> QED
  BY <1>5, <1>6, <1>7, <1>9, <1>10, <1>11, <1>12, <1>13, <1>14, <1>15, <1>16, <1>17, <1>18
     DEF AddRemoveNodes

\* No command is given nothing to do.
LEMMA StartComplete ==
  ASSUME NEW p \in Proc, ~Concurrent, TypeOK, CInv, Start(p)
  PROVE  CInv'
<1> HIDE DEF Steps
<1>1. PICK new \in SUBSET Unused, old \in SUBSET box :
         /\ AddNode(new, old) \/ RemoveNode(new, old) \/ ModifyCluster(new, old)
         /\ fresh'[p] = new /\ leaving'[p] = old /\ addrs'[p] = box
         /\ step'[p] = IF new = {} THEN Shrink(old) ELSE "deploy"
         /\ UNCHANGED <<box, kind>>
         /\ \A q \in Proc \ {p} : Same(q)
  BY StartFrame
<1>2. \A q \in Proc \ {p} : ~Busy(q)'
  BY <1>1 DEF Start, Same, Busy
<1>3. new # {} \/ old # {}
  <2>1. Cardinality({}) # 1
    BY FS_EmptySet
  <2> QED
    BY <1>1, <2>1 DEF AddNode, RemoveNode, ModifyCluster
<1>4. \/ step'[p] = "deploy" /\ new # {}
      \/ step'[p] = "shrinkDns" /\ old # {}
      \/ step'[p] = "shrinkPassive" /\ old # {} /\ ~Has("dns")
      \/ step'[p] = "reconcile" /\ old # {} /\ ~Has("dns") /\ ~Has("nginx")
  <2>1. CASE new # {}
    BY <1>1, <2>1
  <2>2. CASE new = {}
    BY <1>1, <1>3, <2>2, ShrinkTo
  <2> QED
    BY <2>1, <2>2
<1>5. \A feature : Has(feature)' = Has(feature)
  BY <1>1 DEF Has
<1>6. Complete(p)'
  BY <1>1, <1>4, <1>5 DEF Complete, Shrunk, Before, During, Attempting
<1>7. Busy(p)'
  BY <1>4 DEF Busy
<1> QED
  BY <1>2, <1>6, <1>7, CompleteFrame

LEMMA StepComplete ==
  ~Concurrent /\ IInv /\ NInv /\ CInv /\ [Next]_vars /\ NoErr' => CInv'
<1> SUFFICES ASSUME ~Concurrent, IInv, NInv, CInv, [Next]_vars, NoErr' PROVE CInv'
  OBVIOUS
<1> HIDE DEF Steps
<1>1. CASE UNCHANGED <<step, addrs, box, dockerVars>>
  <2>1. UNCHANGED <<step, addrs, box, kind, dns, passive, active, fresh, leaving, todo, latest>>
    BY <1>1 DEF dockerVars, recordVars, planVars
  <2>2. \A q \in Proc : Complete(q)' /\ (Busy(q)' <=> Busy(q))
    BY <2>1 DEF CInv, Complete, Final, Has, Busy
  <2> QED
    BY <2>1, <2>2 DEF CInv, Full, Has, Idle
<1>2. UNCHANGED vars \/ (Cluster /\ UNCHANGED dockerVars) => UNCHANGED <<step, addrs, box, dockerVars>>
  BY DEF vars, Cluster, FinishRebalance, FailRebalance, StopAnswering, AnswerAgain, Elect,
     jobVars, healthVars
<1>3. ASSUME NEW p \in Proc, Fail(p) PROVE CInv'
  BY <1>3 DEF Fail, Abandon, Leave, GoTo, IInv, TypeOK, NoErr
<1>4. TypeOK /\ \A p \in Proc : step'[p] # "err"
  BY DEF NoErr, IInv
<1> QED
  BY <1>1, <1>2, <1>3, <1>4, StartComplete, RebalanceComplete, AddRemoveComplete
     DEF Next, Progress

LEMMA InitComplete == Init => CInv
<1> SUFFICES ASSUME Init PROVE CInv
  OBVIOUS
<1> HIDE DEF Steps
<1>1. \A p \in Proc : step[p] = "idle"
  BY DEF Init
<1>2. Full
  BY DEF Init, Full, Named
<1> QED
  BY <1>1, <1>2 DEF CInv, Complete, Shrunk, Before, During, Attempting

ListsComplete == ~Concurrent /\ NoErr => CInv

LEMMA SafeComplete == Spec => []ListsComplete
<1>1. Init => ListsComplete
  BY InitComplete DEF ListsComplete
<1>2. TypeOK /\ IInv /\ (~Concurrent => NInv) /\ ListsComplete /\ [Next]_vars => ListsComplete'
  <2> SUFFICES ASSUME TypeOK, IInv, ~Concurrent => NInv, [Next]_vars,
                      ListsComplete, ~Concurrent, NoErr'
               PROVE  CInv'
    BY DEF ListsComplete
  <2>1. NoErr
    BY ErrStays
  <2> QED
    BY <2>1, StepComplete DEF ListsComplete
<1> QED
  BY <1>1, <1>2, Safe, SafeNames, PTL DEF Spec

\* When all is quiet then, the records and the load balancers name the whole
\* cluster: no command leaves out an update that is due.
THEOREM NamedAreComplete == Spec => []NamesComplete
<1>1. ListsComplete => NamesComplete
  BY DEF NamesComplete, NoErr, Idle, Busy, CInv, Full, ListsComplete
<1> QED
  BY <1>1, SafeComplete, PTL
=============================================================================
