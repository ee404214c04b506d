---------------------------- MODULE CaoClusters -----------------------------
(* Clusters of the Couchbase Autonomous Operator (deployment/caodeploy and    *)
(* utils/caocontrol): each is a Kubernetes namespace with an operator, a      *)
(* CouchbaseCluster resource that the operator works on, and ingresses. A     *)
(* command makes one call after the other and rolls nothing back; what it     *)
(* leaves is found again by the labels of the namespaces.                     *)
EXTENDS Naturals, FiniteSets

CONSTANTS
  Clusters,     \* a cluster is its namespace
  Procs,        \* processes that run a command at a time
  Duties,       \* Duties[x]: the commands process x runs
  MaxCommands,  \* MaxCommands[x]: a bound of the commands of process x, but for cleanup
  OpenShift,    \* whether Kubernetes is OpenShift: there are ingresses, and allocate makes them
  Settle,       \* how many polls long a cluster must look available (15 s)
  Lag           \* how many polls the operator may take to react (external)

Ops == {"allocate", "modify", "remove", "removeall", "cleanup", "enable", "disable", "crds", "admission"}
ASSUME DutyAssumption == Duties \in [Procs -> SUBSET Ops]
ASSUME BoundAssumption == MaxCommands \in [Procs -> Nat] /\ OpenShift \in BOOLEAN
ASSUME ActorAssumption == Clusters # {} /\ Procs # {}
ASSUME SettleAssumption == Settle \in Nat /\ Lag \in 1..Settle - 1

VARIABLES
  ns,         \* ns[c]: the namespace
  expiry,     \* expiry[c]: its expiry label
  contents,   \* contents[c]: what is installed in it
  ingress,    \* ingress[c]: its routes, virtual services and destination rule
  cr, lag,    \* the CouchbaseCluster resource, and the polls since it last changed
  writer,     \* history: the process that wrote its specification last
  crd,        \* the resource definitions
  adm, home,  \* the admission controllers, and the namespace kept for one
  op, step, target, mode,  \* the command of a process, its next call, and arguments
  faulty,     \* whether calls of this command may fail
  todo,       \* the namespaces it has still to delete
  victims,    \* the namespaces it waits for
  calm,       \* for how many polls the cluster has looked available
  left        \* how many commands it may still begin

spaces == <<ns, expiry, contents, ingress>>
resources == <<cr, lag, writer, crd>>
admission == <<adm, home>>
kube == <<spaces, resources, admission>>
proc == <<op, step, target, mode, faulty, todo, victims, calm, left>>
vars == <<kube, proc>>

AdmHomes == {"default", "own"}
Exposures == {"ui_route", "cng_route", "ui_vs", "cng_vs", "cng_rule"}
CrStates == {"none", "fresh", "busy", "gap", "settled", "stuck"}
Steps == {"namespace", "ghcr", "operator", "auth", "create", "settle", "cng", "endpoints", "nodeport",
          "expose", "ui_route", "cng-service", "cng_route", "cng_vs", "cng_rule", "ui_vs",
          "update", "list", "force", "drop", "gone", "hide", "crd-delete", "crd-create",
          "adm-find", "adm-drop", "adm-gone", "adm-home", "adm-create", "adm-wait",
          "idle", "ok", "failed"}
Ended == {"idle", "ok", "failed"}

TypeOK ==
  /\ ns \in [Clusters -> {"unused", "active", "terminating", "gone"}]
  /\ expiry \in [Clusters -> {"none", "later", "passed"}]
  /\ contents \in [Clusters -> SUBSET {"ghcr", "operator", "auth", "cng", "nodeport"}]
  /\ ingress \in [Clusters -> SUBSET Exposures]
  /\ cr \in [Clusters -> CrStates] /\ lag \in [Clusters -> 0..Lag]
  /\ writer \in [Clusters -> Procs]
  /\ crd \in {"installed", "terminating", "absent"}
  /\ adm \in [AdmHomes -> {"none", "starting", "available", "deleting"}]
  /\ home \in {"absent", "active", "terminating"}
  /\ op \in [Procs -> Ops] /\ step \in [Procs -> Steps] /\ target \in [Procs -> Clusters]
  /\ mode \in [Procs -> {"route", "gateway", "default", "own"}]
  /\ faulty \in [Procs -> BOOLEAN]
  /\ todo \in [Procs -> SUBSET Clusters] /\ victims \in [Procs -> SUBSET Clusters]
  /\ calm \in [Procs -> 0..Settle] /\ left \in [Procs -> Nat]

Existing(c) == ns[c] \in {"active", "terminating"}
Default == CHOOSE c \in Clusters : TRUE

Init ==
  /\ ns \in [Clusters -> {"unused", "active"}]
  /\ expiry \in [Clusters -> {"none", "later"}] /\ \A c \in Clusters : ns[c] = "unused" => expiry[c] = "none"
  /\ contents = [c \in Clusters |-> IF ns[c] = "active" THEN {"ghcr", "operator", "auth", "cng", "nodeport"} ELSE {}]
  /\ ingress = [c \in Clusters |-> {}]
  /\ cr = [c \in Clusters |-> IF ns[c] = "active" THEN "settled" ELSE "none"]
  /\ lag = [c \in Clusters |-> 0] /\ writer = [c \in Clusters |-> CHOOSE x \in Procs : TRUE]
  /\ crd = "installed"
  /\ adm \in [AdmHomes -> {"none", "available"}] /\ "none" \in {adm["default"], adm["own"]}
  /\ home = IF adm["own"] = "none" THEN "absent" ELSE "active"
  /\ op = [x \in Procs |-> "cleanup"]
  /\ step = [x \in Procs |-> "idle"] /\ target = [x \in Procs |-> Default]
  /\ mode = [x \in Procs |-> "route"] /\ faulty = [x \in Procs |-> FALSE]
  /\ todo = [x \in Procs |-> {}] /\ victims = [x \in Procs |-> {}]
  /\ calm = [x \in Procs |-> 0] /\ left = MaxCommands

-----------------------------------------------------------------------------
(* Kubernetes and the operator.                                               *)

Operated(c) == ns[c] = "active" /\ "operator" \in contents[c]

Lapse(c) ==
  /\ expiry[c] = "later" /\ expiry' = [expiry EXCEPT ![c] = "passed"]
  /\ UNCHANGED <<ns, contents, ingress, resources, admission, proc>>

(* The operator notices a new specification, works on it, and between two     *)
(* pieces of work the cluster looks available. Work lasts for a poll at least. *)
Polled(c) == \E x \in Procs : step[x] = "settle" /\ target[x] = c
OperatorActs(c) ==
  /\ Operated(c) /\ crd = "installed"
  /\ \/ cr[c] = "fresh" /\ cr' = [cr EXCEPT ![c] = "busy"] /\ contents' = contents
     \/ cr[c] = "gap" /\ cr' = [cr EXCEPT ![c] = "busy"] /\ contents' = contents
     \/ /\ cr[c] = "busy" /\ (Polled(c) => lag[c] > 0)
        /\ \E s \in {"gap", "settled"} : cr' = [cr EXCEPT ![c] = s]
        /\ \E gateway \in SUBSET {"cng"} : contents' = [contents EXCEPT ![c] = @ \cup gateway]
  /\ lag' = [lag EXCEPT ![c] = 0]
  /\ UNCHANGED <<ns, expiry, ingress, writer, crd, admission, proc>>

(* A resource of which the operator has not removed its finalizer is stuck.   *)
NamespaceEmpties(c) ==
  /\ ns[c] = "terminating" /\ (contents[c] # {} \/ cr[c] \notin {"none", "stuck"})
  /\ contents' = [contents EXCEPT ![c] = {}] /\ ingress' = [ingress EXCEPT ![c] = {}]
  /\ IF cr[c] = "none" THEN cr' = cr ELSE \E s \in {"none", "stuck"} : cr' = [cr EXCEPT ![c] = s]
  /\ UNCHANGED <<ns, expiry, lag, writer, crd, admission, proc>>

NamespaceGoes(c) ==
  /\ ns[c] = "terminating" /\ contents[c] = {} /\ cr[c] = "none"
  /\ ns' = [ns EXCEPT ![c] = "gone"] /\ expiry' = [expiry EXCEPT ![c] = "none"]
  /\ ingress' = [ingress EXCEPT ![c] = {}] /\ lag' = [lag EXCEPT ![c] = 0]
  /\ UNCHANGED <<contents, cr, writer, crd, admission, proc>>

(* With their definition the resources go, where an operator lets them.       *)
CrdEmpties(c) ==
  /\ crd = "terminating" /\ cr[c] # "none" /\ Operated(c)
  /\ cr' = [cr EXCEPT ![c] = "none"]
  /\ UNCHANGED <<spaces, lag, writer, crd, admission, proc>>

CrdGoes ==
  /\ crd = "terminating" /\ \A c \in Clusters : cr[c] = "none"
  /\ crd' = "absent"
  /\ UNCHANGED <<spaces, cr, lag, writer, admission, proc>>

AdmissionMoves ==
  /\ \/ \E h \in AdmHomes : adm[h] = "starting" /\ adm' = [adm EXCEPT ![h] = "available"] /\ home' = home
     \/ \E h \in AdmHomes : adm[h] = "deleting" /\ adm' = [adm EXCEPT ![h] = "none"] /\ home' = home
     \/ home = "terminating" /\ adm' = [adm EXCEPT !["own"] = "none"] /\ home' = "absent"
  /\ UNCHANGED <<spaces, resources, proc>>

-----------------------------------------------------------------------------
(* Commands.                                                                  *)

FirstStep == [allocate |-> "namespace", modify |-> "update", remove |-> "list", removeall |-> "list",
              cleanup |-> "list", enable |-> "expose", disable |-> "hide", crds |-> "crd-delete",
              admission |-> "adm-find"]
Allocating(c) == \E x \in Procs : step[x] = "namespace" /\ target[x] = c
Targets(o) ==
  CASE o = "allocate" -> {c \in Clusters : ns[c] = "unused" /\ ~Allocating(c)}
    [] o \in {"modify", "remove", "enable", "disable"} -> {c \in Clusters : Existing(c)}
    [] OTHER -> {Default}
Modes(o) ==
  CASE o \in {"allocate", "enable"} -> IF OpenShift THEN {"route", "gateway"} ELSE {"route"}
    [] o = "admission" -> AdmHomes
    [] OTHER -> {"route"}

Begin(x, o, fails) ==
  /\ step[x] \in Ended /\ o \in Duties[x]
  /\ IF o = "cleanup" THEN left' = left ELSE left[x] > 0 /\ left' = [left EXCEPT ![x] = @ - 1]
  /\ \E c \in Targets(o) : target' = [target EXCEPT ![x] = c]
  /\ \E m \in Modes(o) : mode' = [mode EXCEPT ![x] = m]
  /\ op' = [op EXCEPT ![x] = o] /\ step' = [step EXCEPT ![x] = FirstStep[o]]
  /\ faulty' = [faulty EXCEPT ![x] = fails]
  /\ UNCHANGED <<kube, todo, victims, calm>>

At(x, s) == step[x] = s
GoTo(x, s) == step' = [step EXCEPT ![x] = s]
Same == UNCHANGED <<op, target, mode, faulty, todo, victims, calm, left>>
End(x, result) ==
  /\ GoTo(x, result)
  /\ op' = [op EXCEPT ![x] = "cleanup"] /\ faulty' = [faulty EXCEPT ![x] = FALSE]
  /\ target' = [target EXCEPT ![x] = Default] /\ mode' = [mode EXCEPT ![x] = "route"]
  /\ todo' = [todo EXCEPT ![x] = {}] /\ victims' = [victims EXCEPT ![x] = {}]
  /\ calm' = [calm EXCEPT ![x] = 0] /\ left' = left
Proceed(x, s) == IF s = "ok" THEN End(x, "ok") ELSE GoTo(x, s) /\ Same

(* What a call needs to succeed. A namespace that is being deleted, or that   *)
(* is no longer there, takes no new object; nor can an object be created that *)
(* exists.                                                                    *)
Possible(x) ==
  LET c == target[x] IN
  CASE step[x] \in {"ghcr", "operator", "auth"} -> ns[c] = "active"
    [] step[x] = "create" -> ns[c] = "active" /\ crd = "installed" /\ cr[c] = "none"
    [] step[x] = "settle" -> cr[c] # "none"
    [] step[x] = "update" -> cr[c] \notin {"none", "stuck"} /\ crd = "installed"
    [] step[x] = "nodeport" -> ns[c] = "active" /\ "cng" \in contents[c] /\ "nodeport" \notin contents[c]
    [] step[x] \in {"ui_route", "cng_route"} -> ns[c] = "active" \/ step[x] \in ingress[c]
    [] step[x] \in {"ui_vs", "cng_vs", "cng_rule"} -> ns[c] = "active" /\ step[x] \notin ingress[c]
    [] step[x] = "drop" -> Existing(c)
    [] step[x] = "crd-create" -> crd = "absent"
    [] step[x] = "adm-home" -> mode[x] = "own" => home = "absent"
    [] step[x] = "adm-create" -> adm[mode[x]] = "none" /\ (mode[x] = "own" => home = "active")
    [] step[x] = "adm-wait" -> adm[mode[x]] # "none"
    [] OTHER -> TRUE

(* A wait may also time out. After a failure what was done stays done.        *)
Waits == {"settle", "endpoints", "gone", "adm-gone", "adm-wait"}
Fail(x) ==
  /\ step[x] \notin Ended /\ (faulty[x] \/ ~Possible(x) \/ step[x] \in Waits)
  /\ End(x, "failed")
  /\ UNCHANGED kube

-----------------------------------------------------------------------------
(* NewCluster and ModifyCluster.                                              *)

CreateNamespace(x) ==
  /\ At(x, "namespace")
  /\ ns' = [ns EXCEPT ![target[x]] = "active"]
  /\ \E life \in {"none", "later"} : expiry' = [expiry EXCEPT ![target[x]] = life]
  /\ Proceed(x, "ghcr")
  /\ UNCHANGED <<contents, ingress, resources, admission>>

(* InstallGhcrSecret, InstallOperator and CreateBasicAuthSecret.              *)
AfterInstall == [ghcr |-> "operator", operator |-> "auth", auth |-> "create", nodeport |-> IF OpenShift THEN "expose" ELSE "ok"]
Install(x) ==
  /\ step[x] \in DOMAIN AfterInstall /\ Possible(x)
  /\ contents' = [contents EXCEPT ![target[x]] = @ \cup {step[x]}]
  /\ Proceed(x, AfterInstall[step[x]])
  /\ UNCHANGED <<ns, expiry, ingress, resources, admission>>

CreateCouchbaseCluster(x) ==
  /\ At(x, "create") /\ Possible(x)
  /\ cr' = [cr EXCEPT ![target[x]] = "busy"] /\ lag' = [lag EXCEPT ![target[x]] = 0]
  /\ writer' = [writer EXCEPT ![target[x]] = x]
  /\ Proceed(x, "settle")
  /\ UNCHANGED <<spaces, crd, admission>>

(* The status may still show the cluster of the old specification, if that    *)
(* has the same size.                                                         *)
UpdateCouchbaseClusterSpec(x) ==
  /\ At(x, "update") /\ Possible(x)
  /\ \E s \in {"fresh", "busy"} :
       /\ s = "fresh" => cr[target[x]] # "busy"
       /\ cr' = [cr EXCEPT ![target[x]] = s]
  /\ lag' = [lag EXCEPT ![target[x]] = 0] /\ writer' = [writer EXCEPT ![target[x]] = x]
  /\ Proceed(x, "settle")
  /\ UNCHANGED <<spaces, crd, admission>>

(* waitCouchbaseClusterAvailable: a poll, at regular times, of all that wait. *)
Available(c) == cr[c] \in {"fresh", "gap", "settled"}
Waiting == {x \in Procs : step[x] = "settle" /\ cr[target[x]] # "none"}
AfterSettle(x) == IF op[x] = "allocate" THEN "cng" ELSE "ok"
\* Mutant: a poll too many before the time counts as over.
HasSettledLate(x) == Available(target[x]) /\ calm[x] > Settle
\* Mutant: looking available once is enough.
HasSettledOnce(x) == Available(target[x])
HasSettled(x) == Available(target[x]) /\ calm[x] = Settle

Poll ==
  /\ Waiting # {} /\ \A x \in Waiting : cr[target[x]] \in {"fresh", "gap"} => lag[target[x]] < Lag
  /\ step' = [x \in Procs |-> IF x \in Waiting /\ HasSettled(x) THEN AfterSettle(x) ELSE step[x]]
  /\ calm' = [x \in Procs |-> IF x \in Waiting /\ Available(target[x]) /\ ~HasSettled(x) THEN calm[x] + 1 ELSE 0]
  /\ lag' = [c \in Clusters |-> IF Polled(c) /\ lag[c] < Lag THEN lag[c] + 1 ELSE lag[c]]
  /\ UNCHANGED <<spaces, cr, writer, crd, admission, op, target, mode, faulty, todo, victims, left>>

(* An error counts as the absence of the gateway.                             *)
FindGateway(x) ==
  /\ At(x, "cng")
  /\ \/ "cng" \in contents[target[x]] /\ Proceed(x, "endpoints")
     \/ ("cng" \notin contents[target[x]] \/ faulty[x]) /\ Proceed(x, IF OpenShift THEN "expose" ELSE "ok")
  /\ UNCHANGED kube

WaitServiceHasEndpoints(x) == At(x, "endpoints") /\ Proceed(x, "nodeport") /\ UNCHANGED kube

-----------------------------------------------------------------------------
(* EnableIngresses, also at the end of NewCluster, and DisableIngresses.      *)

EnableIngresses(x) ==
  /\ At(x, "expose") /\ OpenShift
  /\ Proceed(x, IF mode[x] = "route" THEN "ui_route" ELSE "cng-service")
  /\ UNCHANGED kube

\* Mutant: what an earlier command left of the gateway counts as all of it.
CngServiceLeft(x) ==
  /\ At(x, "cng-service")
  /\ IF "cng_vs" \in ingress[target[x]] THEN Proceed(x, "ui_vs")
     ELSE \/ "cng" \in contents[target[x]] /\ Proceed(x, IF mode[x] = "route" THEN "cng_route" ELSE "cng_vs")
          \/ ("cng" \notin contents[target[x]] \/ faulty[x]) /\ Proceed(x, IF mode[x] = "route" THEN "ok" ELSE "ui_vs")
  /\ UNCHANGED kube

CngService(x) ==
  /\ At(x, "cng-service")
  /\ \/ "cng" \in contents[target[x]] /\ Proceed(x, IF mode[x] = "route" THEN "cng_route" ELSE "cng_vs")
     \/ ("cng" \notin contents[target[x]] \/ faulty[x]) /\ Proceed(x, IF mode[x] = "route" THEN "ok" ELSE "ui_vs")
  /\ UNCHANGED kube

AfterExpose == [ui_route |-> "cng-service", cng_route |-> "ok",
                cng_vs |-> "cng_rule", cng_rule |-> "ui_vs", ui_vs |-> "ok"]
Expose(x) ==
  /\ step[x] \in DOMAIN AfterExpose /\ Possible(x)
  /\ ingress' = [ingress EXCEPT ![target[x]] = @ \cup {step[x]}]
  /\ Proceed(x, AfterExpose[step[x]])
  /\ UNCHANGED <<ns, expiry, contents, resources, admission>>

(* Five deletions; the command fails when all of them do.                     *)
DisableIngresses(x) ==
  /\ At(x, "hide")
  /\ \E gone \in SUBSET ingress[target[x]] :
       /\ faulty[x] \/ gone = ingress[target[x]]
       /\ ingress' = [ingress EXCEPT ![target[x]] = @ \ gone]
       /\ End(x, IF gone = {} THEN "failed" ELSE "ok")
  /\ UNCHANGED <<ns, expiry, contents, resources, admission>>

-----------------------------------------------------------------------------
(* RemoveCluster, RemoveAll and Cleanup: DeleteNamespaces of what was listed. *)

Listed(x) ==
  CASE op[x] = "remove" -> {target[x]}
    [] op[x] = "removeall" -> Clusters
    [] OTHER -> {c \in Clusters : expiry[c] = "passed"}

ListNamespaces(x) ==
  /\ At(x, "list")
  /\ LET found == {c \in Listed(x) : Existing(c)} IN
       IF found = {} THEN End(x, "ok")
       ELSE /\ todo' = [todo EXCEPT ![x] = found] /\ victims' = [victims EXCEPT ![x] = found]
            /\ GoTo(x, "force") /\ UNCHANGED <<op, target, mode, faulty, calm, left>>
  /\ UNCHANGED kube

\* Mutant: the resource is deleted, its finalizers are left.
ForceDeleteFinalized(x, c) ==
  /\ At(x, "force") /\ c \in todo[x]
  /\ cr' = [cr EXCEPT ![c] = IF @ = "none" THEN @ ELSE "stuck"]
  /\ target' = [target EXCEPT ![x] = c]
  /\ GoTo(x, "drop")
  /\ UNCHANGED <<spaces, lag, writer, crd, admission, op, mode, faulty, todo, victims, calm, left>>

(* The finalizers are stripped, and the resource deleted; errors are skipped. *)
ForceDelete(x, c) ==
  /\ At(x, "force") /\ c \in todo[x]
  /\ \/ cr' = [cr EXCEPT ![c] = "none"]
     \/ faulty[x] /\ cr' = cr
  /\ target' = [target EXCEPT ![x] = c]
  /\ GoTo(x, "drop")
  /\ UNCHANGED <<spaces, lag, writer, crd, admission, op, mode, faulty, todo, victims, calm, left>>

DeleteNamespace(x) ==
  /\ At(x, "drop") /\ Existing(target[x])
  /\ ns' = [ns EXCEPT ![target[x]] = "terminating"]
  /\ todo' = [todo EXCEPT ![x] = @ \ {target[x]}]
  /\ GoTo(x, IF todo[x] = {target[x]} THEN "gone" ELSE "force")
  /\ UNCHANGED <<expiry, contents, ingress, resources, admission, op, target, mode, faulty, victims, calm, left>>

WaitGone(x) ==
  /\ At(x, "gone") /\ \A c \in victims[x] : ~Existing(c)
  /\ End(x, "ok")
  /\ UNCHANGED kube

-----------------------------------------------------------------------------
(* InstallDefaultCrd: all definitions are deleted, and installed at once.     *)

DeleteCrds(x) ==
  /\ At(x, "crd-delete")
  /\ crd' = IF crd = "installed" THEN "terminating" ELSE crd
  /\ Proceed(x, "crd-create")
  /\ UNCHANGED <<spaces, cr, lag, writer, admission>>

CreateCrds(x) ==
  /\ At(x, "crd-create") /\ Possible(x)
  /\ crd' = "installed"
  /\ End(x, "ok")
  /\ UNCHANGED <<spaces, cr, lag, writer, admission>>

(* InstallGlobalAdmissionController into the namespace that mode names.       *)
Found(h) == adm[h] # "none"

(* The one found is uninstalled; the wait for its end looks for another name, *)
(* and so ends at once.                                                       *)
UninstallAdmission(x) ==
  /\ At(x, "adm-find")
  /\ IF \E h \in AdmHomes : Found(h)
     THEN \E h \in AdmHomes :
            /\ Found(h) /\ adm' = [adm EXCEPT ![h] = "deleting"]
            /\ Proceed(x, IF h = "own" THEN "adm-drop" ELSE "adm-home")
     ELSE adm' = adm /\ Proceed(x, "adm-home")
  /\ UNCHANGED <<spaces, resources, home>>

DeleteHome(x) ==
  /\ At(x, "adm-drop") /\ home' = "terminating"
  /\ Proceed(x, "adm-gone")
  /\ UNCHANGED <<spaces, resources, adm>>

WaitHomeGone(x) == At(x, "adm-gone") /\ home = "absent" /\ Proceed(x, "adm-home") /\ UNCHANGED kube

CreateHome(x) ==
  /\ At(x, "adm-home") /\ Possible(x)
  /\ home' = IF mode[x] = "own" THEN "active" ELSE home
  /\ Proceed(x, "adm-create")
  /\ UNCHANGED <<spaces, resources, adm>>

CreateAdmission(x) ==
  /\ At(x, "adm-create") /\ Possible(x)
  /\ adm' = [adm EXCEPT ![mode[x]] = "starting"]
  /\ Proceed(x, "adm-wait")
  /\ UNCHANGED <<spaces, resources, home>>

WaitAdmission(x) == At(x, "adm-wait") /\ adm[mode[x]] = "available" /\ Proceed(x, "ok") /\ UNCHANGED kube

-----------------------------------------------------------------------------
Allocate(x) ==
  \/ CreateNamespace(x) \/ Install(x) \/ CreateCouchbaseCluster(x) \/ FindGateway(x)
  \/ WaitServiceHasEndpoints(x) \/ UpdateCouchbaseClusterSpec(x)
Ingresses(x) == EnableIngresses(x) \/ CngService(x) \/ Expose(x) \/ DisableIngresses(x)
Delete(x) == ListNamespaces(x) \/ (\E c \in Clusters : ForceDelete(x, c)) \/ DeleteNamespace(x) \/ WaitGone(x)
Tools(x) ==
  \/ DeleteCrds(x) \/ CreateCrds(x) \/ UninstallAdmission(x) \/ DeleteHome(x) \/ WaitHomeGone(x)
  \/ CreateHome(x) \/ CreateAdmission(x) \/ WaitAdmission(x)
Run(x) == Allocate(x) \/ Ingresses(x) \/ Delete(x) \/ Tools(x) \/ Fail(x)

Kubernetes(c) == NamespaceEmpties(c) \/ NamespaceGoes(c) \/ CrdEmpties(c)

Next ==
  \/ CrdGoes \/ AdmissionMoves \/ Poll
  \/ \E c \in Clusters : Lapse(c) \/ OperatorActs(c) \/ Kubernetes(c)
  \/ \E x \in Procs : Run(x) \/ \E o \in Ops, fails \in BOOLEAN : Begin(x, o, fails)

(* Kubernetes empties and removes namespaces, and whoever cleans up goes on   *)
(* or fails, and does it again for ever, for ever without failing calls. Any  *)
(* other command may be killed anywhere.                                      *)
Fairness ==
  /\ \A c \in Clusters : WF_vars(Kubernetes(c))
  /\ \A x \in {y \in Procs : "cleanup" \in Duties[y]} : WF_vars(Run(x)) /\ SF_vars(Begin(x, "cleanup", FALSE))

Spec == Init /\ [][Next]_vars /\ Fairness

-----------------------------------------------------------------------------
(* Whoever has waited for a cluster, and was the last to write what it should *)
(* be, finds it finished: 15 s of looking available are not the moment before *)
(* the operator has noticed, or between two pieces of its work.               *)
SettledOnSuccess ==
  [][\A x \in Procs : At(x, "settle") /\ step'[x] \in {"ok", "cng"} =>
       cr[target[x]] = "settled" \/ writer[target[x]] # x]_vars

(* When ingresses are enabled through the gateway without a failing call, the *)
(* gateway's route to CNG, which expects TLS, comes with the rule that        *)
(* originates it, whatever an earlier command left half done.                 *)
EnabledIsServed ==
  [][\A x \in Procs : At(x, "ui_vs") /\ step'[x] = "ok" /\ ~faulty[x] =>
       LET made == ingress'[target[x]] IN "cng_vs" \in made => "cng_rule" \in made]_vars

(* An installation of the admission controller that succeeds leaves one, and  *)
(* at most one more whose deletion has begun.                                 *)
AdmissionReplaced ==
  [][\A x \in Procs : At(x, "adm-wait") /\ step'[x] = "ok" =>
       \A h \in AdmHomes : h = mode[x] \/ adm[h] \in {"none", "deleting"}]_vars

(* A namespace whose expiry has passed is removed some time, whatever command *)
(* left it, in whatever state, and also if its cluster resource is stuck.     *)
ExpiredIsReclaimed == \A c \in Clusters : (expiry[c] = "passed") ~> ~Existing(c)
=============================================================================
