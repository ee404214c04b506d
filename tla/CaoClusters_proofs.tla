------------------------- MODULE CaoClusters_proofs --------------------------
(* Proofs about CaoClusters, for every set of clusters and processes, any     *)
(* commands, and every time to settle that is longer than the operator's.     *)
EXTENDS CaoClusters, TLAPS

(* A process counts the polls only while it waits, and anew when it has seen  *)
(* the operator at work. If it wrote the specification, a moment at which the *)
(* cluster looks available unfinished has lasted for what it has counted.     *)
CalmInv ==
  \A x \in Procs :
    /\ step[x] # "settle" => calm[x] = 0
    /\ step[x] = "settle" /\ cr[target[x]] = "busy" /\ lag[target[x]] > 0 => calm[x] = 0
    /\ step[x] = "settle" /\ cr[target[x]] \in {"fresh", "gap"} /\ writer[target[x]] = x =>
         calm[x] <= lag[target[x]]

IndInv == TypeOK /\ CalmInv

-----------------------------------------------------------------------------
(* What the service does of itself.                                           *)

(* What may become of a resource of which nobody changes the specification.   *)
MovesOn(c) ==
  \/ cr'[c] = cr[c] /\ lag'[c] = lag[c]
  \/ cr'[c] \in {"none", "stuck", "settled"}
  \/ cr'[c] = "busy" /\ lag'[c] = 0
  \/ cr[c] = "busy" /\ cr'[c] = "gap" /\ (Polled(c) => lag[c] > 0)

LEMMA CalmKept ==
  ASSUME IndInv, UNCHANGED <<writer, proc>>, lag' \in [Clusters -> 0..Lag], \A c \in Clusters : MovesOn(c)
  PROVE  CalmInv'
<1>1. \A c \in Clusters : lag'[c] \in Nat /\ lag[c] \in Nat
  BY SettleAssumption DEF IndInv, TypeOK
<1>2. \A x \in Procs : target[x] \in Clusters /\ calm[x] \in Nat
  BY SettleAssumption DEF IndInv, TypeOK
<1>3. UNCHANGED <<writer, step, target, calm>>
  BY DEF proc
<1>4. \A x \in Procs : step[x] = "settle" => Polled(target[x])
  BY DEF Polled
<1> QED
  BY <1>1, <1>2, <1>3, <1>4 DEF IndInv, CalmInv, MovesOn

LEMMA LapseInd == ASSUME IndInv, NEW c \in Clusters, Lapse(c) PROVE IndInv'
<1> USE DEF IndInv, spaces, resources, admission, proc, Lapse
<1>1. TypeOK'
  BY SettleAssumption DEF TypeOK, CrStates, AdmHomes
<1>2. \A k \in Clusters : MovesOn(k)
  BY DEF MovesOn, TypeOK
<1>3. UNCHANGED <<writer, proc>> /\ lag' \in [Clusters -> 0..Lag]
  BY <1>1 DEF TypeOK
<1> QED
  BY <1>1, <1>2, <1>3, CalmKept

LEMMA OperatorActsInd == ASSUME IndInv, NEW c \in Clusters, OperatorActs(c) PROVE IndInv'
<1> USE DEF IndInv, spaces, resources, admission, proc, OperatorActs
<1>1. TypeOK'
  <2>1. contents' \in [Clusters -> SUBSET {"ghcr", "operator", "auth", "cng", "nodeport"}]
    <3>1. \E some \in SUBSET {"ghcr", "operator", "auth", "cng", "nodeport"} : contents' = [contents EXCEPT ![c] = some]
      <4>1. contents \in [Clusters -> SUBSET {"ghcr", "operator", "auth", "cng", "nodeport"}]
        BY DEF TypeOK
      <4>2. contents[c] \in SUBSET {"ghcr", "operator", "auth", "cng", "nodeport"} /\ contents = [contents EXCEPT ![c] = contents[c]]
        BY <4>1
      <4>3. CASE contents' = contents
        BY <4>2, <4>3
      <4>4. CASE contents' = [contents EXCEPT ![c] = {}]
        BY <4>4
      <4>5. CASE \E gateway \in SUBSET {"cng"} : contents' = [contents EXCEPT ![c] = @ \cup gateway]
        <5>1. PICK gateway \in SUBSET {"cng"} : contents' = [contents EXCEPT ![c] = contents[c] \cup gateway]
          BY <4>5
        <5>2. contents[c] \cup gateway \in SUBSET {"ghcr", "operator", "auth", "cng", "nodeport"}
          BY <4>2
        <5> QED
          BY <5>1, <5>2
      <4> QED
        BY <4>3, <4>4, <4>5
    <3> QED
      BY <3>1 DEF TypeOK
  <2>2. \E s \in CrStates : cr' = [cr EXCEPT ![c] = s]
    BY DEF TypeOK, CrStates
  <2>3. cr' \in [Clusters -> CrStates]
    BY <2>2 DEF TypeOK
  <2>4. lag' \in [Clusters -> 0..Lag] /\ ingress' \in [Clusters -> SUBSET Exposures]
    BY SettleAssumption DEF TypeOK
  <2> QED
    BY <2>1, <2>3, <2>4 DEF TypeOK
<1>2. \A k \in Clusters : MovesOn(k)
  BY DEF MovesOn, TypeOK
<1>3. UNCHANGED <<writer, proc>> /\ lag' \in [Clusters -> 0..Lag]
  BY <1>1 DEF TypeOK
<1> QED
  BY <1>1, <1>2, <1>3, CalmKept

LEMMA NamespaceEmptiesInd == ASSUME IndInv, NEW c \in Clusters, NamespaceEmpties(c) PROVE IndInv'
<1> USE DEF IndInv, spaces, resources, admission, proc, NamespaceEmpties
<1>1. TypeOK'
  <2>1. contents' \in [Clusters -> SUBSET {"ghcr", "operator", "auth", "cng", "nodeport"}]
    <3>1. \E some \in SUBSET {"ghcr", "operator", "auth", "cng", "nodeport"} : contents' = [contents EXCEPT ![c] = some]
      <4>1. contents \in [Clusters -> SUBSET {"ghcr", "operator", "auth", "cng", "nodeport"}]
        BY DEF TypeOK
      <4>2. contents[c] \in SUBSET {"ghcr", "operator", "auth", "cng", "nodeport"} /\ contents = [contents EXCEPT ![c] = contents[c]]
        BY <4>1
      <4>3. CASE contents' = contents
        BY <4>2, <4>3
      <4>4. CASE contents' = [contents EXCEPT ![c] = {}]
        BY <4>4
      <4>5. CASE \E gateway \in SUBSET {"cng"} : contents' = [contents EXCEPT ![c] = @ \cup gateway]
        <5>1. PICK gateway \in SUBSET {"cng"} : contents' = [contents EXCEPT ![c] = contents[c] \cup gateway]
          BY <4>5
        <5>2. contents[c] \cup gateway \in SUBSET {"ghcr", "operator", "auth", "cng", "nodeport"}
          BY <4>2
        <5> QED
          BY <5>1, <5>2
      <4> QED
        BY <4>3, <4>4, <4>5
    <3> QED
      BY <3>1 DEF TypeOK
  <2>2. \E s \in CrStates : cr' = [cr EXCEPT ![c] = s]
    BY DEF TypeOK, CrStates
  <2>3. cr' \in [Clusters -> CrStates]
    BY <2>2 DEF TypeOK
  <2>4. lag' \in [Clusters -> 0..Lag] /\ ingress' \in [Clusters -> SUBSET Exposures]
    BY SettleAssumption DEF TypeOK
  <2> QED
    BY <2>1, <2>3, <2>4 DEF TypeOK
<1>2. \A k \in Clusters : MovesOn(k)
  BY DEF MovesOn, TypeOK
<1>3. UNCHANGED <<writer, proc>> /\ lag' \in [Clusters -> 0..Lag]
  BY <1>1 DEF TypeOK
<1> QED
  BY <1>1, <1>2, <1>3, CalmKept

LEMMA NamespaceGoesInd == ASSUME IndInv, NEW c \in Clusters, NamespaceGoes(c) PROVE IndInv'
<1> USE DEF IndInv, spaces, resources, admission, proc, NamespaceGoes
<1>1. TypeOK'
  BY SettleAssumption DEF TypeOK, CrStates, AdmHomes
<1>2. \A k \in Clusters : MovesOn(k)
  BY DEF MovesOn, TypeOK
<1>3. UNCHANGED <<writer, proc>> /\ lag' \in [Clusters -> 0..Lag]
  BY <1>1 DEF TypeOK
<1> QED
  BY <1>1, <1>2, <1>3, CalmKept

LEMMA CrdEmptiesInd == ASSUME IndInv, NEW c \in Clusters, CrdEmpties(c) PROVE IndInv'
<1> USE DEF IndInv, spaces, resources, admission, proc, CrdEmpties
<1>1. TypeOK'
  BY SettleAssumption DEF TypeOK, CrStates, AdmHomes
<1>2. \A k \in Clusters : MovesOn(k)
  BY DEF MovesOn, TypeOK
<1>3. UNCHANGED <<writer, proc>> /\ lag' \in [Clusters -> 0..Lag]
  BY <1>1 DEF TypeOK
<1> QED
  BY <1>1, <1>2, <1>3, CalmKept

LEMMA CrdGoesInd == ASSUME IndInv, CrdGoes PROVE IndInv'
<1> USE DEF IndInv, spaces, resources, admission, proc, CrdGoes
<1>1. TypeOK'
  BY SettleAssumption DEF TypeOK, CrStates, AdmHomes
<1>2. \A k \in Clusters : MovesOn(k)
  BY DEF MovesOn, TypeOK
<1>3. UNCHANGED <<writer, proc>> /\ lag' \in [Clusters -> 0..Lag]
  BY <1>1 DEF TypeOK
<1> QED
  BY <1>1, <1>2, <1>3, CalmKept

LEMMA AdmissionMovesInd == ASSUME IndInv, AdmissionMoves PROVE IndInv'
<1> USE DEF IndInv, spaces, resources, admission, proc, AdmissionMoves
<1>1. TypeOK'
  BY SettleAssumption DEF TypeOK, CrStates, AdmHomes
<1>2. \A k \in Clusters : MovesOn(k)
  BY DEF MovesOn, TypeOK
<1>3. UNCHANGED <<writer, proc>> /\ lag' \in [Clusters -> 0..Lag]
  BY <1>1 DEF TypeOK
<1> QED
  BY <1>1, <1>2, <1>3, CalmKept

-----------------------------------------------------------------------------
(* What a step of one command does to the processes.                          *)

KubeOK ==
  /\ ns \in [Clusters -> {"unused", "active", "terminating", "gone"}]
  /\ expiry \in [Clusters -> {"none", "later", "passed"}]
  /\ contents \in [Clusters -> SUBSET {"ghcr", "operator", "auth", "cng", "nodeport"}]
  /\ ingress \in [Clusters -> SUBSET Exposures]
  /\ cr \in [Clusters -> CrStates] /\ lag \in [Clusters -> 0..Lag]
  /\ writer \in [Clusters -> Procs]
  /\ crd \in {"installed", "terminating", "absent"}
  /\ adm \in [AdmHomes -> {"none", "starting", "available", "deleting"}]
  /\ home \in {"absent", "active", "terminating"}

ProcOK ==
  /\ op \in [Procs -> Ops] /\ step \in [Procs -> Steps] /\ target \in [Procs -> Clusters]
  /\ mode \in [Procs -> {"route", "gateway", "default", "own"}]
  /\ faulty \in [Procs -> BOOLEAN]
  /\ todo \in [Procs -> SUBSET Clusters] /\ victims \in [Procs -> SUBSET Clusters]
  /\ calm \in [Procs -> 0..Settle] /\ left \in [Procs -> Nat]

LEMMA TypeParts == TypeOK <=> KubeOK /\ ProcOK
  BY DEF TypeOK, KubeOK, ProcOK

LEMMA DefaultType == Default \in Clusters
  BY ActorAssumption DEF Default

(* One process takes a step that is not into a wait for a cluster, or into    *)
(* one with nothing counted.                                                  *)
StepOf(x) ==
  /\ ProcOK'
  /\ \A y \in Procs \ {x} : step'[y] = step[y] /\ target'[y] = target[y] /\ calm'[y] = calm[y]
  /\ step[x] # "settle" => calm'[x] = 0
  /\ step'[x] # "settle" => calm'[x] = 0

LEMMA EndSteps == ASSUME IndInv, NEW x \in Procs, NEW r \in Steps \ {"settle"}, End(x, r) PROVE StepOf(x) /\ step'[x] = r
  BY DefaultType, SettleAssumption DEF IndInv, TypeOK, CalmInv, End, GoTo, StepOf, ProcOK, Ops

LEMMA ProceedSteps ==
  ASSUME IndInv, NEW x \in Procs, step[x] # "settle", NEW s \in Steps, Proceed(x, s)
  PROVE  StepOf(x) /\ step'[x] = s
<1>1. CASE s = "ok"
  BY <1>1, EndSteps DEF Proceed, Steps
<1>2. CASE s # "ok"
  <2>1. step' = [step EXCEPT ![x] = s] /\ Same
    BY <1>2 DEF Proceed, GoTo
  <2>2. ProcOK /\ calm[x] = 0
    BY TypeParts DEF IndInv, CalmInv
  <2>3. ProcOK'
    BY <2>1, <2>2 DEF ProcOK, Same
  <2>4. \A y \in Procs : step'[y] = IF y = x THEN s ELSE step[y]
    BY <2>1, <2>2 DEF ProcOK
  <2> QED
    BY <2>1, <2>2, <2>3, <2>4 DEF StepOf, Same
<1> QED
  BY <1>1, <1>2

(* A step that leaves the resources alone.                                    *)
LEMMA ProcInd ==
  ASSUME IndInv, NEW x \in Procs, StepOf(x), KubeOK', UNCHANGED <<lag, writer>>,
         \A c \in Clusters : cr'[c] = cr[c] \/ cr'[c] = "none",
         step'[x] # "settle"
  PROVE  IndInv'
<1>1. TypeOK'
  BY TypeParts, PTL DEF StepOf
<1>2. CalmInv'
  <2> SUFFICES ASSUME NEW y \in Procs, step'[y] = "settle" => y # x
               PROVE  /\ step'[y] # "settle" => calm'[y] = 0
                      /\ step'[y] = "settle" /\ cr'[target'[y]] = "busy" /\ lag'[target'[y]] > 0 => calm'[y] = 0
                      /\ step'[y] = "settle" /\ cr'[target'[y]] \in {"fresh", "gap"} /\ writer'[target'[y]] = y =>
                           calm'[y] <= lag'[target'[y]]
    BY DEF CalmInv
  <2>1. CASE y = x
    BY <2>1 DEF StepOf
  <2>2. CASE y # x
    <3>1. step'[y] = step[y] /\ target'[y] = target[y] /\ calm'[y] = calm[y] /\ target[y] \in Clusters
      BY <2>2 DEF StepOf, IndInv, TypeOK
    <3>2. cr'[target[y]] = cr[target[y]] \/ cr'[target[y]] = "none"
      BY <3>1
    <3> QED
      BY <3>1, <3>2 DEF IndInv, CalmInv
  <2> QED
    BY <2>1, <2>2
<1> QED
  BY <1>1, <1>2 DEF IndInv

-----------------------------------------------------------------------------
(* The steps of a command.                                                    *)

LEMMA FailInd == ASSUME IndInv, NEW x \in Procs, Fail(x) PROVE IndInv'
<1>1. PICK r \in {"ok", "failed"} : End(x, r)
  BY DEF Fail
<1>2. StepOf(x) /\ step'[x] # "settle"
  BY <1>1, EndSteps DEF Steps
<1>3. KubeOK' /\ UNCHANGED <<lag, writer>> /\ \A c \in Clusters : cr'[c] = cr[c] \/ cr'[c] = "none"
  BY DEF Fail, spaces, resources, admission, kube, KubeOK, IndInv, TypeOK
<1> QED
  BY <1>2, <1>3, ProcInd

LEMMA CreateNamespaceInd == ASSUME IndInv, NEW x \in Procs, CreateNamespace(x) PROVE IndInv'
<1>1. PICK s \in {"ghcr"} : Proceed(x, s)
  BY DEF CreateNamespace
<1>2. StepOf(x) /\ step'[x] # "settle"
  BY <1>1, ProceedSteps DEF CreateNamespace, At, Steps
<1>3. KubeOK' /\ UNCHANGED <<lag, writer>> /\ \A c \in Clusters : cr'[c] = cr[c] \/ cr'[c] = "none"
  BY DEF CreateNamespace, spaces, resources, admission, kube, KubeOK, IndInv, TypeOK
<1> QED
  BY <1>2, <1>3, ProcInd

LEMMA InstallInd == ASSUME IndInv, NEW x \in Procs, Install(x) PROVE IndInv'
<1>1. PICK s \in {"operator", "auth", "create", "expose", "ok"} : Proceed(x, s)
  BY DEF Install, AfterInstall
<1>2. StepOf(x) /\ step'[x] # "settle"
  BY <1>1, ProceedSteps DEF Install, At, Steps, AfterInstall
<1>3. KubeOK' /\ UNCHANGED <<lag, writer>> /\ \A c \in Clusters : cr'[c] = cr[c] \/ cr'[c] = "none"
  <2>1. \E part \in {"ghcr", "operator", "auth", "nodeport"} : contents' = [contents EXCEPT ![target[x]] = @ \cup {part}]
    BY DEF Install, AfterInstall
  <2>2. contents' \in [Clusters -> SUBSET {"ghcr", "operator", "auth", "cng", "nodeport"}]
    BY <2>1 DEF IndInv, TypeOK
  <2> QED
    BY <2>2 DEF Install, spaces, resources, admission, kube, KubeOK, IndInv, TypeOK
<1> QED
  BY <1>2, <1>3, ProcInd

LEMMA CreateCouchbaseClusterInd == ASSUME IndInv, NEW x \in Procs, CreateCouchbaseCluster(x) PROVE IndInv'
<1>1. Proceed(x, "settle") /\ step[x] = "create"
  BY DEF CreateCouchbaseCluster, At
<1>2. StepOf(x) /\ step'[x] = "settle" /\ calm'[x] = 0
  BY <1>1, ProceedSteps DEF Steps, StepOf
<1>3. KubeOK' /\ lag'[target[x]] = 0 /\ writer'[target[x]] = x /\ target[x] \in Clusters
  BY SettleAssumption DEF CreateCouchbaseCluster, spaces, resources, admission, kube, KubeOK, IndInv, TypeOK, CrStates
<1>4. \A c \in Clusters \ {target[x]} : cr'[c] = cr[c] /\ lag'[c] = lag[c] /\ writer'[c] = writer[c]
  BY DEF CreateCouchbaseCluster, IndInv, TypeOK
<1>5. TypeOK'
  BY <1>2, <1>3, TypeParts, PTL DEF StepOf
<1>6. CalmInv'
  <2> SUFFICES ASSUME NEW y \in Procs
               PROVE  /\ step'[y] # "settle" => calm'[y] = 0
                      /\ step'[y] = "settle" /\ cr'[target'[y]] = "busy" /\ lag'[target'[y]] > 0 => calm'[y] = 0
                      /\ step'[y] = "settle" /\ cr'[target'[y]] \in {"fresh", "gap"} /\ writer'[target'[y]] = y =>
                           calm'[y] <= lag'[target'[y]]
    BY DEF CalmInv
  <2>1. CASE y = x
    <3>1. target'[x] \in Clusters /\ lag' \in [Clusters -> 0..Lag]
      BY <1>5 DEF TypeOK
    <3> QED
      BY <1>2, <2>1, <3>1, SettleAssumption
  <2>2. CASE y # x /\ target[y] = target[x]
    BY <1>2, <1>3, <2>2 DEF StepOf, IndInv, CalmInv
  <2>3. CASE y # x /\ target[y] # target[x]
    BY <1>2, <1>4, <2>3 DEF StepOf, IndInv, CalmInv, TypeOK
  <2> QED
    BY <2>1, <2>2, <2>3
<1> QED
  BY <1>5, <1>6 DEF IndInv

LEMMA UpdateCouchbaseClusterSpecInd == ASSUME IndInv, NEW x \in Procs, UpdateCouchbaseClusterSpec(x) PROVE IndInv'
<1>1. Proceed(x, "settle") /\ step[x] = "update"
  BY DEF UpdateCouchbaseClusterSpec, At
<1>2. StepOf(x) /\ step'[x] = "settle" /\ calm'[x] = 0
  BY <1>1, ProceedSteps DEF Steps, StepOf
<1>3. KubeOK' /\ lag'[target[x]] = 0 /\ writer'[target[x]] = x /\ target[x] \in Clusters
  BY SettleAssumption DEF UpdateCouchbaseClusterSpec, spaces, resources, admission, kube, KubeOK, IndInv, TypeOK, CrStates
<1>4. \A c \in Clusters \ {target[x]} : cr'[c] = cr[c] /\ lag'[c] = lag[c] /\ writer'[c] = writer[c]
  BY DEF UpdateCouchbaseClusterSpec, IndInv, TypeOK
<1>5. TypeOK'
  BY <1>2, <1>3, TypeParts, PTL DEF StepOf
<1>6. CalmInv'
  <2> SUFFICES ASSUME NEW y \in Procs
               PROVE  /\ step'[y] # "settle" => calm'[y] = 0
                      /\ step'[y] = "settle" /\ cr'[target'[y]] = "busy" /\ lag'[target'[y]] > 0 => calm'[y] = 0
                      /\ step'[y] = "settle" /\ cr'[target'[y]] \in {"fresh", "gap"} /\ writer'[target'[y]] = y =>
                           calm'[y] <= lag'[target'[y]]
    BY DEF CalmInv
  <2>1. CASE y = x
    <3>1. target'[x] \in Clusters /\ lag' \in [Clusters -> 0..Lag]
      BY <1>5 DEF TypeOK
    <3> QED
      BY <1>2, <2>1, <3>1, SettleAssumption
  <2>2. CASE y # x /\ target[y] = target[x]
    BY <1>2, <1>3, <2>2 DEF StepOf, IndInv, CalmInv
  <2>3. CASE y # x /\ target[y] # target[x]
    BY <1>2, <1>4, <2>3 DEF StepOf, IndInv, CalmInv, TypeOK
  <2> QED
    BY <2>1, <2>2, <2>3
<1> QED
  BY <1>5, <1>6 DEF IndInv

LEMMA FindGatewayInd == ASSUME IndInv, NEW x \in Procs, FindGateway(x) PROVE IndInv'
<1>1. PICK s \in {"endpoints", "expose", "ok"} : Proceed(x, s)
  BY DEF FindGateway
<1>2. StepOf(x) /\ step'[x] # "settle"
  BY <1>1, ProceedSteps DEF FindGateway, At, Steps
<1>3. KubeOK' /\ UNCHANGED <<lag, writer>> /\ \A c \in Clusters : cr'[c] = cr[c] \/ cr'[c] = "none"
  BY DEF FindGateway, spaces, resources, admission, kube, KubeOK, IndInv, TypeOK
<1> QED
  BY <1>2, <1>3, ProcInd

LEMMA WaitServiceHasEndpointsInd == ASSUME IndInv, NEW x \in Procs, WaitServiceHasEndpoints(x) PROVE IndInv'
<1>1. PICK s \in {"nodeport"} : Proceed(x, s)
  BY DEF WaitServiceHasEndpoints
<1>2. StepOf(x) /\ step'[x] # "settle"
  BY <1>1, ProceedSteps DEF WaitServiceHasEndpoints, At, Steps
<1>3. KubeOK' /\ UNCHANGED <<lag, writer>> /\ \A c \in Clusters : cr'[c] = cr[c] \/ cr'[c] = "none"
  BY DEF WaitServiceHasEndpoints, spaces, resources, admission, kube, KubeOK, IndInv, TypeOK
<1> QED
  BY <1>2, <1>3, ProcInd

LEMMA EnableIngressesInd == ASSUME IndInv, NEW x \in Procs, EnableIngresses(x) PROVE IndInv'
<1>1. PICK s \in {"ui_route", "cng-service"} : Proceed(x, s)
  BY DEF EnableIngresses
<1>2. StepOf(x) /\ step'[x] # "settle"
  BY <1>1, ProceedSteps DEF EnableIngresses, At, Steps
<1>3. KubeOK' /\ UNCHANGED <<lag, writer>> /\ \A c \in Clusters : cr'[c] = cr[c] \/ cr'[c] = "none"
  BY DEF EnableIngresses, spaces, resources, admission, kube, KubeOK, IndInv, TypeOK
<1> QED
  BY <1>2, <1>3, ProcInd

LEMMA CngServiceInd == ASSUME IndInv, NEW x \in Procs, CngService(x) PROVE IndInv'
<1>1. PICK s \in {"cng_route", "cng_vs", "ok", "ui_vs"} : Proceed(x, s)
  BY DEF CngService
<1>2. StepOf(x) /\ step'[x] # "settle"
  BY <1>1, ProceedSteps DEF CngService, At, Steps
<1>3. KubeOK' /\ UNCHANGED <<lag, writer>> /\ \A c \in Clusters : cr'[c] = cr[c] \/ cr'[c] = "none"
  BY DEF CngService, spaces, resources, admission, kube, KubeOK, IndInv, TypeOK
<1> QED
  BY <1>2, <1>3, ProcInd

LEMMA ExposeInd == ASSUME IndInv, NEW x \in Procs, Expose(x) PROVE IndInv'
<1>1. PICK s \in {"cng-service", "ok", "cng_rule", "ui_vs"} : Proceed(x, s)
  BY DEF Expose, AfterExpose
<1>2. StepOf(x) /\ step'[x] # "settle"
  BY <1>1, ProceedSteps DEF Expose, At, Steps, AfterExpose
<1>3. KubeOK' /\ UNCHANGED <<lag, writer>> /\ \A c \in Clusters : cr'[c] = cr[c] \/ cr'[c] = "none"
  BY DEF Expose, spaces, resources, admission, kube, KubeOK, IndInv, TypeOK, AfterExpose, Exposures
<1> QED
  BY <1>2, <1>3, ProcInd

LEMMA DisableIngressesInd == ASSUME IndInv, NEW x \in Procs, DisableIngresses(x) PROVE IndInv'
<1>1. PICK r \in {"ok", "failed"} : End(x, r)
  BY DEF DisableIngresses
<1>2. StepOf(x) /\ step'[x] # "settle"
  BY <1>1, EndSteps DEF Steps
<1>3. KubeOK' /\ UNCHANGED <<lag, writer>> /\ \A c \in Clusters : cr'[c] = cr[c] \/ cr'[c] = "none"
  BY DEF DisableIngresses, spaces, resources, admission, kube, KubeOK, IndInv, TypeOK
<1> QED
  BY <1>2, <1>3, ProcInd

LEMMA ListNamespacesInd == ASSUME IndInv, NEW x \in Procs, ListNamespaces(x) PROVE IndInv'
<1>1. UNCHANGED kube
  BY DEF ListNamespaces
<1>2. KubeOK' /\ UNCHANGED <<lag, writer, cr>>
  BY <1>1 DEF spaces, resources, admission, kube, KubeOK, IndInv, TypeOK
<1>3. StepOf(x) /\ step'[x] # "settle"
  <2>1. CASE End(x, "ok")
    BY <2>1, EndSteps DEF Steps
  <2>2. CASE ~End(x, "ok")
    <3>1. PICK found \in SUBSET Clusters :
            /\ todo' = [todo EXCEPT ![x] = found] /\ victims' = [victims EXCEPT ![x] = found]
            /\ GoTo(x, "force") /\ UNCHANGED <<op, target, mode, faulty, calm, left>>
      <4> DEFINE found == {c \in Listed(x) : Existing(c)}
      <4>1. Listed(x) \subseteq Clusters
        BY DEF Listed, IndInv, TypeOK
      <4>2. found \in SUBSET Clusters
        BY <4>1
      <4> QED
        BY <2>2, <4>2 DEF ListNamespaces
    <3> QED
      BY <3>1 DEF StepOf, GoTo, ProcOK, IndInv, TypeOK, CalmInv, Steps, ListNamespaces, At
  <2> QED
    BY <2>1, <2>2
<1> QED
  BY <1>2, <1>3, ProcInd

LEMMA ForceDeleteInd == ASSUME IndInv, NEW x \in Procs, NEW c \in Clusters, ForceDelete(x, c) PROVE IndInv'
<1>1. StepOf(x) /\ step'[x] # "settle"
  BY DEF ForceDelete, StepOf, GoTo, ProcOK, IndInv, TypeOK, CalmInv, Steps, At
<1>2. KubeOK' /\ UNCHANGED <<lag, writer>> /\ \A k \in Clusters : cr'[k] = cr[k] \/ cr'[k] = "none"
  <2>1. cr' = cr \/ cr' = [cr EXCEPT ![c] = "none"]
    BY DEF ForceDelete
  <2>2. cr' \in [Clusters -> CrStates] /\ \A k \in Clusters : cr'[k] = cr[k] \/ cr'[k] = "none"
    <3>1. cr \in [Clusters -> CrStates] /\ "none" \in CrStates
      BY DEF IndInv, TypeOK, CrStates
    <3> QED
      BY <2>1, <3>1
  <2> QED
    BY <2>2 DEF ForceDelete, spaces, resources, admission, kube, KubeOK, IndInv, TypeOK
<1> QED
  BY <1>1, <1>2, ProcInd

LEMMA DeleteNamespaceInd == ASSUME IndInv, NEW x \in Procs, DeleteNamespace(x) PROVE IndInv'
<1>1. StepOf(x) /\ step'[x] # "settle"
  BY DEF DeleteNamespace, StepOf, GoTo, ProcOK, IndInv, TypeOK, CalmInv, Steps, At
<1>2. KubeOK' /\ UNCHANGED <<lag, writer, cr>>
  BY DEF DeleteNamespace, spaces, resources, admission, kube, KubeOK, IndInv, TypeOK
<1> QED
  BY <1>1, <1>2, ProcInd

LEMMA WaitGoneInd == ASSUME IndInv, NEW x \in Procs, WaitGone(x) PROVE IndInv'
<1>1. PICK r \in {"ok", "failed"} : End(x, r)
  BY DEF WaitGone
<1>2. StepOf(x) /\ step'[x] # "settle"
  BY <1>1, EndSteps DEF Steps
<1>3. KubeOK' /\ UNCHANGED <<lag, writer>> /\ \A c \in Clusters : cr'[c] = cr[c] \/ cr'[c] = "none"
  BY DEF WaitGone, spaces, resources, admission, kube, KubeOK, IndInv, TypeOK
<1> QED
  BY <1>2, <1>3, ProcInd

LEMMA DeleteCrdsInd == ASSUME IndInv, NEW x \in Procs, DeleteCrds(x) PROVE IndInv'
<1>1. PICK s \in {"crd-create"} : Proceed(x, s)
  BY DEF DeleteCrds
<1>2. StepOf(x) /\ step'[x] # "settle"
  BY <1>1, ProceedSteps DEF DeleteCrds, At, Steps
<1>3. KubeOK' /\ UNCHANGED <<lag, writer>> /\ \A c \in Clusters : cr'[c] = cr[c] \/ cr'[c] = "none"
  BY DEF DeleteCrds, spaces, resources, admission, kube, KubeOK, IndInv, TypeOK
<1> QED
  BY <1>2, <1>3, ProcInd

LEMMA CreateCrdsInd == ASSUME IndInv, NEW x \in Procs, CreateCrds(x) PROVE IndInv'
<1>1. PICK r \in {"ok", "failed"} : End(x, r)
  BY DEF CreateCrds
<1>2. StepOf(x) /\ step'[x] # "settle"
  BY <1>1, EndSteps DEF Steps
<1>3. KubeOK' /\ UNCHANGED <<lag, writer>> /\ \A c \in Clusters : cr'[c] = cr[c] \/ cr'[c] = "none"
  BY DEF CreateCrds, spaces, resources, admission, kube, KubeOK, IndInv, TypeOK
<1> QED
  BY <1>2, <1>3, ProcInd

LEMMA UninstallAdmissionInd == ASSUME IndInv, NEW x \in Procs, UninstallAdmission(x) PROVE IndInv'
<1>1. PICK s \in {"adm-drop", "adm-home"} : Proceed(x, s)
  BY DEF UninstallAdmission
<1>2. StepOf(x) /\ step'[x] # "settle"
  BY <1>1, ProceedSteps DEF UninstallAdmission, At, Steps
<1>3. KubeOK' /\ UNCHANGED <<lag, writer>> /\ \A c \in Clusters : cr'[c] = cr[c] \/ cr'[c] = "none"
  BY DEF UninstallAdmission, spaces, resources, admission, kube, KubeOK, IndInv, TypeOK
<1> QED
  BY <1>2, <1>3, ProcInd

LEMMA DeleteHomeInd == ASSUME IndInv, NEW x \in Procs, DeleteHome(x) PROVE IndInv'
<1>1. PICK s \in {"adm-gone"} : Proceed(x, s)
  BY DEF DeleteHome
<1>2. StepOf(x) /\ step'[x] # "settle"
  BY <1>1, ProceedSteps DEF DeleteHome, At, Steps
<1>3. KubeOK' /\ UNCHANGED <<lag, writer>> /\ \A c \in Clusters : cr'[c] = cr[c] \/ cr'[c] = "none"
  BY DEF DeleteHome, spaces, resources, admission, kube, KubeOK, IndInv, TypeOK
<1> QED
  BY <1>2, <1>3, ProcInd

LEMMA WaitHomeGoneInd == ASSUME IndInv, NEW x \in Procs, WaitHomeGone(x) PROVE IndInv'
<1>1. PICK s \in {"adm-home"} : Proceed(x, s)
  BY DEF WaitHomeGone
<1>2. StepOf(x) /\ step'[x] # "settle"
  BY <1>1, ProceedSteps DEF WaitHomeGone, At, Steps
<1>3. KubeOK' /\ UNCHANGED <<lag, writer>> /\ \A c \in Clusters : cr'[c] = cr[c] \/ cr'[c] = "none"
  BY DEF WaitHomeGone, spaces, resources, admission, kube, KubeOK, IndInv, TypeOK
<1> QED
  BY <1>2, <1>3, ProcInd

LEMMA CreateHomeInd == ASSUME IndInv, NEW x \in Procs, CreateHome(x) PROVE IndInv'
<1>1. PICK s \in {"adm-create"} : Proceed(x, s)
  BY DEF CreateHome
<1>2. StepOf(x) /\ step'[x] # "settle"
  BY <1>1, ProceedSteps DEF CreateHome, At, Steps
<1>3. KubeOK' /\ UNCHANGED <<lag, writer>> /\ \A c \in Clusters : cr'[c] = cr[c] \/ cr'[c] = "none"
  BY DEF CreateHome, spaces, resources, admission, kube, KubeOK, IndInv, TypeOK
<1> QED
  BY <1>2, <1>3, ProcInd

LEMMA CreateAdmissionInd == ASSUME IndInv, NEW x \in Procs, CreateAdmission(x) PROVE IndInv'
<1>1. PICK s \in {"adm-wait"} : Proceed(x, s)
  BY DEF CreateAdmission
<1>2. StepOf(x) /\ step'[x] # "settle"
  BY <1>1, ProceedSteps DEF CreateAdmission, At, Steps
<1>3. KubeOK' /\ UNCHANGED <<lag, writer>> /\ \A c \in Clusters : cr'[c] = cr[c] \/ cr'[c] = "none"
  BY DEF CreateAdmission, spaces, resources, admission, kube, KubeOK, IndInv, TypeOK
<1> QED
  BY <1>2, <1>3, ProcInd

LEMMA WaitAdmissionInd == ASSUME IndInv, NEW x \in Procs, WaitAdmission(x) PROVE IndInv'
<1>1. PICK s \in {"ok"} : Proceed(x, s)
  BY DEF WaitAdmission
<1>2. StepOf(x) /\ step'[x] # "settle"
  BY <1>1, ProceedSteps DEF WaitAdmission, At, Steps
<1>3. KubeOK' /\ UNCHANGED <<lag, writer>> /\ \A c \in Clusters : cr'[c] = cr[c] \/ cr'[c] = "none"
  BY DEF WaitAdmission, spaces, resources, admission, kube, KubeOK, IndInv, TypeOK
<1> QED
  BY <1>2, <1>3, ProcInd

LEMMA BeginInd == ASSUME IndInv, NEW x \in Procs, NEW o \in Ops, NEW fails \in BOOLEAN, Begin(x, o, fails) PROVE IndInv'
<1>1. KubeOK' /\ UNCHANGED <<lag, writer, cr>>
  BY DEF Begin, spaces, resources, admission, kube, KubeOK, IndInv, TypeOK
<1>2. /\ \E c \in Clusters : target' = [target EXCEPT ![x] = c]
      /\ \E m \in {"route", "gateway", "default", "own"} : mode' = [mode EXCEPT ![x] = m]
  BY DefaultType DEF Begin, Targets, Modes, AdmHomes, IndInv, TypeOK
<1>3. FirstStep[o] \in Steps \ {"settle"}
  BY DEF FirstStep, Ops, Steps
<1>4. step[x] # "settle" /\ step' = [step EXCEPT ![x] = FirstStep[o]] /\ UNCHANGED <<todo, victims, calm>>
  BY DEF Begin, Ended
<1>5. left' \in [Procs -> Nat] /\ op' \in [Procs -> Ops] /\ faulty' \in [Procs -> BOOLEAN]
  BY DEF Begin, IndInv, TypeOK
<1>6. StepOf(x) /\ step'[x] # "settle"
  <2>1. /\ target' \in [Procs -> Clusters] /\ \A y \in Procs \ {x} : target'[y] = target[y]
        /\ mode' \in [Procs -> {"route", "gateway", "default", "own"}]
    BY <1>2 DEF IndInv, TypeOK
  <2>2. step' \in [Procs -> Steps] /\ step'[x] # "settle" /\ \A y \in Procs \ {x} : step'[y] = step[y]
    <3> DEFINE s == FirstStep[o]
    <3>1. s \in Steps \ {"settle"} /\ step' = [step EXCEPT ![x] = s] /\ step \in [Procs -> Steps]
      BY <1>3, <1>4 DEF IndInv, TypeOK
    <3> HIDE DEF s
    <3> QED
      BY <3>1
  <2>3. calm' = calm /\ calm[x] = 0
    BY <1>4 DEF IndInv, CalmInv
  <2>4. ProcOK'
    BY <1>4, <1>5, <2>1, <2>2 DEF ProcOK, IndInv, TypeOK
  <2> QED
    BY <2>1, <2>2, <2>3, <2>4 DEF StepOf
<1> QED
  BY <1>1, <1>6, ProcInd

-----------------------------------------------------------------------------
(* The poll of all that wait.                                                 *)

(* Who has waited long enough waits for a cluster that is finished.           *)
LEMMA SettledThen ==
  ASSUME IndInv, NEW x \in Procs, step[x] = "settle", HasSettled(x), writer[target[x]] = x
  PROVE  cr[target[x]] = "settled"
<1>1. target[x] \in Clusters /\ lag[target[x]] \in 0..Lag /\ calm[x] = Settle
  BY DEF IndInv, TypeOK, HasSettled
<1>2. ~(calm[x] <= lag[target[x]])
  BY <1>1, SettleAssumption
<1> QED
  BY <1>2 DEF IndInv, CalmInv, HasSettled, Available

LEMMA PollInd == ASSUME IndInv, Poll PROVE IndInv'
<1>1. /\ UNCHANGED <<ns, expiry, contents, ingress, cr, writer, crd, adm, home>>
      /\ UNCHANGED <<op, target, mode, faulty, todo, victims, left>>
  BY DEF Poll, spaces, admission
<1>2. step' \in [Procs -> Steps]
  BY DEF Poll, AfterSettle, Steps, IndInv, TypeOK
<1>3. lag' \in [Clusters -> 0..Lag]
  BY SettleAssumption DEF Poll, IndInv, TypeOK
<1>4. ASSUME NEW x \in Procs
      PROVE  calm[x] \in 0..Settle /\ (Available(target[x]) /\ ~HasSettled(x) => calm[x] < Settle)
  <2>1. calm[x] \in 0..Settle
    BY DEF IndInv, TypeOK
  <2>2. Available(target[x]) /\ ~HasSettled(x) => calm[x] # Settle
    BY DEF HasSettled
  <2> QED
    BY <2>1, <2>2, SettleAssumption
<1>5. calm' \in [Procs -> 0..Settle]
  BY <1>4, SettleAssumption DEF Poll
<1>6. TypeOK'
  BY <1>1, <1>2, <1>3, <1>5 DEF IndInv, TypeOK
<1>7. CalmInv'
  <2> SUFFICES ASSUME NEW x \in Procs
               PROVE  /\ step'[x] # "settle" => calm'[x] = 0
                      /\ step'[x] = "settle" /\ cr'[target'[x]] = "busy" /\ lag'[target'[x]] > 0 => calm'[x] = 0
                      /\ step'[x] = "settle" /\ cr'[target'[x]] \in {"fresh", "gap"} /\ writer'[target'[x]] = x =>
                           calm'[x] <= lag'[target'[x]]
    BY DEF CalmInv
  <2>1. target[x] \in Clusters /\ target' = target /\ cr' = cr /\ writer' = writer
    BY <1>1 DEF IndInv, TypeOK
  <2>2. CASE calm'[x] = 0
    BY <1>3, <2>1, <2>2, SettleAssumption
  <2>3. CASE calm'[x] # 0
    <3>1. /\ x \in Waiting /\ Available(target[x]) /\ ~HasSettled(x) /\ calm'[x] = calm[x] + 1
          /\ step'[x] = step[x] /\ step[x] = "settle"
      BY <2>3 DEF Poll, Waiting
    <3>2. cr[target[x]] \in {"fresh", "gap"} => lag[target[x]] < Lag /\ lag'[target[x]] = lag[target[x]] + 1
      BY <2>1, <3>1 DEF Poll, Polled
    <3>3. calm[x] \in Nat /\ lag[target[x]] \in Nat
      BY <2>1, SettleAssumption DEF IndInv, TypeOK
    <3> QED
      BY <2>1, <3>1, <3>2, <3>3 DEF IndInv, CalmInv, Available
  <2> QED
    BY <2>2, <2>3
<1> QED
  BY <1>6, <1>7 DEF IndInv

-----------------------------------------------------------------------------
LEMMA InitInd == Init => IndInv
<1> SUFFICES ASSUME Init PROVE IndInv
  OBVIOUS
<1>1. (CHOOSE x \in Procs : TRUE) \in Procs
  BY ActorAssumption
<1>2. KubeOK
  BY <1>1, SettleAssumption DEF Init, KubeOK, CrStates, AdmHomes
<1>3. ProcOK
  BY DefaultType, BoundAssumption, SettleAssumption DEF Init, ProcOK, Ops, Steps
<1> QED
  BY <1>2, <1>3, TypeParts DEF IndInv, CalmInv, Init

LEMMA RunInd == ASSUME IndInv, NEW x \in Procs, Run(x) PROVE IndInv'
<1>1. CASE Allocate(x)
  BY <1>1, CreateNamespaceInd, InstallInd, CreateCouchbaseClusterInd, FindGatewayInd, WaitServiceHasEndpointsInd,
     UpdateCouchbaseClusterSpecInd DEF Allocate
<1>2. CASE Ingresses(x)
  BY <1>2, EnableIngressesInd, CngServiceInd, ExposeInd, DisableIngressesInd DEF Ingresses
<1>3. CASE Delete(x)
  BY <1>3, ListNamespacesInd, ForceDeleteInd, DeleteNamespaceInd, WaitGoneInd DEF Delete
<1>4. CASE Tools(x)
  BY <1>4, DeleteCrdsInd, CreateCrdsInd, UninstallAdmissionInd, DeleteHomeInd, WaitHomeGoneInd, CreateHomeInd,
     CreateAdmissionInd, WaitAdmissionInd DEF Tools
<1> QED
  BY <1>1, <1>2, <1>3, <1>4, FailInd DEF Run

LEMMA InductiveStep == IndInv /\ [Next]_vars => IndInv'
<1> SUFFICES ASSUME IndInv, [Next]_vars PROVE IndInv'
  OBVIOUS
<1>1. CASE CrdGoes \/ AdmissionMoves \/ Poll
  BY <1>1, CrdGoesInd, AdmissionMovesInd, PollInd
<1>2. ASSUME NEW c \in Clusters, Lapse(c) \/ OperatorActs(c) \/ Kubernetes(c) PROVE IndInv'
  BY <1>2, LapseInd, OperatorActsInd, NamespaceEmptiesInd, NamespaceGoesInd, CrdEmptiesInd DEF Kubernetes
<1>3. ASSUME NEW x \in Procs, Run(x) \/ \E o \in Ops, fails \in BOOLEAN : Begin(x, o, fails) PROVE IndInv'
  BY <1>3, RunInd, BeginInd
<1>4. CASE UNCHANGED vars
  BY <1>4 DEF vars, kube, spaces, resources, admission, proc, IndInv, TypeOK, CalmInv
<1> QED
  BY <1>1, <1>2, <1>3, <1>4 DEF Next

THEOREM Invariance == Spec => []IndInv
  BY InitInd, InductiveStep, PTL DEF Spec

(* Every variable of the model of the operator's clusters has its type; the   *)
(* count of polls stays within the time to settle.                            *)
THEOREM TypeCorrect == Spec => []TypeOK
<1>1. IndInv => TypeOK
  BY DEF IndInv
<1> QED
  BY <1>1, Invariance, PTL

-----------------------------------------------------------------------------
(* Only the poll ends a wait for a cluster well.                              *)
LEMMA OnlyPollSettles ==
  ASSUME IndInv, [Next]_vars, NEW x \in Procs, step[x] = "settle", step'[x] \in {"ok", "cng"}
  PROVE  Poll
<1>1. ASSUME NEW y \in Procs, Run(y) PROVE FALSE
  <2>1. CASE step[y] = "settle"
    <3>1. Fail(y)
      BY <1>1, <2>1 DEF Run, Allocate, CreateNamespace, Install, AfterInstall, CreateCouchbaseCluster, FindGateway,
         WaitServiceHasEndpoints, UpdateCouchbaseClusterSpec, Ingresses, EnableIngresses, CngService, Expose, AfterExpose,
         DisableIngresses, Delete, ListNamespaces, ForceDelete, DeleteNamespace, WaitGone, Tools, DeleteCrds, CreateCrds,
         UninstallAdmission, DeleteHome, WaitHomeGone, CreateHome, CreateAdmission, WaitAdmission, At
    <3> QED
      BY <3>1 DEF Fail, End, GoTo, IndInv, TypeOK
  <2>2. CASE step[y] # "settle"
    <3>1. \A z \in Procs \ {y} : step'[z] = step[z]
      <4>1. \E s : step' = [step EXCEPT ![y] = s]
        BY <1>1, <2>2 DEF Run, Allocate, CreateNamespace, Install, CreateCouchbaseCluster, FindGateway,
           WaitServiceHasEndpoints, UpdateCouchbaseClusterSpec, Ingresses, EnableIngresses, CngService, Expose,
           DisableIngresses, Delete, ListNamespaces, ForceDelete, DeleteNamespace, WaitGone, Tools, DeleteCrds, CreateCrds,
           UninstallAdmission, DeleteHome, WaitHomeGone, CreateHome, CreateAdmission, WaitAdmission, Fail,
           Proceed, End, GoTo
      <4> QED
        BY <4>1 DEF IndInv, TypeOK
    <3> QED
      BY <2>2, <3>1
  <2> QED
    BY <2>1, <2>2
<1>2. ASSUME NEW y \in Procs, NEW o \in Ops, NEW fails \in BOOLEAN, Begin(y, o, fails) PROVE FALSE
  BY <1>2 DEF Begin, Ended, IndInv, TypeOK
<1>3. CASE CrdGoes \/ AdmissionMoves
  BY <1>3 DEF CrdGoes, AdmissionMoves, proc
<1>4. ASSUME NEW c \in Clusters, Lapse(c) \/ OperatorActs(c) \/ Kubernetes(c) PROVE FALSE
  BY <1>4 DEF Lapse, OperatorActs, Kubernetes, NamespaceEmpties, NamespaceGoes, CrdEmpties, proc
<1>5. CASE UNCHANGED vars
  BY <1>5 DEF vars, proc
<1> QED
  BY <1>1, <1>2, <1>3, <1>4, <1>5 DEF Next

(* A process whose wait for a cluster ends well, and that wrote what the      *)
(* cluster should be last, finds the operator finished, however it is         *)
(* interrupted and whatever others do: looking available for longer than the  *)
(* operator takes to react is enough.                                         *)
THEOREM WaitsUntilSettled == Spec => SettledOnSuccess
<1>1. IndInv /\ [Next]_vars =>
        [\A x \in Procs : At(x, "settle") /\ step'[x] \in {"ok", "cng"} =>
           cr[target[x]] = "settled" \/ writer[target[x]] # x]_vars
  <2> SUFFICES ASSUME IndInv, [Next]_vars, NEW x \in Procs, step[x] = "settle", step'[x] \in {"ok", "cng"},
                      writer[target[x]] = x
               PROVE  cr[target[x]] = "settled"
    BY DEF At
  <2>1. Poll
    BY OnlyPollSettles
  <2>2. HasSettled(x)
    BY <2>1 DEF Poll
  <2> QED
    BY <2>2, SettledThen
<1> QED
  BY <1>1, Invariance, PTL DEF Spec, SettledOnSuccess
-----------------------------------------------------------------------------
(* Ingresses, when one process alone makes and removes them.                  *)

IngressOps == {"allocate", "enable", "disable"}
IngressSteps ==
  {"namespace", "ghcr", "operator", "auth", "create", "cng", "endpoints", "nodeport", "expose", "ui_route",
   "cng-service", "cng_route", "cng_vs", "cng_rule", "ui_vs", "hide"}

(* The others keep away from the ingresses, as their duties are.              *)
Elsewhere(u) == \A y \in Procs \ {u} : op[y] \notin IngressOps /\ step[y] \notin IngressSteps

(* A namespace is made once, and has the gateway's route only if there is a   *)
(* gateway, which stays as long as the namespace does.                        *)
GatewayInv ==
  \A c \in Clusters :
    /\ ns[c] = "unused" => ingress[c] = {}
    /\ ns[c] = "active" /\ "cng_vs" \in ingress[c] => "cng" \in contents[c]

(* The rule is there before the last route is made, unless the gateway was    *)
(* not there when it was looked up, in which case it has no route.            *)
RuleInv(u) ==
  /\ step[u] = "namespace" => ns[target[u]] = "unused"
  /\ step[u] = "cng_vs" /\ ns[target[u]] = "active" => "cng" \in contents[target[u]]
  /\ step[u] = "ui_vs" /\ ns[target[u]] = "active" /\ ~faulty[u] /\ "cng_vs" \in ingress[target[u]] =>
       "cng_rule" \in ingress[target[u]]

ServedInv(u) == Elsewhere(u) /\ GatewayInv /\ RuleInv(u)

(* What steps that do not concern the ingresses of u leave of a cluster.      *)
Spared(c) ==
  /\ ns'[c] = "unused" <=> ns[c] = "unused"
  /\ ns'[c] = "active" => ns[c] = "active"
  /\ ns'[c] \in {"unused", "active"} => contents[c] \subseteq contents'[c] /\ ingress'[c] = ingress[c]

LEMMA SparedRule ==
  ASSUME IndInv, NEW u \in Procs, GatewayInv, RuleInv(u), \A c \in Clusters : Spared(c)
  PROVE  /\ GatewayInv'
         /\ step'[u] = step[u] /\ target'[u] = target[u] /\ faulty'[u] = faulty[u] => RuleInv(u)'
<1>1. GatewayInv'
  BY DEF GatewayInv, Spared
<1>2. target[u] \in Clusters
  BY DEF IndInv, TypeOK
<1>3. ASSUME step'[u] = step[u], target'[u] = target[u], faulty'[u] = faulty[u] PROVE RuleInv(u)'
  BY <1>2, <1>3 DEF RuleInv, Spared
<1> QED
  BY <1>1, <1>3

(* Where no rule is asked for, there is none to be kept.                      *)
LEMMA FreeRule ==
  ASSUME NEW u \in Procs, step'[u] \notin {"namespace", "cng_vs", "ui_vs"}
  PROVE  RuleInv(u)'
BY DEF RuleInv

LEMMA ServiceServed ==
  ASSUME IndInv, NEW u \in Procs, ServedInv(u),
         \/ CrdGoes \/ AdmissionMoves
         \/ \E c \in Clusters : Lapse(c) \/ OperatorActs(c) \/ Kubernetes(c)
  PROVE  ServedInv(u)'
<1> USE DEF spaces, resources, admission, proc
<1>1. UNCHANGED <<op, step, target, faulty>>
  BY DEF CrdGoes, AdmissionMoves, Lapse, OperatorActs, Kubernetes, NamespaceEmpties, NamespaceGoes, CrdEmpties
<1>2. \A c \in Clusters : Spared(c)
  <2>1. CASE UNCHANGED <<ns, contents, ingress>>
    BY <2>1 DEF Spared
  <2>2. CASE CrdGoes \/ AdmissionMoves \/ \E c \in Clusters : Lapse(c) \/ CrdEmpties(c)
    BY <2>1, <2>2 DEF CrdGoes, AdmissionMoves, Lapse, CrdEmpties
  <2>3. ASSUME NEW c \in Clusters, OperatorActs(c) PROVE \A k \in Clusters : Spared(k)
    <3>1. contents' = contents \/ \E gateway \in SUBSET {"cng"} : contents' = [contents EXCEPT ![c] = @ \cup gateway]
      BY <2>3 DEF OperatorActs
    <3>2. DOMAIN contents = Clusters
      BY DEF IndInv, TypeOK
    <3>3. \A k \in Clusters : contents[k] \subseteq contents'[k]
      BY <3>1, <3>2
    <3> QED
      BY <2>3, <3>3 DEF OperatorActs, Spared
  <2>4. ASSUME NEW c \in Clusters, NamespaceEmpties(c) PROVE \A k \in Clusters : Spared(k)
    BY <2>4 DEF NamespaceEmpties, Spared, IndInv, TypeOK
  <2>5. ASSUME NEW c \in Clusters, NamespaceGoes(c) PROVE \A k \in Clusters : Spared(k)
    BY <2>5 DEF NamespaceGoes, Spared, IndInv, TypeOK
  <2> QED
    BY <2>2, <2>3, <2>4, <2>5 DEF Kubernetes
<1>3. Elsewhere(u)'
  BY <1>1 DEF ServedInv, Elsewhere
<1> QED
  BY <1>1, <1>2, <1>3, SparedRule DEF ServedInv

LEMMA PollServed ==
  ASSUME IndInv, NEW u \in Procs, ServedInv(u), Poll
  PROVE  ServedInv(u)'
<1>1. UNCHANGED <<ns, contents, ingress, op, target, faulty>>
  BY DEF Poll, spaces
<1>2. \A y \in Procs : step'[y] = step[y] \/ step'[y] = AfterSettle(y)
  BY DEF Poll
<1>3. \A y \in Procs \ {u} : step'[y] \notin IngressSteps
  <2>1. \A y \in Procs \ {u} : op[y] # "allocate" /\ step[y] \notin IngressSteps
    BY DEF ServedInv, Elsewhere, IngressOps
  <2>2. "ok" \notin IngressSteps
    BY DEF IngressSteps
  <2> QED
    BY <1>2, <2>1, <2>2 DEF AfterSettle
<1>4. Elsewhere(u)'
  BY <1>1, <1>3 DEF ServedInv, Elsewhere
<1>5. \A c \in Clusters : Spared(c)
  BY <1>1 DEF Spared
<1>6. GatewayInv' /\ (step'[u] = step[u] => RuleInv(u)')
  BY <1>1, <1>5, SparedRule DEF ServedInv
<1>7. step'[u] # step[u] => RuleInv(u)'
  BY <1>2, FreeRule DEF AfterSettle
<1> QED
  BY <1>4, <1>6, <1>7 DEF ServedInv

-----------------------------------------------------------------------------
(* The commands.                                                              *)

(* What a step of one process does to the others.                             *)
Alone(x) ==
  \A y \in Procs \ {x} :
    op'[y] = op[y] /\ step'[y] = step[y] /\ target'[y] = target[y] /\ faulty'[y] = faulty[y]

LEMMA EndAlone ==
  ASSUME IndInv, NEW x \in Procs, NEW r, End(x, r)
  PROVE  Alone(x) /\ step'[x] = r /\ op'[x] = "cleanup"
BY DEF End, GoTo, Alone, IndInv, TypeOK

LEMMA ProceedAlone ==
  ASSUME IndInv, NEW x \in Procs, NEW s, Proceed(x, s)
  PROVE  /\ Alone(x) /\ step'[x] = s /\ (op'[x] = op[x] \/ op'[x] = "cleanup")
         /\ s # "ok" => target'[x] = target[x] /\ faulty'[x] = faulty[x]
<1>1. CASE s = "ok"
  BY <1>1, EndAlone DEF Proceed
<1>2. CASE s # "ok"
  BY <1>2 DEF Proceed, GoTo, Same, Alone, IndInv, TypeOK
<1> QED
  BY <1>1, <1>2

(* A call that has nothing to do with ingresses.                              *)
LEMMA PlainServed ==
  ASSUME IndInv, NEW u \in Procs, NEW x \in Procs, ServedInv(u), Alone(x),
         \A c \in Clusters : Spared(c), step'[x] \notin {"namespace", "cng_vs", "ui_vs"},
         x # u => op'[x] \notin IngressOps /\ step'[x] \notin IngressSteps
  PROVE  ServedInv(u)'
<1>1. Elsewhere(u)'
  BY DEF ServedInv, Elsewhere, Alone
<1>2. GatewayInv' /\ (x # u => RuleInv(u)')
  BY SparedRule DEF ServedInv, Alone
<1>3. x = u => RuleInv(u)'
  BY FreeRule
<1> QED
  BY <1>1, <1>2, <1>3 DEF ServedInv

PlainSteps ==
  {"settle", "update", "list", "force", "drop", "gone", "crd-delete", "crd-create",
   "adm-find", "adm-drop", "adm-gone", "adm-home", "adm-create", "adm-wait", "ok", "failed"}

LEMMA PlainCall ==
  ASSUME IndInv, NEW u \in Procs, NEW x \in Procs, ServedInv(u), Alone(x),
         UNCHANGED <<ns, contents, ingress>>, op'[x] = op[x] \/ op'[x] = "cleanup", step'[x] \in PlainSteps
  PROVE  ServedInv(u)'
<1>1. \A c \in Clusters : Spared(c)
  BY DEF Spared
<1>2. step'[x] \notin IngressSteps \union {"namespace", "cng_vs", "ui_vs"}
  BY DEF PlainSteps, IngressSteps
<1>3. x # u => op'[x] \notin IngressOps
  BY DEF ServedInv, Elsewhere, IngressOps
<1> QED
  BY <1>1, <1>2, <1>3, PlainServed

LEMMA FailServed ==
  ASSUME IndInv, NEW u \in Procs, NEW x \in Procs, ServedInv(u), Fail(x)
  PROVE  ServedInv(u)'
<1>1. End(x, "failed") /\ UNCHANGED <<ns, contents, ingress>>
  BY DEF Fail, kube, spaces
<1>2. Alone(x) /\ step'[x] = "failed" /\ op'[x] = "cleanup"
  BY <1>1, EndAlone
<1> QED
  BY <1>1, <1>2, PlainCall DEF PlainSteps

LEMMA DeleteServed ==
  ASSUME IndInv, NEW u \in Procs, NEW x \in Procs, ServedInv(u), Delete(x)
  PROVE  ServedInv(u)'
<1> USE DEF kube, spaces
<1>1. ASSUME NEW s \in PlainSteps, GoTo(x, s), op' = op, faulty' = faulty,
             \A y \in Procs \ {x} : target'[y] = target[y]
      PROVE  Alone(x) /\ step'[x] \in PlainSteps /\ op'[x] = op[x]
  BY <1>1 DEF GoTo, Alone, IndInv, TypeOK
<1>2. ASSUME End(x, "ok"), UNCHANGED <<ns, contents, ingress>> PROVE ServedInv(u)'
  BY <1>2, EndAlone, PlainCall DEF PlainSteps
<1>3. CASE ListNamespaces(x)
  <2>1. UNCHANGED <<ns, contents, ingress>>
    BY <1>3 DEF ListNamespaces
  <2>2. CASE GoTo(x, "force") /\ UNCHANGED <<op, target, faulty>>
    <3>1. "force" \in PlainSteps
      BY DEF PlainSteps
    <3>2. Alone(x) /\ step'[x] \in PlainSteps /\ op'[x] = op[x]
      BY <1>1, <2>2, <3>1
    <3> QED
      BY <2>1, <3>2, PlainCall
  <2> QED
    BY <1>2, <1>3, <2>1, <2>2 DEF ListNamespaces
<1>4. ASSUME NEW c \in Clusters, ForceDelete(x, c) PROVE ServedInv(u)'
  <2>1. "drop" \in PlainSteps
    BY DEF PlainSteps
  <2>2. \A y \in Procs \ {x} : target'[y] = target[y]
    BY <1>4 DEF ForceDelete, IndInv, TypeOK
  <2>3. Alone(x) /\ step'[x] \in PlainSteps /\ op'[x] = op[x]
    BY <1>1, <1>4, <2>1, <2>2 DEF ForceDelete
  <2> QED
    BY <1>4, <2>3, PlainCall DEF ForceDelete
<1>5. CASE DeleteNamespace(x)
  <2>1. PICK s \in {"gone", "force"} : GoTo(x, s)
    BY <1>5 DEF DeleteNamespace
  <2>2. s \in PlainSteps
    BY DEF PlainSteps
  <2>3. Alone(x) /\ step'[x] \in PlainSteps /\ op'[x] = op[x]
    BY <1>1, <1>5, <2>1, <2>2 DEF DeleteNamespace
  <2>4. \A c \in Clusters : Spared(c)
    BY <1>5 DEF DeleteNamespace, Existing, Spared, IndInv, TypeOK
  <2>5. step'[x] \notin IngressSteps \union {"namespace", "cng_vs", "ui_vs"}
    BY <2>3 DEF PlainSteps, IngressSteps
  <2>6. x # u => op'[x] \notin IngressOps
    BY <2>3 DEF ServedInv, Elsewhere
  <2> QED
    BY <2>3, <2>4, <2>5, <2>6, PlainServed
<1>6. CASE WaitGone(x)
  BY <1>2, <1>6 DEF WaitGone
<1> QED
  BY <1>3, <1>4, <1>5, <1>6 DEF Delete

LEMMA ToolsServed ==
  ASSUME IndInv, NEW u \in Procs, NEW x \in Procs, ServedInv(u), Tools(x) \/ UpdateCouchbaseClusterSpec(x)
  PROVE  ServedInv(u)'
<1>1. UNCHANGED <<ns, contents, ingress>>
  BY DEF Tools, DeleteCrds, CreateCrds, UninstallAdmission, DeleteHome, WaitHomeGone, CreateHome,
     CreateAdmission, WaitAdmission, UpdateCouchbaseClusterSpec, kube, spaces
<1>2. CASE CreateCrds(x)
  BY <1>1, <1>2, EndAlone, PlainCall DEF CreateCrds, PlainSteps
<1>3. CASE ~CreateCrds(x)
  <2>1. PICK s \in {"settle", "crd-create", "adm-drop", "adm-home", "adm-gone", "adm-create", "adm-wait", "ok"} :
           Proceed(x, s)
    BY <1>3 DEF Tools, DeleteCrds, UninstallAdmission, DeleteHome, WaitHomeGone, CreateHome,
       CreateAdmission, WaitAdmission, UpdateCouchbaseClusterSpec
  <2>2. Alone(x) /\ step'[x] = s /\ (op'[x] = op[x] \/ op'[x] = "cleanup")
    BY <2>1, ProceedAlone
  <2>3. s \in PlainSteps
    BY DEF PlainSteps
  <2> QED
    BY <1>1, <2>2, <2>3, PlainCall
<1> QED
  BY <1>2, <1>3

LEMMA BeginServed ==
  ASSUME IndInv, NEW u \in Procs, \A y \in Procs \ {u} : Duties[y] \intersect IngressOps = {},
         NEW x \in Procs, NEW o \in Ops, NEW fails \in BOOLEAN, ServedInv(u), Begin(x, o, fails)
  PROVE  ServedInv(u)'
<1>1. /\ o \in Duties[x] /\ op'[x] = o /\ step'[x] = FirstStep[o] /\ Alone(x)
      /\ UNCHANGED <<ns, contents, ingress>>
  BY DEF Begin, Alone, IndInv, TypeOK, kube, spaces
<1>2. \A c \in Clusters : Spared(c)
  BY <1>1 DEF Spared
<1>3. Elsewhere(u)'
  <2>1. o \notin IngressOps => FirstStep[o] \notin IngressSteps
    BY DEF Ops, IngressOps, FirstStep, IngressSteps
  <2>2. x # u => o \notin IngressOps
    BY <1>1
  <2> QED
    BY <1>1, <2>1, <2>2 DEF ServedInv, Elsewhere, Alone
<1>4. GatewayInv' /\ (x # u => RuleInv(u)')
  BY <1>1, <1>2, SparedRule DEF ServedInv, Alone
<1>5. ASSUME x = u PROVE RuleInv(u)'
  <2>1. CASE o = "allocate"
    <3>1. \E c \in Targets("allocate") : target' = [target EXCEPT ![u] = c]
      BY <1>5, <2>1 DEF Begin
    <3>2. \A c \in Targets("allocate") : ns[c] = "unused"
      BY DEF Targets
    <3>3. ns'[target'[u]] = "unused"
      BY <1>1, <3>1, <3>2 DEF IndInv, TypeOK
    <3>4. step'[u] = "namespace"
      BY <1>1, <1>5, <2>1 DEF FirstStep
    <3> QED
      BY <3>3, <3>4 DEF RuleInv
  <2>2. CASE o # "allocate"
    <3>1. FirstStep[o] \notin {"namespace", "cng_vs", "ui_vs"}
      BY <2>2 DEF Ops, FirstStep
    <3> QED
      BY <1>1, <1>5, <3>1, FreeRule
  <2> QED
    BY <2>1, <2>2
<1> QED
  BY <1>3, <1>4, <1>5 DEF ServedInv

-----------------------------------------------------------------------------
(* The calls that only the process u makes.                                   *)

LEMMA AlonePlain ==
  ASSUME IndInv, NEW u \in Procs, ServedInv(u), NEW s, Proceed(u, s),
         \A c \in Clusters : Spared(c), s \notin {"namespace", "cng_vs", "ui_vs"}
  PROVE  ServedInv(u)'
BY ProceedAlone, PlainServed

LEMMA AllocateServed ==
  ASSUME IndInv, NEW u \in Procs, ServedInv(u), Allocate(u)
  PROVE  ServedInv(u)'
<1> USE DEF kube, spaces, At
<1>1. target[u] \in Clusters
  BY DEF IndInv, TypeOK
<1>2. CASE CreateNamespace(u)
  <2>1. step[u] = "namespace" /\ ns[target[u]] = "unused" /\ ingress[target[u]] = {}
    BY <1>1, <1>2 DEF CreateNamespace, ServedInv, RuleInv, GatewayInv
  <2>2. ns' = [ns EXCEPT ![target[u]] = "active"] /\ UNCHANGED <<contents, ingress>>
    BY <1>2 DEF CreateNamespace
  <2>3. GatewayInv'
    BY <1>1, <2>1, <2>2 DEF ServedInv, GatewayInv, IndInv, TypeOK
  <2>4. Alone(u) /\ step'[u] = "ghcr"
    BY <1>2, ProceedAlone DEF CreateNamespace
  <2>5. Elsewhere(u)'
    BY <2>4 DEF ServedInv, Elsewhere, Alone
  <2> QED
    BY <2>3, <2>4, <2>5, FreeRule DEF ServedInv
<1>3. CASE Install(u)
  <2>1. PICK s \in {"operator", "auth", "create", "expose", "ok"} : Proceed(u, s)
    BY <1>3 DEF Install, AfterInstall
  <2>2. \A c \in Clusters : Spared(c)
    BY <1>1, <1>3 DEF Install, Spared, IndInv, TypeOK
  <2> QED
    BY <2>1, <2>2, AlonePlain
<1>4. CASE UpdateCouchbaseClusterSpec(u)
  BY <1>4, ToolsServed
<1>5. CASE CreateCouchbaseCluster(u) \/ FindGateway(u) \/ WaitServiceHasEndpoints(u)
  <2>1. PICK s \in {"settle", "endpoints", "expose", "ok", "nodeport"} : Proceed(u, s)
    BY <1>5 DEF CreateCouchbaseCluster, FindGateway, WaitServiceHasEndpoints
  <2>2. \A c \in Clusters : Spared(c)
    BY <1>5 DEF CreateCouchbaseCluster, FindGateway, WaitServiceHasEndpoints, Spared
  <2> QED
    BY <2>1, <2>2, AlonePlain
<1> QED
  BY <1>2, <1>3, <1>4, <1>5 DEF Allocate

LEMMA ExposeServed ==
  ASSUME IndInv, NEW u \in Procs, ServedInv(u), Expose(u)
  PROVE  ServedInv(u)'
<1>1. target[u] \in Clusters
  BY DEF IndInv, TypeOK
<1>2. step[u] \in {"ui_route", "cng_route", "cng_vs", "cng_rule", "ui_vs"}
  BY DEF Expose, AfterExpose
<1>3. /\ ingress' = [ingress EXCEPT ![target[u]] = @ \cup {step[u]}]
      /\ UNCHANGED <<ns, contents>> /\ Proceed(u, AfterExpose[step[u]])
  BY DEF Expose
<1>4. Alone(u) /\ step'[u] = AfterExpose[step[u]]
  BY <1>3, ProceedAlone
<1>5. Elsewhere(u)'
  BY <1>4 DEF ServedInv, Elsewhere, Alone
<1>6. GatewayInv'
  <2>1. ns[target[u]] = "active" /\ step[u] = "cng_vs" => "cng" \in contents[target[u]]
    BY DEF ServedInv, RuleInv
  <2>2. ns[target[u]] # "unused"
    <3>1. ns[target[u]] = "active" \/ step[u] \in ingress[target[u]]
      BY <1>2 DEF Expose, Possible
    <3> QED
      BY <1>1, <3>1 DEF ServedInv, GatewayInv
  <2>3. \A c \in Clusters : ingress'[c] = IF c = target[u] THEN ingress[c] \cup {step[u]} ELSE ingress[c]
    BY <1>3 DEF IndInv, TypeOK
  <2> QED
    BY <1>1, <1>3, <2>1, <2>2, <2>3 DEF ServedInv, GatewayInv
<1>7. RuleInv(u)'
  <2>1. CASE step[u] = "cng_rule"
    <3>1. step'[u] = "ui_vs" /\ target'[u] = target[u]
      BY <1>3, <1>4, <2>1, ProceedAlone DEF AfterExpose
    <3>2. "cng_rule" \in ingress'[target[u]]
      BY <1>1, <1>3, <2>1 DEF IndInv, TypeOK
    <3> QED
      BY <3>1, <3>2 DEF RuleInv
  <2>2. CASE step[u] # "cng_rule"
    <3>1. step'[u] \notin {"namespace", "cng_vs", "ui_vs"}
      BY <1>2, <1>4, <2>2 DEF AfterExpose
    <3> QED
      BY <3>1, FreeRule
  <2> QED
    BY <2>1, <2>2
<1> QED
  BY <1>5, <1>6, <1>7 DEF ServedInv

LEMMA IngressesServed ==
  ASSUME IndInv, NEW u \in Procs, ServedInv(u), Ingresses(u)
  PROVE  ServedInv(u)'
<1> USE DEF kube, spaces, At
<1>1. target[u] \in Clusters
  BY DEF IndInv, TypeOK
<1>2. CASE EnableIngresses(u)
  <2>1. PICK s \in {"ui_route", "cng-service"} : Proceed(u, s)
    BY <1>2 DEF EnableIngresses
  <2>2. \A c \in Clusters : Spared(c)
    BY <1>2 DEF EnableIngresses, Spared
  <2> QED
    BY <2>1, <2>2, AlonePlain
<1>3. CASE CngService(u)
  <2>1. \A c \in Clusters : Spared(c)
    BY <1>3 DEF CngService, Spared
  <2>2. PICK s : /\ Proceed(u, s)
                 /\ \/ s \in {"cng_route", "ok"}
                    \/ s = "cng_vs" /\ "cng" \in contents[target[u]]
                    \/ s = "ui_vs" /\ ("cng" \notin contents[target[u]] \/ faulty[u])
    BY <1>3 DEF CngService
  <2>3. Alone(u) /\ step'[u] = s /\ (s # "ok" => target'[u] = target[u] /\ faulty'[u] = faulty[u])
    BY <2>2, ProceedAlone
  <2>4. Elsewhere(u)'
    BY <2>3 DEF ServedInv, Elsewhere, Alone
  <2>5. GatewayInv'
    BY <2>1, SparedRule DEF ServedInv
  <2>6. RuleInv(u)'
    <3>1. CASE s \in {"cng_route", "ok"}
      BY <2>3, <3>1, FreeRule
    <3>2. CASE s = "cng_vs" /\ "cng" \in contents[target[u]]
      BY <1>3, <2>3, <3>2 DEF RuleInv, CngService
    <3>3. CASE s = "ui_vs" /\ ("cng" \notin contents[target[u]] \/ faulty[u])
      BY <1>1, <1>3, <2>3, <3>3 DEF RuleInv, CngService, ServedInv, GatewayInv
    <3> QED
      BY <2>2, <3>1, <3>2, <3>3
  <2> QED
    BY <2>4, <2>5, <2>6 DEF ServedInv
<1>4. CASE DisableIngresses(u)
  <2>1. PICK gone \in SUBSET ingress[target[u]] :
           /\ ingress' = [ingress EXCEPT ![target[u]] = @ \ gone]
           /\ End(u, IF gone = {} THEN "failed" ELSE "ok")
    BY <1>4 DEF DisableIngresses
  <2>2. Alone(u) /\ step'[u] \in {"failed", "ok"}
    BY <2>1, EndAlone
  <2>3. Elsewhere(u)' /\ RuleInv(u)'
    BY <2>2, FreeRule DEF ServedInv, Elsewhere, Alone
  <2>4. UNCHANGED <<ns, contents>> /\ \A c \in Clusters : ingress'[c] \subseteq ingress[c]
    BY <1>4, <2>1 DEF DisableIngresses, IndInv, TypeOK
  <2>5. GatewayInv'
    BY <2>4 DEF ServedInv, GatewayInv
  <2> QED
    BY <2>3, <2>5 DEF ServedInv
<1> QED
  BY <1>2, <1>3, <1>4, ExposeServed DEF Ingresses

(* Whoever is at one of these calls is u.                                     *)
LEMMA RunServed ==
  ASSUME IndInv, NEW u \in Procs, NEW x \in Procs, ServedInv(u), Run(x)
  PROVE  ServedInv(u)'
<1>1. (Allocate(x) /\ ~UpdateCouchbaseClusterSpec(x)) \/ Ingresses(x) => step[x] \in IngressSteps
  BY DEF Allocate, CreateNamespace, Install, AfterInstall, CreateCouchbaseCluster, FindGateway,
     WaitServiceHasEndpoints, Ingresses, EnableIngresses, CngService, Expose, AfterExpose,
     DisableIngresses, At, IngressSteps
<1>2. step[x] \in IngressSteps => x = u
  BY DEF ServedInv, Elsewhere
<1> QED
  BY <1>1, <1>2, FailServed, DeleteServed, ToolsServed, AllocateServed, IngressesServed DEF Run

LEMMA InitServed == ASSUME Init, NEW u \in Procs PROVE ServedInv(u)
<1>1. \A x \in Procs : step[x] = "idle" /\ op[x] = "cleanup"
  BY DEF Init
<1>2. GatewayInv
  BY DEF Init, GatewayInv
<1> QED
  BY <1>1, <1>2 DEF ServedInv, Elsewhere, RuleInv, IngressOps, IngressSteps

LEMMA StepServed ==
  ASSUME NEW u \in Procs, \A y \in Procs \ {u} : Duties[y] \intersect IngressOps = {}
  PROVE  IndInv /\ ServedInv(u) /\ [Next]_vars => ServedInv(u)'
<1> SUFFICES ASSUME IndInv, ServedInv(u), [Next]_vars PROVE ServedInv(u)'
  OBVIOUS
<1>1. CASE UNCHANGED vars
  BY <1>1 DEF vars, kube, spaces, proc, ServedInv, Elsewhere, GatewayInv, RuleInv
<1>2. ASSUME NEW x \in Procs, Run(x) \/ \E o \in Ops, fails \in BOOLEAN : Begin(x, o, fails)
      PROVE  ServedInv(u)'
  BY <1>2, RunServed, BeginServed
<1> QED
  BY <1>1, <1>2, ServiceServed, PollServed DEF Next

(* The last route is made in one call, which ends the command.                *)
LEMMA OnlyExposeServes ==
  ASSUME IndInv, [Next]_vars, NEW x \in Procs, step[x] = "ui_vs", step'[x] = "ok"
  PROVE  Expose(x)
<1>1. ASSUME NEW y \in Procs, Run(y) PROVE Expose(x)
  <2>1. CASE y = x
    BY <1>1, <2>1 DEF Run, Allocate, CreateNamespace, Install, AfterInstall, CreateCouchbaseCluster, FindGateway,
       WaitServiceHasEndpoints, UpdateCouchbaseClusterSpec, Ingresses, EnableIngresses, CngService,
       DisableIngresses, Delete, ListNamespaces, ForceDelete, DeleteNamespace, WaitGone, Tools, DeleteCrds, CreateCrds,
       UninstallAdmission, DeleteHome, WaitHomeGone, CreateHome, CreateAdmission, WaitAdmission, At,
       Fail, End, GoTo, IndInv, TypeOK
  <2>2. CASE y # x
    <3>1. \E s : step' = [step EXCEPT ![y] = s]
      BY <1>1 DEF Run, Allocate, CreateNamespace, Install, CreateCouchbaseCluster, FindGateway,
         WaitServiceHasEndpoints, UpdateCouchbaseClusterSpec, Ingresses, EnableIngresses, CngService, Expose,
         DisableIngresses, Delete, ListNamespaces, ForceDelete, DeleteNamespace, WaitGone, Tools, DeleteCrds, CreateCrds,
         UninstallAdmission, DeleteHome, WaitHomeGone, CreateHome, CreateAdmission, WaitAdmission, Fail,
         Proceed, End, GoTo
    <3> QED
      BY <2>2, <3>1 DEF IndInv, TypeOK
  <2> QED
    BY <2>1, <2>2
<1>2. ASSUME NEW y \in Procs, NEW o \in Ops, NEW fails \in BOOLEAN, Begin(y, o, fails) PROVE FALSE
  <2>1. FirstStep[o] # "ok"
    BY DEF Ops, FirstStep
  <2> QED
    BY <1>2, <2>1 DEF Begin, Ended, IndInv, TypeOK
<1>3. CASE Poll
  BY <1>3 DEF Poll, Waiting
<1>4. CASE CrdGoes \/ AdmissionMoves \/ UNCHANGED vars
  BY <1>4 DEF CrdGoes, AdmissionMoves, vars, proc
<1>5. ASSUME NEW c \in Clusters, Lapse(c) \/ OperatorActs(c) \/ Kubernetes(c) PROVE FALSE
  BY <1>5 DEF Lapse, OperatorActs, Kubernetes, NamespaceEmpties, NamespaceGoes, CrdEmpties, proc
<1> QED
  BY <1>1, <1>2, <1>3, <1>4, <1>5 DEF Next

(* If one process alone allocates clusters, enables and disables ingresses,   *)
(* what it enables through the gateway without a failing call has the rule    *)
(* for TLS with the route, whatever an earlier command left half done, and    *)
(* whoever removes, changes or reinstalls anything at the same time.          *)
THEOREM ServedWhenAlone ==
  ASSUME NEW u \in Procs, \A y \in Procs \ {u} : Duties[y] \intersect IngressOps = {}
  PROVE  Spec => EnabledIsServed
<1>1. Init => ServedInv(u)
  BY InitServed
<1>2. IndInv /\ ServedInv(u) /\ [Next]_vars => ServedInv(u)'
  BY StepServed
<1>3. IndInv /\ ServedInv(u) /\ [Next]_vars =>
        [\A x \in Procs : At(x, "ui_vs") /\ step'[x] = "ok" /\ ~faulty[x] =>
           LET made == ingress'[target[x]] IN "cng_vs" \in made => "cng_rule" \in made]_vars
  <2> SUFFICES ASSUME IndInv, ServedInv(u), [Next]_vars, NEW x \in Procs, step[x] = "ui_vs",
                      step'[x] = "ok", ~faulty[x], "cng_vs" \in ingress'[target[x]]
               PROVE  "cng_rule" \in ingress'[target[x]]
    BY DEF At
  <2>1. x = u
    BY DEF ServedInv, Elsewhere, IngressSteps
  <2>2. Expose(x)
    BY OnlyExposeServes
  <2>3. ns[target[u]] = "active" /\ target[u] \in Clusters
    BY <2>1, <2>2 DEF Expose, Possible, IndInv, TypeOK
  <2>4. ingress'[target[u]] = ingress[target[u]] \cup {"ui_vs"}
    BY <2>1, <2>2, <2>3 DEF Expose, IndInv, TypeOK
  <2> QED
    BY <2>1, <2>3, <2>4 DEF ServedInv, RuleInv
<1> QED
  BY <1>1, <1>2, <1>3, Invariance, PTL DEF Spec, EnabledIsServed
-----------------------------------------------------------------------------
(* What is deleted is what the command was asked to delete.                   *)

Expired(c) == expiry[c] = "passed" \/ ns[c] = "gone"

(* Between the listing and the deletion, what a cleanup has listed stays      *)
(* expired or goes, and a removal has listed the cluster that it was given.   *)
Asked(x) ==
  /\ step[x] = "list" => op[x] \in {"remove", "removeall", "cleanup"}
  /\ step[x] \in {"force", "drop"} =>
       /\ todo[x] \subseteq victims[x]
       /\ step[x] = "drop" => target[x] \in victims[x]
       /\ \/ op[x] = "removeall"
          \/ op[x] = "remove" /\ \E c \in Clusters : victims[x] = {c}
          \/ op[x] = "cleanup" /\ \A c \in victims[x] : Expired(c)

(* A name that is going to be used is unused, and nobody else will use it.    *)
Fresh(x) ==
  step[x] = "namespace" =>
    /\ ns[target[x]] = "unused"
    /\ \A y \in Procs \ {x} : step[y] = "namespace" => target[y] # target[x]

AskedInv ==
  /\ \A c \in Clusters : ns[c] = "unused" => expiry[c] = "none"
  /\ \A x \in Procs : Asked(x) /\ Fresh(x)

(* What a step may do to a namespace without anybody's listing going wrong.   *)
Ages(c) ==
  /\ ns'[c] = "unused" => ns[c] = "unused" /\ expiry'[c] = expiry[c]
  /\ Expired(c) => Expired(c)'

Aside(x) ==
  \A y \in Procs \ {x} :
    /\ op'[y] = op[y] /\ step'[y] = step[y] /\ target'[y] = target[y]
    /\ todo'[y] = todo[y] /\ victims'[y] = victims[y]

LEMMA AskedStays ==
  ASSUME NEW y \in Procs, IndInv, Asked(y), \A c \in Clusters : Ages(c),
         op'[y] = op[y], step'[y] = step[y], target'[y] = target[y],
         todo'[y] = todo[y], victims'[y] = victims[y]
  PROVE  Asked(y)'
<1>1. victims[y] \subseteq Clusters
  BY DEF IndInv, TypeOK
<1> QED
  BY <1>1 DEF Asked, Ages

LEMMA AskedStep ==
  ASSUME IndInv, AskedInv, NEW x \in Procs, Aside(x), \A c \in Clusters : Ages(c),
         \A c \in Clusters : ns[c] = "unused" =>
            ns'[c] = "unused" \/ (step[x] = "namespace" /\ c = target[x]),
         Asked(x)', Fresh(x)'
  PROVE  AskedInv'
<1>1. \A c \in Clusters : ns'[c] = "unused" => expiry'[c] = "none"
  BY DEF AskedInv, Ages
<1>2. ASSUME NEW y \in Procs, y # x PROVE Asked(y)' /\ Fresh(y)'
  <2>1. /\ op'[y] = op[y] /\ step'[y] = step[y] /\ target'[y] = target[y]
        /\ todo'[y] = todo[y] /\ victims'[y] = victims[y]
    BY <1>2 DEF Aside
  <2>2. Asked(y)'
    BY <2>1, AskedStays DEF AskedInv
  <2>3. CASE step[y] = "namespace"
    <3>1. target[y] \in Clusters /\ Fresh(y)
      BY DEF IndInv, TypeOK, AskedInv
    <3>2. ns'[target[y]] = "unused"
      BY <1>2, <2>3, <3>1 DEF Fresh
    <3>3. \A z \in Procs \ {y} : step'[z] = "namespace" => target'[z] # target[y]
      <4>1. \A z \in Procs \ {x, y} : step'[z] = "namespace" => target'[z] # target[y]
        BY <2>3, <3>1 DEF Aside, Fresh
      <4>2. step'[x] = "namespace" => target'[x] # target[y]
        BY <1>2, <2>1, <2>3 DEF Fresh
      <4> QED
        BY <4>1, <4>2
    <3> QED
      BY <2>1, <2>2, <3>2, <3>3 DEF Fresh
  <2> QED
    BY <2>1, <2>2, <2>3 DEF Fresh
<1> QED
  BY <1>1, <1>2 DEF AskedInv

(* A step into neither the making nor the deletion of a namespace.            *)
Further == Steps \ {"namespace", "list", "force", "drop"}

LEMMA EndAside ==
  ASSUME IndInv, NEW x \in Procs, NEW r, End(x, r) PROVE Aside(x) /\ step'[x] = r
BY DEF End, GoTo, Aside, IndInv, TypeOK

LEMMA ProceedAside ==
  ASSUME IndInv, NEW x \in Procs, NEW s, Proceed(x, s) PROVE Aside(x) /\ step'[x] = s
<1>1. CASE s = "ok"
  BY <1>1, EndAside DEF Proceed
<1>2. CASE s # "ok"
  BY <1>2 DEF Proceed, GoTo, Same, Aside, IndInv, TypeOK
<1> QED
  BY <1>1, <1>2

LEMMA FurtherAsked ==
  ASSUME IndInv, AskedInv, NEW x \in Procs, NEW s \in Further, Proceed(x, s) \/ End(x, s),
         UNCHANGED <<ns, expiry>>
  PROVE  AskedInv'
<1>1. Aside(x) /\ step'[x] = s
  BY EndAside, ProceedAside
<1>2. Asked(x)' /\ Fresh(x)'
  BY <1>1 DEF Asked, Fresh, Further
<1>3. \A c \in Clusters : Ages(c)
  BY DEF Ages, Expired
<1> QED
  BY <1>1, <1>2, <1>3, AskedStep

LEMMA CreateNamespaceAsked ==
  ASSUME IndInv, AskedInv, NEW x \in Procs, CreateNamespace(x) PROVE AskedInv'
<1>1. Aside(x) /\ step'[x] = "ghcr"
  BY ProceedAside DEF CreateNamespace
<1>2. Asked(x)' /\ Fresh(x)'
  BY <1>1 DEF Asked, Fresh
<1>3. step[x] = "namespace" /\ target[x] \in Clusters
  BY DEF CreateNamespace, At, IndInv, TypeOK
<1>4. ns[target[x]] = "unused" /\ expiry[target[x]] = "none"
  BY <1>3 DEF AskedInv, Fresh
<1>5. /\ ns'[target[x]] = "active"
      /\ \A c \in Clusters \ {target[x]} : ns'[c] = ns[c] /\ expiry'[c] = expiry[c]
  BY <1>3 DEF CreateNamespace, IndInv, TypeOK
<1>6. \A c \in Clusters : Ages(c)
  BY <1>4, <1>5 DEF Ages, Expired
<1> QED
  BY <1>1, <1>2, <1>3, <1>5, <1>6, AskedStep

LEMMA AllocateAsked ==
  ASSUME IndInv, AskedInv, NEW x \in Procs, Allocate(x) PROVE AskedInv'
<1>1. CASE ~ CreateNamespace(x)
  <2>1. UNCHANGED <<ns, expiry>>
    BY <1>1 DEF Allocate, Install, CreateCouchbaseCluster, FindGateway, WaitServiceHasEndpoints,
       UpdateCouchbaseClusterSpec, kube, spaces
  <2>2. \E s \in {"operator", "auth", "create", "settle", "endpoints", "nodeport", "expose", "ok"} :
           Proceed(x, s)
    BY <1>1 DEF Allocate, Install, AfterInstall, CreateCouchbaseCluster, FindGateway,
       WaitServiceHasEndpoints, UpdateCouchbaseClusterSpec
  <2> QED
    BY <2>1, <2>2, FurtherAsked DEF Further, Steps
<1> QED
  BY <1>1, CreateNamespaceAsked

LEMMA IngressesAsked ==
  ASSUME IndInv, AskedInv, NEW x \in Procs, Ingresses(x) PROVE AskedInv'
<1>1. UNCHANGED <<ns, expiry>>
  BY DEF Ingresses, EnableIngresses, CngService, Expose, DisableIngresses, kube, spaces
<1>2. \E s \in {"ui_route", "cng-service", "cng_route", "cng_vs", "cng_rule", "ui_vs", "ok", "failed"} :
         Proceed(x, s) \/ End(x, s)
  BY DEF Ingresses, EnableIngresses, CngService, Expose, AfterExpose, DisableIngresses
<1> QED
  BY <1>1, <1>2, FurtherAsked DEF Further, Steps

LEMMA ToolsAsked ==
  ASSUME IndInv, AskedInv, NEW x \in Procs, Tools(x) \/ Fail(x) PROVE AskedInv'
<1>1. UNCHANGED <<ns, expiry>>
  BY DEF Tools, DeleteCrds, CreateCrds, UninstallAdmission, DeleteHome, WaitHomeGone, CreateHome,
     CreateAdmission, WaitAdmission, Fail, kube, spaces
<1>2. \E s \in {"crd-create", "adm-drop", "adm-gone", "adm-home", "adm-create", "adm-wait", "ok", "failed"} :
         Proceed(x, s) \/ End(x, s)
  BY DEF Tools, DeleteCrds, CreateCrds, UninstallAdmission, DeleteHome, WaitHomeGone, CreateHome,
     CreateAdmission, WaitAdmission, Fail
<1> QED
  BY <1>1, <1>2, FurtherAsked DEF Further, Steps

(* The listing makes the statement true, the deletions use it up.             *)
LEMMA DeleteAsked ==
  ASSUME IndInv, AskedInv, NEW x \in Procs, Delete(x) PROVE AskedInv'
<1>1. CASE ListNamespaces(x)
  <2>1. UNCHANGED <<ns, expiry>>
    BY <1>1 DEF ListNamespaces, kube, spaces
  <2>2. CASE End(x, "ok")
    BY <2>1, <2>2, FurtherAsked DEF Further, Steps
  <2>3. CASE ~ End(x, "ok")
    <3> DEFINE found == {c \in Listed(x) : Existing(c)}
    <3>1. /\ found # {} /\ todo' = [todo EXCEPT ![x] = found] /\ victims' = [victims EXCEPT ![x] = found]
          /\ step' = [step EXCEPT ![x] = "force"] /\ UNCHANGED <<op, target>>
      BY <1>1, <2>3 DEF ListNamespaces, GoTo
    <3>2. Aside(x) /\ step'[x] = "force" /\ todo'[x] = found /\ victims'[x] = found /\ op'[x] = op[x]
      BY <3>1 DEF Aside, IndInv, TypeOK
    <3>3. \/ op[x] = "removeall"
          \/ op[x] = "remove" /\ found = {target[x]} /\ target[x] \in Clusters
          \/ op[x] = "cleanup" /\ \A c \in found : expiry[c] = "passed"
      BY <1>1, <3>1 DEF ListNamespaces, At, Listed, AskedInv, Asked, IndInv, TypeOK
    <3>4. Asked(x)' /\ Fresh(x)'
      BY <2>1, <3>2, <3>3 DEF Asked, Fresh, Expired
    <3>5. \A c \in Clusters : Ages(c)
      BY <2>1 DEF Ages, Expired
    <3> QED
      BY <2>1, <3>2, <3>4, <3>5, AskedStep
  <2> QED
    BY <2>2, <2>3
<1>2. ASSUME NEW c \in Clusters, ForceDelete(x, c) PROVE AskedInv'
  <2>1. UNCHANGED <<ns, expiry, op, todo, victims>> /\ step[x] = "force" /\ c \in todo[x]
    BY <1>2 DEF ForceDelete, At, spaces
  <2>2. step' = [step EXCEPT ![x] = "drop"] /\ target' = [target EXCEPT ![x] = c]
    BY <1>2 DEF ForceDelete, GoTo
  <2>3. Aside(x) /\ step'[x] = "drop" /\ target'[x] = c
    BY <2>1, <2>2 DEF Aside, IndInv, TypeOK
  <2>4. Asked(x)
    BY DEF AskedInv
  <2>5. Asked(x)' /\ Fresh(x)'
    BY <2>1, <2>3, <2>4 DEF Asked, Fresh, Expired
  <2>6. \A d \in Clusters : Ages(d)
    BY <2>1 DEF Ages, Expired
  <2> QED
    BY <2>1, <2>3, <2>5, <2>6, AskedStep
<1>3. CASE DeleteNamespace(x)
  <2>1. /\ UNCHANGED <<expiry, op, target, victims>> /\ step[x] = "drop" /\ Existing(target[x])
        /\ ns' = [ns EXCEPT ![target[x]] = "terminating"]
        /\ todo' = [todo EXCEPT ![x] = @ \ {target[x]}]
    BY <1>3 DEF DeleteNamespace, At
  <2>2. PICK s \in {"gone", "force"} : step' = [step EXCEPT ![x] = s]
    BY <1>3 DEF DeleteNamespace, GoTo
  <2>3. Aside(x) /\ step'[x] = s /\ todo'[x] \subseteq todo[x]
    BY <2>1, <2>2 DEF Aside, IndInv, TypeOK
  <2>4. \A d \in Clusters : ns'[d] = IF d = target[x] THEN "terminating" ELSE ns[d]
    BY <2>1 DEF IndInv, TypeOK
  <2>5. \A d \in Clusters : Ages(d) /\ (ns[d] = "unused" => ns'[d] = "unused")
    BY <2>1, <2>4 DEF Ages, Expired, Existing
  <2>6. Asked(x) /\ victims[x] \subseteq Clusters
    BY DEF AskedInv, IndInv, TypeOK
  <2>7. Asked(x)' /\ Fresh(x)'
    BY <2>1, <2>3, <2>5, <2>6 DEF Asked, Fresh, Ages
  <2> QED
    BY <2>3, <2>5, <2>7, AskedStep
<1>4. CASE WaitGone(x)
  BY <1>4, FurtherAsked DEF WaitGone, Further, Steps, kube, spaces
<1> QED
  BY <1>1, <1>2, <1>3, <1>4 DEF Delete

LEMMA RunAsked ==
  ASSUME IndInv, AskedInv, NEW x \in Procs, Run(x) PROVE AskedInv'
BY AllocateAsked, IngressesAsked, DeleteAsked, ToolsAsked DEF Run

(* A new cluster takes a name that is unused and not about to be used.        *)
LEMMA BeginAsked ==
  ASSUME IndInv, AskedInv, NEW x \in Procs, NEW o \in Ops, NEW fails \in BOOLEAN, Begin(x, o, fails)
  PROVE  AskedInv'
<1>1. PICK c \in Targets(o) : target' = [target EXCEPT ![x] = c]
  BY DEF Begin
<1>2. UNCHANGED <<ns, expiry, todo, victims>> /\ step[x] \notin {"namespace", "force", "drop"}
      /\ op' = [op EXCEPT ![x] = o] /\ step' = [step EXCEPT ![x] = FirstStep[o]]
  BY DEF Begin, kube, spaces, Ended
<1>3. Aside(x) /\ op'[x] = o /\ step'[x] = FirstStep[o] /\ target'[x] = c
  BY <1>1, <1>2 DEF Aside, IndInv, TypeOK
<1>4. Asked(x)'
  BY <1>3 DEF Asked, FirstStep, Ops
<1>5. Fresh(x)'
  <2>1. FirstStep[o] = "namespace" => o = "allocate"
    BY DEF FirstStep, Ops
  <2>2. o = "allocate" => ns[c] = "unused" /\ \A y \in Procs : step[y] = "namespace" => target[y] # c
    BY <1>1 DEF Targets, Allocating
  <2> QED
    BY <1>2, <1>3, <2>1, <2>2 DEF Fresh, Aside
<1>6. \A d \in Clusters : Ages(d)
  BY <1>2 DEF Ages, Expired
<1> QED
  BY <1>2, <1>3, <1>4, <1>5, <1>6, AskedStep

(* Time and Kubernetes: a namespace that has gone has no expiry any more.     *)
LEMMA ServiceAsked ==
  ASSUME IndInv, AskedInv, UNCHANGED proc,
         \/ CrdGoes \/ AdmissionMoves \/ UNCHANGED vars
         \/ \E c \in Clusters : Lapse(c) \/ OperatorActs(c) \/ Kubernetes(c)
  PROVE  AskedInv'
<1>1. \A d \in Clusters : Ages(d) /\ (ns[d] = "unused" => ns'[d] = "unused")
  <2>1. ASSUME UNCHANGED <<ns, expiry>>
        PROVE  \A d \in Clusters : Ages(d) /\ (ns[d] = "unused" => ns'[d] = "unused")
    BY <2>1 DEF Ages, Expired
  <2>2. CASE CrdGoes \/ AdmissionMoves \/ UNCHANGED vars
    BY <2>1, <2>2 DEF CrdGoes, AdmissionMoves, vars, kube, spaces
  <2>3. ASSUME NEW c \in Clusters, OperatorActs(c) \/ NamespaceEmpties(c) \/ CrdEmpties(c)
        PROVE  UNCHANGED <<ns, expiry>>
    BY <2>3 DEF OperatorActs, NamespaceEmpties, CrdEmpties, spaces
  <2>4. ASSUME NEW c \in Clusters, Lapse(c)
        PROVE  \A d \in Clusters : Ages(d) /\ (ns[d] = "unused" => ns'[d] = "unused")
    <3>1. expiry[c] = "later" /\ ns' = ns /\ \A d \in Clusters : expiry'[d] = IF d = c THEN "passed" ELSE expiry[d]
      BY <2>4 DEF Lapse, IndInv, TypeOK
    <3> QED
      BY <3>1 DEF Ages, Expired, AskedInv
  <2>5. ASSUME NEW c \in Clusters, NamespaceGoes(c)
        PROVE  \A d \in Clusters : Ages(d) /\ (ns[d] = "unused" => ns'[d] = "unused")
    <3>1. /\ ns[c] = "terminating" /\ ns'[c] = "gone"
          /\ \A d \in Clusters \ {c} : ns'[d] = ns[d] /\ expiry'[d] = expiry[d]
      BY <2>5 DEF NamespaceGoes, IndInv, TypeOK
    <3> QED
      BY <3>1 DEF Ages, Expired
  <2> QED
    BY <2>1, <2>2, <2>3, <2>4, <2>5 DEF Kubernetes
<1>2. ASSUME NEW x \in Procs PROVE Asked(x)' /\ Fresh(x)'
  <2>1. Asked(x) /\ Fresh(x) /\ target[x] \in Clusters
    BY DEF AskedInv, IndInv, TypeOK
  <2> QED
    BY <1>1, <2>1, AskedStays DEF Fresh, proc
<1> QED
  BY <1>1, <1>2 DEF AskedInv, Ages

LEMMA PollAsked == ASSUME IndInv, AskedInv, Poll PROVE AskedInv'
<1>1. /\ UNCHANGED <<ns, expiry, op, target, todo, victims>>
      /\ \A x \in Procs : step'[x] = step[x] \/ step'[x] \in {"cng", "ok"}
  BY DEF Poll, spaces, AfterSettle
<1>2. \A x \in Procs : Asked(x)'
  BY <1>1 DEF AskedInv, Asked, Expired
<1>3. \A x \in Procs : Fresh(x)'
  BY <1>1 DEF AskedInv, Fresh
<1> QED
  BY <1>1, <1>2, <1>3 DEF AskedInv

LEMMA AskedInductive == IndInv /\ AskedInv /\ [Next]_vars => AskedInv'
<1> SUFFICES ASSUME IndInv, AskedInv, [Next]_vars PROVE AskedInv'
  OBVIOUS
<1>1. CASE CrdGoes \/ AdmissionMoves \/ UNCHANGED vars
  BY <1>1, ServiceAsked DEF CrdGoes, AdmissionMoves, vars
<1>2. ASSUME NEW c \in Clusters, Lapse(c) \/ OperatorActs(c) \/ Kubernetes(c) PROVE AskedInv'
  <2>1. UNCHANGED proc
    BY <1>2 DEF Lapse, OperatorActs, Kubernetes, NamespaceEmpties, NamespaceGoes, CrdEmpties
  <2> QED
    BY <1>2, <2>1, ServiceAsked
<1> QED
  BY <1>1, <1>2, PollAsked, RunAsked, BeginAsked DEF Next

(* A namespace begins to go only in one call.                                 *)
LEMMA OnlyDropDeletes ==
  ASSUME IndInv, [Next]_vars, NEW c \in Clusters, ns[c] = "active", ns'[c] = "terminating"
  PROVE  \E x \in Procs : DeleteNamespace(x) /\ target[x] = c
<1>1. ASSUME NEW x \in Procs, Run(x) PROVE DeleteNamespace(x) /\ target[x] = c
  <2>1. CASE DeleteNamespace(x)
    BY <2>1 DEF DeleteNamespace, IndInv, TypeOK
  <2>2. CASE CreateNamespace(x)
    BY <2>2 DEF CreateNamespace, IndInv, TypeOK
  <2>3. CASE ~ DeleteNamespace(x) /\ ~ CreateNamespace(x)
    <3>1. ns' = ns
      BY <1>1, <2>3 DEF Run, Allocate, Install, CreateCouchbaseCluster, FindGateway, WaitServiceHasEndpoints,
         UpdateCouchbaseClusterSpec, Ingresses, EnableIngresses, CngService, Expose, DisableIngresses,
         Delete, ListNamespaces, ForceDelete, WaitGone, Tools, DeleteCrds, CreateCrds, UninstallAdmission,
         DeleteHome, WaitHomeGone, CreateHome, CreateAdmission, WaitAdmission, Fail, kube, spaces
    <3> QED
      BY <3>1
  <2> QED
    BY <2>1, <2>2, <2>3
<1>2. ASSUME NEW d \in Clusters, Lapse(d) \/ OperatorActs(d) \/ NamespaceEmpties(d) \/ CrdEmpties(d)
      PROVE  ns' = ns
  BY <1>2 DEF Lapse, OperatorActs, NamespaceEmpties, CrdEmpties, spaces
<1>3. ASSUME NEW d \in Clusters, NamespaceGoes(d) PROVE FALSE
  BY <1>3 DEF NamespaceGoes, IndInv, TypeOK
<1>4. CASE CrdGoes \/ AdmissionMoves \/ Poll \/ UNCHANGED vars
           \/ \E x \in Procs, o \in Ops, fails \in BOOLEAN : Begin(x, o, fails)
  BY <1>4 DEF CrdGoes, AdmissionMoves, Poll, vars, Begin, kube, spaces
<1> QED
  BY <1>1, <1>2, <1>3, <1>4 DEF Next, Kubernetes

(* What a removal, a removal of all and a cleanup may delete.                 *)
DeletesWhatWasAsked ==
  [][\A c \in Clusters : ns[c] = "active" /\ ns'[c] = "terminating" =>
       \E x \in Procs :
         /\ At(x, "drop") /\ target[x] = c
         /\ \/ op[x] = "removeall"
            \/ op[x] = "remove" /\ victims[x] = {c}
            \/ op[x] = "cleanup" /\ expiry[c] = "passed"]_vars

(* However long ago a command has listed the namespaces, and whatever others  *)
(* have done since: a cleanup deletes a namespace only if its expiry has      *)
(* passed, and a removal nothing but the one that it was given.               *)
THEOREM OnlyWhatWasAsked == Spec => DeletesWhatWasAsked
<1>1. Init => AskedInv
  <2> SUFFICES ASSUME Init PROVE AskedInv
    OBVIOUS
  <2>1. \A c \in Clusters : ns[c] = "unused" => expiry[c] = "none"
    BY DEF Init
  <2>2. \A x \in Procs : step[x] = "idle"
    BY DEF Init
  <2> QED
    BY <2>1, <2>2 DEF AskedInv, Asked, Fresh
<1>2. IndInv /\ AskedInv /\ [Next]_vars => AskedInv'
  BY AskedInductive
<1>3. ASSUME IndInv, AskedInv, [Next]_vars,
             NEW c \in Clusters, ns[c] = "active", ns'[c] = "terminating"
      PROVE  \E x \in Procs :
               /\ At(x, "drop") /\ target[x] = c
               /\ \/ op[x] = "removeall"
                  \/ op[x] = "remove" /\ victims[x] = {c}
                  \/ op[x] = "cleanup" /\ expiry[c] = "passed"
  <2>1. PICK x \in Procs : DeleteNamespace(x) /\ target[x] = c
    BY <1>3, OnlyDropDeletes
  <2>2. At(x, "drop")
    BY <2>1 DEF DeleteNamespace
  <2>3. Asked(x) /\ step[x] = "drop"
    BY <1>3, <2>2 DEF AskedInv, At
  <2>4. c \in victims[x] /\ ns[c] # "gone"
    BY <1>3, <2>1, <2>3 DEF Asked
  <2> QED
    BY <2>1, <2>2, <2>3, <2>4 DEF Asked, Expired
<1>4. IndInv /\ AskedInv /\ [Next]_vars =>
        [\A c \in Clusters : ns[c] = "active" /\ ns'[c] = "terminating" =>
           \E x \in Procs :
             /\ At(x, "drop") /\ target[x] = c
             /\ \/ op[x] = "removeall"
                \/ op[x] = "remove" /\ victims[x] = {c}
                \/ op[x] = "cleanup" /\ expiry[c] = "passed"]_vars
  BY <1>3
<1> QED
  BY <1>1, <1>2, <1>4, Invariance, PTL DEF Spec, DeletesWhatWasAsked
=============================================================================
