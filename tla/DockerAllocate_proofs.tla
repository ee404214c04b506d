------------------------ MODULE DockerAllocate_proofs ------------------------
(***************************************************************************)
(* Proofs about DockerAllocate, for every set of nodes and every set of    *)
(* definitions.                                                            *)
(***************************************************************************)
EXTENDS DockerAllocate, FiniteSetTheorems, SequenceTheorems, TLAPS

-----------------------------------------------------------------------------
(* The inductive invariant.                                                *)

Early == {"s3mock", "nginx", "haproxy", "images"}
Collected == {"configure", "setup", "auth"}

\* The allocation has not failed so far, or has succeeded.
OnCourse == main \in Early \union {"collect"} \union Collected \/ result = "ok"

\* The result is there only at the end, and tells failure from success.
ResultInv ==
    /\ main \in Early \union {"collect"} \union Collected => result = "none"
    /\ main \in {"cleanupList", "cleanup"} => result = "err"
    /\ main = "exited" => result # "none"

\* Where the goroutines can be while main is at each place.
WorkerInv ==
    /\ main \in Early => \A n \in Node : worker[n] = "idle"
    /\ main \in Collected => \A n \in Node : worker[n] = "done"
    /\ result = "ok" => \A n \in Node : worker[n] = "done"

\* A node has no container before its goroutine creates one.
FreshInv == \A n \in Node : worker[n] \in {"idle", "create"} => box[n] = "absent"

\* What a goroutine has achieved, as long as nothing is being taken down.
NodeBoxInv ==
    OnCourse =>
        \A n \in Node :
            /\ worker[n] = "write" => box[n] = "running"
            /\ worker[n] \in {"find", "online", "load", "store", "sendOk", "done"}
                   => box[n] = "running" /\ record[n] = NewRecord

AuxReady(c, wanted) ==
    IF wanted THEN box[c] = "running" /\ record[c] = NewRecord
              ELSE box[c] = "absent"

\* The auxiliary containers come up in a fixed order.
AuxBoxInv ==
    OnCourse =>
        /\ IF main = "s3mock" THEN box[S3Mock] = "absent"
           ELSE AuxReady(S3Mock, def.columnar)
        /\ IF main \in {"s3mock", "nginx"} THEN box[Nginx] = "absent"
           ELSE AuxReady(Nginx, def.passive)
        /\ IF main \in {"s3mock", "nginx", "haproxy"} THEN box[Haproxy] = "absent"
           ELSE AuxReady(Haproxy, def.active)

\* The goroutine of n has written the slice back.
Appended(n) == worker[n] \in {"sendOk", "done"}

\* The slice of a goroutine about to write it back obeys the rules of the
\* shared slice; the goroutine itself is in neither.
SliceInv ==
    /\ NodesAppendedOnce
    /\ \A n \in Node : worker[n] = "store" =>
          /\ IsInjective(header[n])
          /\ \A m \in Range(header[n]) : Appended(m)

\* One append is enough for the slice never to be empty again.
SomeNodeInv ==
    (\E n \in Node : worker[n] = "sendOk" \/ (worker[n] = "done" /\ OnCourse))
        => nodes # <<>>

\* Once cleanupNodes has listed the host, a container it is not going to remove
\* is one whose goroutine has created it since.
Straggling(c) == c \in Node /\ worker[c] \notin {"idle", "create", "done"}

StragglerInv ==
    /\ cleaned => main \in {"cleanup", "exited"}
    /\ cleaned /\ main = "exited" /\ result = "err" =>
          listed = {} \/ missed = Container
    /\ cleaned => \A c \in Container \ missed :
          box[c] # "absent" => c \in listed \/ Straggling(c)

IndInv ==
    /\ ResultInv /\ WorkerInv /\ FreshInv /\ NodeBoxInv /\ AuxBoxInv
    /\ SliceInv /\ SomeNodeInv /\ StragglerInv

-----------------------------------------------------------------------------
(* Type correctness.                                                       *)

\* A function on an initial segment of the naturals is a sequence.
LEMMA FunctionIsSeq ==
    ASSUME NEW S, NEW k \in Nat, NEW f \in [1 .. k -> S]
    PROVE  f \in Seq(S) /\ Len(f) = k
<1>1. f \in Seq(S)
  BY SeqDef, Zenon
<1> QED
  BY <1>1, LenProperties

\* Every reachable state of DockerAllocate is well typed.
THEOREM TypeCorrect == Spec => []TypeOK
<1>1. Init => TypeOK
  <2>1. <<>> \in Seq(Node)
    BY EmptySeq
  <2> QED
    BY <2>1 DEF Init, TypeOK, MainStates, WorkerStates
<1>2. TypeOK /\ [Next]_vars => TypeOK'
  <2> SUFFICES ASSUME TypeOK, [Next]_vars PROVE TypeOK'
    OBVIOUS
  <2> USE DEF TypeOK, MainStates, WorkerStates
  <2>1. CASE Reject
    BY <2>1 DEF Reject, hostVars, sliceVars, cleanupVars
  <2>2. ASSUME NEW c \in Aux, NEW wanted, NEW here, NEW next \in MainStates,
               DeployAux(here, wanted, c, next)
        PROVE  TypeOK'
    <3>1. c \in Container
      BY DEF Container
    <3>2. \A left \in Partial : /\ left[1] \in {"absent", "created", "running"}
                               /\ left[2] \in {"none", "dated", "forever"}
      BY DEF Partial, NewRecord
    <3>3. /\ box' \in [Container -> {"absent", "created", "running"}]
          /\ record' \in [Container -> {"none", "dated", "forever"}]
      BY <2>2, <3>1, <3>2 DEF DeployAux, hostVars, NewRecord
    <3>4. main' \in MainStates /\ result' \in {"none", "ok", "err", "killed"}
      BY <2>2 DEF DeployAux
    <3> QED
      BY <2>2, <3>3, <3>4 DEF DeployAux, sliceVars, cleanupVars
  <2>3. CASE DeployS3MockNode \/ DeployNginxNode \/ DeployHaproxyNode
    BY <2>2, <2>3 DEF DeployS3MockNode, DeployNginxNode, DeployHaproxyNode, Aux
  <2>4. CASE GetImages
    BY <2>4 DEF GetImages, hostVars, sliceVars, cleanupVars
  <2>5. ASSUME NEW n \in Node, Deploy(n)
        PROVE  TypeOK'
    <3> USE DEF Advance, hostVars, sliceVars, cleanupVars
    <3>1. CASE ContainerCreate(n)
      BY <3>1 DEF ContainerCreate, Container
    <3>2. CASE ContainerStart(n)
      BY <3>2 DEF ContainerStart, Container
    <3>3. CASE WriteNodeState(n)
      BY <3>3 DEF WriteNodeState, NewRecord, Container
    <3>4. CASE FindContainer(n)
      BY <3>4 DEF FindContainer
    <3>5. CASE WaitForOnline(n)
      BY <3>5 DEF WaitForOnline
    <3>6. CASE DeployFails(n)
      BY <3>6 DEF DeployFails
    <3>7. CASE LoadSlice(n)
      BY <3>7 DEF LoadSlice
    <3>8. CASE StoreSlice(n)
      <4>1. header[n] \in Seq(Node)
        OBVIOUS
      <4>2. Append(header[n], n) \in Seq(Node)
        BY <4>1, AppendProperties
      <4>3. nodes' \in Seq(Node) /\ header' \in [Node -> Seq(Node)]
        BY <3>8, <4>2 DEF StoreSlice
      <4> QED
        BY <3>8, <4>3 DEF StoreSlice
    <3> QED
      BY <2>5, <3>1, <3>2, <3>3, <3>4, <3>5, <3>6, <3>7, <3>8 DEF Deploy
  <2>6. ASSUME NEW n \in Node, ReceiveOk(n) \/ ReceiveErr(n)
        PROVE  TypeOK'
    BY <2>6 DEF ReceiveOk, ReceiveErr, hostVars, sliceVars, cleanupVars
  <2>7. CASE Configure \/ Finish \/ FailLate \/ Kill \/ CleanupDone
    BY <2>7 DEF Configure, Finish, FailLate, Kill, CleanupDone, hostVars,
                sliceVars, cleanupVars
  <2>8. CASE SetupNewCluster
    <3>1. PICK order \in [DOMAIN nodes -> Node] : joined' = order
      BY <2>8 DEF SetupNewCluster
    <3>2. joined' \in Seq(Node)
      <4>1. Len(nodes) \in Nat /\ DOMAIN nodes = 1 .. Len(nodes)
        BY LenProperties
      <4> QED
        BY <3>1, <4>1, FunctionIsSeq
    <3> QED
      BY <2>8, <3>2 DEF SetupNewCluster, hostVars, sliceVars, cleanupVars
  <2>9. CASE CleanupList
    BY <2>9 DEF CleanupList, hostVars, sliceVars
  <2>10. ASSUME NEW c \in Container, CleanupRemove(c)
         PROVE  TypeOK'
    BY <2>10 DEF CleanupRemove, sliceVars
  <2>11. CASE UNCHANGED vars
    BY <2>11 DEF vars
  <2> QED
    BY <2>1, <2>3, <2>4, <2>5, <2>6, <2>7, <2>8, <2>9, <2>10, <2>11
       DEF Next, Main, Exited
<1> QED
  BY <1>1, <1>2, PTL DEF Spec

-----------------------------------------------------------------------------
(* The inductive invariant is preserved, part by part.                     *)

\* Next, with one name for the steps of an auxiliary deployment.
LEMMA NextCases ==
    ASSUME [Next]_vars
    PROVE  \/ Reject
           \/ DeployAux("s3mock", def.columnar, S3Mock, "nginx")
           \/ DeployAux("nginx", def.passive, Nginx, "haproxy")
           \/ DeployAux("haproxy", def.active, Haproxy, "images")
           \/ GetImages
           \/ \E n \in Node : Deploy(n)
           \/ \E n \in Node : ReceiveOk(n)
           \/ \E n \in Node : ReceiveErr(n)
           \/ Configure \/ SetupNewCluster \/ Finish \/ FailLate \/ Kill
           \/ CleanupList
           \/ \E c \in Container : CleanupRemove(c)
           \/ CleanupDone
           \/ UNCHANGED vars
BY DEF Next, Main, Exited, DeployS3MockNode, DeployNginxNode, DeployHaproxyNode

\* A step of a node goroutine leaves main and the result alone.
LEMMA DeployKeeps ==
    ASSUME NEW n \in Node, TypeOK, Deploy(n)
    PROVE  /\ main # "exited"
           /\ UNCHANGED <<def, main, listed, missed, cleaned, joined, result>>
           /\ \A m \in Node \ {n} : worker'[m] = worker[m]
           /\ \A c \in Container \ {n} : box'[c] = box[c] /\ record'[c] = record[c]
           /\ worker[n] \in {"create", "start", "write", "find", "online",
                             "load", "store"}
           /\ worker'[n] \in {"start", "write", "find", "online", "load",
                              "store", "sendOk", "sendErr"}
BY DEF Deploy, ContainerCreate, ContainerStart, WriteNodeState, FindContainer,
       WaitForOnline, DeployFails, LoadSlice, StoreSlice, Advance, Running,
       cleanupVars, hostVars, sliceVars, TypeOK, Container

LEMMA ResultStep ==
    ASSUME TypeOK, ResultInv, [Next]_vars
    PROVE  ResultInv'
<1> USE DEF ResultInv, Early, Collected
<1>1. CASE \E n \in Node : Deploy(n)
  BY <1>1, DeployKeeps
<1>2. CASE Reject \/ GetImages \/ Configure \/ SetupNewCluster \/ Finish
           \/ FailLate \/ Kill \/ CleanupList \/ CleanupDone
  BY <1>2 DEF Reject, GetImages, Configure, SetupNewCluster, Finish, FailLate,
              Kill, CleanupList, CleanupDone, Running
<1>3. CASE (\E n \in Node : ReceiveOk(n) \/ ReceiveErr(n))
           \/ \E c \in Container : CleanupRemove(c)
  BY <1>3 DEF ReceiveOk, ReceiveErr, CleanupRemove
<1>4. ASSUME NEW here, NEW wanted, NEW c, NEW next \in Early,
             here \in Early, DeployAux(here, wanted, c, next)
      PROVE  ResultInv'
  BY <1>4 DEF DeployAux
<1>5. CASE UNCHANGED vars
  BY <1>5 DEF vars
<1> QED
  BY <1>1, <1>2, <1>3, <1>4, <1>5, NextCases

LEMMA WorkerStep ==
    ASSUME TypeOK, ResultInv, WorkerInv, [Next]_vars
    PROVE  WorkerInv'
<1> USE DEF WorkerInv, ResultInv, Early, Collected
<1>1. CASE \E n \in Node : Deploy(n)
  BY <1>1, DeployKeeps
<1>2. CASE Reject \/ Configure \/ SetupNewCluster \/ Finish
           \/ FailLate \/ Kill \/ CleanupList \/ CleanupDone
  BY <1>2 DEF Reject, Configure, SetupNewCluster, Finish, FailLate, Kill,
              CleanupList, CleanupDone, Running
<1>3. CASE GetImages
  BY <1>3 DEF GetImages
<1>4. ASSUME NEW n \in Node, ReceiveOk(n)
      PROVE  WorkerInv'
  BY <1>4 DEF ReceiveOk, TypeOK
<1>5. CASE (\E n \in Node : ReceiveErr(n)) \/ \E c \in Container : CleanupRemove(c)
  BY <1>5 DEF ReceiveErr, CleanupRemove
<1>6. ASSUME NEW here, NEW wanted, NEW c, NEW next \in Early,
             here \in Early, DeployAux(here, wanted, c, next)
      PROVE  WorkerInv'
  BY <1>6 DEF DeployAux
<1>7. CASE UNCHANGED vars
  BY <1>7 DEF vars
<1> QED
  BY <1>1, <1>2, <1>3, <1>4, <1>5, <1>6, <1>7, NextCases

LEMMA FreshStep ==
    ASSUME TypeOK, WorkerInv, FreshInv, [Next]_vars
    PROVE  FreshInv'
<1> SUFFICES ASSUME NEW n \in Node, worker'[n] \in {"idle", "create"}
             PROVE  box'[n] = "absent"
  BY DEF FreshInv
<1> USE DEF FreshInv
<1>1. ASSUME NEW m \in Node, Deploy(m)
      PROVE  box'[n] = "absent"
  <2>1. m # n /\ worker'[n] = worker[n] /\ box'[n] = box[n]
    BY <1>1, DeployKeeps DEF Container
  <2> QED
    BY <2>1
<1>2. CASE GetImages
  BY <1>2 DEF GetImages, WorkerInv, Early, hostVars
<1>3. ASSUME NEW m \in Node, ReceiveOk(m) \/ ReceiveErr(m)
      PROVE  box'[n] = "absent"
  BY <1>3 DEF ReceiveOk, ReceiveErr, hostVars, TypeOK
<1>4. ASSUME NEW c \in Container, CleanupRemove(c)
      PROVE  box'[n] = "absent"
  BY <1>4, NodeAssumption DEF CleanupRemove, TypeOK, Container, Aux
<1>5. CASE Reject \/ Configure \/ SetupNewCluster \/ Finish
           \/ FailLate \/ Kill \/ CleanupList \/ CleanupDone
  BY <1>5 DEF Reject, Configure, SetupNewCluster, Finish, FailLate, Kill,
              CleanupList, CleanupDone, hostVars
<1>6. ASSUME NEW c \in Aux, NEW here, NEW wanted, NEW next,
             DeployAux(here, wanted, c, next)
      PROVE  box'[n] = "absent"
  BY <1>6, NodeAssumption DEF DeployAux, TypeOK, Container, hostVars
<1>7. CASE UNCHANGED vars
  BY <1>7 DEF vars
<1> QED
  BY <1>1, <1>2, <1>3, <1>4, <1>5, <1>6, <1>7, NextCases DEF Aux

LEMMA NodeBoxStep ==
    ASSUME TypeOK, ResultInv, WorkerInv, NodeBoxInv, [Next]_vars
    PROVE  NodeBoxInv'
<1> SUFFICES ASSUME OnCourse', NEW n \in Node
             PROVE  /\ worker'[n] = "write" => box'[n] = "running"
                    /\ worker'[n] \in {"find", "online", "load", "store",
                                       "sendOk", "done"}
                           => box'[n] = "running" /\ record'[n] = NewRecord'
  BY DEF NodeBoxInv
<1> USE DEF OnCourse, ResultInv, WorkerInv, NodeBoxInv, Early, Collected
<1>1. ASSUME NEW m \in Node, Deploy(m), m # n
      PROVE  UNCHANGED <<worker[n], box[n], record[n], def, main, result>>
  BY <1>1, DeployKeeps DEF Container
<1>2. CASE \E m \in Node : Deploy(m) /\ m # n
  BY <1>1, <1>2 DEF NewRecord
<1>3. CASE Deploy(n)
  BY <1>3 DEF Deploy, ContainerCreate, ContainerStart, WriteNodeState,
              FindContainer, WaitForOnline, DeployFails, LoadSlice, StoreSlice,
              Advance, cleanupVars, hostVars, sliceVars, TypeOK, Container,
              NewRecord, Running
<1>4. CASE Reject \/ Configure \/ SetupNewCluster \/ Finish
           \/ FailLate \/ Kill \/ CleanupList \/ CleanupDone
  BY <1>4 DEF Reject, Configure, SetupNewCluster, Finish, FailLate, Kill,
              CleanupList, CleanupDone, Running, hostVars, NewRecord
<1>5. CASE GetImages
  BY <1>5 DEF GetImages, hostVars, NewRecord
<1>6. ASSUME NEW m \in Node, ReceiveOk(m)
      PROVE  /\ worker[n] # worker'[n] => worker[n] = "sendOk" /\ worker'[n] = "done"
             /\ UNCHANGED <<box, record, def, result>>
             /\ main = "collect"
  BY <1>6 DEF ReceiveOk, TypeOK, hostVars
<1>7. CASE \E m \in Node : ReceiveOk(m)
  BY <1>6, <1>7 DEF NewRecord
<1>8. CASE (\E m \in Node : ReceiveErr(m)) \/ \E c \in Container : CleanupRemove(c)
  BY <1>8 DEF ReceiveErr, CleanupRemove
<1>9. ASSUME NEW c \in Aux, NEW here \in Early, NEW wanted, NEW next \in Early,
             DeployAux(here, wanted, c, next)
      PROVE  UNCHANGED <<worker, box[n], record[n], def>> /\ main \in Early
  BY <1>9, NodeAssumption DEF DeployAux, hostVars, TypeOK, Container
<1>10. CASE \/ DeployAux("s3mock", def.columnar, S3Mock, "nginx")
            \/ DeployAux("nginx", def.passive, Nginx, "haproxy")
            \/ DeployAux("haproxy", def.active, Haproxy, "images")
  BY <1>9, <1>10 DEF Aux
<1>11. CASE UNCHANGED vars
  BY <1>11 DEF vars, NewRecord
<1> QED
  BY <1>2, <1>3, <1>4, <1>5, <1>7, <1>8, <1>10, <1>11, NextCases

\* Only a step that deploys or removes an auxiliary container touches it.
LEMMA AuxUntouched ==
    ASSUME TypeOK, OnCourse', ResultInv, NEW c \in Aux, [Next]_vars,
           main \notin {"s3mock", "nginx", "haproxy"}
    PROVE  UNCHANGED <<box[c], record[c], def>> /\ OnCourse
           /\ main' \notin {"s3mock", "nginx", "haproxy"}
<1> USE DEF OnCourse, ResultInv, Early, Collected
<1>1. CASE \E n \in Node : Deploy(n)
  <2>1. PICK n \in Node : Deploy(n)
    BY <1>1
  <2>2. c \in Container \ {n}
    BY NodeAssumption DEF Container
  <2> QED
    BY <2>1, <2>2, DeployKeeps
<1>2. CASE Reject \/ Configure \/ SetupNewCluster \/ Finish \/ GetImages
           \/ FailLate \/ Kill \/ CleanupList \/ CleanupDone
  BY <1>2 DEF Reject, Configure, SetupNewCluster, Finish, GetImages, FailLate,
              Kill, CleanupList, CleanupDone, Running, hostVars
<1>3. CASE \/ \E n \in Node : ReceiveOk(n) \/ ReceiveErr(n)
           \/ \E b \in Container : CleanupRemove(b)
  BY <1>3 DEF ReceiveOk, ReceiveErr, CleanupRemove, hostVars
<1>4. CASE UNCHANGED vars
  BY <1>4 DEF vars
<1>5. CASE \/ DeployAux("s3mock", def.columnar, S3Mock, "nginx")
           \/ DeployAux("nginx", def.passive, Nginx, "haproxy")
           \/ DeployAux("haproxy", def.active, Haproxy, "images")
  BY <1>5 DEF DeployAux
<1> QED
  BY <1>1, <1>2, <1>3, <1>4, <1>5, NextCases

LEMMA AuxBoxStep ==
    ASSUME TypeOK, ResultInv, AuxBoxInv, [Next]_vars
    PROVE  AuxBoxInv'
<1> SUFFICES ASSUME OnCourse' PROVE AuxBoxInv'
  BY DEF AuxBoxInv
<1> USE DEF AuxBoxInv, AuxReady, NewRecord
<1>1. CASE main \notin {"s3mock", "nginx", "haproxy"}
  BY <1>1, AuxUntouched DEF Aux
<1>2. CASE main \in {"s3mock", "nginx", "haproxy"}
  <2> USE NodeAssumption DEF OnCourse, ResultInv, Early, Collected
  <2>1. ASSUME NEW here, NEW wanted \in BOOLEAN, NEW c \in Aux, NEW next \in Early,
               DeployAux(here, wanted, c, next)
        PROVE  /\ main' = next \/ (main' = "exited" /\ result' = "err")
               /\ main' = next => AuxReady(c, wanted)' \/ (~wanted /\ UNCHANGED <<box, record>>)
               /\ \A b \in Aux \ {c} : UNCHANGED <<box[b], record[b]>>
               /\ UNCHANGED def
    BY <2>1 DEF DeployAux, TypeOK, Container, hostVars, AuxReady
  <2>2. def.columnar \in BOOLEAN /\ def.passive \in BOOLEAN /\ def.active \in BOOLEAN
    BY DefsAssumption DEF TypeOK, DefRecords
  <2>3. CASE DeployAux("s3mock", def.columnar, S3Mock, "nginx")
    BY <2>1, <2>2, <2>3 DEF Aux, DeployAux
  <2>4. CASE DeployAux("nginx", def.passive, Nginx, "haproxy")
    BY <2>1, <2>2, <2>4 DEF Aux, DeployAux
  <2>5. CASE DeployAux("haproxy", def.active, Haproxy, "images")
    BY <2>1, <2>2, <2>5 DEF Aux, DeployAux
  <2>6. CASE \E n \in Node : Deploy(n)
    BY <2>6, DeployKeeps DEF Container, Aux
  <2>7. CASE UNCHANGED vars
    BY <2>7 DEF vars
  <2>8. CASE Reject \/ Kill
    BY <1>2, <2>8 DEF Reject, Kill
  <2> QED
    BY <1>2, <2>3, <2>4, <2>5, <2>6, <2>7, <2>8, NextCases
       DEF GetImages, ReceiveOk, ReceiveErr, Configure, SetupNewCluster, Finish,
           FailLate, CleanupList, CleanupRemove, CleanupDone
<1> QED
  BY <1>1, <1>2

\* Appending a newcomer to an injective sequence keeps it injective.
LEMMA AppendNewcomer ==
    ASSUME NEW S, NEW seq \in Seq(S), NEW e \in S, IsInjective(seq),
           e \notin Range(seq)
    PROVE  /\ IsInjective(Append(seq, e))
           /\ Range(Append(seq, e)) = Range(seq) \union {e}
<1> DEFINE app == Append(seq, e)
<1>1. /\ Len(seq) \in Nat
      /\ DOMAIN seq = 1 .. Len(seq)
      /\ DOMAIN app = 1 .. Len(seq) + 1
      /\ \A i \in 1 .. Len(seq) : app[i] = seq[i]
      /\ app[Len(seq) + 1] = e
  BY LenProperties, AppendProperties
<1>2. \A i \in 1 .. Len(seq) : app[i] # e
  BY <1>1 DEF Range
<1>3. ASSUME NEW i \in 1 .. Len(seq) + 1, NEW j \in 1 .. Len(seq) + 1, app[i] = app[j]
      PROVE  i = j
  <2>1. CASE i = Len(seq) + 1
    BY <1>1, <1>2, <1>3, <2>1
  <2>2. CASE j = Len(seq) + 1
    BY <1>1, <1>2, <1>3, <2>2
  <2>3. CASE i \in 1 .. Len(seq) /\ j \in 1 .. Len(seq)
    BY <1>1, <1>3, <2>3 DEF IsInjective
  <2> QED
    BY <1>1, <2>1, <2>2, <2>3
<1>4. IsInjective(app)
  BY <1>1, <1>3 DEF IsInjective
<1>5. Range(app) = Range(seq) \union {e}
  <2> HIDE DEF app
  <2>1. ASSUME NEW x \in Range(app) PROVE x \in Range(seq) \union {e}
    <3>1. PICK i \in 1 .. Len(seq) + 1 : x = app[i]
      BY <1>1, <2>1 DEF Range
    <3> QED
      BY <1>1, <3>1 DEF Range
  <2>2. ASSUME NEW x \in Range(seq) PROVE x \in Range(app)
    <3>1. PICK i \in 1 .. Len(seq) : x = seq[i]
      BY <1>1, <2>2 DEF Range
    <3>2. i \in DOMAIN app /\ x = app[i]
      BY <1>1, <3>1
    <3> QED
      BY <3>2 DEF Range
  <2>3. e \in Range(app)
    BY <1>1 DEF Range
  <2> QED
    BY <2>1, <2>2, <2>3
<1> QED
  BY <1>4, <1>5

\* Where no append is under way, the slices stay sound.
LEMMA SliceKept ==
    ASSUME TypeOK, SliceInv, UNCHANGED <<nodes, header>>,
           \A m \in Node : worker'[m] = "store" => worker[m] = "store",
           \A m \in Node : worker[m] \in {"sendOk", "done"}
                              => worker'[m] \in {"sendOk", "done"}
    PROVE  SliceInv'
<1>1. Range(nodes) \subseteq Node /\ \A n \in Node : Range(header[n]) \subseteq Node
  BY LenProperties DEF TypeOK, Range
<1> QED
  BY <1>1 DEF SliceInv, NodesAppendedOnce, Appended

\* An append writes back the slice the goroutine read, and itself.
LEMMA SliceStep ==
    ASSUME TypeOK, ResultInv, WorkerInv, SliceInv, [Next]_vars
    PROVE  SliceInv'
<1>1. ASSUME NEW n \in Node, Deploy(n)
      PROVE  SliceInv'
  <2>1. CASE LoadSlice(n)
    <3>1. /\ nodes' = nodes /\ header' = [header EXCEPT ![n] = nodes]
          /\ worker[n] = "load" /\ worker' = [worker EXCEPT ![n] = "store"]
      BY <2>1 DEF LoadSlice, Advance
    <3>2. Range(nodes) \subseteq Node /\ \A m \in Node : Range(header[m]) \subseteq Node
      BY LenProperties DEF TypeOK, Range
    <3>3. \A m \in Node : Appended(m) => m # n /\ Appended(m)'
      BY <3>1 DEF TypeOK, Appended
    <3>4. NodesAppendedOnce'
      BY <3>1, <3>2, <3>3 DEF SliceInv, NodesAppendedOnce, Appended
    <3>5. ASSUME NEW m \in Node, worker'[m] = "store"
          PROVE  IsInjective(header'[m]) /\ \A k \in Range(header'[m]) : Appended(k)'
      <4>1. CASE m = n
        BY <3>1, <3>2, <3>3, <4>1 DEF SliceInv, NodesAppendedOnce, TypeOK, Appended
      <4>2. CASE m # n
        BY <3>1, <3>2, <3>3, <3>5, <4>2 DEF SliceInv, TypeOK, Appended
      <4> QED
        BY <4>1, <4>2
    <3> QED
      BY <3>4, <3>5 DEF SliceInv
  <2>2. CASE StoreSlice(n)
    <3>1. /\ nodes' = Append(header[n], n) /\ header' = [header EXCEPT ![n] = <<>>]
          /\ worker[n] = "store" /\ worker' = [worker EXCEPT ![n] = "sendOk"]
      BY <2>2 DEF StoreSlice, Advance
    <3>2. \A m \in Node : Range(header[m]) \subseteq Node
      BY LenProperties DEF TypeOK, Range
    <3>3. \A m \in Node : Appended(m) => m # n /\ Appended(m)'
      BY <3>1 DEF TypeOK, Appended
    <3>4. n \notin Range(header[n])
      BY <3>1 DEF SliceInv, Appended
    <3>5. IsInjective(nodes') /\ Range(nodes') = Range(header[n]) \union {n}
      <4>1. header[n] \in Seq(Node) /\ IsInjective(header[n])
        BY <3>1 DEF SliceInv, TypeOK, Appended
      <4> QED
        BY <3>1, <3>4, <4>1, AppendNewcomer
    <3>6. \A m \in Range(nodes') : Appended(m)'
      BY <3>1, <3>2, <3>3, <3>5 DEF SliceInv, TypeOK, Appended
    <3>7. \A m \in Node : worker'[m] = "store" => m # n /\ worker[m] = "store"
                                                /\ header'[m] = header[m]
      BY <3>1 DEF TypeOK, Appended
    <3>8. \A m \in Node : worker'[m] = "store" =>
              IsInjective(header'[m]) /\ \A k \in Range(header'[m]) : Appended(k)'
      BY <3>2, <3>3, <3>7 DEF SliceInv
    <3> QED
      BY <3>5, <3>6, <3>8 DEF SliceInv, NodesAppendedOnce, Appended
  <2>3. CASE \/ ContainerCreate(n) \/ ContainerStart(n) \/ WriteNodeState(n)
             \/ FindContainer(n) \/ WaitForOnline(n) \/ DeployFails(n)
    <3>1. /\ UNCHANGED <<nodes, header>>
          /\ \A m \in Node : worker'[m] = "store" => worker[m] = "store"
          /\ \A m \in Node : worker[m] \in {"sendOk", "done"}
                                => worker'[m] \in {"sendOk", "done"}
      BY <2>3 DEF ContainerCreate, ContainerStart, WriteNodeState, FindContainer,
                  WaitForOnline, DeployFails, Advance, sliceVars, TypeOK
    <3> QED
      BY <3>1, SliceKept
  <2> QED
    BY <1>1, <2>1, <2>2, <2>3 DEF Deploy
<1>2. CASE GetImages
  <2>1. \A n \in Node : worker[n] = "idle"
    BY <1>2 DEF GetImages, WorkerInv, Early
  <2>2. UNCHANGED <<nodes, header>> /\ \A n \in Node : worker'[n] # "store"
    BY <1>2, <2>1 DEF GetImages, sliceVars
  <2> QED
    BY <2>1, <2>2, SliceKept
<1>3. CASE ~GetImages /\ ~\E n \in Node : Deploy(n)
  <2>1. /\ UNCHANGED <<nodes, header>>
        /\ \A m \in Node : worker'[m] = "store" => worker[m] = "store"
        /\ \A m \in Node : worker[m] \in {"sendOk", "done"}
                              => worker'[m] \in {"sendOk", "done"}
    BY <1>3, NextCases
       DEF Reject, DeployAux, ReceiveOk, ReceiveErr, Configure, SetupNewCluster,
           Finish, FailLate, Kill, CleanupList, CleanupRemove, CleanupDone,
           sliceVars, vars, TypeOK
  <2> QED
    BY <2>1, SliceKept
<1> QED
  BY <1>1, <1>2, <1>3

LEMMA SomeNodeStep ==
    ASSUME TypeOK, ResultInv, WorkerInv, SomeNodeInv, [Next]_vars
    PROVE  SomeNodeInv'
<1> USE DEF SomeNodeInv, OnCourse, ResultInv, WorkerInv, Early, Collected
<1>1. ASSUME NEW n \in Node, Deploy(n)
      PROVE  SomeNodeInv'
  <2>1. CASE StoreSlice(n)
    <3>1. header[n] \in Seq(Node)
      BY DEF TypeOK
    <3>2. nodes' # <<>>
      BY <2>1, <3>1, AppendProperties DEF StoreSlice
    <3> QED
      BY <3>2
  <2>2. CASE ~StoreSlice(n)
    <3>1. UNCHANGED <<nodes, main, result>>
      BY <1>1, <2>2 DEF Deploy, ContainerCreate, ContainerStart, WriteNodeState,
            FindContainer, WaitForOnline, DeployFails, LoadSlice, Advance, sliceVars
    <3>2. \A m \in Node : worker'[m] \in {"sendOk", "done"} => worker'[m] = worker[m]
      BY <1>1, <2>2 DEF Deploy, ContainerCreate, ContainerStart, WriteNodeState,
            FindContainer, WaitForOnline, DeployFails, LoadSlice, Advance, TypeOK
    <3> QED
      BY <3>1, <3>2
  <2> QED
    BY <2>1, <2>2
<1>2. CASE GetImages
  BY <1>2 DEF GetImages
<1>3. ASSUME NEW n \in Node, ReceiveOk(n) \/ ReceiveErr(n)
      PROVE  SomeNodeInv'
  BY <1>3 DEF ReceiveOk, ReceiveErr, sliceVars, TypeOK
<1>4. CASE Reject \/ Configure \/ SetupNewCluster \/ Finish
           \/ FailLate \/ Kill \/ CleanupList \/ CleanupDone
  BY <1>4 DEF Reject, Configure, SetupNewCluster, Finish, FailLate, Kill,
              CleanupList, CleanupDone, Running, sliceVars
<1>5. CASE \E c \in Container : CleanupRemove(c)
  BY <1>5 DEF CleanupRemove, sliceVars
<1>6. ASSUME NEW here \in Early, NEW wanted, NEW c, NEW next,
             DeployAux(here, wanted, c, next)
      PROVE  SomeNodeInv'
  BY <1>6 DEF DeployAux, sliceVars
<1>7. CASE UNCHANGED vars
  BY <1>7 DEF vars
<1> QED
  BY <1>1, <1>2, <1>3, <1>4, <1>5, <1>6, <1>7, NextCases

LEMMA StragglerStep ==
    ASSUME TypeOK, StragglerInv, [Next]_vars
    PROVE  StragglerInv'
<1> USE DEF StragglerInv, Straggling
<1>1. ASSUME NEW n \in Node, Deploy(n)
      PROVE  StragglerInv'
  <2>1. /\ UNCHANGED <<main, listed, missed, cleaned, result>>
        /\ Straggling(n)'
        /\ \A c \in Container \ {n} : box'[c] = box[c]
        /\ \A m \in Node \ {n} : worker'[m] = worker[m]
    BY <1>1, DeployKeeps
  <2> QED
    BY <2>1 DEF Container
<1>2. CASE Reject \/ GetImages \/ Configure \/ SetupNewCluster \/ Finish \/ FailLate
  BY <1>2 DEF Reject, GetImages, Configure, SetupNewCluster, Finish, FailLate,
              cleanupVars
<1>3. CASE \E n \in Node : ReceiveOk(n) \/ ReceiveErr(n)
  BY <1>3 DEF ReceiveOk, ReceiveErr, cleanupVars
<1>4. ASSUME NEW here \in Early, NEW wanted, NEW c, NEW next,
             DeployAux(here, wanted, c, next)
      PROVE  StragglerInv'
  BY <1>4 DEF DeployAux, cleanupVars, Early
<1>5. CASE Kill \/ CleanupDone
  BY <1>5 DEF Kill, CleanupDone, cleanupVars, hostVars
<1>6. CASE CleanupList
  BY <1>6 DEF CleanupList, hostVars, TypeOK
<1>7. ASSUME NEW c \in Container, CleanupRemove(c)
      PROVE  StragglerInv'
  BY <1>7 DEF CleanupRemove, TypeOK
<1>8. CASE UNCHANGED vars
  BY <1>8 DEF vars
<1> QED
  BY <1>1, <1>2, <1>3, <1>4, <1>5, <1>6, <1>7, <1>8, NextCases DEF Early

\* The invariant of every reachable state.
THEOREM Invariance == Spec => [](TypeOK /\ IndInv)
<1>1. Init => IndInv
  <2>1. IsInjective(<<>>) /\ Range(<<>>) = {}
    BY DEF IsInjective, Range
  <2> QED
    BY <2>1 DEF Init, IndInv, ResultInv, WorkerInv, FreshInv, NodeBoxInv, AuxBoxInv,
         AuxReady, SliceInv, NodesAppendedOnce, SomeNodeInv, StragglerInv,
         OnCourse, Early, Collected, Container, Aux
<1>2. TypeOK /\ IndInv /\ [Next]_vars => IndInv'
  BY ResultStep, WorkerStep, FreshStep, NodeBoxStep, AuxBoxStep, SliceStep, SomeNodeStep,
     StragglerStep
     DEF IndInv
<1> QED
  BY <1>1, <1>2, TypeCorrect, PTL DEF Spec

-----------------------------------------------------------------------------
(* The properties.                                                         *)

\* A successful return leaves exactly the required containers, all running and
\* all with their expiry record, and no goroutine behind.
THEOREM SuccessComplete == Spec => []SuccessDeploysEveryNode
<1>1. TypeOK /\ IndInv => SuccessDeploysEveryNode
  BY NodeAssumption, DefsAssumption
     DEF IndInv, WorkerInv, ResultInv, NodeBoxInv, AuxBoxInv, AuxReady, OnCourse,
         SuccessDeploysEveryNode, Required, Container, Aux, TypeOK, DefRecords,
         Early, Collected
<1> QED
  BY <1>1, Invariance, PTL

\* The unsynchronised append never repeats or invents a node.
THEOREM AppendedOnce == Spec => []NodesAppendedOnce
<1>1. IndInv => NodesAppendedOnce
  BY DEF IndInv, SliceInv
<1> QED
  BY <1>1, Invariance, PTL

\* Neither Nodes[0] nor nodeNodeGrps[nodeIdx] is out of range, however many
\* appends are lost.
THEOREM IndexesInRange == Spec => []SetupIndexesInRange
<1>1. ASSUME TypeOK, IndInv, main = "setup"
      PROVE  Len(nodes) \in 1 .. Len(DefSeq)
  <2>1. nodes # <<>>
    BY <1>1, NodeAssumption DEF IndInv, WorkerInv, SomeNodeInv, OnCourse, Collected
  <2>2. Len(nodes) \in Nat \ {0} /\ nodes \in [1 .. Len(nodes) -> Node]
    BY <1>1, <2>1, EmptySeq, LenProperties DEF TypeOK
  <2>3. Len(DefSeq) \in Nat /\ DefSeq \in Bijection(1 .. Len(DefSeq), Node)
    <3>1. /\ Len(DefSeq) \in Nat /\ DefSeq \in [1 .. Len(DefSeq) -> Node]
          /\ DOMAIN DefSeq = 1 .. Len(DefSeq)
      BY DefSeqAssumption, LenProperties
    <3>2. \A n \in Node : \E i \in 1 .. Len(DefSeq) : DefSeq[i] = n
      BY <3>1, DefSeqAssumption DEF Range
    <3> QED
      BY <3>1, <3>2, DefSeqAssumption DEF Bijection, Injection, Surjection
  <2>4. IsFiniteSet(Node) /\ Cardinality(Node) = Len(DefSeq)
    <3>1. ExistsBijection(1 .. Len(DefSeq), Node)
      BY <2>3 DEF ExistsBijection
    <3> QED
      BY <2>3, <3>1, FS_NatBijection, FS_CountingElements
  <2>5. nodes \in Injection(1 .. Len(nodes), Node)
    BY <1>1, <2>2 DEF IndInv, SliceInv, NodesAppendedOnce, Injection
  <2>6. Cardinality(1 .. Len(nodes)) <= Cardinality(Node)
    BY <2>4, <2>5, FS_Injection
  <2>7. Cardinality(1 .. Len(nodes)) = Len(nodes)
    BY <2>2, FS_Interval
  <2> QED
    BY <2>2, <2>3, <2>4, <2>6, <2>7
<1> QED
  BY <1>1, Invariance, PTL DEF SetupIndexesInRange

\* What a failed allocation leaves behind, other than what it could not remove,
\* was created after the deferred cleanup had listed the host.
THEOREM LeftoversAreStragglers == Spec => []LeftoverIsStraggler
<1>1. IndInv => LeftoverIsStraggler
  BY DEF IndInv, StragglerInv, Straggling, LeftoverIsStraggler
<1> QED
  BY <1>1, Invariance, PTL

-----------------------------------------------------------------------------
(* DockerAllocate implements AllocateContract.                             *)

\* A step of the allocation that moves no container between up and down and
\* keeps the phase is a stuttering step of the contract.
LEMMA StutterStep ==
    ASSUME UNCHANGED <<def, main, result>>,
           \A c \in Container : (box'[c] = "running") <=> (box[c] = "running")
    PROVE  UNCHANGED Contract!vars
BY DEF Contract!vars, Required, Phase, Up

LEMMA AuxRefines ==
    ASSUME TypeOK, IndInv, NEW c \in Aux, NEW wanted \in BOOLEAN,
           NEW here \in {"s3mock", "nginx", "haproxy"},
           NEW next \in {"nginx", "haproxy", "images"},
           wanted => c \in Required, box[c] = "absent",
           DeployAux(here, wanted, c, next)
    PROVE  [Contract!Next]_(Contract!vars)
<1>1. c \in Container
  BY DEF Container
<1>2. Phase = "building" /\ UNCHANGED Required
  BY DEF DeployAux, Phase, Required
<1>3. CASE UNCHANGED box /\ main' = next /\ UNCHANGED result
  <2>1. Phase' = "building" /\ UNCHANGED Up
    BY <1>3 DEF Phase, Up
  <2> QED
    BY <1>2, <2>1 DEF Contract!vars
<1>4. ASSUME wanted, main' = next, UNCHANGED result,
             box' = [box EXCEPT ![c] = "running"]
      PROVE  Contract!BringUp(c)
  <2>1. Phase' = "building" /\ c \notin Up /\ Up' = Up \union {c}
    BY <1>1, <1>4 DEF Phase, Up, TypeOK
  <2> QED
    BY <1>2, <1>4, <2>1 DEF Contract!BringUp
<1>5. ASSUME wanted, main' = "exited", result' = "err",
             NEW left \in {"absent", "created", "running"},
             box' = [box EXCEPT ![c] = left]
      PROVE  Contract!Fail
  <2>1. Phase' = "failed" /\ c \in Required \ Up
    BY <1>5 DEF Phase, Up
  <2>2. Up' = Up \/ Up' = Up \union {c}
    BY <1>1, <1>5 DEF Up, TypeOK
  <2> QED
    BY <1>2, <2>1, <2>2 DEF Contract!Fail
<1>6. \A left \in Partial : left[1] \in {"absent", "created", "running"}
  BY DEF Partial
<1> QED
  BY <1>1, <1>3, <1>4, <1>5, <1>6 DEF DeployAux, Contract!Next, hostVars

LEMMA StepRefines ==
    ASSUME TypeOK, IndInv, [Next]_vars
    PROVE  [Contract!Next]_(Contract!vars)
<1> USE DEF IndInv
<1>1. CASE Reject \/ Kill \/ CleanupDone
  <2>1. Phase \in {"building", "undoing"} /\ Phase' = "failed"
    BY <1>1 DEF Reject, Kill, CleanupDone, Phase, Running, ResultInv, TypeOK,
                MainStates
  <2>2. UNCHANGED <<Up, Required>>
    BY <1>1 DEF Reject, Kill, CleanupDone, Up, Required, hostVars
  <2> QED
    BY <2>1, <2>2 DEF Contract!Next, Contract!Fail
<1>2. CASE DeployAux("s3mock", def.columnar, S3Mock, "nginx")
  <2>1. box[S3Mock] = "absent"
    BY <1>2 DEF DeployAux, AuxBoxInv, OnCourse, Early
  <2> QED
    BY <1>2, <2>1, AuxRefines, DefsAssumption DEF TypeOK, DefRecords, Aux, Required
<1>3. CASE DeployAux("nginx", def.passive, Nginx, "haproxy")
  <2>1. box[Nginx] = "absent"
    BY <1>3 DEF DeployAux, AuxBoxInv, OnCourse, Early
  <2> QED
    BY <1>3, <2>1, AuxRefines, DefsAssumption DEF TypeOK, DefRecords, Aux, Required
<1>4. CASE DeployAux("haproxy", def.active, Haproxy, "images")
  <2>1. box[Haproxy] = "absent"
    BY <1>4 DEF DeployAux, AuxBoxInv, OnCourse, Early
  <2> QED
    BY <1>4, <2>1, AuxRefines, DefsAssumption DEF TypeOK, DefRecords, Aux, Required
<1>5. CASE GetImages
  <2>1. UNCHANGED <<Up, Required>> /\ Phase = "building"
        /\ Phase' \in {"building", "failed"}
    BY <1>5 DEF GetImages, Up, Required, Phase, hostVars
  <2> QED
    BY <2>1 DEF Contract!Next, Contract!Fail, Contract!vars
<1>6. ASSUME NEW n \in Node, Deploy(n)
      PROVE  [Contract!Next]_(Contract!vars)
  <2>1. main # "exited" /\ UNCHANGED <<def, main, result>>
    BY <1>6, DeployKeeps
  <2>2. CASE ContainerStart(n)
    <3>1. box[n] = "created" /\ box' = [box EXCEPT ![n] = "running"]
      BY <2>2 DEF ContainerStart
    <3>2. n \in Required \ Up /\ Up' = Up \union {n} /\ n \in Container
      BY <3>1 DEF Required, Up, Container, TypeOK
    <3>3. Phase \in {"building", "undoing"} /\ UNCHANGED <<Phase, Required>>
      BY <2>1 DEF Phase, Required
    <3> QED
      BY <3>2, <3>3 DEF Contract!Next, Contract!BringUp
  <2>3. CASE ContainerCreate(n)
    <3>1. box[n] = "absent" /\ box' = [box EXCEPT ![n] = "created"]
      BY <2>3 DEF ContainerCreate, Advance, FreshInv
    <3> QED
      BY <2>1, <3>1, StutterStep DEF TypeOK, Container
  <2>4. CASE \/ WriteNodeState(n) \/ FindContainer(n) \/ WaitForOnline(n)
             \/ DeployFails(n) \/ LoadSlice(n) \/ StoreSlice(n)
    <3>1. UNCHANGED box
      BY <2>4 DEF WriteNodeState, FindContainer, WaitForOnline, DeployFails,
                  LoadSlice, StoreSlice, hostVars
    <3> QED
      BY <2>1, <3>1, StutterStep
  <2> QED
    BY <1>6, <2>2, <2>3, <2>4 DEF Deploy
<1>7. CASE Configure \/ SetupNewCluster \/ (\E n \in Node : ReceiveOk(n))
  <2>1. UNCHANGED <<Up, Required, Phase>>
    BY <1>7 DEF Configure, SetupNewCluster, ReceiveOk, Up, Required, Phase, hostVars
  <2> QED
    BY <2>1 DEF Contract!vars
<1>8. CASE FailLate \/ \E n \in Node : ReceiveErr(n)
  <2>1. UNCHANGED <<Up, Required>> /\ Phase = "building" /\ Phase' = "undoing"
    BY <1>8 DEF FailLate, ReceiveErr, Up, Required, Phase, hostVars
  <2> QED
    BY <2>1 DEF Contract!Next, Contract!Abandon
<1>9. CASE Finish
  <2>1. UNCHANGED <<Up, Required>> /\ Phase = "building" /\ Phase' = "ready"
    BY <1>9 DEF Finish, Up, Required, Phase, hostVars
  <2>2. main = "auth" /\ OnCourse /\ \A n \in Node : worker[n] = "done"
    BY <1>9 DEF Finish, WorkerInv, OnCourse, Collected
  <2>3. \A n \in Node : box[n] = "running"
    BY <2>2 DEF NodeBoxInv
  <2>4. /\ box[S3Mock] = "running" <=> def.columnar
        /\ box[Nginx] = "running" <=> def.passive
        /\ box[Haproxy] = "running" <=> def.active
    BY <2>2, DefsAssumption DEF AuxBoxInv, AuxReady, TypeOK, DefRecords
  <2>5. Up = Required
    BY <2>3, <2>4, NodeAssumption DEF Up, Required, Container, Aux
  <2> QED
    BY <2>1, <2>5 DEF Contract!Next, Contract!Commit
<1>10. CASE CleanupList
  <2>1. UNCHANGED <<Up, Required>> /\ Phase = "undoing"
        /\ Phase' \in {"undoing", "failed"}
    BY <1>10 DEF CleanupList, Up, Required, Phase, hostVars, ResultInv
  <2> QED
    BY <2>1 DEF Contract!Next, Contract!Fail, Contract!vars
<1>11. ASSUME NEW c \in Container, CleanupRemove(c)
       PROVE  [Contract!Next]_(Contract!vars)
  <2>1. UNCHANGED <<Required, Phase>> /\ Phase = "undoing"
    BY <1>11 DEF CleanupRemove, Required, Phase
  <2>2. \/ UNCHANGED box
        \/ \E kept \in {"absent", "created"} : box' = [box EXCEPT ![c] = kept]
    BY <1>11 DEF CleanupRemove
  <2>3. Up' = Up \/ (c \in Up /\ Up' = Up \ {c})
    BY <2>2 DEF Up, TypeOK
  <2> QED
    BY <2>1, <2>3 DEF Contract!Next, Contract!TakeDown, Contract!vars
<1>12. CASE UNCHANGED vars
  BY <1>12, StutterStep DEF vars
<1> QED
  BY <1>1, <1>2, <1>3, <1>4, <1>5, <1>6, <1>7, <1>8, <1>9, <1>10, <1>11, <1>12,
     NextCases

\* The allocation implements its contract: success is reported only with every
\* required container up, nothing is taken down before the allocation gave up,
\* and nothing moves after the report.
THEOREM Refinement == Spec => RefinesContract
<1>1. Init => Contract!Init
  BY DEF Init, Contract!Init, Required, Phase, Up, Container, Aux
<1>2. TypeOK /\ IndInv /\ [Next]_vars => [Contract!Next]_(Contract!vars)
  BY StepRefines
<1> QED
  BY <1>1, <1>2, Invariance, PTL DEF Spec, RefinesContract, Contract!Spec
-----------------------------------------------------------------------------
(* The groups of a definition in ascending order.                          *)

DistinctOn(J, a, b) == \A i, j \in a .. b : J[i] = J[j] => i = j
WithinOf(J, a, b, D, c, d) == \A i \in a .. b : \E m \in c .. d : J[i] = D[m]
AscendingBy(value, J, N) ==
    /\ \A i \in 1 .. N : value[J[i]] \in Nat
    /\ \A i, j \in 1 .. N : i < j => value[J[i]] <= value[J[j]]

\* A stretch of a sequence without repetitions, all of whose elements occur in
\* a stretch of another sequence, is not the longer one.
LEMMA NotLonger ==
    ASSUME NEW J, NEW D, NEW a \in Int, NEW b \in Int, NEW c \in Int, NEW d \in Int,
           DistinctOn(J, a, b), WithinOf(J, a, b, D, c, d), a <= b
    PROVE  b - a <= d - c
<1> DEFINE place == [i \in a .. b |-> CHOOSE m \in c .. d : J[i] = D[m]]
<1>1. \A i \in a .. b : place[i] \in c .. d /\ J[i] = D[place[i]]
  BY DEF WithinOf
<1>2. place \in [a .. b -> c .. d]
  BY <1>1
<1>3. \A i, j \in a .. b : place[i] = place[j] => i = j
  BY <1>1 DEF DistinctOn
<1> HIDE DEF place
<1>4. /\ IsFiniteSet(a .. b) /\ Cardinality(a .. b) = b - a + 1
      /\ IsFiniteSet(c .. d) /\ Cardinality(c .. d) = IF c > d THEN 0 ELSE d - c + 1
  BY FS_Interval
<1>5. ~(Cardinality(c .. d) < Cardinality(a .. b))
  BY <1>2, <1>3, <1>4, FS_PigeonHole
<1>6. c .. d # {}
  BY <1>1
<1>7. c <= d
  BY <1>6
<1> QED
  BY <1>4, <1>5, <1>7

\* Two ascending sequences over the same elements, each of them once, have the
\* same value at each place.
LEMMA SameValues ==
    ASSUME NEW N \in Nat, NEW J, NEW D, NEW value,
           DistinctOn(J, 1, N), WithinOf(J, 1, N, D, 1, N),
           AscendingBy(value, J, N), AscendingBy(value, D, N),
           NEW k \in 1 .. N
    PROVE  value[J[k]] = value[D[k]]
<1> USE DEF AscendingBy
<1>1. ASSUME value[J[k]] < value[D[k]] PROVE FALSE
  <2>1. ASSUME NEW i \in 1 .. k PROVE \E m \in 1 .. k - 1 : J[i] = D[m]
    <3>1. PICK m \in 1 .. N : J[i] = D[m]
      BY DEF WithinOf
    <3>2. value[J[i]] <= value[J[k]]
      OBVIOUS
    <3>3. ~(k <= m)
      BY <1>1, <3>1, <3>2
    <3> QED
      BY <3>1, <3>3
  <2>2. k - 1 <= (k - 1) - 1
    <3>1. DistinctOn(J, 1, k)
      BY DEF DistinctOn
    <3>2. 1 \in Int /\ k \in Int /\ k - 1 \in Int /\ 1 <= k
      OBVIOUS
    <3> DEFINE last == k - 1
    <3>3. last \in Int /\ WithinOf(J, 1, k, D, 1, last)
      BY <2>1, <3>2 DEF WithinOf
    <3> HIDE DEF last
    <3>4. k - 1 <= last - 1
      BY <3>1, <3>2, <3>3, NotLonger
    <3> QED
      BY <3>4 DEF last
  <2> QED
    BY <2>2
<1>2. ASSUME value[D[k]] < value[J[k]] PROVE FALSE
  <2>1. ASSUME NEW i \in k .. N PROVE \E m \in k + 1 .. N : J[i] = D[m]
    <3> i \in 1 .. N /\ (i = k \/ k < i)
      OBVIOUS
    <3>1. PICK m \in 1 .. N : J[i] = D[m]
      BY DEF WithinOf
    <3>2. value[J[k]] <= value[J[i]]
      OBVIOUS
    <3>3. ~(m <= k)
      BY <1>2, <3>1, <3>2
    <3> QED
      BY <3>1, <3>3
  <2>2. N - k <= N - (k + 1)
    <3>1. DistinctOn(J, k, N)
      BY DEF DistinctOn
    <3>2. N \in Int /\ k \in Int /\ k + 1 \in Int /\ k <= N
      OBVIOUS
    <3> DEFINE first == k + 1
    <3>3. first \in Int /\ WithinOf(J, k, N, D, first, N)
      BY <2>1, <3>2 DEF WithinOf
    <3> HIDE DEF first
    <3>4. N - k <= N - first
      BY <3>1, <3>2, <3>3, NotLonger
    <3> QED
      BY <3>4 DEF first
  <2> QED
    BY <2>2
<1> QED
  BY <1>1, <1>2

\* A sequence as long as one without repetitions, of the same elements, has
\* none either.
LEMMA SortKeepsInjective ==
    ASSUME NEW S, NEW s \in Seq(S), NEW order \in [DOMAIN s -> S],
           IsInjective(s), Range(order) = Range(s)
    PROVE  IsInjective(order)
<1> DEFINE N == Len(s)
<1>1. N \in Nat /\ DOMAIN s = 1 .. N
  BY LenProperties
<1>2. ASSUME NEW i \in 1 .. N, NEW j \in 1 .. N, i # j, order[i] = order[j] PROVE FALSE
  <2> DEFINE others == (1 .. N) \ {i}
             place == [m \in 1 .. N |-> CHOOSE p \in others : order[p] = s[m]]
  <2>1. ASSUME NEW m \in 1 .. N PROVE \E p \in others : order[p] = s[m]
    <3>1. s[m] \in Range(order)
      BY <1>1 DEF Range
    <3>2. PICK p \in 1 .. N : order[p] = s[m]
      BY <1>1, <3>1 DEF Range
    <3> QED
      BY <1>2, <3>2
  <2>2. \A m \in 1 .. N : place[m] \in others /\ order[place[m]] = s[m]
    BY <2>1
  <2>3. place \in [1 .. N -> others]
    BY <2>2
  <2>4. \A x, y \in 1 .. N : place[x] = place[y] => x = y
    <3>1. \A x, y \in 1 .. N : s[x] = s[y] => x = y
      BY <1>1 DEF IsInjective
    <3>2. \A x, y \in 1 .. N : place[x] = place[y] => s[x] = s[y]
      <4> HIDE DEF place, N
      <4> QED
        BY <2>2
    <3> QED
      BY <3>1, <3>2
  <2>5. IsFiniteSet(1 .. N) /\ Cardinality(1 .. N) = N
    <3>1. 1 \in Int /\ N \in Int /\ (1 > N => N = 0) /\ N - 1 + 1 = N
      BY <1>1
    <3> HIDE DEF N
    <3> QED
      BY <3>1, FS_Interval
  <2>7. IsFiniteSet(others) /\ Cardinality(others) = N - 1
    BY <1>2, <2>5, FS_RemoveElement
  <2> HIDE DEF place, others
  <2>6. Cardinality(others) < Cardinality(1 .. N)
    BY <1>1, <2>5, <2>7
  <2> QED
    BY <2>3, <2>4, <2>5, <2>6, <2>7, FS_PigeonHole
<1>3. DOMAIN order = 1 .. N
  BY <1>1
<1> QED
  BY <1>2, <1>3 DEF IsInjective

\* The nodes that are set up are different and in the order of their versions.
JoinedInv ==
    /\ IsInjective(joined)
    /\ \A i, j \in DOMAIN joined : i < j => def.version[joined[i]] <= def.version[joined[j]]

LEMMA JoinedStep ==
    ASSUME TypeOK, IndInv, JoinedInv, [Next]_vars
    PROVE  JoinedInv'
<1>1. CASE UNCHANGED <<def, joined>>
  BY <1>1 DEF JoinedInv
<1>2. CASE SetupNewCluster
  <2>1. PICK order \in [DOMAIN nodes -> Node] : IsSetupOrder(order) /\ joined' = order /\ def' = def
    BY <1>2 DEF SetupNewCluster
  <2>2. IsInjective(nodes)
    BY DEF IndInv, SliceInv, NodesAppendedOnce
  <2>3. IsInjective(order)
    BY <2>1, <2>2, SortKeepsInjective DEF TypeOK, IsSetupOrder
  <2> QED
    BY <2>1, <2>3 DEF JoinedInv, IsSetupOrder
<1>3. SetupNewCluster \/ UNCHANGED <<def, joined>>
  BY DEF Next, Main, Deploy, vars, Reject, DeployS3MockNode, DeployNginxNode, DeployHaproxyNode, DeployAux,
         GetImages, ReceiveOk, ReceiveErr, Configure, Finish, FailLate, CleanupList, CleanupRemove, CleanupDone,
         ContainerCreate, ContainerStart, WriteNodeState, FindContainer, WaitForOnline, DeployFails, LoadSlice,
         StoreSlice, Advance, Kill, Exited
<1> QED
  BY <1>1, <1>2, <1>3

\* Whatever the order in which the goroutines append and Docker hands out the
\* addresses, a definition that lists its groups oldest version first gives each
\* node a group of the version it runs, if no append was lost.
THEOREM AscendingKeepsGroups == Spec => []AscendingDefinitionKeepsGroups
<1>1. Init => JoinedInv
  BY DEF Init, JoinedInv, IsInjective
<1>2. TypeOK /\ IndInv /\ JoinedInv /\ [Next]_vars => JoinedInv'
  BY JoinedStep
<1>3. TypeOK /\ JoinedInv => AscendingDefinitionKeepsGroups
  <2> SUFFICES ASSUME TypeOK, JoinedInv, Len(joined) = Len(DefSeq), NEW k \in DOMAIN joined,
                      \A i, j \in DOMAIN DefSeq :
                          i < j => def.version[DefSeq[i]] <= def.version[DefSeq[j]]
               PROVE  def.version[joined[k]] = def.version[DefSeq[k]]
    BY DEF AscendingDefinitionKeepsGroups
  <2> DEFINE N == Len(DefSeq)
  <2>1. N \in Nat /\ DOMAIN joined = 1 .. N /\ DOMAIN DefSeq = 1 .. N
    BY DefSeqAssumption, LenProperties DEF TypeOK
  <2>2. \A i \in 1 .. N : joined[i] \in Node /\ DefSeq[i] \in Node
    BY <2>1, DefSeqAssumption, ElementOfSeq DEF TypeOK
  <2>3. \A n \in Node : def.version[n] \in Nat
    BY DefsAssumption DEF TypeOK, DefRecords
  <2>4. \A i \in 1 .. N : \E m \in 1 .. N : joined[i] = DefSeq[m]
    <3>1. Node \subseteq {DefSeq[m] : m \in 1 .. N}
      BY <2>1, DefSeqAssumption DEF Range
    <3> QED
      BY <2>2, <3>1
  <2>5. \A i, j \in 1 .. N : joined[i] = joined[j] => i = j
    BY <2>1 DEF JoinedInv, IsInjective
  <2>6. \A i, j \in 1 .. N : i < j => def.version[joined[i]] <= def.version[joined[j]]
    BY <2>1 DEF JoinedInv
  <2>7. \A i, j \in 1 .. N : i < j => def.version[DefSeq[i]] <= def.version[DefSeq[j]]
    BY <2>1
  <2>8. \A i \in 1 .. N : def.version[joined[i]] \in Nat /\ def.version[DefSeq[i]] \in Nat
    BY <2>2, <2>3
  <2>9. N \in Nat /\ k \in 1 .. N
    BY <2>1
  <2>10. DistinctOn(joined, 1, N) /\ WithinOf(joined, 1, N, DefSeq, 1, N)
    BY <2>4, <2>5 DEF DistinctOn, WithinOf
  <2>11. AscendingBy(def.version, joined, N) /\ AscendingBy(def.version, DefSeq, N)
    BY <2>6, <2>7, <2>8 DEF AscendingBy
  <2> HIDE DEF N
  <2> QED
    BY <2>9, <2>10, <2>11, SameValues
<1> QED
  BY <1>1, <1>2, <1>3, Invariance, PTL DEF Spec
=============================================================================
