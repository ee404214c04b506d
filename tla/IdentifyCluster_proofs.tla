----------------------- MODULE IdentifyCluster_proofs -----------------------
(***************************************************************************)
(* Proofs about IdentifyCluster, for every finite set of deployers.        *)
(***************************************************************************)
EXTENDS IdentifyCluster, FiniteSetTheorems, SequenceTheorems, TLAPS

-----------------------------------------------------------------------------
(* The inductive invariant.                                                *)

Pending == {d \in Deployer : worker[d] # "done"}

\* The wait group counts the goroutines that have not called Done, and the
\* channel is closed only when there are none.
WaitGroupInv ==
    /\ wg = Cardinality(Pending)
    /\ closed => Pending = {}

\* Only a deployer that answered sends, and only what it listed.
SenderInv ==
    \A d \in Deployer :
        /\ worker[d] \in {"sending", "done"} => d \notin fails
        /\ worker[d] # "sending" => unsent[d] = {}
        /\ unsent[d] \subseteq matches[d]

InChannel(x) == \E i \in 1 .. Len(channel) : channel[i] = x

Listed(x) == x[1] \in Deployer \ fails /\ x[2] \in matches[x[1]]

ChannelInv == \A i \in 1 .. Len(channel) : Listed(channel[i])

\* Until main takes one, a match a deployer listed is unsent or in the channel.
KeptInv ==
    main = "ranging" =>
        \A d \in Deployer : worker[d] \in {"sending", "done"} =>
            \A c \in matches[d] : c \in unsent[d] \/ InChannel(<<d, c>>)

ResultInv == FoundIsListed /\ NotFoundIsComplete

IndInv == WaitGroupInv /\ SenderInv /\ ChannelInv /\ KeptInv /\ ResultInv

-----------------------------------------------------------------------------
LEMMA PendingFinite == IsFiniteSet(Pending) /\ Cardinality(Pending) \in Nat
BY DeployerAssumption, FS_Subset, FS_CardinalityType DEF Pending

\* Every variable has its type.
THEOREM TypeCorrect == Spec => [](TypeOK /\ WaitGroupInv)
<1>1. Init => TypeOK /\ WaitGroupInv
  <2> SUFFICES ASSUME Init PROVE TypeOK /\ WaitGroupInv
    OBVIOUS
  <2>1. Pending = Deployer
    BY DEF Init, Pending
  <2>2. wg \in Nat
    BY DeployerAssumption, FS_CardinalityType DEF Init
  <2>3. <<>> \in Seq(Deployer \X Cluster)
    BY EmptySeq
  <2> QED
    BY <2>1, <2>2, <2>3 DEF Init, TypeOK, WaitGroupInv
<1>2. TypeOK /\ WaitGroupInv /\ [Next]_vars => TypeOK' /\ WaitGroupInv'
  <2> SUFFICES ASSUME TypeOK, WaitGroupInv, [Next]_vars
               PROVE  TypeOK' /\ WaitGroupInv'
    OBVIOUS
  <2> USE DEF TypeOK, WaitGroupInv, inputs
  <2>1. ASSUME NEW d \in Deployer, ListClusters(d) \/ ListFails(d)
        PROVE  TypeOK' /\ WaitGroupInv'
    <3>1. Pending' = Pending
      BY <2>1 DEF ListClusters, ListFails, Pending
    <3> QED
      BY <2>1, <3>1 DEF ListClusters, ListFails
  <2>2. ASSUME NEW d \in Deployer, Send(d)
        PROVE  TypeOK' /\ WaitGroupInv'
    <3>1. PICK c \in unsent[d] : /\ channel' = Append(channel, <<d, c>>)
                                 /\ unsent' = [unsent EXCEPT ![d] = @ \ {c}]
      BY <2>2 DEF Send
    <3>2. channel' \in Seq(Deployer \X Cluster)
      BY <3>1, AppendProperties
    <3>3. Pending' = Pending
      BY <2>2 DEF Send, Pending
    <3> QED
      BY <2>2, <3>1, <3>2, <3>3 DEF Send
  <2>3. ASSUME NEW d \in Deployer, Done(d)
        PROVE  TypeOK' /\ WaitGroupInv'
    <3>1. d \in Pending /\ Pending' = Pending \ {d}
      BY <2>3 DEF Done, Pending
    <3>2. Cardinality(Pending') = Cardinality(Pending) - 1 /\ Cardinality(Pending') \in Nat
      BY <3>1, PendingFinite, FS_RemoveElement, FS_CardinalityType
    <3> QED
      BY <2>3, <3>1, <3>2 DEF Done
  <2>4. CASE Close
    <3>1. Pending = {} /\ Pending' = Pending
      BY <2>4, PendingFinite, FS_EmptySet DEF Close, Pending
    <3> QED
      BY <2>4, <3>1 DEF Close
  <2>5. CASE Receive
    <3>1. channel' \in Seq(Deployer \X Cluster) /\ found' \in Deployer \X Cluster
      BY <2>5, HeadTailProperties DEF Receive
    <3>2. Pending' = Pending
      BY <2>5 DEF Receive, Pending
    <3> QED
      BY <2>5, <3>1, <3>2 DEF Receive
  <2>6. CASE NotFound
    BY <2>6 DEF NotFound, Pending
  <2>7. CASE UNCHANGED vars
    BY <2>7 DEF vars, Pending
  <2> QED
    BY <2>1, <2>2, <2>3, <2>4, <2>5, <2>6, <2>7 DEF Next, Search, Resolved
<1> QED
  BY <1>1, <1>2, PTL DEF Spec

LEMMA SendChannel ==
    ASSUME TypeOK, NEW d \in Deployer, NEW c \in Cluster,
           channel' = Append(channel, <<d, c>>)
    PROVE  /\ \A x : InChannel(x)' <=> InChannel(x) \/ x = <<d, c>>
           /\ \A i \in 1 .. Len(channel') :
                 channel'[i] = <<d, c>> \/ \E j \in 1 .. Len(channel) : channel'[i] = channel[j]
<1>1. /\ Len(channel) \in Nat /\ Len(channel') = Len(channel) + 1
      /\ \A i \in 1 .. Len(channel) : channel'[i] = channel[i]
      /\ channel'[Len(channel) + 1] = <<d, c>>
  BY LenProperties, AppendProperties DEF TypeOK
<1> QED
  BY <1>1 DEF InChannel

LEMMA ReceiveChannel ==
    ASSUME TypeOK, channel # <<>>, channel' = Tail(channel)
    PROVE  /\ Head(channel) = channel[1] /\ 1 \in 1 .. Len(channel)
           /\ \A i \in 1 .. Len(channel') : \E j \in 1 .. Len(channel) : channel'[i] = channel[j]
<1>1. /\ Len(channel) \in Nat \ {0} /\ Len(channel') = Len(channel) - 1
      /\ \A i \in 1 .. Len(channel') : channel'[i] = channel[i + 1]
  BY EmptySeq, HeadTailProperties DEF TypeOK
<1>2. Head(channel) = channel[1]
  BY DEF TypeOK
<1> QED
  BY <1>1, <1>2

LEMMA Step ==
    ASSUME TypeOK, IndInv, [Next]_vars
    PROVE  SenderInv' /\ ChannelInv' /\ KeptInv' /\ ResultInv'
<1> USE DEF IndInv, SenderInv, ChannelInv, KeptInv, ResultInv, FoundIsListed,
            NotFoundIsComplete, Listed, InChannel, inputs
<1>1. ASSUME NEW d \in Deployer, ListClusters(d) \/ ListFails(d)
      PROVE  SenderInv' /\ ChannelInv' /\ KeptInv' /\ ResultInv'
  <2>1. SenderInv'
    BY <1>1 DEF ListClusters, ListFails, TypeOK
  <2>2. ChannelInv' /\ ResultInv'
    BY <1>1 DEF ListClusters, ListFails
  <2>3. KeptInv'
    <3>1. \A x : InChannel(x)' <=> InChannel(x)
      BY <1>1 DEF ListClusters, ListFails
    <3> HIDE DEF InChannel, Listed, ChannelInv, ResultInv
    <3> QED
      BY <1>1, <3>1 DEF ListClusters, ListFails, TypeOK
  <2> QED
    BY <2>1, <2>2, <2>3
<1>2. ASSUME NEW d \in Deployer, Send(d)
      PROVE  SenderInv' /\ ChannelInv' /\ KeptInv' /\ ResultInv'
  <2>1. PICK c \in unsent[d] : /\ channel' = Append(channel, <<d, c>>)
                               /\ unsent' = [unsent EXCEPT ![d] = @ \ {c}]
    BY <1>2 DEF Send
  <2>2. c \in Cluster /\ Listed(<<d, c>>)
    BY <1>2 DEF Send, TypeOK
  <2>3. /\ \A x : InChannel(x)' <=> InChannel(x) \/ x = <<d, c>>
        /\ \A i \in 1 .. Len(channel') :
              channel'[i] = <<d, c>> \/ \E j \in 1 .. Len(channel) : channel'[i] = channel[j]
    BY <2>1, <2>2, SendChannel
  <2>4. SenderInv' /\ ResultInv'
    BY <1>2, <2>1 DEF Send, TypeOK
  <2>5. ChannelInv'
    BY <1>2, <2>2, <2>3 DEF Send
  <2>6. KeptInv'
    <3> HIDE DEF InChannel, Listed
    <3> QED
      BY <1>2, <2>1, <2>3 DEF Send, TypeOK
  <2> QED
    BY <2>4, <2>5, <2>6
<1>3. ASSUME NEW d \in Deployer, Done(d)
      PROVE  SenderInv' /\ ChannelInv' /\ KeptInv' /\ ResultInv'
  <2>1. SenderInv' /\ ChannelInv' /\ ResultInv'
    BY <1>3 DEF Done, TypeOK
  <2>2. KeptInv'
    <3>1. \A x : InChannel(x)' <=> InChannel(x)
      BY <1>3 DEF Done
    <3> HIDE DEF InChannel, Listed, ChannelInv, ResultInv
    <3> QED
      BY <1>3, <3>1 DEF Done, TypeOK
  <2> QED
    BY <2>1, <2>2
<1>4. CASE Close
  BY <1>4 DEF Close
<1>5. CASE Receive
  <2>1. Listed(found') /\ found' # Nothing
    BY <1>5, ReceiveChannel DEF Receive, TypeOK, Nothing
  <2>2. SenderInv' /\ KeptInv' /\ ResultInv'
    BY <1>5, <2>1 DEF Receive
  <2>3. ChannelInv'
    BY <1>5, ReceiveChannel DEF Receive
  <2> QED
    BY <2>2, <2>3
<1>6. CASE NotFound
  <2>1. \A d \in Deployer : worker[d] = "done" /\ unsent[d] = {} /\ d \notin fails
    BY <1>6 DEF NotFound, WaitGroupInv, Pending
  <2>2. \A d \in Deployer : matches[d] = {}
    <3>1. Len(channel) = 0
      BY <1>6, EmptySeq DEF NotFound
    <3> QED
      BY <1>6, <2>1, <3>1 DEF NotFound, TypeOK
  <2>3. fails = {}
    BY <2>1 DEF TypeOK
  <2> QED
    BY <1>6, <2>2, <2>3 DEF NotFound
<1>7. CASE UNCHANGED vars
  BY <1>7 DEF vars
<1> QED
  BY <1>1, <1>2, <1>3, <1>4, <1>5, <1>6, <1>7 DEF Next, Search, Resolved

THEOREM Invariance == Spec => [](TypeOK /\ IndInv)
<1>1. Init => SenderInv /\ ChannelInv /\ KeptInv /\ ResultInv
  BY DEF Init, SenderInv, ChannelInv, KeptInv, ResultInv, FoundIsListed,
         NotFoundIsComplete
<1>2. TypeOK /\ WaitGroupInv => (SenderInv /\ ChannelInv /\ KeptInv /\ ResultInv
                                    <=> IndInv)
  BY DEF IndInv
<1>3. TypeOK /\ IndInv /\ [Next]_vars => SenderInv' /\ ChannelInv' /\ KeptInv' /\ ResultInv'
  BY Step
<1> QED
  BY <1>1, <1>2, <1>3, TypeCorrect, PTL DEF Spec

\* "Not found" is reported only when every deployer answered and none has a
\* match, and what is returned was listed by the deployer it is returned with.
THEOREM ResultSound == Spec => [](FoundIsListed /\ NotFoundIsComplete)
<1>1. IndInv => FoundIsListed /\ NotFoundIsComplete
  BY DEF IndInv, ResultInv
<1> QED
  BY <1>1, Invariance, PTL

-----------------------------------------------------------------------------
(* IdentifyCluster implements SearchContract.                              *)

\* The range takes the head of the channel, which some deployer listed.
LEMMA ReceiveAnswers ==
    ASSUME TypeOK, IndInv, Receive
    PROVE  \E d \in Deployer, c \in Cluster : Contract!Found(d, c)
<1>1. /\ 1 \in 1 .. Len(channel) /\ found' = channel[1]
      /\ channel[1] \in Deployer \X Cluster
  BY ReceiveChannel, HeadTailProperties DEF Receive, TypeOK
<1>2. Listed(found')
  BY <1>1 DEF IndInv, ChannelInv
<1>3. PICK d \in Deployer, c \in Cluster : found' = <<d, c>>
  BY <1>1
<1> QED
  BY <1>2, <1>3 DEF Receive, Contract!Found, Listed, inputs

\* The range ends without an answer only when all have answered and sent all.
LEMMA EndAnswers ==
    ASSUME TypeOK, IndInv, NotFound, NotFoundIsComplete'
    PROVE  Contract!NotFound
BY DEF NotFound, NotFoundIsComplete, Contract!NotFound, inputs

\* Of all the steps of the goroutines and of main, two answer, once.
LEMMA StepContract ==
    ASSUME TypeOK, IndInv, [Next]_vars
    PROVE  [Contract!Next]_(Contract!vars)
<1>1. CASE Receive
  BY <1>1, ReceiveAnswers DEF Contract!Next
<1>2. CASE NotFound
  BY <1>2, Step, EndAnswers DEF ResultInv, Contract!Next
<1>3. ASSUME NEW d \in Deployer, Search(d)
      PROVE  UNCHANGED Contract!vars
  BY <1>3 DEF Search, ListClusters, ListFails, Send, Done, inputs, Contract!vars
<1>4. CASE Close \/ Resolved \/ UNCHANGED vars
  BY <1>4 DEF Close, Resolved, vars, inputs, Contract!vars
<1> QED
  BY <1>1, <1>2, <1>3, <1>4 DEF Next

\* A search answers once, and what it answers is true: it implements the
\* contract of SearchContract.
THEOREM Refinement == Spec => RefinesSearch
<1>1. Init => Contract!Init
  BY DEF Init, Contract!Init, Nothing
<1>2. TypeOK /\ IndInv /\ [Next]_vars => [Contract!Next]_(Contract!vars)
  BY StepContract
<1> QED
  BY <1>1, <1>2, Invariance, PTL DEF Spec, RefinesSearch, Contract!Spec

\* No goroutine sends on the closed channel.
THEOREM CloseSafe == Spec => []NoSendAfterClose
<1>1. WaitGroupInv => NoSendAfterClose
  BY DEF WaitGroupInv, Pending, NoSendAfterClose
<1> QED
  BY <1>1, TypeCorrect, PTL
=============================================================================
