------------------------- MODULE DockerExpiry_proofs -------------------------
(***************************************************************************)
(* Proofs about DockerExpiry, for every set of containers and processes    *)
(* and without a bound on the dates.                                       *)
(***************************************************************************)
EXTENDS DockerExpiry, TLAPS

-----------------------------------------------------------------------------
(* The inductive invariant.                                                *)

\* A Cleanup has victims only while it removes, and then has read everything.
PhaseInv ==
    \A k \in Cleaner :
        /\ clean[k] # "removing" => victims[k] = {}
        /\ clean[k] # "reading" => reading[k] = {}

\* A container that is yet to be created is in no Cleanup's hands.
NewInv ==
    \A n \in Fresh : add[n] \in {"idle", "listed", "timed"} =>
        /\ box[n] = "absent"
        /\ \A k \in Cleaner :
              n \notin reading[k] /\ seen[k][n] = 0 /\ n \notin victims[k]

\* Only AddNode leaves a container without a state file, and no Cleanup has
\* read a date there.
BareInv ==
    \A c \in Container : box[c] = "bare" =>
        /\ c \in Fresh /\ add[c] \in {"created", "failed"}
        /\ \A k \in Cleaner : seen[k][c] = 0 /\ c \notin victims[k]

\* A date that was read is still in the file, unless it was rewritten.
SeenInv ==
    \A k \in Cleaner : \A c \in Container :
        /\ c \in reading[k] => seen[k][c] = 0
        /\ seen[k][c] # 0 =>
              \/ box[c] = "absent" \/ c \in dirty[k]
              \/ box[c] = "recorded" /\ expiry[c] = seen[k][c]

\* While the container is being deployed, time only adds to its expiry.
LifeInv ==
    \A n \in Fresh : add[n] \in {"timed", "created"} /\ life[n] > 0 =>
        clock + life[n] >= base[n]

IndInv ==
    /\ TypeOK /\ PhaseInv /\ NewInv /\ BareInv /\ SeenInv /\ LifeInv
    /\ VictimsExpiredUnlessRewritten

LEMMA InitInd == Init => IndInv
<1> SUFFICES ASSUME Init PROVE IndInv
  OBVIOUS
<1>1. TypeOK
  <2>1. expiry \in [Container -> Nat]
    <3>1. \A date \in Dates : date \in Nat
      BY TimeAssumption
    <3>2. CASE expiry = [c \in Container |-> 0]
      BY <3>2
    <3>3. CASE \E date \in [Container -> Dates] :
                  expiry = [c \in Container |-> IF c \in Fresh THEN 0 ELSE date[c]]
      BY <3>1, <3>3
    <3> QED
      BY <3>2, <3>3 DEF Init
  <2> QED
    BY <2>1 DEF Init, TypeOK
<1>2. PhaseInv /\ NewInv /\ BareInv /\ SeenInv /\ LifeInv
  BY ContainerAssumption DEF Init, PhaseInv, NewInv, BareInv, SeenInv, LifeInv
<1>3. VictimsExpiredUnlessRewritten
  BY DEF Init, VictimsExpiredUnlessRewritten
<1> QED
  BY <1>1, <1>2, <1>3 DEF IndInv

-----------------------------------------------------------------------------
(* The clock.                                                              *)

LEMMA TickInd ==
    ASSUME IndInv, Tick PROVE IndInv'
<1> USE DEF IndInv, Tick, cleanVars, refreshVars, addVars
<1>1. TypeOK'
  BY DEF TypeOK
<1>2. PhaseInv' /\ NewInv' /\ BareInv' /\ SeenInv'
  BY DEF PhaseInv, NewInv, BareInv, SeenInv
<1>3. LifeInv'
  BY DEF LifeInv, TypeOK
<1>4. VictimsExpiredUnlessRewritten'
  BY DEF VictimsExpiredUnlessRewritten, IsExpired, TypeOK
<1> QED
  BY <1>1, <1>2, <1>3, <1>4

-----------------------------------------------------------------------------
(* Cleanup.                                                                *)

LEMMA CleanupListInd ==
    ASSUME IndInv, NEW k \in Cleaner, CleanupList(k) PROVE IndInv'
<1> USE DEF IndInv, CleanupList, refreshVars, addVars
<1>1. TypeOK'
  BY DEF TypeOK, Present
<1>2. PhaseInv' /\ NewInv' /\ BareInv'
  BY ContainerAssumption DEF PhaseInv, NewInv, BareInv, TypeOK, Present
<1>3. SeenInv' /\ LifeInv'
  BY DEF SeenInv, LifeInv, TypeOK
<1>4. VictimsExpiredUnlessRewritten'
  BY DEF VictimsExpiredUnlessRewritten, PhaseInv, TypeOK
<1> QED
  BY <1>1, <1>2, <1>3, <1>4

LEMMA ReadInd ==
    ASSUME IndInv, NEW k \in Cleaner, NEW c \in Container,
           ReadNodeState(k, c) \/ ReadMiss(k, c)
    PROVE  IndInv'
<1> USE DEF IndInv, refreshVars, addVars
<1>1. /\ clean[k] = "reading" /\ c \in reading[k]
      /\ \E date \in Nat :
            /\ date # 0 => box[c] = "recorded" /\ date = expiry[c]
            /\ seen' = [seen EXCEPT ![k][c] = date]
      /\ reading' = [reading EXCEPT ![k] = @ \ {c}]
      /\ UNCHANGED <<clock, box, expiry, clean, victims, dirty, refreshVars, addVars>>
  BY DEF ReadNodeState, ReadMiss, TypeOK
<1>2. TypeOK'
  BY <1>1 DEF TypeOK
<1>3. PhaseInv' /\ NewInv' /\ BareInv'
  BY <1>1 DEF PhaseInv, NewInv, BareInv, TypeOK
<1>4. SeenInv' /\ LifeInv'
  BY <1>1 DEF SeenInv, LifeInv, TypeOK
<1>5. VictimsExpiredUnlessRewritten'
  BY <1>1 DEF VictimsExpiredUnlessRewritten
<1> QED
  BY <1>2, <1>3, <1>4, <1>5

LEMMA CleanupSelectInd ==
    ASSUME IndInv, NEW k \in Cleaner, CleanupSelect(k) PROVE IndInv'
<1> USE DEF IndInv, CleanupSelect, refreshVars, addVars
<1>1. TypeOK'
  BY DEF TypeOK
<1>2. PhaseInv' /\ NewInv' /\ BareInv'
  BY DEF PhaseInv, NewInv, BareInv, TypeOK, IsExpired
<1>3. SeenInv' /\ LifeInv'
  BY DEF SeenInv, LifeInv
<1>4. VictimsExpiredUnlessRewritten'
  BY DEF VictimsExpiredUnlessRewritten, SeenInv, TypeOK, IsExpired
<1> QED
  BY <1>1, <1>2, <1>3, <1>4

LEMMA CleanupRemoveInd ==
    ASSUME IndInv, NEW k \in Cleaner, NEW c \in Container, CleanupRemove(k, c)
    PROVE  IndInv'
<1> USE DEF IndInv, CleanupRemove, refreshVars, addVars
<1>1. TypeOK'
  BY DEF TypeOK
<1>2. PhaseInv' /\ NewInv' /\ BareInv'
  BY DEF PhaseInv, NewInv, BareInv, TypeOK
<1>3. SeenInv' /\ LifeInv'
  BY DEF SeenInv, LifeInv, TypeOK
<1>4. VictimsExpiredUnlessRewritten'
  BY DEF VictimsExpiredUnlessRewritten, TypeOK
<1> QED
  BY <1>1, <1>2, <1>3, <1>4

LEMMA CleanupMissInd ==
    ASSUME IndInv, NEW k \in Cleaner, NEW c \in Container, CleanupMiss(k, c) PROVE IndInv'
<1> USE DEF IndInv, CleanupMiss, refreshVars, addVars
<1>1. TypeOK'
  BY DEF TypeOK
<1>2. PhaseInv' /\ NewInv' /\ BareInv'
  BY DEF PhaseInv, NewInv, BareInv, TypeOK
<1>3. SeenInv' /\ LifeInv'
  BY DEF SeenInv, LifeInv
<1>4. VictimsExpiredUnlessRewritten'
  BY DEF VictimsExpiredUnlessRewritten, TypeOK
<1> QED
  BY <1>1, <1>2, <1>3, <1>4

LEMMA CleanupDoneInd ==
    ASSUME IndInv, NEW k \in Cleaner, CleanupDone(k) PROVE IndInv'
<1> USE DEF IndInv, CleanupDone, refreshVars, addVars
<1>1. TypeOK'
  BY DEF TypeOK
<1>2. PhaseInv' /\ NewInv' /\ BareInv'
  BY DEF PhaseInv, NewInv, BareInv, TypeOK
<1>3. SeenInv' /\ LifeInv'
  BY DEF SeenInv, LifeInv
<1>4. VictimsExpiredUnlessRewritten'
  BY DEF VictimsExpiredUnlessRewritten, TypeOK
<1> QED
  BY <1>1, <1>2, <1>3, <1>4

-----------------------------------------------------------------------------
(* refresh and AddNode.                                                    *)

\* A rewritten file is dirty for every Cleanup that has victims or has read it.
LEMMA WriteKeeps ==
    ASSUME IndInv, NEW c \in Container, NEW date \in Nat, WriteNodeState(c, date),
           box[c] # "absent", UNCHANGED <<clock, cleanVars>>
    PROVE  /\ SeenInv' /\ VictimsExpiredUnlessRewritten'
           /\ dirty' \in [Cleaner -> SUBSET Container]
<1> USE DEF IndInv, WriteNodeState, cleanVars
<1>1. \A k \in Cleaner : dirty'[k] = IF c \in reading[k] THEN dirty[k]
                                     ELSE dirty[k] \union {c}
  OBVIOUS
<1>2. SeenInv'
  BY <1>1 DEF SeenInv, TypeOK
<1>3. VictimsExpiredUnlessRewritten'
  BY <1>1 DEF VictimsExpiredUnlessRewritten, PhaseInv, TypeOK
<1> QED
  BY <1>2, <1>3 DEF TypeOK

LEMMA RefreshListInd ==
    ASSUME IndInv, NEW r \in Refresher,
           RefreshList(r) \/ RefreshFails(r) \/ RefreshDone(r)
    PROVE  IndInv'
<1> USE DEF IndInv, cleanVars, addVars
<1>1. TypeOK'
  <2>1. CASE RefreshList(r)
    <3>1. PICK date \in {0} \union {clock + d : d \in Extension} :
              target' = [target EXCEPT ![r] = date]
      BY <2>1 DEF RefreshList
    <3>2. date \in Nat
      BY TimeAssumption DEF TypeOK
    <3> QED
      BY <2>1, <3>1, <3>2 DEF TypeOK, RefreshList, Present
  <2>2. CASE RefreshFails(r) \/ RefreshDone(r)
    BY <2>2 DEF TypeOK, RefreshFails, RefreshDone
  <2> QED
    BY <2>1, <2>2
<1>2. UNCHANGED <<clock, box, expiry, clean, reading, seen, victims, dirty, add, base, life>>
  BY DEF RefreshList, RefreshFails, RefreshDone
<1>3. PhaseInv' /\ NewInv' /\ BareInv' /\ SeenInv' /\ LifeInv'
  BY <1>2 DEF PhaseInv, NewInv, BareInv, SeenInv, LifeInv
<1>4. VictimsExpiredUnlessRewritten'
  BY <1>2 DEF VictimsExpiredUnlessRewritten
<1> QED
  BY <1>1, <1>3, <1>4

LEMMA UpdateExpiryInd ==
    ASSUME IndInv, NEW r \in Refresher, NEW c \in Container, UpdateExpiry(r, c)
    PROVE  IndInv'
<1> USE DEF IndInv, UpdateExpiry, addVars
<1>1. SeenInv' /\ VictimsExpiredUnlessRewritten'
         /\ dirty' \in [Cleaner -> SUBSET Container]
  BY WriteKeeps DEF TypeOK
<1>2. TypeOK'
  BY <1>1 DEF TypeOK, WriteNodeState, cleanVars
<1>3. PhaseInv' /\ LifeInv'
  BY DEF PhaseInv, LifeInv, cleanVars
<1>4. NewInv' /\ BareInv'
  BY DEF NewInv, BareInv, WriteNodeState, TypeOK, cleanVars
<1> QED
  BY <1>1, <1>2, <1>3, <1>4

LEMMA AddListInd ==
    ASSUME IndInv, NEW n \in Fresh, AddList(n) \/ AddLifetime(n) \/ AddFails(n)
    PROVE  IndInv'
<1> USE DEF IndInv, cleanVars, refreshVars
<1>1. UNCHANGED <<clock, box, expiry, clean, reading, seen, victims, dirty, refresh, target, todo>>
  BY DEF AddList, AddLifetime, AddFails
<1>2. TypeOK'
  <2>1. CASE AddList(n)
    <3>1. PICK date \in {0} \union {expiry[c] : c \in Present} :
              base' = [base EXCEPT ![n] = date]
      BY <2>1 DEF AddList
    <3>2. date \in Nat
      BY DEF TypeOK, Present
    <3> QED
      BY <1>1, <2>1, <3>1, <3>2 DEF TypeOK, AddList
  <2>2. CASE AddLifetime(n)
    <3>1. (IF base[n] > clock THEN base[n] - clock ELSE 0) \in Nat
      BY DEF TypeOK
    <3> QED
      BY <1>1, <2>2, <3>1 DEF TypeOK, AddLifetime
  <2>3. CASE AddFails(n)
    BY <1>1, <2>3 DEF TypeOK, AddFails
  <2> QED
    BY <2>1, <2>2, <2>3
<1>3. PhaseInv' /\ SeenInv' /\ VictimsExpiredUnlessRewritten'
  BY <1>1 DEF PhaseInv, SeenInv, VictimsExpiredUnlessRewritten
<1>4. NewInv' /\ BareInv'
  <2>1. PICK to \in {"listed", "timed", "failed"} :
            /\ add' = [add EXCEPT ![n] = to]
            /\ to # "failed" => add[n] \in {"idle", "listed"}
    BY DEF AddList, AddLifetime, AddFails
  <2>2. \A m \in Fresh : add'[m] = IF m = n THEN to ELSE add[m]
    BY <2>1 DEF TypeOK
  <2>3. NewInv'
    BY <1>1, <2>1, <2>2 DEF NewInv
  <2>4. box[n] = "bare" => to = "failed"
    BY <2>1 DEF NewInv
  <2>5. BareInv'
    BY <1>1, <2>2, <2>4 DEF BareInv
  <2> QED
    BY <2>3, <2>5
<1>5. LifeInv'
  BY <1>1 DEF LifeInv, AddList, AddLifetime, AddFails, TypeOK
<1> QED
  BY <1>2, <1>3, <1>4, <1>5

LEMMA ContainerCreateInd ==
    ASSUME IndInv, NEW n \in Fresh, ContainerCreate(n) PROVE IndInv'
<1> USE DEF IndInv, ContainerCreate, cleanVars, refreshVars
<1>1. n \in Container /\ box[n] = "absent"
      /\ \A k \in Cleaner : seen[k][n] = 0 /\ n \notin victims[k]
  BY ContainerAssumption DEF NewInv
<1>2. TypeOK'
  BY DEF TypeOK
<1>3. PhaseInv' /\ NewInv' /\ BareInv'
  BY <1>1 DEF PhaseInv, NewInv, BareInv, TypeOK
<1>4. SeenInv' /\ LifeInv'
  BY <1>1 DEF SeenInv, LifeInv, TypeOK
<1>5. VictimsExpiredUnlessRewritten'
  BY <1>1 DEF VictimsExpiredUnlessRewritten, TypeOK
<1> QED
  BY <1>2, <1>3, <1>4, <1>5

LEMMA AddWriteInd ==
    ASSUME IndInv, NEW n \in Fresh, AddWrite(n) PROVE IndInv'
<1> USE DEF IndInv, AddWrite, refreshVars
<1>1. n \in Container
  BY ContainerAssumption
<1>2. PICK date \in Nat : WriteNodeState(n, date)
  BY DEF TypeOK
<1>3. SeenInv' /\ VictimsExpiredUnlessRewritten'
         /\ dirty' \in [Cleaner -> SUBSET Container]
  BY <1>1, <1>2, WriteKeeps
<1>4. TypeOK'
  BY <1>1, <1>2, <1>3 DEF TypeOK, WriteNodeState, cleanVars
<1>5. PhaseInv' /\ LifeInv'
  BY DEF PhaseInv, LifeInv, cleanVars, TypeOK
<1>6. NewInv' /\ BareInv'
  BY <1>1, <1>2 DEF NewInv, BareInv, WriteNodeState, TypeOK, cleanVars
<1> QED
  BY <1>3, <1>4, <1>5, <1>6

LEMMA NextInd == IndInv /\ [Next]_vars => IndInv'
<1> SUFFICES ASSUME IndInv, [Next]_vars PROVE IndInv'
  OBVIOUS
<1>1. CASE Tick
  BY <1>1, TickInd
<1>2. CASE \E k \in Cleaner : Cleanup(k)
  BY <1>2, CleanupListInd, ReadInd, CleanupSelectInd, CleanupRemoveInd,
     CleanupMissInd, CleanupDoneInd
  DEF Cleanup
<1>3. CASE \E r \in Refresher : UpdateClusterExpiry(r)
  BY <1>3, RefreshListInd, UpdateExpiryInd DEF UpdateClusterExpiry
<1>4. CASE \E n \in Fresh : AddNode(n)
  BY <1>4, AddListInd, ContainerCreateInd, AddWriteInd DEF AddNode
<1>5. CASE UNCHANGED vars
  <2> USE DEF vars, cleanVars, refreshVars, addVars
  <2>1. TypeOK' /\ PhaseInv' /\ NewInv' /\ BareInv' /\ SeenInv' /\ LifeInv'
    BY <1>5 DEF IndInv, TypeOK, PhaseInv, NewInv, BareInv, SeenInv, LifeInv
  <2>2. VictimsExpiredUnlessRewritten'
    BY <1>5 DEF IndInv, VictimsExpiredUnlessRewritten
  <2> QED
    BY <2>1, <2>2 DEF IndInv
<1> QED
  BY <1>1, <1>2, <1>3, <1>4, <1>5 DEF Next

-----------------------------------------------------------------------------
(* The theorems.                                                           *)

\* The invariant behind them: who may hold which container at which time.
THEOREM Invariance == Spec => []IndInv
<1> QED
  BY InitInd, NextInd, PTL DEF Spec

\* Every variable has its type.
THEOREM TypeCorrect == Spec => []TypeOK
<1>1. IndInv => TypeOK
  BY DEF IndInv
<1> QED
  BY <1>1, Invariance, PTL

\* However many Cleanups, refreshes and added nodes there are, a Cleanup is about
\* to remove a container that is not expired only if its file was rewritten.
THEOREM VictimsExpired == Spec => []VictimsExpiredUnlessRewritten
<1>1. IndInv => VictimsExpiredUnlessRewritten
  BY DEF IndInv
<1> QED
  BY <1>1, Invariance, PTL

\* A container that is being deployed is never removed by a Cleanup.
THEOREM BareSurvives == Spec => []BareIsNeverVictim
<1>1. IndInv => BareIsNeverVictim
  BY DEF IndInv, BareInv, BareIsNeverVictim
<1> QED
  BY <1>1, Invariance, PTL

\* A node added to a cluster that had not lapsed does not expire before it.
THEOREM AddedOutlives == Spec => AddedNodeOutlives
<1>1. ASSUME IndInv, [Next]_vars, NEW n \in Fresh,
             add[n] = "created", add'[n] = "done", life[n] > 0
      PROVE  expiry'[n] >= base[n]
  <2>1. CASE \E m \in Fresh : AddWrite(m)
    <3>1. PICK m \in Fresh : AddWrite(m)
      BY <2>1
    <3>2. m = n
      BY <1>1, <3>1 DEF AddWrite, IndInv, TypeOK
    <3>3. expiry'[n] = clock + life[n]
      BY <1>1, <3>1, <3>2, ContainerAssumption
      DEF AddWrite, WriteNodeState, IndInv, TypeOK
    <3> QED
      BY <1>1, <3>3 DEF IndInv, LifeInv
  <2>2. CASE ~ \E m \in Fresh : AddWrite(m)
    <3>1. add'[n] # "done"
      <4> USE <1>1 DEF addVars, IndInv, TypeOK
      <4>1. CASE Tick
        BY <4>1 DEF Tick
      <4>2. CASE \E k \in Cleaner : Cleanup(k)
        BY <4>2 DEF Cleanup, CleanupList, ReadNodeState, ReadMiss, CleanupSelect,
                    CleanupRemove, CleanupMiss, CleanupDone
      <4>3. CASE \E r \in Refresher : UpdateClusterExpiry(r)
        BY <4>3 DEF UpdateClusterExpiry, RefreshList, UpdateExpiry, RefreshFails,
                    RefreshDone
      <4>4. CASE \E m \in Fresh : AddNode(m)
        <5>1. PICK m \in Fresh : AddNode(m) /\ ~ AddWrite(m)
          BY <2>2, <4>4
        <5>2. PICK to \in {"listed", "timed", "created", "failed"} :
                  add' = [add EXCEPT ![m] = to]
          BY <5>1 DEF AddNode, AddList, AddLifetime, ContainerCreate, AddFails
        <5> QED
          BY <5>2
      <4>5. CASE UNCHANGED vars
        BY <4>5 DEF vars
      <4> QED
        BY <4>1, <4>2, <4>3, <4>4, <4>5 DEF Next
    <3> QED
      BY <1>1, <3>1
  <2> QED
    BY <2>1, <2>2
<1>2. IndInv /\ [Next]_vars =>
         [\A n \in Fresh : (add[n] = "created" /\ add'[n] = "done" /\ life[n] > 0)
              => expiry'[n] >= base[n]]_vars
  BY <1>1
<1> QED
  BY <1>2, Invariance, PTL DEF Spec, AddedNodeOutlives
=============================================================================
