------------------------ MODULE CloudLifecycle_proofs ------------------------
(* Proofs about CloudLifecycle, for every set of projects and processes, any  *)
(* commands, and an unbounded clock.                                          *)
EXTENDS CloudLifecycle, FiniteSetTheorems, TLAPS

Allocating(x) == op[x] = "allocate"
Removing == {"delete", "deleted", "events", "project"}

(* The project has been created by its allocation, if there is one; it is not *)
(* created again.                                                             *)
Started(q) == \A y \in Procs : Allocating(y) /\ target[y] = q => step[y] # "start"

(* What Cleanup relies on from the listing to the removal of a project.       *)
Lapsed(x, q) == q \in renamed[x] \/ q \notin projects \/ (expiry[q] # 0 /\ expiry[q] <= now)
AsSeen(x, q) == q \in renamed[x] \/ q \notin projects \/ seen[x][q].expiry = expiry[q]

(* Allocations are of different projects, which do not exist when they begin. *)
StartInv ==
  /\ \A x, y \in Procs : Allocating(x) /\ Allocating(y) /\ x # y => target[x] # target[y]
  /\ \A x \in Procs : Allocating(x) /\ step[x] = "start" =>
       target[x] \notin projects /\ \A s \in Slots : state[target[x]][s] = "none"

(* What a Cleanup has listed exists, with the expiry it has read; what it     *)
(* removes has expired.                                                       *)
SweepInv ==
  \A x \in Procs : Cleaning(x) =>
    /\ step[x] = "inspect" => \A q \in todo[x] : Started(q) /\ AsSeen(x, q)
    /\ step[x] \in Removing \cup {"sweep"} =>
         \A q \in Projects, s \in Slots : <<q, s>> \in jobs[x] => Started(q) /\ Lapsed(x, q)
    /\ step[x] \in Removing => Started(target[x]) /\ Lapsed(x, target[x])

(* Nothing is known, removed or waited for that has not been created.         *)
HeldInv ==
  \A x \in Procs :
    /\ \A q \in Projects, s \in Slots :
         s \in seen[x][q].held \/ <<q, s>> \in jobs[x] => state[q][s] # "none"
    /\ step[x] \in Removing => state[target[x]][slot[x]] # "none" /\ ~Allocating(x)

LingerInv == \A q \in Projects, s \in Slots : state[q][s] = "lingering" => Kind[q] = "columnar"

(* RemoveAll has still to wait for a cluster, has seen it go, or has given    *)
(* its project up.                                                            *)
WaitInv ==
  \A x \in Procs : step[x] = "waitall" =>
    \A q \in Projects, s \in Slots : s \in seen[x][q].held =>
      <<q, s>> \in jobs[x] \/ state[q][s] = "gone" \/ q \in failed[x]

(* A project is asked for when the clusters known there are gone.             *)
AfterInv ==
  \A x \in Procs :
    /\ step[x] = "project" => state[target[x]][slot[x]] = "gone"
    /\ step[x] = "projects" =>
         \A q \in Projects, s \in Slots : q \in todo[x] /\ s \in seen[x][q].held => state[q][s] = "gone"

(* An allocation whose session has lasted has created one cluster at most,    *)
(* and none while it still tries to.                                          *)
OnceInv ==
  \A x \in Procs : Allocating(x) =>
    /\ reauthed[x] => Legacy(Kind[target[x]])
    /\ ~reauthed[x] => \E s \in Slots : \A r \in Slots \ {s} : state[target[x]][r] = "none"
    /\ ~reauthed[x] /\ step[x] = "create" => \A s \in Slots : state[target[x]][s] = "none"

IndInv ==
  /\ TypeOK /\ StartInv /\ SweepInv /\ HeldInv /\ LingerInv /\ WaitInv /\ OnceInv
  /\ AfterInv

-----------------------------------------------------------------------------
(* Steps of Capella, and what they leave alone.                               *)

(* The clusters that exist may have moved on; none has come or come back.     *)
Kept ==
  /\ state' \in [Projects -> [Slots -> ClusterStates]]
  /\ \A q \in Projects, s \in Slots :
       /\ state'[q][s] = "none" <=> state[q][s] = "none"
       /\ state[q][s] = "gone" => state'[q][s] = "gone"
       /\ state'[q][s] = "lingering" => Kind[q] = "columnar"

LEMMA KeptSame == ASSUME IndInv, state' = state PROVE Kept
  BY DEF Kept, IndInv, TypeOK, LingerInv

LEMMA KeptMove ==
  ASSUME IndInv, NEW q \in Projects, NEW s \in Slots, NEW to \in ClusterStates,
         state[q][s] \notin {"none", "gone"}, to # "none", to = "lingering" => Kind[q] = "columnar",
         state' = [state EXCEPT ![q][s] = to]
  PROVE  Kept
<1>1. state \in [Projects -> [Slots -> ClusterStates]]
  BY DEF IndInv, TypeOK
<1>2. \A p \in Projects, r \in Slots :
        state'[p][r] = IF p = q /\ r = s THEN to ELSE state[p][r]
  BY <1>1
<1>3. state' \in [Projects -> [Slots -> ClusterStates]]
  BY <1>1
<1> QED
  BY <1>2, <1>3 DEF Kept, IndInv, LingerInv

LEMMA CapellaInd ==
  ASSUME IndInv, NEW q \in Projects, NEW s \in Slots, Capella(q, s) PROVE IndInv'
<1>1. Kept
  <2> SUFFICES ASSUME NEW from \in ClusterStates \ {"none", "gone"}, NEW to \in ClusterStates \ {"none"},
                      Become(q, s, from, to), to = "lingering" => Kind[q] = "columnar"
               PROVE  Kept
    BY DEF Capella, Deployed, Changed, Destroyed, ClusterStates
  <2> QED
    BY KeptMove DEF Become
<1>2. UNCHANGED <<now, projects, expiry, local, step, memory>>
  BY DEF Capella, Deployed, Changed, Destroyed, Become
<1> USE <1>1, <1>2 DEF IndInv, Cleaning, local, memory, Kept
<1>3. TypeOK'
  BY TimeAssumption DEF TypeOK, Knowledge, Steps, ClusterStates
<1>4. StartInv'
  BY DEF StartInv, Allocating, TypeOK
<1>5. SweepInv'
  BY DEF SweepInv, Started, Lapsed, AsSeen, Allocating, Removing, TypeOK, StartInv
<1>6. HeldInv'
  BY DEF HeldInv, Allocating, Removing, TypeOK
<1>7. LingerInv'
  BY DEF LingerInv, TypeOK
<1>8. WaitInv'
  BY DEF WaitInv, TypeOK
<1>9. OnceInv'
  BY DEF OnceInv, StartInv, Allocating, TypeOK
<1>10. AfterInv'
  BY DEF AfterInv, HeldInv, WaitInv, Allocating, Removing, TypeOK
<1> QED
  BY <1>3, <1>4, <1>5, <1>6, <1>7, <1>8, <1>9, <1>10 DEF IndInv

(* A process goes on to r, and nothing else happens but that a cluster may    *)
(* have been moved on by its call.                                            *)
LEMMA StepInd ==
  ASSUME IndInv, NEW x \in Procs, NEW r \in Steps, Kept,
         UNCHANGED <<now, projects, expiry, local, memory>>, step' = [step EXCEPT ![x] = r],
         r \notin {"start", "create", "inspect", "waitall", "projects"},
         r \in Removing \cup {"sweep"} => step[x] \in Removing,
         r = "project" => state'[target[x]][slot[x]] = "gone"
  PROVE  IndInv'
<1> USE DEF IndInv, Cleaning, local, memory, Kept
<1>1. TypeOK'
  BY TimeAssumption DEF TypeOK, Knowledge, Steps, ClusterStates
<1>2. StartInv'
  BY DEF StartInv, Allocating, TypeOK
<1>3. SweepInv'
  BY DEF SweepInv, Started, Lapsed, AsSeen, Allocating, Removing, TypeOK, StartInv
<1>4. HeldInv'
  BY DEF HeldInv, Allocating, Removing, TypeOK
<1>5. LingerInv'
  BY DEF LingerInv, TypeOK
<1>6. WaitInv'
  BY DEF WaitInv, TypeOK
<1>7. OnceInv'
  BY DEF OnceInv, StartInv, Allocating, TypeOK
<1>8. AfterInv'
  BY DEF AfterInv, HeldInv, WaitInv, Allocating, Removing, TypeOK
<1> QED
  BY <1>1, <1>2, <1>3, <1>4, <1>5, <1>6, <1>7, <1>8 DEF IndInv

(* A command ends and forgets what it knew.                                   *)
LEMMA EndInd ==
  ASSUME IndInv, NEW x \in Procs, NEW r \in Ended, End(x, r), UNCHANGED <<capella, local>>
  PROVE  IndInv'
<1> USE DEF IndInv, Cleaning, capella, local, Ended, End, GoTo, Forget, Nothing
<1>1. TypeOK'
  BY TimeAssumption DEF TypeOK, Knowledge, Steps, ClusterStates
<1>2. StartInv'
  BY DEF StartInv, Allocating, TypeOK
<1>3. SweepInv'
  BY DEF SweepInv, Started, Lapsed, AsSeen, Allocating, Removing, TypeOK, StartInv
<1>4. HeldInv'
  BY DEF HeldInv, Allocating, Removing, TypeOK
<1>5. LingerInv'
  BY DEF LingerInv, TypeOK
<1>6. WaitInv'
  BY DEF WaitInv, TypeOK
<1>7. OnceInv'
  BY DEF OnceInv, StartInv, Allocating, TypeOK
<1>8. AfterInv'
  BY DEF AfterInv, HeldInv, WaitInv, Allocating, Removing, TypeOK
<1> QED
  BY <1>1, <1>2, <1>3, <1>4, <1>5, <1>6, <1>7, <1>8 DEF IndInv

-----------------------------------------------------------------------------
(* What a call does to the projects and to what a process knows.              *)

LEMMA ProjectDeleted ==
  ASSUME TypeOK, NEW q \in Projects, DeleteProject(q)
  PROVE  /\ projects' \subseteq projects /\ expiry' \in [Projects -> Nat]
         /\ \A p \in projects' : expiry'[p] = expiry[p]
  BY DEF TypeOK, DeleteProject, Deletable

LEMMA ProjectRenamed ==
  ASSUME TypeOK, NEW q \in Projects, \E life \in Lifetimes : expiry' = [expiry EXCEPT ![q] = ExpiryTime(life)]
  PROVE  expiry' \in [Projects -> Nat] /\ \A p \in Projects \ {q} : expiry'[p] = expiry[p]
  BY TimeAssumption DEF TypeOK, ExpiryTime

Learn(x, q, found) == [seen EXCEPT ![x][q].held = found]
LearnAll(x, q, found, stuck) == [seen EXCEPT ![x][q].held = found, ![x][q].stuck = stuck]

LEMMA KnowsHeld ==
  ASSUME TypeOK, NEW x \in Procs, NEW q \in Projects, NEW held \in SUBSET Slots,
         seen' = Learn(x, q, held)
  PROVE  /\ seen' \in [Procs -> [Projects -> Knowledge]]
         /\ \A y \in Procs, p \in Projects :
              /\ seen'[y][p].expiry = seen[y][p].expiry
              /\ seen'[y][p].held = IF y = x /\ p = q THEN held ELSE seen[y][p].held
<1>1. seen \in [Procs -> [Projects -> Knowledge]]
  BY DEF TypeOK
<1>2. \A y \in Procs, p \in Projects :
        seen'[y][p] = IF y = x /\ p = q THEN [seen[y][p] EXCEPT !.held = held] ELSE seen[y][p]
  BY <1>1 DEF Learn
<1>3. \A y \in Procs, p \in Projects : seen[y][p] \in Knowledge
  BY <1>1
<1>4. \A y \in Procs, p \in Projects :
        /\ seen'[y][p] \in Knowledge /\ seen'[y][p].expiry = seen[y][p].expiry
        /\ seen'[y][p].held = IF y = x /\ p = q THEN held ELSE seen[y][p].held
  <2> SUFFICES ASSUME NEW y \in Procs, NEW p \in Projects
               PROVE  /\ seen'[y][p] \in Knowledge /\ seen'[y][p].expiry = seen[y][p].expiry
                      /\ seen'[y][p].held = IF y = x /\ p = q THEN held ELSE seen[y][p].held
    OBVIOUS
  <2>1. seen[y][p] \in Knowledge
    BY <1>3
  <2>2. CASE y = x /\ p = q
    <3>1. seen'[y][p] = [seen[y][p] EXCEPT !.held = held]
      BY <1>2, <2>2
    <3>2. seen'[y][p] = [expiry |-> seen[y][p].expiry, held |-> held, stuck |-> seen[y][p].stuck]
      BY <2>1, <3>1 DEF Knowledge
    <3>3. seen[y][p].expiry \in Nat /\ seen[y][p].stuck \in SUBSET Slots
      BY <2>1 DEF Knowledge
    <3>4. seen'[y][p] \in Knowledge
      BY <3>2, <3>3 DEF Knowledge
    <3>5. seen'[y][p].expiry = seen[y][p].expiry
      BY <3>2
    <3>6. seen'[y][p].held = held
      BY <3>2
    <3> QED
      BY <2>2, <3>4, <3>5, <3>6
  <2>3. CASE ~(y = x /\ p = q)
    <3>1. seen'[y][p] = seen[y][p]
      BY <1>2, <2>3
    <3>2. seen'[y][p] \in Knowledge
      BY <2>1, <3>1
    <3>3. seen'[y][p].expiry = seen[y][p].expiry
      BY <3>1
    <3>4. seen'[y][p].held = seen[y][p].held
      BY <3>1
    <3> QED
      BY <2>3, <3>2, <3>3, <3>4
  <2> QED
    BY <2>2, <2>3
<1>5. seen' \in [Procs -> [Projects -> Knowledge]]
  <2>1. \A y \in Procs, p \in Projects : seen'[y][p] \in Knowledge
    BY <1>4
  <2> QED
    BY <1>1, <2>1 DEF Learn
<1> QED
  BY <1>4, <1>5

LEMMA KnowsProject ==
  ASSUME TypeOK, NEW x \in Procs, NEW q \in Projects, NEW held \in SUBSET Slots, NEW stuck \in SUBSET Slots,
         seen' = LearnAll(x, q, held, stuck)
  PROVE  /\ seen' \in [Procs -> [Projects -> Knowledge]]
         /\ \A y \in Procs, p \in Projects :
              /\ seen'[y][p].expiry = seen[y][p].expiry
              /\ seen'[y][p].held = IF y = x /\ p = q THEN held ELSE seen[y][p].held
<1>1. seen \in [Procs -> [Projects -> Knowledge]]
  BY DEF TypeOK
<1>2. \A y \in Procs, p \in Projects :
        seen'[y][p] = IF y = x /\ p = q THEN [seen[y][p] EXCEPT !.held = held, !.stuck = stuck] ELSE seen[y][p]
  BY <1>1 DEF LearnAll
<1>3. \A y \in Procs, p \in Projects : seen[y][p] \in Knowledge
  BY <1>1
<1>4. \A y \in Procs, p \in Projects :
        /\ seen'[y][p] \in Knowledge /\ seen'[y][p].expiry = seen[y][p].expiry
        /\ seen'[y][p].held = IF y = x /\ p = q THEN held ELSE seen[y][p].held
  <2> SUFFICES ASSUME NEW y \in Procs, NEW p \in Projects
               PROVE  /\ seen'[y][p] \in Knowledge /\ seen'[y][p].expiry = seen[y][p].expiry
                      /\ seen'[y][p].held = IF y = x /\ p = q THEN held ELSE seen[y][p].held
    OBVIOUS
  <2>1. seen[y][p] \in Knowledge
    BY <1>3
  <2>2. CASE y = x /\ p = q
    <3>1. seen'[y][p] = [seen[y][p] EXCEPT !.held = held, !.stuck = stuck]
      BY <1>2, <2>2
    <3>2. seen'[y][p] = [expiry |-> seen[y][p].expiry, held |-> held, stuck |-> stuck]
      BY <2>1, <3>1 DEF Knowledge
    <3>3. seen[y][p].expiry \in Nat
      BY <2>1 DEF Knowledge
    <3>4. seen'[y][p] \in Knowledge
      BY <3>2, <3>3 DEF Knowledge
    <3>5. seen'[y][p].expiry = seen[y][p].expiry
      BY <3>2
    <3>6. seen'[y][p].held = held
      BY <3>2
    <3> QED
      BY <2>2, <3>4, <3>5, <3>6
  <2>3. CASE ~(y = x /\ p = q)
    <3>1. seen'[y][p] = seen[y][p]
      BY <1>2, <2>3
    <3>2. seen'[y][p] \in Knowledge
      BY <2>1, <3>1
    <3>3. seen'[y][p].expiry = seen[y][p].expiry
      BY <3>1
    <3>4. seen'[y][p].held = seen[y][p].held
      BY <3>1
    <3> QED
      BY <2>3, <3>2, <3>3, <3>4
  <2> QED
    BY <2>2, <2>3
<1>5. seen' \in [Procs -> [Projects -> Knowledge]]
  <2>1. \A y \in Procs, p \in Projects : seen'[y][p] \in Knowledge
    BY <1>4
  <2> QED
    BY <1>1, <2>1 DEF LearnAll
<1> QED
  BY <1>4, <1>5

Forgot(x) ==
  /\ unread' \in [Procs -> SUBSET Projects] /\ seen' \in [Procs -> [Projects -> Knowledge]]
  /\ todo' \in [Procs -> SUBSET Projects] /\ jobs' \in [Procs -> SUBSET (Projects \X Slots)]
  /\ failed' \in [Procs -> SUBSET Projects] /\ renamed' \in [Procs -> SUBSET Projects]
  /\ \A y \in Procs \ {x} : /\ seen'[y] = seen[y] /\ todo'[y] = todo[y] /\ jobs'[y] = jobs[y]
                             /\ failed'[y] = failed[y] /\ renamed'[y] = renamed[y]
  /\ \A q \in Projects : seen'[x][q].held = {}
  /\ todo'[x] = {} /\ jobs'[x] = {}

LEMMA Forgetting == ASSUME TypeOK, NEW x \in Procs, Forget(x) PROVE Forgot(x)
  BY DEF TypeOK, Forget, Forgot, Nothing, Knowledge

LEMMA KnowsNothing ==
  ASSUME TypeOK, NEW x \in Procs, NEW f \in [Projects -> Nat],
         seen' = [seen EXCEPT ![x] = [q \in Projects |-> [Nothing EXCEPT !.expiry = f[q]]]]
  PROVE  /\ seen' \in [Procs -> [Projects -> Knowledge]]
         /\ \A y \in Procs, p \in Projects :
              /\ seen'[y][p].expiry = IF y = x THEN f[p] ELSE seen[y][p].expiry
              /\ seen'[y][p].held = IF y = x THEN {} ELSE seen[y][p].held
<1>1. \A p \in Projects : [Nothing EXCEPT !.expiry = f[p]] = [expiry |-> f[p], held |-> {}, stuck |-> {}]
  BY DEF Nothing
<1>2. \A p \in Projects : [Nothing EXCEPT !.expiry = f[p]] \in Knowledge
  BY <1>1 DEF Knowledge
<1> QED
  BY <1>1, <1>2 DEF TypeOK

-----------------------------------------------------------------------------
(* An action that moves a process on, one at a time.                         *)

LEMMA CreateRefusedInd == ASSUME IndInv, NEW x \in Procs, CreateRefused(x) PROVE IndInv'
<1>1. Kept /\ UNCHANGED <<now, projects, expiry, local, memory>> /\ state' = state
  BY KeptSame DEF CreateRefused, capella
<1>2. PICK r \in Steps : /\ step' = [step EXCEPT ![x] = r]
                         /\ r \notin {"start", "create", "inspect", "waitall", "projects"}
                         /\ r \in Removing \cup {"sweep"} => step[x] \in Removing
                         /\ r = "project" => state[target[x]][slot[x]] = "gone"
  BY DEF CreateRefused, Removing, Steps, Listed, Absent, Creating, GoTo, IndInv, TypeOK, LingerInv, ClusterStates
<1>3. r = "project" => state'[target[x]][slot[x]] = "gone"
  BY <1>1, <1>2
<1> QED
  BY <1>1, <1>2, <1>3, StepInd

LEMMA WaitForHealthyInd == ASSUME IndInv, NEW x \in Procs, WaitForHealthy(x) PROVE IndInv'
<1>1. Kept /\ UNCHANGED <<now, projects, expiry, local, memory>> /\ state' = state
  BY KeptSame DEF WaitForHealthy, capella
<1>2. PICK r \in Steps : /\ step' = [step EXCEPT ![x] = r]
                         /\ r \notin {"start", "create", "inspect", "waitall", "projects"}
                         /\ r \in Removing \cup {"sweep"} => step[x] \in Removing
                         /\ r = "project" => state[target[x]][slot[x]] = "gone"
  BY DEF WaitForHealthy, Removing, Steps, Listed, Absent, GoTo, IndInv, TypeOK, LingerInv, ClusterStates
<1>3. r = "project" => state'[target[x]][slot[x]] = "gone"
  BY <1>1, <1>2
<1> QED
  BY <1>1, <1>2, <1>3, StepInd

LEMMA UpdateWithoutEffectInd == ASSUME IndInv, NEW x \in Procs, UpdateWithoutEffect(x) PROVE IndInv'
<1>1. Kept /\ UNCHANGED <<now, projects, expiry, local, memory>> /\ state' = state
  BY KeptSame DEF UpdateWithoutEffect, capella
<1>2. PICK r \in Steps : /\ step' = [step EXCEPT ![x] = r]
                         /\ r \notin {"start", "create", "inspect", "waitall", "projects"}
                         /\ r \in Removing \cup {"sweep"} => step[x] \in Removing
                         /\ r = "project" => state[target[x]][slot[x]] = "gone"
  BY DEF UpdateWithoutEffect, Removing, Steps, Listed, Absent, Modifying, Begun, Skipped, SecondRound, GoTo, IndInv, TypeOK, LingerInv, ClusterStates
<1>3. r = "project" => state'[target[x]][slot[x]] = "gone"
  BY <1>1, <1>2
<1> QED
  BY <1>1, <1>2, <1>3, StepInd

LEMMA WaitForModifiedInd == ASSUME IndInv, NEW x \in Procs, WaitForModified(x) PROVE IndInv'
<1>1. Kept /\ UNCHANGED <<now, projects, expiry, local, memory>> /\ state' = state
  BY KeptSame DEF WaitForModified, capella
<1>2. PICK r \in Steps : /\ step' = [step EXCEPT ![x] = r]
                         /\ r \notin {"start", "create", "inspect", "waitall", "projects"}
                         /\ r \in Removing \cup {"sweep"} => step[x] \in Removing
                         /\ r = "project" => state[target[x]][slot[x]] = "gone"
  BY DEF WaitForModified, Removing, Steps, Listed, Absent, SecondRound, GoTo, IndInv, TypeOK, LingerInv, ClusterStates
<1>3. r = "project" => state'[target[x]][slot[x]] = "gone"
  BY <1>1, <1>2
<1> QED
  BY <1>1, <1>2, <1>3, StepInd

LEMMA WaitForDeletedInd == ASSUME IndInv, NEW x \in Procs, WaitForDeleted(x) PROVE IndInv'
<1>1. Kept /\ UNCHANGED <<now, projects, expiry, local, memory>> /\ state' = state
  BY KeptSame DEF WaitForDeleted, capella
<1>2. PICK r \in Steps : /\ step' = [step EXCEPT ![x] = r]
                         /\ r \notin {"start", "create", "inspect", "waitall", "projects"}
                         /\ r \in Removing \cup {"sweep"} => step[x] \in Removing
                         /\ r = "project" => state[target[x]][slot[x]] = "gone"
  BY DEF WaitForDeleted, Removing, Steps, Listed, Absent, Cleaning, After, GoTo, OffPage, InFailedState, HeldInv, Allocating, IndInv, TypeOK, LingerInv, ClusterStates
<1>3. r = "project" => state'[target[x]][slot[x]] = "gone"
  BY <1>1, <1>2
<1> QED
  BY <1>1, <1>2, <1>3, StepInd

LEMMA WaitForDeletionEventsInd == ASSUME IndInv, NEW x \in Procs, WaitForDeletionEvents(x) PROVE IndInv'
<1>1. Kept /\ UNCHANGED <<now, projects, expiry, local, memory>> /\ state' = state
  BY KeptSame DEF WaitForDeletionEvents, capella
<1>2. PICK r \in Steps : /\ step' = [step EXCEPT ![x] = r]
                         /\ r \notin {"start", "create", "inspect", "waitall", "projects"}
                         /\ r \in Removing \cup {"sweep"} => step[x] \in Removing
                         /\ r = "project" => state[target[x]][slot[x]] = "gone"
  BY DEF WaitForDeletionEvents, Removing, Steps, Listed, Absent, GoTo, IndInv, TypeOK, LingerInv, ClusterStates
<1>3. r = "project" => state'[target[x]][slot[x]] = "gone"
  BY <1>1, <1>2
<1> QED
  BY <1>1, <1>2, <1>3, StepInd

LEMMA UpdateClusterInd == ASSUME IndInv, NEW x \in Procs, UpdateCluster(x) PROVE IndInv'
<1>1. UNCHANGED <<now, projects, expiry, local, memory>>
  BY DEF UpdateCluster
<1>2. Kept
  <2>1. target[x] \in Projects /\ slot[x] \in Slots /\ "changing" \in ClusterStates
    BY DEF IndInv, TypeOK, ClusterStates
  <2>2. \/ state' = state
        \/ /\ state[target[x]][slot[x]] \notin {"none", "gone"}
           /\ state' = [state EXCEPT ![target[x]][slot[x]] = "changing"]
    BY DEF UpdateCluster, Modifying, Begun
  <2> QED
    BY <2>1, <2>2, KeptSame, KeptMove
<1>3. PICK r \in Steps : /\ step' = [step EXCEPT ![x] = r]
                         /\ r \notin {"start", "create", "inspect", "waitall", "projects", "project"}
                         /\ r \in Removing \cup {"sweep"} => step[x] \in Removing
  BY DEF UpdateCluster, Modifying, Begun, GoTo, Removing, Steps
<1> QED
  BY <1>1, <1>2, <1>3, StepInd

LEMMA DeleteClusterInd == ASSUME IndInv, NEW x \in Procs, DeleteCluster(x) PROVE IndInv'
<1>1. UNCHANGED <<now, projects, expiry, local, memory>>
  BY DEF DeleteCluster
<1>2. Kept
  <2>1. target[x] \in Projects /\ slot[x] \in Slots /\ "destroying" \in ClusterStates
    BY DEF IndInv, TypeOK, ClusterStates
  <2>2. \/ state' = state
        \/ /\ state[target[x]][slot[x]] \notin {"none", "gone"}
           /\ state' = [state EXCEPT ![target[x]][slot[x]] = "destroying"]
    BY DEF DeleteCluster, Delete, CannotDelete, Listed, Absent, Cleaning, After
  <2> QED
    BY <2>1, <2>2, KeptSame, KeptMove
<1>3. PICK r \in Steps : /\ step' = [step EXCEPT ![x] = r]
                         /\ r \notin {"start", "create", "inspect", "waitall", "projects", "project"}
                         /\ r \in Removing \cup {"sweep"} => step[x] \in Removing
  BY DEF DeleteCluster, Delete, CannotDelete, Listed, Absent, Cleaning, After, GoTo, Removing, Steps
<1> QED
  BY <1>1, <1>2, <1>3, StepInd

(* An action that ends a command.                                            *)

LEMMA FailInd == ASSUME IndInv, NEW x \in Procs, Fail(x) PROVE IndInv'
  BY EndInd DEF Fail, Ended

LEMMA InspectFailsInd == ASSUME IndInv, NEW x \in Procs, NEW q \in Projects, InspectFails(x, q) PROVE IndInv'
  BY EndInd DEF InspectFails, Ended

LEMMA AllocatedInd == ASSUME IndInv, NEW x \in Procs, Allocated(x) PROVE IndInv'
  BY EndInd DEF Allocated, Ended

LEMMA CleanupDoneInd == ASSUME IndInv, NEW x \in Procs, CleanupDone(x) PROVE IndInv'
  BY EndInd DEF CleanupDone, Ended

LEMMA RemoveAllDoneInd == ASSUME IndInv, NEW x \in Procs, RemoveAllDone(x) PROVE IndInv'
  BY EndInd DEF RemoveAllDone, Ended

-----------------------------------------------------------------------------
(* The others.                                                               *)

LEMMA TickInd == ASSUME IndInv, Tick PROVE IndInv'
<1> USE DEF IndInv, Cleaning, capella, local, memory, Tick
<1>1. TypeOK'
  BY TimeAssumption DEF TypeOK, Knowledge, Steps, ClusterStates
<1>2. StartInv'
  BY DEF StartInv, Allocating, TypeOK
<1>3. SweepInv'
  BY DEF SweepInv, Started, Lapsed, AsSeen, Allocating, Removing, TypeOK, StartInv
<1>4. HeldInv'
  BY DEF HeldInv, Allocating, Removing, TypeOK
<1>5. LingerInv'
  BY DEF LingerInv, TypeOK
<1>6. WaitInv'
  BY DEF WaitInv, TypeOK
<1>7. OnceInv'
  BY DEF OnceInv, StartInv, Allocating, TypeOK
<1>8. AfterInv'
  BY DEF AfterInv, HeldInv, WaitInv, Allocating, Removing, TypeOK
<1> QED
  BY <1>1, <1>2, <1>3, <1>4, <1>5, <1>6, <1>7, <1>8 DEF IndInv

LEMMA CreateProjectInd == ASSUME IndInv, NEW x \in Procs, CreateProject(x) PROVE IndInv'
<1>a. expiry' \in [Projects -> Nat] /\ \A p \in Projects \ {target[x]} : expiry'[p] = expiry[p]
  BY ProjectRenamed DEF CreateProject, IndInv, TypeOK
<1> USE <1>a DEF IndInv, Cleaning, capella, local, memory, CreateProject, GoTo
<1>1. TypeOK'
  BY TimeAssumption DEF TypeOK, Knowledge, Steps, ClusterStates
<1>2. StartInv'
  BY DEF StartInv, Allocating, TypeOK
<1>3. SweepInv'
  BY DEF SweepInv, Started, Lapsed, AsSeen, Allocating, Removing, TypeOK, StartInv
<1>4. HeldInv'
  BY DEF HeldInv, Allocating, Removing, TypeOK
<1>5. LingerInv'
  BY DEF LingerInv, TypeOK
<1>6. WaitInv'
  <2>1. UNCHANGED <<state, seen, jobs, failed>>
    OBVIOUS
  <2>2. \A y \in Procs : step'[y] = "waitall" => step[y] = "waitall"
    BY DEF TypeOK
  <2> QED
    BY <2>1, <2>2 DEF WaitInv
<1>7. OnceInv'
  BY DEF OnceInv, StartInv, Allocating, TypeOK
<1>8. AfterInv'
  BY DEF AfterInv, HeldInv, WaitInv, Allocating, Removing, TypeOK
<1> QED
  BY <1>1, <1>2, <1>3, <1>4, <1>5, <1>6, <1>7, <1>8 DEF IndInv

LEMMA CreateClusterInd == ASSUME IndInv, NEW x \in Procs, CreateCluster(x) PROVE IndInv'
<1> USE DEF IndInv, Cleaning, capella, local, memory, CreateCluster, Creating, Create, GoTo
<1>1. TypeOK'
  BY TimeAssumption DEF TypeOK, Knowledge, Steps, ClusterStates
<1>2. StartInv'
  BY DEF StartInv, Allocating, TypeOK
<1>3. SweepInv'
  BY DEF SweepInv, Started, Lapsed, AsSeen, Allocating, Removing, TypeOK, StartInv
<1>4. HeldInv'
  BY DEF HeldInv, Allocating, Removing, TypeOK
<1>5. LingerInv'
  BY DEF LingerInv, TypeOK
<1>6. WaitInv'
  BY DEF WaitInv, TypeOK
<1>7. OnceInv'
  BY DEF OnceInv, StartInv, Allocating, TypeOK
<1>8. AfterInv'
  BY DEF AfterInv, HeldInv, WaitInv, Allocating, Removing, TypeOK
<1> QED
  BY <1>1, <1>2, <1>3, <1>4, <1>5, <1>6, <1>7, <1>8 DEF IndInv

LEMMA UnauthorizedInd == ASSUME IndInv, NEW x \in Procs, Unauthorized(x) PROVE IndInv'
<1> USE DEF IndInv, Cleaning, capella, local, memory, Unauthorized, Creating
<1>1. TypeOK'
  BY TimeAssumption DEF TypeOK, Knowledge, Steps, ClusterStates
<1>2. StartInv'
  BY DEF StartInv, Allocating, TypeOK
<1>3. SweepInv'
  BY DEF SweepInv, Started, Lapsed, AsSeen, Allocating, Removing, TypeOK, StartInv
<1>4. HeldInv'
  BY DEF HeldInv, Allocating, Removing, TypeOK
<1>5. LingerInv'
  BY DEF LingerInv, TypeOK
<1>6. WaitInv'
  BY DEF WaitInv, TypeOK
<1>7. OnceInv'
  BY DEF OnceInv, StartInv, Allocating, TypeOK
<1>8. AfterInv'
  BY DEF AfterInv, HeldInv, WaitInv, Allocating, Removing, TypeOK
<1> QED
  BY <1>1, <1>2, <1>3, <1>4, <1>5, <1>6, <1>7, <1>8 DEF IndInv

LEMMA CreateUnansweredInd == ASSUME IndInv, NEW x \in Procs, CreateUnanswered(x) PROVE IndInv'
<1> USE DEF IndInv, Cleaning, capella, local, memory, CreateUnanswered, Creating, Create, MayRetry, GoTo
<1>1. TypeOK'
  BY TimeAssumption DEF TypeOK, Knowledge, Steps, ClusterStates
<1>2. StartInv'
  BY DEF StartInv, Allocating, TypeOK
<1>3. SweepInv'
  BY DEF SweepInv, Started, Lapsed, AsSeen, Allocating, Removing, TypeOK, StartInv
<1>4. HeldInv'
  BY DEF HeldInv, Allocating, Removing, TypeOK
<1>5. LingerInv'
  BY DEF LingerInv, TypeOK
<1>6. WaitInv'
  BY DEF WaitInv, TypeOK
<1>7. OnceInv'
  BY DEF OnceInv, StartInv, Allocating, TypeOK
<1>8. AfterInv'
  BY DEF AfterInv, HeldInv, WaitInv, Allocating, Removing, TypeOK
<1> QED
  BY <1>1, <1>2, <1>3, <1>4, <1>5, <1>6, <1>7, <1>8 DEF IndInv

LEMMA ListProjectsInd == ASSUME IndInv, NEW x \in Procs, ListProjects(x) PROVE IndInv'
<1>a. /\ seen' \in [Procs -> [Projects -> Knowledge]]
      /\ \A y \in Procs \ {x}, p \in Projects :
           seen'[y][p].expiry = seen[y][p].expiry /\ seen'[y][p].held = seen[y][p].held
      /\ \A p \in Projects :
           (op[x] = "cleanup" => seen'[x][p].expiry = expiry[p]) /\ seen'[x][p].held = {}
  <2> DEFINE f == [p \in Projects |-> IF op[x] = "cleanup" THEN expiry[p] ELSE 0]
  <2>1. f \in [Projects -> Nat]
    BY DEF IndInv, TypeOK
  <2>2. seen' = [seen EXCEPT ![x] = [p \in Projects |-> [Nothing EXCEPT !.expiry = f[p]]]]
    BY DEF ListProjects, Cleaning
  <2>3. \A p \in Projects : op[x] = "cleanup" => f[p] = expiry[p]
    OBVIOUS
  <2> HIDE DEF f
  <2>4. /\ seen' \in [Procs -> [Projects -> Knowledge]]
        /\ \A y \in Procs, p \in Projects :
             /\ seen'[y][p].expiry = IF y = x THEN f[p] ELSE seen[y][p].expiry
             /\ seen'[y][p].held = IF y = x THEN {} ELSE seen[y][p].held
    BY <2>1, <2>2, KnowsNothing DEF IndInv
  <2> QED
    BY <2>3, <2>4
<1>b. /\ unread' \in [Procs -> SUBSET Projects] /\ todo' \in [Procs -> SUBSET Projects]
      /\ \A y \in Procs \ {x} : todo'[y] = todo[y]
      /\ op[x] = "cleanup" => todo'[x] = projects
  <2> USE DEF IndInv, TypeOK
  <2>1. CASE WantsAll(x)
    <3>1. unread' = [unread EXCEPT ![x] = projects] /\ todo' = [todo EXCEPT ![x] = projects]
      BY <2>1 DEF ListProjects
    <3> QED
      BY <3>1
  <2>2. CASE ~WantsAll(x)
    <3>1. unread' = [unread EXCEPT ![x] = {target[x]}] /\ todo' = todo
      BY <2>2 DEF ListProjects
    <3>2. op[x] # "cleanup" /\ target[x] \in Projects
      BY <2>2 DEF WantsAll
    <3> QED
      BY <3>1, <3>2
  <2> QED
    BY <2>1, <2>2
<1>c. step[x] = "list" /\ GoTo(x, "inspect") /\ UNCHANGED <<capella, local, jobs, failed, renamed>>
  BY DEF ListProjects
<1>d. \A y \in Procs : step'[y] \in Removing \cup {"sweep", "waitall", "projects"} => y # x /\ step'[y] = step[y]
  BY <1>c DEF GoTo, IndInv, TypeOK, Removing
<1>e. \A y \in Procs, p \in Projects : seen'[y][p].held \subseteq seen[y][p].held
  BY <1>a
<1> USE DEF IndInv, Cleaning, capella, local, GoTo
<1>1. TypeOK'
  BY TimeAssumption, <1>a, <1>b, <1>c DEF TypeOK, Knowledge, Steps, ClusterStates
<1>2. StartInv'
  BY <1>b, <1>c DEF StartInv, Allocating, TypeOK
<1>3. SweepInv'
  BY <1>a, <1>b, <1>c DEF SweepInv, Started, Lapsed, AsSeen, Allocating, Removing, TypeOK, StartInv
<1>4. HeldInv'
  <2>1. UNCHANGED <<state, jobs, target, slot, op>>
    BY <1>c
  <2> QED
    BY <1>d, <1>e, <2>1 DEF HeldInv, Allocating
<1>5. LingerInv'
  BY <1>c DEF LingerInv, TypeOK
<1>6. WaitInv'
  <2>1. UNCHANGED <<state, jobs, failed>>
    BY <1>c
  <2> QED
    BY <1>d, <1>e, <2>1 DEF WaitInv
<1>7. OnceInv'
  BY <1>c DEF OnceInv, StartInv, Allocating, TypeOK
<1>8. AfterInv'
  <2>1. UNCHANGED <<state, target, slot>>
    BY <1>c
  <2> QED
    BY <1>b, <1>d, <1>e, <2>1 DEF AfterInv, Removing
<1> QED
  BY <1>1, <1>2, <1>3, <1>4, <1>5, <1>6, <1>7, <1>8 DEF IndInv

(* The clusters that x knows in q are those held, and no other knowledge has   *)
(* changed.                                                                   *)
Knowing(x, q, held) ==
  /\ seen' \in [Procs -> [Projects -> Knowledge]]
  /\ \A y \in Procs, p \in Projects :
       /\ seen'[y][p].expiry = seen[y][p].expiry
       /\ seen'[y][p].held = IF y = x /\ p = q THEN held ELSE seen[y][p].held

(* What a listing of the clusters of a project changes in the knowledge of x. *)
Learned(x, q) ==
  /\ seen' \in [Procs -> [Projects -> Knowledge]]
  /\ \E held \in SUBSET Slots : \A y \in Procs, p \in Projects :
       /\ seen'[y][p].expiry = seen[y][p].expiry
       /\ seen'[y][p].held = IF y = x /\ p = q THEN held ELSE seen[y][p].held
       /\ \A s \in held : s \in seen[x][q].held \/ state[q][s] # "none"

LEMMA LearnedThis ==
  ASSUME NEW x, NEW q, NEW held \in SUBSET Slots, Knowing(x, q, held),
         \A s \in held : s \in seen[x][q].held \/ state[q][s] # "none"
  PROVE  Learned(x, q)
<1>1. \E known \in SUBSET Slots : \A y \in Procs, p \in Projects :
        /\ seen'[y][p].expiry = seen[y][p].expiry
        /\ seen'[y][p].held = IF y = x /\ p = q THEN known ELSE seen[y][p].held
        /\ \A s \in known : s \in seen[x][q].held \/ state[q][s] # "none"
  <2> WITNESS held \in SUBSET Slots
  <2> QED
    BY DEF Knowing
<1> QED
  BY <1>1 DEF Learned, Knowing

LEMMA LearnedNothing == ASSUME TypeOK, NEW x \in Procs, NEW q \in Projects, seen' = seen PROVE Learned(x, q)
<1>1. seen[x][q].held \in SUBSET Slots /\ seen' \in [Procs -> [Projects -> Knowledge]]
  BY DEF TypeOK, Knowledge
<1>2. \A y \in Procs, p \in Projects :
        /\ seen'[y][p].expiry = seen[y][p].expiry
        /\ seen'[y][p].held = IF y = x /\ p = q THEN seen[x][q].held ELSE seen[y][p].held
  OBVIOUS
<1>3. Knowing(x, q, seen[x][q].held)
  BY <1>1, <1>2 DEF Knowing
<1> QED
  BY <1>1, <1>3, LearnedThis

LEMMA LearnedInd ==
  ASSUME IndInv, NEW x \in Procs, NEW q \in Projects, Learned(x, q), step[x] = "inspect",
         unread' \in [Procs -> SUBSET Projects], failed' \in [Procs -> SUBSET Projects],
         \A y \in Procs \ {x} : failed'[y] = failed[y],
         UNCHANGED <<capella, local, step, todo, jobs, renamed>>
  PROVE  IndInv'
<1>a. PICK held \in SUBSET Slots : \A y \in Procs, p \in Projects :
        /\ seen'[y][p].expiry = seen[y][p].expiry
        /\ seen'[y][p].held = IF y = x /\ p = q THEN held ELSE seen[y][p].held
        /\ \A s \in held : s \in seen[x][q].held \/ state[q][s] # "none"
  BY DEF Learned
<1>b. /\ seen' \in [Procs -> [Projects -> Knowledge]]
      /\ \A y \in Procs \ {x}, p \in Projects : seen'[y][p].held = seen[y][p].held
      /\ \A y \in Procs, p \in Projects : seen'[y][p].expiry = seen[y][p].expiry
  BY <1>a DEF Learned
<1>c. UNCHANGED <<now, projects, expiry, state, op, target, slot, faulty, reauthed, step, todo, jobs, renamed>>
  BY DEF capella, local
<1> HIDE DEF IndInv
<1>d. TypeOK /\ StartInv /\ SweepInv /\ HeldInv /\ LingerInv /\ WaitInv /\ OnceInv /\ AfterInv
  BY DEF IndInv
<1>1. TypeOK'
  BY <1>b, <1>c, <1>d DEF TypeOK
<1>2. StartInv'
  BY <1>c, <1>d DEF StartInv, Allocating
<1>3. SweepInv'
  BY <1>b, <1>c, <1>d DEF SweepInv, Started, Lapsed, AsSeen, Allocating, Cleaning, TypeOK
<1>4. HeldInv'
  <2>1. \A y \in Procs, p \in Projects : \A s \in seen'[y][p].held : s \in seen[y][p].held \/ state[p][s] # "none"
    BY <1>a
  <2> QED
    BY <1>c, <1>d, <2>1 DEF HeldInv, Allocating
<1>5. LingerInv'
  BY <1>c, <1>d DEF LingerInv
<1>e. \A y \in Procs, p \in Projects : step[y] # "inspect" =>
        seen'[y][p].held = seen[y][p].held /\ failed'[y] = failed[y]
  BY <1>b
<1>6. WaitInv'
  <2> SUFFICES ASSUME NEW y \in Procs, step[y] = "waitall", NEW p \in Projects, NEW s \in Slots,
                      s \in seen'[y][p].held
               PROVE  <<p, s>> \in jobs[y] \/ state[p][s] = "gone" \/ p \in failed'[y]
    BY <1>c DEF WaitInv
  <2>1. s \in seen[y][p].held /\ failed'[y] = failed[y]
    BY <1>e
  <2> QED
    BY <1>d, <2>1 DEF WaitInv
<1>7. OnceInv'
  BY <1>c, <1>d DEF OnceInv, Allocating
<1>8. AfterInv'
  <2>1. \A y \in Procs, p \in Projects : step[y] = "projects" => seen'[y][p].held = seen[y][p].held
    BY <1>e
  <2> QED
    BY <1>c, <1>d, <2>1 DEF AfterInv
<1> QED
  BY <1>1, <1>2, <1>3, <1>4, <1>5, <1>6, <1>7, <1>8 DEF IndInv

LEMMA InspectProjectInd == ASSUME IndInv, NEW x \in Procs, NEW q \in Projects, InspectProject(x, q) PROVE IndInv'
<1>1. TypeOK
  BY DEF IndInv
<1>2. Learned(x, q)
  <2>1. CASE seen' = seen
    BY <1>1, <2>1, LearnedNothing
  <2>2. CASE seen' = [seen EXCEPT ![x][q].held = Listed(q), ![x][q].stuck = IF Cleaning(x) THEN StuckIn(q) ELSE {}]
    <3> DEFINE stuck == IF Cleaning(x) THEN StuckIn(q) ELSE {}
    <3>1. Listed(q) \in SUBSET Slots /\ stuck \in SUBSET Slots
      BY DEF Listed, StuckIn
    <3>2. \A s \in Listed(q) : state[q][s] # "none"
      BY DEF Listed, Absent
    <3>3. seen' = LearnAll(x, q, Listed(q), stuck)
      BY <2>2 DEF LearnAll
    <3> HIDE DEF stuck
    <3>4. Knowing(x, q, Listed(q))
      BY <1>1, <3>1, <3>3, KnowsProject DEF Knowing
    <3> QED
      BY <3>1, <3>2, <3>4, LearnedThis
  <2> QED
    BY <2>1, <2>2 DEF InspectProject
<1>3. step[x] = "inspect" /\ unread' \in [Procs -> SUBSET Projects]
  BY <1>1 DEF InspectProject, TypeOK
<1>4. failed' \in [Procs -> SUBSET Projects] /\ failed' = failed
      /\ UNCHANGED <<capella, local, step, todo, jobs, renamed>>
  BY <1>1 DEF InspectProject, TypeOK
<1> QED
  BY <1>2, <1>3, <1>4, LearnedInd

LEMMA KeepProjectInd == ASSUME IndInv, NEW x \in Procs, NEW q \in Projects, KeepProject(x, q) PROVE IndInv'
<1>1. TypeOK
  BY DEF IndInv
<1>2. Learned(x, q)
  <2>1. CASE seen' = seen
    BY <1>1, <2>1, LearnedNothing
  <2>2. CASE \E found \in SUBSET Listed(q) : seen' = [seen EXCEPT ![x][q].held = found]
    <3>1. PICK found \in SUBSET Listed(q) : seen' = [seen EXCEPT ![x][q].held = found]
      BY <2>2
    <3>2. found \in SUBSET Slots /\ \A s \in found : state[q][s] # "none"
      BY DEF Listed, Absent
    <3>3. seen' = Learn(x, q, found)
      BY <3>1 DEF Learn
    <3>4. Knowing(x, q, found)
      BY <1>1, <3>2, <3>3, KnowsHeld DEF Knowing
    <3> QED
      BY <3>2, <3>4, LearnedThis
  <2> QED
    BY <2>1, <2>2 DEF KeepProject
<1>3. step[x] = "inspect" /\ unread' \in [Procs -> SUBSET Projects]
  BY <1>1 DEF KeepProject, TypeOK
<1>4. /\ failed' \in [Procs -> SUBSET Projects] /\ \A y \in Procs \ {x} : failed'[y] = failed[y]
      /\ UNCHANGED <<capella, local, step, todo, jobs, renamed>>
  BY <1>1 DEF KeepProject, TypeOK
<1> QED
  BY <1>2, <1>3, <1>4, LearnedInd

LEMMA GetClusterInd == ASSUME IndInv, NEW x \in Procs, GetCluster(x) PROVE IndInv'
<1>a. /\ slot' \in [Procs -> Slots] /\ \A y \in Procs \ {x} : slot'[y] = slot[y]
      /\ step' \in [Procs -> Steps] /\ \A y \in Procs \ {x} : step'[y] = step[y]
      /\ step'[x] = "failed" \/ (step'[x] \in {"act", "version", "delete"} /\ slot'[x] \in seen[x][target[x]].held)
  <2> DEFINE held == seen[x][target[x]].held
  <2>1. held \subseteq Slots /\ op[x] \in {"refresh", "modify", "remove"}
    BY DEF IndInv, TypeOK, Knowledge, GetCluster, WantsAll, Ops
  <2>2. CASE Cardinality(held) = 1
    <3>1. held # {}
      BY <2>2, FS_EmptySet
    <3>2. (CHOOSE s \in held : TRUE) \in held
      BY <3>1
    <3>3. slot' = [slot EXCEPT ![x] = CHOOSE s \in held : TRUE]
      BY <2>2 DEF GetCluster
    <3>4. \E r \in FirstSteps[op[x]] : step' = [step EXCEPT ![x] = r]
      BY <2>2 DEF GetCluster, GoTo
    <3>5. FirstSteps[op[x]] \subseteq {"act", "version", "delete"}
      BY <2>1 DEF FirstSteps
    <3>6. slot \in [Procs -> Slots]
      BY DEF IndInv, TypeOK
    <3>7. {"act", "version", "delete"} \subseteq Steps
      BY DEF Steps
    <3> HIDE DEF held
    <3>8. slot' \in [Procs -> Slots] /\ slot'[x] \in held /\ \A y \in Procs \ {x} : slot'[y] = slot[y]
      BY <2>1, <3>2, <3>3, <3>6
    <3>9. step \in [Procs -> Steps]
      BY DEF IndInv, TypeOK
    <3> QED
      BY <3>4, <3>5, <3>7, <3>8, <3>9 DEF held
  <2>3. CASE Cardinality(held) # 1
    BY <2>3 DEF GetCluster, GoTo, IndInv, TypeOK, Steps
  <2> QED
    BY <2>2, <2>3
<1>b. op[x] \notin {"allocate", "cleanup"} /\ UNCHANGED <<capella, op, target, faulty, reauthed>>
  BY DEF GetCluster, WantsAll
<1>c. Forgot(x)
  BY Forgetting DEF GetCluster, IndInv
<1>d. \A y \in Procs : Allocating(y) \/ Cleaning(y) => y # x /\ step'[y] = step[y]
  BY <1>a, <1>b DEF Allocating, Cleaning
<1>e. UNCHANGED <<now, projects, expiry, state, op, target, reauthed>>
  BY <1>b DEF capella
<1> USE DEF IndInv, Cleaning
<1>1. TypeOK'
  BY TimeAssumption, <1>a, <1>b, <1>c DEF capella, Forgot, TypeOK, Knowledge, Steps, ClusterStates
<1>2. StartInv'
  BY <1>d, <1>e DEF StartInv, Allocating
<1>3. SweepInv'
  <2>1. \A q \in Projects : Started(q) => Started(q)'
    BY <1>d, <1>e DEF Started, Allocating
  <2>2. \A y \in Procs, q \in Projects : y # x => (Lapsed(y, q) => Lapsed(y, q)') /\ (AsSeen(y, q) => AsSeen(y, q)')
    BY <1>c, <1>e DEF Lapsed, AsSeen, Forgot
  <2>3. \A y \in Procs : y # x => todo'[y] = todo[y] /\ jobs'[y] = jobs[y]
    BY <1>c DEF Forgot
  <2> QED
    BY <1>d, <1>e, <2>1, <2>2, <2>3 DEF SweepInv, TypeOK
<1>4. HeldInv'
  <2>1. \A y \in Procs, q \in Projects : seen'[y][q].held \subseteq seen[y][q].held /\ jobs'[y] \subseteq jobs[y]
    BY <1>c DEF Forgot
  <2>2. step'[x] \in Removing => target[x] \in Projects /\ slot'[x] \in Slots /\ slot'[x] \in seen[x][target[x]].held /\ ~Allocating(x)
    BY <1>a, <1>b DEF Removing, TypeOK, Allocating
  <2>3. \A y \in Procs : y # x => step'[y] = step[y] /\ slot'[y] = slot[y]
    BY <1>a
  <2> QED
    <3> SUFFICES ASSUME NEW y \in Procs
                 PROVE  /\ \A q \in Projects, s \in Slots :
                             s \in seen'[y][q].held \/ <<q, s>> \in jobs'[y] => state'[q][s] # "none"
                        /\ step'[y] \in Removing => state'[target'[y]][slot'[y]] # "none" /\ ~Allocating(y)'
      BY DEF HeldInv
    <3>1. \A q \in Projects, s \in Slots :
            s \in seen'[y][q].held \/ <<q, s>> \in jobs'[y] => state'[q][s] # "none"
      BY <1>e, <2>1 DEF HeldInv
    <3>2. CASE y = x
      BY <1>e, <2>2, <3>1, <3>2 DEF HeldInv, Allocating
    <3>3. CASE y # x
      BY <1>e, <2>3, <3>1, <3>3 DEF HeldInv, Allocating
    <3> QED
      BY <3>2, <3>3
<1>5. LingerInv'
  BY <1>e DEF LingerInv
<1>6. WaitInv'
  BY <1>a, <1>c, <1>e DEF WaitInv, Forgot
<1>7. OnceInv'
  BY <1>d, <1>e DEF OnceInv, Allocating
<1>8. AfterInv'
  <2>1. step'[x] \notin {"project", "projects"}
    BY <1>a
  <2>2. \A y \in Procs \ {x} : step'[y] = step[y] /\ slot'[y] = slot[y] /\ todo'[y] = todo[y]
    BY <1>a, <1>c DEF Forgot
  <2>3. \A y \in Procs \ {x}, p \in Projects : seen'[y][p].held \subseteq seen[y][p].held
    BY <1>c DEF Forgot
  <2> QED
    BY <1>e, <2>1, <2>2, <2>3 DEF AfterInv
<1> QED
  BY <1>1, <1>2, <1>3, <1>4, <1>5, <1>6, <1>7, <1>8 DEF IndInv

LEMMA UpdateClusterExpiryInd == ASSUME IndInv, NEW x \in Procs, UpdateClusterExpiry(x) PROVE IndInv'
<1>a. /\ expiry' \in [Projects -> Nat] /\ renamed' \in [Procs -> SUBSET Projects]
      /\ \A p \in Projects \ {target[x]} : expiry'[p] = expiry[p]
      /\ \A y \in Procs : renamed[y] \subseteq renamed'[y]
      /\ \/ expiry'[target[x]] = expiry[target[x]]
         \/ \A y \in Procs \ {x} : step[y] \notin Ended \cup {"list"} => target[x] \in renamed'[y]
  <2>1. target[x] \in Projects /\ renamed \in [Procs -> SUBSET Projects] /\ expiry \in [Projects -> Nat]
    BY DEF IndInv, TypeOK
  <2>2. CASE target[x] \in projects
    <3>1. renamed' = [y \in Procs |-> IF Remembers(y) /\ y # x THEN renamed[y] \cup {target[x]} ELSE renamed[y]]
      BY <2>2 DEF UpdateClusterExpiry
    <3>2. expiry' \in [Projects -> Nat] /\ \A p \in Projects \ {target[x]} : expiry'[p] = expiry[p]
      BY <2>1, <2>2, ProjectRenamed DEF UpdateClusterExpiry, IndInv
    <3> QED
      BY <2>1, <3>1, <3>2 DEF Remembers
  <2>3. CASE target[x] \notin projects
    BY <2>1, <2>3 DEF UpdateClusterExpiry
  <2> QED
    BY <2>2, <2>3
<1>b. /\ op[x] = "refresh" /\ step[x] = "act" /\ \E r \in Ended : step' = [step EXCEPT ![x] = r]
      /\ UNCHANGED <<now, projects, state, local, unread, seen, todo, jobs, failed>>
  BY DEF UpdateClusterExpiry, GoTo, Ended
<1> USE <1>a, <1>b DEF IndInv, Cleaning, local, Ended
<1>1. TypeOK'
  BY TimeAssumption DEF TypeOK, Knowledge, Steps, ClusterStates
<1>2. StartInv'
  BY DEF StartInv, Allocating, TypeOK
<1>3. SweepInv'
  <2>1. \A y \in Procs, q \in Projects : step[y] \notin Ended \cup {"list"} /\ y # x =>
          (Lapsed(y, q) => Lapsed(y, q)') /\ (AsSeen(y, q) => AsSeen(y, q)')
    BY DEF Lapsed, AsSeen
  <2>2. \A y \in Procs : Cleaning(y)' => y # x /\ step'[y] = step[y] /\ Cleaning(y)
    BY DEF TypeOK
  <2>3. \A q \in Projects : Started(q) => Started(q)'
    BY DEF Started, Allocating, TypeOK
  <2>4. UNCHANGED <<todo, jobs, target, projects>> /\ todo \in [Procs -> SUBSET Projects] /\ target \in [Procs -> Projects]
    BY DEF TypeOK
  <2> QED
    BY <2>1, <2>2, <2>3, <2>4 DEF SweepInv, Removing
<1>4. HeldInv'
  BY DEF HeldInv, Allocating, Removing, TypeOK
<1>5. LingerInv'
  BY DEF LingerInv, TypeOK
<1>6. WaitInv'
  BY DEF WaitInv, TypeOK
<1>7. OnceInv'
  BY DEF OnceInv, StartInv, Allocating, TypeOK
<1>8. AfterInv'
  BY DEF AfterInv, HeldInv, WaitInv, Allocating, Removing, TypeOK
<1> QED
  BY <1>1, <1>2, <1>3, <1>4, <1>5, <1>6, <1>7, <1>8 DEF IndInv

LEMMA RemoveProjectInd == ASSUME IndInv, NEW x \in Procs, RemoveProject(x) PROVE IndInv'
<1>a. /\ projects' \subseteq projects /\ expiry' \in [Projects -> Nat]
      /\ \A p \in projects' : expiry'[p] = expiry[p]
  BY ProjectDeleted DEF RemoveProject, IndInv, TypeOK
<1> USE <1>a DEF IndInv, Cleaning, capella, local, memory, RemoveProject, After, GoTo
<1>1. TypeOK'
  BY TimeAssumption DEF TypeOK, Knowledge, Steps, ClusterStates
<1>2. StartInv'
  BY DEF StartInv, Allocating, TypeOK
<1>3. SweepInv'
  BY DEF SweepInv, Started, Lapsed, AsSeen, Allocating, Removing, TypeOK, StartInv
<1>4. HeldInv'
  BY DEF HeldInv, Allocating, Removing, TypeOK
<1>5. LingerInv'
  BY DEF LingerInv, TypeOK
<1>6. WaitInv'
  BY DEF WaitInv, TypeOK
<1>7. OnceInv'
  BY DEF OnceInv, StartInv, Allocating, TypeOK
<1>8. AfterInv'
  BY DEF AfterInv, HeldInv, WaitInv, Allocating, Removing, TypeOK
<1> QED
  BY <1>1, <1>2, <1>3, <1>4, <1>5, <1>6, <1>7, <1>8 DEF IndInv

LEMMA CleanupStartInd == ASSUME IndInv, NEW x \in Procs, CleanupStart(x) PROVE IndInv'
<1> USE DEF IndInv, Cleaning, capella, local, memory, CleanupStart, Inspected, SeenExpired, Skips, SeenEmpty, SeenCorrupted, Clusters, Nothing, GoTo
<1>1. TypeOK'
  BY TimeAssumption DEF TypeOK, Knowledge, Steps, ClusterStates
<1>2. StartInv'
  BY DEF StartInv, Allocating, TypeOK
<1>3. SweepInv'
  BY DEF SweepInv, Started, Lapsed, AsSeen, Allocating, Removing, TypeOK, StartInv
<1>4. HeldInv'
  BY DEF HeldInv, Allocating, Removing, TypeOK
<1>5. LingerInv'
  BY DEF LingerInv, TypeOK
<1>6. WaitInv'
  BY DEF WaitInv, TypeOK
<1>7. OnceInv'
  BY DEF OnceInv, StartInv, Allocating, TypeOK
<1>8. AfterInv'
  BY DEF AfterInv, HeldInv, WaitInv, Allocating, Removing, TypeOK
<1> QED
  BY <1>1, <1>2, <1>3, <1>4, <1>5, <1>6, <1>7, <1>8 DEF IndInv

LEMMA CleanupProjectInd == ASSUME IndInv, NEW x \in Procs, NEW q \in Projects, CleanupProject(x, q) PROVE IndInv'
<1>a. /\ projects' \subseteq projects /\ expiry' \in [Projects -> Nat]
      /\ \A p \in projects' : expiry'[p] = expiry[p]
  BY ProjectDeleted DEF CleanupProject, IndInv
<1> USE <1>a DEF IndInv, Cleaning, capella, local, memory, CleanupProject, Sweeping
<1>1. TypeOK'
  BY TimeAssumption DEF TypeOK, Knowledge, Steps, ClusterStates
<1>2. StartInv'
  BY DEF StartInv, Allocating, TypeOK
<1>3. SweepInv'
  BY DEF SweepInv, Started, Lapsed, AsSeen, Allocating, Removing, TypeOK, StartInv
<1>4. HeldInv'
  BY DEF HeldInv, Allocating, Removing, TypeOK
<1>5. LingerInv'
  BY DEF LingerInv, TypeOK
<1>6. WaitInv'
  BY DEF WaitInv, TypeOK
<1>7. OnceInv'
  BY DEF OnceInv, StartInv, Allocating, TypeOK
<1>8. AfterInv'
  BY DEF AfterInv, HeldInv, WaitInv, Allocating, Removing, TypeOK
<1> QED
  BY <1>1, <1>2, <1>3, <1>4, <1>5, <1>6, <1>7, <1>8 DEF IndInv

LEMMA CleanupClusterInd == ASSUME IndInv, NEW x \in Procs, NEW q \in Projects, NEW s \in Slots, CleanupCluster(x, <<q, s>>) PROVE IndInv'
<1> USE DEF IndInv, Cleaning, capella, local, memory, CleanupCluster, Sweeping, GoTo
<1>1. TypeOK'
  BY TimeAssumption DEF TypeOK, Knowledge, Steps, ClusterStates
<1>2. StartInv'
  BY DEF StartInv, Allocating, TypeOK
<1>3. SweepInv'
  BY DEF SweepInv, Started, Lapsed, AsSeen, Allocating, Removing, TypeOK, StartInv
<1>4. HeldInv'
  BY DEF HeldInv, Allocating, Removing, TypeOK
<1>5. LingerInv'
  BY DEF LingerInv, TypeOK
<1>6. WaitInv'
  BY DEF WaitInv, TypeOK
<1>7. OnceInv'
  BY DEF OnceInv, StartInv, Allocating, TypeOK
<1>8. AfterInv'
  BY DEF AfterInv, HeldInv, WaitInv, Allocating, Removing, TypeOK
<1> QED
  BY <1>1, <1>2, <1>3, <1>4, <1>5, <1>6, <1>7, <1>8 DEF IndInv

LEMMA CleanupAgainInd == ASSUME IndInv, NEW x \in Procs, NEW fails \in BOOLEAN, CleanupAgain(x, fails) PROVE IndInv'
<1> USE DEF IndInv, Cleaning, capella, local, memory, CleanupAgain, GoTo, Ended
<1>1. TypeOK'
  BY TimeAssumption DEF TypeOK, Knowledge, Steps, ClusterStates
<1>2. StartInv'
  BY DEF StartInv, Allocating, TypeOK
<1>3. SweepInv'
  BY DEF SweepInv, Started, Lapsed, AsSeen, Allocating, Removing, TypeOK, StartInv
<1>4. HeldInv'
  BY DEF HeldInv, Allocating, Removing, TypeOK
<1>5. LingerInv'
  BY DEF LingerInv, TypeOK
<1>6. WaitInv'
  BY DEF WaitInv, TypeOK
<1>7. OnceInv'
  BY DEF OnceInv, StartInv, Allocating, TypeOK
<1>8. AfterInv'
  BY DEF AfterInv, HeldInv, WaitInv, Allocating, Removing, TypeOK
<1> QED
  BY <1>1, <1>2, <1>3, <1>4, <1>5, <1>6, <1>7, <1>8 DEF IndInv

LEMMA RemoveAllStartInd == ASSUME IndInv, NEW x \in Procs, RemoveAllStart(x) PROVE IndInv'
<1> USE DEF IndInv, Cleaning, capella, local, memory, RemoveAllStart, Inspected, Clusters, GoTo
<1>1. TypeOK'
  BY TimeAssumption DEF TypeOK, Knowledge, Steps, ClusterStates
<1>2. StartInv'
  BY DEF StartInv, Allocating, TypeOK
<1>3. SweepInv'
  BY DEF SweepInv, Started, Lapsed, AsSeen, Allocating, Removing, TypeOK, StartInv
<1>4. HeldInv'
  BY DEF HeldInv, Allocating, Removing, TypeOK
<1>5. LingerInv'
  BY DEF LingerInv, TypeOK
<1>6. WaitInv'
  BY DEF WaitInv, TypeOK
<1>7. OnceInv'
  BY DEF OnceInv, StartInv, Allocating, TypeOK
<1>8. AfterInv'
  BY DEF AfterInv, HeldInv, WaitInv, Allocating, Removing, TypeOK
<1> QED
  BY <1>1, <1>2, <1>3, <1>4, <1>5, <1>6, <1>7, <1>8 DEF IndInv

LEMMA DeleteAllInd == ASSUME IndInv, NEW x \in Procs, NEW q \in Projects, NEW s \in Slots, DeleteAll(x, <<q, s>>) PROVE IndInv'
<1>a. jobs' \in [Procs -> SUBSET (Projects \X Slots)] /\ failed' \in [Procs -> SUBSET Projects]
  <2>1. jobs \in [Procs -> SUBSET (Projects \X Slots)] /\ failed \in [Procs -> SUBSET Projects]
    BY DEF IndInv, TypeOK
  <2>2. jobs' = [jobs EXCEPT ![x] = @ \ {<<q, s>>}]
    BY DEF DeleteAll
  <2>3. failed' = failed \/ failed' = [failed EXCEPT ![x] = @ \cup {q}]
    BY DEF DeleteAll
  <2> QED
    BY <2>1, <2>2, <2>3
<1>1. /\ UNCHANGED <<now, projects, expiry, local, step, unread, seen, todo, renamed>>
      /\ jobs' = [jobs EXCEPT ![x] = @ \ {<<q, s>>}] /\ step[x] = "deleteall"
  BY DEF DeleteAll
<1>2. failed' = failed \/ failed' = [failed EXCEPT ![x] = @ \cup {q}]
  BY DEF DeleteAll
<1>3. Kept
  <2>1. state' = state \/ (state[q][s] \notin {"none", "gone"} /\ state' = [state EXCEPT ![q][s] = "destroying"])
    BY DEF DeleteAll, Delete, CannotDelete, Listed, Absent
  <2> QED
    BY <2>1, KeptSame, KeptMove DEF ClusterStates
<1> USE <1>a, <1>1, <1>2, <1>3 DEF IndInv, Cleaning, local, Kept
<1>4. TypeOK'
  BY TimeAssumption DEF TypeOK, Knowledge, Steps, ClusterStates
<1>5. StartInv'
  BY DEF StartInv, Allocating, TypeOK
<1>6. SweepInv'
  BY DEF SweepInv, Started, Lapsed, AsSeen, Allocating, Removing, TypeOK, StartInv
<1>7. HeldInv'
  BY DEF HeldInv, Allocating, Removing, TypeOK
<1>8. LingerInv'
  BY DEF LingerInv, TypeOK
<1>9. WaitInv'
  BY DEF WaitInv, TypeOK
<1>40. OnceInv'
  BY DEF OnceInv, StartInv, Allocating, TypeOK
<1>41. AfterInv'
  BY DEF AfterInv, HeldInv, WaitInv, Allocating, Removing, TypeOK
<1> QED
  BY <1>4, <1>5, <1>6, <1>7, <1>8, <1>9, <1>40, <1>41 DEF IndInv

LEMMA DeleteAllDoneInd == ASSUME IndInv, NEW x \in Procs, DeleteAllDone(x) PROVE IndInv'
<1> USE DEF IndInv, Cleaning, capella, local, memory, DeleteAllDone, Clusters, GoTo
<1>1. TypeOK'
  BY TimeAssumption DEF TypeOK, Knowledge, Steps, ClusterStates
<1>2. StartInv'
  BY DEF StartInv, Allocating, TypeOK
<1>3. SweepInv'
  BY DEF SweepInv, Started, Lapsed, AsSeen, Allocating, Removing, TypeOK, StartInv
<1>4. HeldInv'
  BY DEF HeldInv, Allocating, Removing, TypeOK
<1>5. LingerInv'
  BY DEF LingerInv, TypeOK
<1>6. WaitInv'
  BY DEF WaitInv, TypeOK
<1>7. OnceInv'
  BY DEF OnceInv, StartInv, Allocating, TypeOK
<1>8. AfterInv'
  BY DEF AfterInv, HeldInv, WaitInv, Allocating, Removing, TypeOK
<1> QED
  BY <1>1, <1>2, <1>3, <1>4, <1>5, <1>6, <1>7, <1>8 DEF IndInv

LEMMA WaitAllInd == ASSUME IndInv, NEW x \in Procs, NEW q \in Projects, NEW s \in Slots, WaitAll(x, <<q, s>>) PROVE IndInv'
<1>a. jobs' \in [Procs -> SUBSET (Projects \X Slots)] /\ failed' \in [Procs -> SUBSET Projects]
  <2>1. jobs \in [Procs -> SUBSET (Projects \X Slots)] /\ failed \in [Procs -> SUBSET Projects]
    BY DEF IndInv, TypeOK
  <2>2. jobs' = [jobs EXCEPT ![x] = @ \ {<<q, s>>}]
    BY DEF WaitAll
  <2>3. failed' = failed \/ failed' = [failed EXCEPT ![x] = @ \cup {q}]
    BY DEF WaitAll
  <2> QED
    BY <2>1, <2>2, <2>3
<1> USE <1>a DEF IndInv, Cleaning, capella, local, memory, WaitAll
<1>1. TypeOK'
  BY TimeAssumption DEF TypeOK, Knowledge, Steps, ClusterStates
<1>2. StartInv'
  BY DEF StartInv, Allocating, TypeOK
<1>3. SweepInv'
  BY DEF SweepInv, Started, Lapsed, AsSeen, Allocating, Removing, TypeOK, StartInv
<1>4. HeldInv'
  BY DEF HeldInv, Allocating, Removing, TypeOK
<1>5. LingerInv'
  BY DEF LingerInv, TypeOK
<1>6. WaitInv'
  BY DEF WaitInv, TypeOK
<1>7. OnceInv'
  BY DEF OnceInv, StartInv, Allocating, TypeOK
<1>8. AfterInv'
  BY DEF AfterInv, HeldInv, WaitInv, Allocating, Removing, TypeOK
<1> QED
  BY <1>1, <1>2, <1>3, <1>4, <1>5, <1>6, <1>7, <1>8 DEF IndInv

LEMMA WaitAllDoneInd == ASSUME IndInv, NEW x \in Procs, WaitAllDone(x) PROVE IndInv'
<1> USE DEF IndInv, Cleaning, capella, local, memory, WaitAllDone, GoTo
<1>1. TypeOK'
  BY TimeAssumption DEF TypeOK, Knowledge, Steps, ClusterStates
<1>2. StartInv'
  BY DEF StartInv, Allocating, TypeOK
<1>3. SweepInv'
  BY DEF SweepInv, Started, Lapsed, AsSeen, Allocating, Removing, TypeOK, StartInv
<1>4. HeldInv'
  BY DEF HeldInv, Allocating, Removing, TypeOK
<1>5. LingerInv'
  BY DEF LingerInv, TypeOK
<1>6. WaitInv'
  BY DEF WaitInv, TypeOK
<1>7. OnceInv'
  BY DEF OnceInv, StartInv, Allocating, TypeOK
<1>8. AfterInv'
  BY DEF AfterInv, HeldInv, WaitInv, Allocating, Removing, TypeOK
<1> QED
  BY <1>1, <1>2, <1>3, <1>4, <1>5, <1>6, <1>7, <1>8 DEF IndInv

LEMMA RemoveAllProjectInd == ASSUME IndInv, NEW x \in Procs, NEW q \in Projects, RemoveAllProject(x, q) PROVE IndInv'
<1>a. /\ projects' \subseteq projects /\ expiry' \in [Projects -> Nat]
      /\ \A p \in projects' : expiry'[p] = expiry[p]
  BY ProjectDeleted DEF RemoveAllProject, IndInv
<1> USE <1>a DEF IndInv, Cleaning, capella, local, memory, RemoveAllProject
<1>1. TypeOK'
  BY TimeAssumption DEF TypeOK, Knowledge, Steps, ClusterStates
<1>2. StartInv'
  BY DEF StartInv, Allocating, TypeOK
<1>3. SweepInv'
  BY DEF SweepInv, Started, Lapsed, AsSeen, Allocating, Removing, TypeOK, StartInv
<1>4. HeldInv'
  BY DEF HeldInv, Allocating, Removing, TypeOK
<1>5. LingerInv'
  BY DEF LingerInv, TypeOK
<1>6. WaitInv'
  BY DEF WaitInv, TypeOK
<1>7. OnceInv'
  BY DEF OnceInv, StartInv, Allocating, TypeOK
<1>8. AfterInv'
  BY DEF AfterInv, HeldInv, WaitInv, Allocating, Removing, TypeOK
<1> QED
  BY <1>1, <1>2, <1>3, <1>4, <1>5, <1>6, <1>7, <1>8 DEF IndInv

-----------------------------------------------------------------------------
LEMMA InitInd == Init => IndInv
<1> SUFFICES ASSUME Init PROVE IndInv
  OBVIOUS
<1>1. TypeOK
  BY TimeAssumption DEF Init, TypeOK, FirstStep, Slots, ClusterStates, Steps, Nothing, Knowledge
<1>2. \A x \in Procs : step[x] = FirstStep(op[x]) /\ jobs[x] = {} /\ ~reauthed[x]
  BY DEF Init
<1>3. \A x \in Procs, q \in Projects : seen[x][q].held = {}
  BY DEF Init, Nothing
<1>4. \A x \in Procs : Allocating(x) => target[x] \notin projects /\ target[x] \in Projects
  BY DEF Init, Allocating
<1>5. \A q \in Projects, s \in Slots :
        /\ state[q][s] # "lingering"
        /\ q \notin projects => state[q][s] = "none"
  BY DEF Init
<1>6. \A x \in Procs : step[x] \in {"start", "list"} /\ (step[x] = "start" <=> Allocating(x))
  BY <1>2 DEF FirstStep, Allocating
<1>7. \A x, y \in Procs : Allocating(x) /\ Allocating(y) /\ x # y => target[x] # target[y]
  BY DEF Init, Allocating
<1>8. StartInv
  BY <1>4, <1>5, <1>7 DEF StartInv
<1>9. SweepInv
  BY <1>6 DEF SweepInv, Removing
<1>10. HeldInv
  BY <1>2, <1>3, <1>6 DEF HeldInv, Removing
<1>11. LingerInv
  BY <1>5 DEF LingerInv
<1>12. WaitInv /\ AfterInv
  BY <1>6 DEF WaitInv, AfterInv
<1>13. OnceInv
  BY <1>2, <1>4, <1>5 DEF OnceInv, Slots
<1> QED
  BY <1>1, <1>8, <1>9, <1>10, <1>11, <1>12, <1>13 DEF IndInv

LEMMA AllocateStep == ASSUME IndInv, NEW x \in Procs, Allocate(x) PROVE IndInv'
  BY CreateProjectInd, CreateClusterInd, CreateRefusedInd, UnauthorizedInd, CreateUnansweredInd,
     WaitForHealthyInd, AllocatedInd DEF Allocate

LEMMA ListingStep == ASSUME IndInv, NEW x \in Procs, Listing(x) PROVE IndInv'
  BY ListProjectsInd, InspectProjectInd, InspectFailsInd, KeepProjectInd DEF Listing

LEMMA ChangeOneStep == ASSUME IndInv, NEW x \in Procs, ChangeOne(x) PROVE IndInv'
  BY GetClusterInd, UpdateClusterExpiryInd, UpdateClusterInd, UpdateWithoutEffectInd, WaitForModifiedInd
     DEF ChangeOne

LEMMA RemoveStep == ASSUME IndInv, NEW x \in Procs, Remove(x) PROVE IndInv'
  BY DeleteClusterInd, WaitForDeletedInd, WaitForDeletionEventsInd, RemoveProjectInd DEF Remove

LEMMA CleanupStep == ASSUME IndInv, NEW x \in Procs, Cleanup(x) PROVE IndInv'
  BY CleanupStartInd, CleanupDoneInd, CleanupProjectInd, CleanupClusterInd DEF Cleanup

LEMMA RemoveAllStep == ASSUME IndInv, NEW x \in Procs, RemoveAll(x) PROVE IndInv'
<1>1. CASE \E j \in Projects \X Slots : DeleteAll(x, j) \/ WaitAll(x, j)
  <2>1. PICK q \in Projects, s \in Slots : DeleteAll(x, <<q, s>>) \/ WaitAll(x, <<q, s>>)
    BY <1>1
  <2> QED
    BY <2>1, DeleteAllInd, WaitAllInd
<1> QED
  BY <1>1, RemoveAllStartInd, DeleteAllDoneInd, WaitAllDoneInd, RemoveAllDoneInd, RemoveAllProjectInd DEF RemoveAll

LEMMA InductiveStep == IndInv /\ [Next]_vars => IndInv'
<1> SUFFICES ASSUME IndInv, [Next]_vars PROVE IndInv'
  OBVIOUS
<1>1. CASE Tick
  BY <1>1, TickInd
<1>2. CASE \E q \in Projects, s \in Slots : Capella(q, s)
  BY <1>2, CapellaInd
<1>3. ASSUME NEW x \in Procs, Proceed(x) PROVE IndInv'
  BY <1>3, AllocateStep, ListingStep, ChangeOneStep, RemoveStep, CleanupStep, RemoveAllStep DEF Proceed
<1>4. ASSUME NEW x \in Procs, Fail(x) PROVE IndInv'
  BY <1>4, FailInd
<1>5. ASSUME NEW x \in Procs, NEW fails \in BOOLEAN, CleanupAgain(x, fails) PROVE IndInv'
  BY <1>5, CleanupAgainInd
<1>6. CASE UNCHANGED vars
  BY <1>6 DEF vars, capella, local, memory, IndInv, TypeOK, StartInv, SweepInv, HeldInv, LingerInv, WaitInv,
              OnceInv, AfterInv, Started, Lapsed, AsSeen, Allocating, Cleaning
<1> QED
  BY <1>1, <1>2, <1>3, <1>4, <1>5, <1>6 DEF Next

-----------------------------------------------------------------------------
(* All variables keep their types, and what the other theorems rest on holds. *)
THEOREM Invariance == Spec => []IndInv
  BY InitInd, InductiveStep, PTL DEF Spec

(* Every variable of the cloud deployer's model has its type.                 *)
THEOREM TypeCorrect == Spec => []TypeOK
<1>1. IndInv => TypeOK
  BY DEF IndInv
<1> QED
  BY <1>1, Invariance, PTL

(* From the listing of the projects to the removal of one, whatever refresh,  *)
(* remove, allocate and other cleanups do in between: Cleanup deletes the     *)
(* cluster of a project only if the expiry in the project's name has passed,  *)
(* unless it was refreshed, or removed, after the listing.                    *)
THEOREM OnlyExpiredClustersAreDeleted == Spec => []VictimsWereExpired
<1>1. IndInv => VictimsWereExpired
  BY DEF IndInv, SweepInv, VictimsWereExpired, Lapsed, Removing
<1> QED
  BY <1>1, Invariance, PTL

(* A project is asked to be deleted only after its clusters are gone: the one *)
(* removeCluster deleted, and all that RemoveAll has found in it.             *)
THEOREM ProjectsGoAfterClusters == Spec => []ProjectAfterClusters
<1>1. IndInv => ProjectAfterClusters
  <2>1. IndInv => \A x \in Procs : todo[x] \subseteq Projects /\ \A q \in Projects : seen[x][q].held \subseteq Slots
    BY DEF IndInv, TypeOK, Knowledge
  <2> SUFFICES ASSUME IndInv, NEW x \in Procs
               PROVE  /\ step[x] = "project" => state[target[x]][slot[x]] = "gone"
                      /\ step[x] = "projects" =>
                           \A q \in todo[x] : \A s \in seen[x][q].held : state[q][s] = "gone"
    BY DEF ProjectAfterClusters
  <2>2. step[x] = "project" => state[target[x]][slot[x]] = "gone"
    BY DEF IndInv, AfterInv
  <2>3. ASSUME step[x] = "projects", NEW q \in todo[x], NEW s \in seen[x][q].held PROVE state[q][s] = "gone"
    <3>1. todo[x] \subseteq Projects
      BY <2>1
    <3>2. q \in Projects
      BY <2>3, <3>1
    <3>3. seen[x][q].held \subseteq Slots
      BY <2>1, <3>2
    <3> QED
      BY <2>3, <3>2, <3>3 DEF IndInv, AfterInv
  <2> QED
    BY <2>2, <2>3
<1> QED
  BY <1>1, Invariance, PTL

LEMMA OneHeld ==
  ASSUME NEW q \in Projects, NEW s \in Slots, \A r \in Slots \ {s} : state[q][r] = "none"
  PROVE  ~(Cardinality(Holds(q)) > 1)
<1>1. Holds(q) \subseteq {s}
  BY DEF Holds, Absent
<1>2. IsFiniteSet({s}) /\ Cardinality({s}) = 1
  BY FS_Singleton
<1>3. Cardinality(Holds(q)) <= 1 /\ Cardinality(Holds(q)) \in Nat
  BY <1>1, <1>2, FS_Subset, FS_CardinalityType
<1> QED
  BY <1>3

(* An allocation has at most one cluster in Capella, unless it is made        *)
(* through the v2 API and had to log in again before its create was answered. *)
THEOREM ClustersAreCreatedOnce == Spec => []CreatedOnceOrReauthenticated
<1>1. IndInv => CreatedOnceOrReauthenticated
  <2> SUFFICES ASSUME IndInv, NEW x \in Procs, Allocating(x), Cardinality(Holds(target[x])) > 1
               PROVE  Legacy(Kind[target[x]]) /\ reauthed[x]
    BY DEF CreatedOnceOrReauthenticated, Allocating
  <2>1. target[x] \in Projects
    BY DEF IndInv, TypeOK
  <2>2. CASE reauthed[x]
    BY <2>2 DEF IndInv, OnceInv
  <2>3. CASE ~reauthed[x]
    BY <2>1, <2>3, OneHeld DEF IndInv, OnceInv
  <2> QED
    BY <2>2, <2>3
<1> QED
  BY <1>1, Invariance, PTL
=============================================================================
