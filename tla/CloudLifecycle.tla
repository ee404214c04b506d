--------------------------- MODULE CloudLifecycle ---------------------------
(* The cloud deployer (deployment/clouddeploy): clusters in Capella, each in  *)
(* a project of its own whose name holds the cluster's identifier and expiry. *)
(* Every command is a process that makes one call to Capella after the other, *)
(* keeps what it has read in local variables, and rolls nothing back; several *)
(* commands, the periodic cleanup among them, run at once.                    *)
EXTENDS Naturals, FiniteSets

CONSTANTS
  Projects,    \* a project is the identifier of one allocation
  Kind,        \* Kind[q]: what the allocation of project q is defined to be
  Procs,       \* the processes, one command each; a cleanup is run again and again
  Duties,      \* Duties[x]: the commands that process x may run
  Lifetimes,   \* the expiries a definition or a refresh may ask for, 0 for none
  MaxTime,     \* bound of the clock
  Crowded      \* whether the account has more clusters than the v2 API lists at once

Slots == 1..2  \* a project holds at most two clusters in the model
Ops == {"allocate", "refresh", "remove", "removeall", "modify", "cleanup"}
AllKinds == {"server", "custom", "columnar"}
Legacy(k) == k # "server"  \* created through the internal v2 API

ASSUME TimeAssumption == MaxTime \in Nat /\ Lifetimes \subseteq Nat
ASSUME DutyAssumption == Duties \in [Procs -> SUBSET Ops]
ASSUME KindAssumption == Kind \in [Projects -> AllKinds]
ASSUME CrowdedAssumption == Crowded \in BOOLEAN

VARIABLES
  now,       \* the clock
  projects,  \* the projects that exist
  expiry,    \* the expiry in each project's name, 0 for none
  state,     \* state[q][s]: the s-th cluster created in project q
  op, step, target,  \* the command of a process, where it is, and its project
  slot,      \* the cluster it created, deletes or waits for
  faulty,    \* whether calls of this command may fail
  reauthed,  \* whether its create has had to renew the session of the v2 API
  unread,    \* the listed projects that are still to be inspected
  seen,      \* what the process knows of each project
  todo,      \* the projects a command has listed and not yet treated
  jobs,      \* the clusters RemoveAll has still to delete or to wait for
  failed,    \* failedProjects of RemoveAll
  renamed    \* history: the projects renamed since the process listed them

capella == <<now, projects, expiry, state>>
local == <<op, target, slot, faulty, reauthed>>
memory == <<unread, seen, todo, jobs, failed, renamed>>
vars == <<capella, local, step, memory>>

ClusterStates == {"none", "deploying", "healthy", "changing", "destroying", "lingering",
                  "deploymentFailed", "destroyFailed", "gone"}
Steps == {"start", "create", "healthy", "list", "inspect", "act", "scaling", "scaled",
          "version", "upgrading", "upgraded", "delete", "deleted", "events", "project", "sweep", "deleteall", "waitall",
          "projects", "ok", "failed"}
Ended == {"ok", "failed"}
Knowledge == [expiry : Nat, held : SUBSET Slots, stuck : SUBSET Slots]
Nothing == [expiry |-> 0, held |-> {}, stuck |-> {}]

TypeOK ==
  /\ now \in Nat /\ projects \subseteq Projects /\ expiry \in [Projects -> Nat]
  /\ state \in [Projects -> [Slots -> ClusterStates]]
  /\ op \in [Procs -> Ops] /\ step \in [Procs -> Steps]
  /\ target \in [Procs -> Projects] /\ slot \in [Procs -> Slots]
  /\ faulty \in [Procs -> BOOLEAN] /\ reauthed \in [Procs -> BOOLEAN]
  /\ unread \in [Procs -> SUBSET Projects] /\ seen \in [Procs -> [Projects -> Knowledge]]
  /\ todo \in [Procs -> SUBSET Projects]
  /\ jobs \in [Procs -> SUBSET (Projects \X Slots)]
  /\ failed \in [Procs -> SUBSET Projects] /\ renamed \in [Procs -> SUBSET Projects]

-----------------------------------------------------------------------------
(* Capella.                                                                   *)

Absent == {"none", "gone"}
(* What ListClusters and ListAnalyticsClusters answer for a project.          *)
Listed(q) == {s \in Slots : state[q][s] \notin Absent \cup {"lingering"}}
Holds(q) == {s \in Slots : state[q][s] \notin Absent}
\* Mutant: only a failed destruction is recognised as a failure.
InFailedStateDestroy(q, s) == state[q][s] = "destroyFailed"
InFailedState(q, s) == state[q][s] \in {"deploymentFailed", "destroyFailed"}

Tick == now < MaxTime /\ now' = now + 1 /\ UNCHANGED <<projects, expiry, state, local, step, memory>>

Become(q, s, from, to) ==
  /\ state[q][s] = from
  /\ state' = [state EXCEPT ![q][s] = to]
  /\ UNCHANGED <<now, projects, expiry, local, step, memory>>

Deployed(q, s) == Become(q, s, "deploying", "healthy") \/ Become(q, s, "deploying", "deploymentFailed")
Changed(q, s) == Become(q, s, "changing", "healthy")
(* The cluster behind a columnar instance outlives the instance.              *)
Destroyed(q, s) ==
  \/ Become(q, s, "destroying", IF Kind[q] = "columnar" THEN "lingering" ELSE "gone")
  \/ Become(q, s, "destroying", "destroyFailed")
  \/ Become(q, s, "lingering", "gone")

Capella(q, s) == Deployed(q, s) \/ Changed(q, s) \/ Destroyed(q, s)

FirstStep(o) == IF o = "allocate" THEN "start" ELSE "list"

Init ==
  /\ now = 0
  /\ projects \in SUBSET Projects
  /\ expiry \in [Projects -> Lifetimes \cup {0}] /\ \A q \in Projects \ projects : expiry[q] = 0
  /\ state = [q \in Projects |-> [s \in Slots |->
                IF q \in projects /\ s = 1 THEN "healthy" ELSE "none"]]
  /\ op \in [Procs -> Ops] /\ \A x \in Procs : op[x] \in Duties[x]
  /\ target \in [Procs -> Projects]
  /\ \A x \in Procs : CASE op[x] = "allocate" -> target[x] \notin projects
                        [] op[x] \in {"cleanup", "removeall"} -> target[x] = CHOOSE q \in Projects : TRUE
                        [] OTHER -> TRUE
  /\ \A x, y \in Procs : op[x] = "allocate" /\ op[y] = "allocate" /\ x # y => target[x] # target[y]
  /\ step = [x \in Procs |-> FirstStep(op[x])]
  /\ slot = [x \in Procs |-> 1]
  /\ faulty = [x \in Procs |-> TRUE] /\ reauthed = [x \in Procs |-> FALSE]
  /\ unread = [x \in Procs |-> {}] /\ seen = [x \in Procs |-> [q \in Projects |-> Nothing]]
  /\ todo = [x \in Procs |-> {}] /\ jobs = [x \in Procs |-> {}]
  /\ failed = [x \in Procs |-> {}] /\ renamed = [x \in Procs |-> {}]

Cleaning(x) == op[x] = "cleanup"
GoTo(x, s) == step' = [step EXCEPT ![x] = s]
Forget(x) ==
  /\ unread' = [unread EXCEPT ![x] = {}] /\ todo' = [todo EXCEPT ![x] = {}]
  /\ seen' = [seen EXCEPT ![x] = [q \in Projects |-> Nothing]]
  /\ jobs' = [jobs EXCEPT ![x] = {}] /\ failed' = [failed EXCEPT ![x] = {}]
  /\ renamed' = [renamed EXCEPT ![x] = {}]
End(x, result) == GoTo(x, result) /\ Forget(x)

(* A call fails, is given up, or the process is interrupted: what it has done *)
(* stays done.                                                                *)
Fail(x) ==
  /\ step[x] \notin Ended /\ faulty[x]
  /\ End(x, "failed")
  /\ UNCHANGED <<capella, local>>

-----------------------------------------------------------------------------
(* createNewCluster and deployNewCluster.                                     *)

\* Mutant: the lifetime is subtracted.
ExpiryTimeBack(life) == IF life > 0 THEN now - life ELSE 0
ExpiryTime(life) == IF life > 0 THEN now + life ELSE 0

(* The project is created under a name that holds the expiry. With a lost     *)
(* answer it exists although the allocation fails.                            *)
CreateProject(x) ==
  /\ op[x] = "allocate" /\ step[x] = "start"
  /\ \E life \in Lifetimes : expiry' = [expiry EXCEPT ![target[x]] = ExpiryTime(life)]
  /\ projects' = projects \cup {target[x]}
  /\ \E s \in {"create", "failed"} : GoTo(x, s)
  /\ UNCHANGED <<now, state, local, memory>>

(* What the service does with a create that reaches it.                       *)
Create(x, s) ==
  /\ target[x] \in projects
  /\ state[target[x]][s] = "none" /\ \A r \in Slots : r < s => state[target[x]][r] # "none"
  /\ state' = [state EXCEPT ![target[x]][s] = "deploying"]

Creating(x) == op[x] = "allocate" /\ step[x] = "create"

CreateCluster(x) ==
  /\ Creating(x)
  /\ \E s \in Slots : Create(x, s) /\ slot' = [slot EXCEPT ![x] = s]
  /\ GoTo(x, "healthy")
  /\ UNCHANGED <<now, projects, expiry, op, target, faulty, reauthed, memory>>

CreateRefused(x) ==
  /\ Creating(x) /\ target[x] \notin projects
  /\ GoTo(x, "failed")
  /\ UNCHANGED <<capella, local, memory>>

(* Another login of the same user has ended the session of the v2 API: the    *)
(* request had no effect; doRetriableReq logs in again and goes on with the   *)
(* next number of retries.                                                    *)
Unauthorized(x) ==
  /\ Creating(x) /\ Legacy(Kind[target[x]])
  /\ reauthed' = [reauthed EXCEPT ![x] = TRUE]
  /\ UNCHANGED <<capella, op, target, slot, faulty, step, memory>>

\* Mutant: requests of the v2 API are retried whatever their method.
MayRetryAll(x) == TRUE
(* A write may not be retried: maxRetries is 0, and the number of retries is  *)
(* compared for equality with it.                                             *)
MayRetry(x) == reauthed[x]

(* The create took effect and its answer is lost or an error. Slots bounds    *)
(* how often that happens to a create that is retried.                        *)
CreateUnanswered(x) ==
  /\ Creating(x)
  /\ \E s \in Slots : Create(x, s) /\ (MayRetry(x) => s + 1 \in Slots)
  /\ GoTo(x, IF MayRetry(x) THEN "create" ELSE "failed")
  /\ UNCHANGED <<now, projects, expiry, local, memory>>

(* The v2 wait reads one page of the clusters and takes one that is not on it *)
(* for gone. The wait for a custom image is a v2 wait, too.                   *)
OffPage(x) ==
  /\ Crowded
  /\ Kind[target[x]] = "columnar" \/ (Kind[target[x]] = "custom" /\ op[x] = "allocate")

WaitForHealthy(x) ==
  /\ op[x] = "allocate" /\ step[x] = "healthy"
  /\ \/ state[target[x]][slot[x]] = "healthy" /\ GoTo(x, "list")
     \/ (slot[x] \notin Listed(target[x]) \/ InFailedState(target[x], slot[x]) \/ OffPage(x)) /\ GoTo(x, "failed")
  /\ UNCHANGED <<capella, local, memory>>

-----------------------------------------------------------------------------
(* listCbdc2Projects and inspectProject: one call for all names, then calls   *)
(* for each project; meanwhile a project may go. Only Cleanup uses the expiry *)
(* and the states, and an allocation nothing but the names.                   *)

WantsAll(x) == op[x] \in {"allocate", "cleanup", "removeall"}

ListProjects(x) ==
  /\ step[x] = "list"
  /\ seen' = [seen EXCEPT ![x] = [q \in Projects |-> [Nothing EXCEPT !.expiry = IF Cleaning(x) THEN expiry[q] ELSE 0]]]
  /\ IF WantsAll(x)
     THEN unread' = [unread EXCEPT ![x] = projects] /\ todo' = [todo EXCEPT ![x] = projects]
     ELSE unread' = [unread EXCEPT ![x] = {target[x]}] /\ todo' = todo
  /\ GoTo(x, "inspect")
  /\ UNCHANGED <<capella, local, jobs, failed, renamed>>

StuckIn(q) == {s \in Listed(q) : state[q][s] = "destroyFailed"}
InspectProject(x, q) ==
  /\ step[x] = "inspect" /\ q \in unread[x] \cap projects
  /\ unread' = [unread EXCEPT ![x] = @ \ {q}]
  /\ seen' = IF op[x] = "allocate" THEN seen
             ELSE [seen EXCEPT ![x][q].held = Listed(q), ![x][q].stuck = IF Cleaning(x) THEN StuckIn(q) ELSE {}]
  /\ UNCHANGED <<capella, local, step, todo, jobs, failed, renamed>>

(* RemoveAll keeps a project that it cannot inspect, or of which it cannot    *)
(* find the cluster that the v2 record of a columnar instance names.          *)
KeepProject(x, q) ==
  /\ step[x] = "inspect" /\ op[x] = "removeall"
  /\ q \in unread[x] /\ (q \notin projects \/ faulty[x])
  /\ unread' = [unread EXCEPT ![x] = @ \ {q}]
  /\ failed' = [failed EXCEPT ![x] = @ \cup {q}]
  /\ \/ UNCHANGED seen
     \/ \E found \in SUBSET Listed(q) : seen' = [seen EXCEPT ![x][q].held = found]
  /\ UNCHANGED <<capella, local, step, todo, jobs, renamed>>

(* For the others a project that has gone ends the listing.                   *)
InspectFails(x, q) ==
  /\ step[x] = "inspect" /\ op[x] # "removeall" /\ q \in unread[x] \ projects
  /\ End(x, "failed")
  /\ UNCHANGED <<capella, local>>

Inspected(x) == step[x] = "inspect" /\ unread[x] = {}

(* The allocation is done if its project is among those listed.               *)
Allocated(x) ==
  /\ Inspected(x) /\ op[x] = "allocate"
  /\ End(x, IF target[x] \in todo[x] THEN "ok" ELSE "failed")
  /\ UNCHANGED <<capella, local>>

FirstSteps == [refresh |-> {"act"}, modify |-> {"act", "version"}, remove |-> {"delete"}]

(* getCluster refuses a project with no cluster or with more than one.        *)
GetCluster(x) ==
  /\ Inspected(x) /\ ~WantsAll(x)
  /\ LET held == seen[x][target[x]].held IN
       IF Cardinality(held) = 1
       THEN slot' = [slot EXCEPT ![x] = CHOOSE s \in held : TRUE]
            /\ \E s \in FirstSteps[op[x]] : GoTo(x, s)
       ELSE slot' = slot /\ GoTo(x, "failed")
  /\ Forget(x)
  /\ UNCHANGED <<capella, op, target, faulty, reauthed>>

-----------------------------------------------------------------------------
(* UpdateClusterExpiry writes the whole name. ModifyCluster waits for two     *)
(* states of the cluster, one after the other, for the nodes and then for the *)
(* version; UpgradeCluster does the second only.                              *)

Remembers(x) == step[x] \notin Ended \cup {"list"}

UpdateClusterExpiry(x) ==
  /\ op[x] = "refresh" /\ step[x] = "act"
  /\ IF target[x] \in projects
     THEN /\ \E life \in Lifetimes : expiry' = [expiry EXCEPT ![target[x]] = ExpiryTime(life)]
          /\ renamed' = [y \in Procs |-> IF Remembers(y) /\ y # x THEN renamed[y] \cup {target[x]} ELSE renamed[y]]
          /\ GoTo(x, "ok")
     ELSE GoTo(x, "failed") /\ UNCHANGED <<expiry, renamed>>
  /\ UNCHANGED <<now, projects, state, local, unread, seen, todo, jobs, failed>>

Modifying(x) == op[x] = "modify" /\ step[x] \in {"act", "version"}
Begun(x) == IF step[x] = "act" THEN "scaling" ELSE "upgrading"
SecondRound(x) == IF Kind[target[x]] = "columnar" THEN "ok" ELSE "version"
Skipped(x) == IF step[x] = "act" THEN SecondRound(x) ELSE "ok"

UpdateCluster(x) ==
  /\ Modifying(x)
  /\ IF state[target[x]][slot[x]] = "healthy"
     THEN state' = [state EXCEPT ![target[x]][slot[x]] = "changing"] /\ GoTo(x, Begun(x))
     ELSE state' = state /\ GoTo(x, "failed")
  /\ UNCHANGED <<now, projects, expiry, local, memory>>

(* The cluster is as the definition wants it, or the service is asked for a   *)
(* change that it does not make.                                              *)
UpdateWithoutEffect(x) ==
  /\ Modifying(x)
  /\ \E s \in {Skipped(x), Begun(x)} : GoTo(x, s)
  /\ UNCHANGED <<capella, local, memory>>

WaitForModified(x) ==
  /\ op[x] = "modify" /\ step[x] \in {"scaling", "scaled", "upgrading", "upgraded"}
  /\ LET found == state[target[x]][slot[x]] IN
       \/ found = "changing" /\ step[x] = "scaling" /\ GoTo(x, "scaled")
       \/ found = "healthy" /\ step[x] = "scaled" /\ GoTo(x, SecondRound(x))
       \/ found = "changing" /\ step[x] = "upgrading" /\ GoTo(x, "upgraded")
       \/ found = "healthy" /\ step[x] = "upgraded" /\ GoTo(x, "ok")
       \/ (slot[x] \notin Listed(target[x]) \/ InFailedState(target[x], slot[x]) \/ OffPage(x)) /\ GoTo(x, "failed")
  /\ UNCHANGED <<capella, local, memory>>

-----------------------------------------------------------------------------
(* removeCluster, as RemoveCluster and Cleanup call it.                       *)

(* A command that has finished with a project: RemoveCluster ends, Cleanup    *)
(* collects an error and goes on.                                             *)
After(x, result) == GoTo(x, IF Cleaning(x) THEN "sweep" ELSE result)

(* The service may refuse a delete while it is changing the cluster.          *)
Changing(q, s) == state[q][s] \in {"deploying", "changing", "destroying"}
Delete(q, s) == s \in Listed(q) /\ state' = [state EXCEPT ![q][s] = "destroying"]
CannotDelete(q, s) == (s \notin Listed(q) \/ Changing(q, s)) /\ state' = state

DeleteCluster(x) ==
  /\ step[x] = "delete"
  /\ \/ Delete(target[x], slot[x]) /\ GoTo(x, "deleted")
     \/ CannotDelete(target[x], slot[x]) /\ After(x, "failed")
  /\ UNCHANGED <<now, projects, expiry, local, memory>>

(* The wait ends when the cluster is not found, and fails in a failed state.  *)
WaitForDeleted(x) ==
  /\ step[x] = "deleted"
  /\ \/ (slot[x] \notin Listed(target[x]) \/ OffPage(x))
        /\ GoTo(x, IF Kind[target[x]] = "columnar" THEN "events" ELSE "project")
     \/ InFailedState(target[x], slot[x]) /\ After(x, "failed")
  /\ UNCHANGED <<capella, local, memory>>

\* Mutant: the wait for a columnar instance ends with its list entry.
WaitForDeletionEventsNot(x) == step[x] = "events" /\ GoTo(x, "project") /\ UNCHANGED <<capella, local, memory>>
(* A columnar instance also has a deletion event of the cluster behind it.    *)
WaitForDeletionEvents(x) ==
  /\ step[x] = "events" /\ state[target[x]][slot[x]] = "gone"
  /\ GoTo(x, "project")
  /\ UNCHANGED <<capella, local, memory>>

(* Capella deletes no project that holds a cluster.                           *)
Deletable(q) == q \in projects /\ Holds(q) = {}
DeleteProject(q) ==
  IF Deletable(q) THEN projects' = projects \ {q} /\ expiry' = [expiry EXCEPT ![q] = 0]
                  ELSE UNCHANGED <<projects, expiry>>

RemoveProject(x) ==
  /\ step[x] = "project"
  /\ DeleteProject(target[x])
  /\ After(x, IF Deletable(target[x]) THEN "ok" ELSE "failed")
  /\ UNCHANGED <<now, state, local, memory>>

-----------------------------------------------------------------------------
(* Cleanup: what it does to a project follows from what the listing showed.   *)

Clusters(x, among) == {j \in among \X Slots : j[2] \in seen[x][j[1]].held}

\* Mutant: a project without a cluster is skipped.
SeenEmptyNever(x, q) == FALSE
SeenEmpty(x, q) == seen[x][q].held = {}
SeenCorrupted(x, q) == Cardinality(seen[x][q].held) > 1
\* Mutant: no expiry counts as long past.
SeenExpiredZero(x, q) == seen[x][q].expiry <= now
SeenExpired(x, q) == seen[x][q].expiry # 0 /\ seen[x][q].expiry <= now
Skips(x, q) == ~SeenCorrupted(x, q) /\ seen[x][q].stuck # {}

(* Empty projects go at once. In an expired project with several clusters     *)
(* removeCluster knows of none, and asks for the project only.                *)
CleanupStart(x) ==
  /\ Inspected(x) /\ Cleaning(x)
  /\ LET victims == {q \in todo[x] : SeenExpired(x, q) /\ ~Skips(x, q)}
         bare == {q \in todo[x] : SeenEmpty(x, q)} \cup {q \in victims : SeenCorrupted(x, q)}
     IN todo' = [todo EXCEPT ![x] = bare] /\ jobs' = [jobs EXCEPT ![x] = Clusters(x, victims \ bare)]
  /\ seen' = [seen EXCEPT ![x] = [q \in Projects |-> Nothing]]
  /\ GoTo(x, "sweep")
  /\ UNCHANGED <<capella, local, unread, failed, renamed>>

Sweeping(x) == Cleaning(x) /\ step[x] = "sweep"

CleanupProject(x, q) ==
  /\ Sweeping(x) /\ q \in todo[x]
  /\ todo' = [todo EXCEPT ![x] = @ \ {q}]
  /\ DeleteProject(q)
  /\ UNCHANGED <<now, state, local, step, unread, seen, jobs, failed, renamed>>

CleanupCluster(x, j) ==
  /\ Sweeping(x) /\ j \in jobs[x]
  /\ jobs' = [jobs EXCEPT ![x] = @ \ {j}]
  /\ target' = [target EXCEPT ![x] = j[1]] /\ slot' = [slot EXCEPT ![x] = j[2]]
  /\ GoTo(x, "delete")
  /\ UNCHANGED <<capella, op, faulty, reauthed, unread, seen, todo, failed, renamed>>

CleanupDone(x) ==
  /\ Sweeping(x) /\ todo[x] = {} /\ jobs[x] = {}
  /\ End(x, "ok")
  /\ UNCHANGED <<capella, local>>

(* cleanup is run again; its calls may fail this time or not.                 *)
CleanupAgain(x, fails) ==
  /\ Cleaning(x) /\ step[x] \in Ended
  /\ faulty' = [faulty EXCEPT ![x] = fails]
  /\ GoTo(x, "list")
  /\ UNCHANGED <<capella, op, target, slot, reauthed, memory>>

-----------------------------------------------------------------------------
(* RemoveAll: all clusters are deleted, then waited for, then the projects of *)
(* which all clusters are known to be gone are deleted.                       *)

RemoveAllStart(x) ==
  /\ Inspected(x) /\ op[x] = "removeall"
  /\ jobs' = [jobs EXCEPT ![x] = Clusters(x, Projects)]
  /\ GoTo(x, "deleteall")
  /\ UNCHANGED <<capella, local, unread, seen, todo, failed, renamed>>

DeleteAll(x, j) ==
  /\ step[x] = "deleteall" /\ j \in jobs[x]
  /\ jobs' = [jobs EXCEPT ![x] = @ \ {j}]
  /\ \/ Delete(j[1], j[2]) /\ failed' = failed
     \/ (CannotDelete(j[1], j[2]) \/ (faulty[x] /\ state' = state)) /\ failed' = [failed EXCEPT ![x] = @ \cup {j[1]}]
  /\ UNCHANGED <<now, projects, expiry, local, step, unread, seen, todo, renamed>>

DeleteAllDone(x) ==
  /\ step[x] = "deleteall" /\ jobs[x] = {}
  /\ jobs' = [jobs EXCEPT ![x] = Clusters(x, Projects)]
  /\ GoTo(x, "waitall")
  /\ UNCHANGED <<capella, local, unread, seen, todo, failed, renamed>>

WaitAll(x, j) ==
  /\ step[x] = "waitall" /\ j \in jobs[x]
  /\ jobs' = [jobs EXCEPT ![x] = @ \ {j}]
  /\ \/ state[j[1]][j[2]] = "gone" /\ failed' = failed
     \/ (InFailedState(j[1], j[2]) \/ faulty[x]) /\ failed' = [failed EXCEPT ![x] = @ \cup {j[1]}]
  /\ UNCHANGED <<capella, local, step, unread, seen, todo, renamed>>

WaitAllDone(x) ==
  /\ step[x] = "waitall" /\ jobs[x] = {}
  /\ todo' = [todo EXCEPT ![x] = @ \ failed[x]]
  /\ GoTo(x, "projects")
  /\ UNCHANGED <<capella, local, unread, seen, jobs, failed, renamed>>

RemoveAllProject(x, q) ==
  /\ step[x] = "projects" /\ q \in todo[x]
  /\ todo' = [todo EXCEPT ![x] = @ \ {q}]
  /\ DeleteProject(q)
  /\ failed' = [failed EXCEPT ![x] = IF Deletable(q) THEN @ ELSE @ \cup {q}]
  /\ UNCHANGED <<now, state, local, step, unread, seen, jobs, renamed>>

RemoveAllDone(x) ==
  /\ step[x] = "projects" /\ todo[x] = {}
  /\ End(x, IF failed[x] = {} THEN "ok" ELSE "failed")
  /\ UNCHANGED <<capella, local>>

-----------------------------------------------------------------------------
Allocate(x) ==
  \/ CreateProject(x) \/ CreateCluster(x) \/ CreateRefused(x) \/ Unauthorized(x)
  \/ CreateUnanswered(x) \/ WaitForHealthy(x) \/ Allocated(x)
Listing(x) == ListProjects(x) \/ \E q \in Projects : InspectProject(x, q) \/ InspectFails(x, q) \/ KeepProject(x, q)
ChangeOne(x) == GetCluster(x) \/ UpdateClusterExpiry(x) \/ UpdateCluster(x) \/ UpdateWithoutEffect(x) \/ WaitForModified(x)
Remove(x) == DeleteCluster(x) \/ WaitForDeleted(x) \/ WaitForDeletionEvents(x) \/ RemoveProject(x)
Cleanup(x) ==
  \/ CleanupStart(x) \/ CleanupDone(x)
  \/ \E q \in Projects : CleanupProject(x, q) \/ \E s \in Slots : CleanupCluster(x, <<q, s>>)
RemoveAll(x) ==
  \/ RemoveAllStart(x) \/ DeleteAllDone(x) \/ WaitAllDone(x) \/ RemoveAllDone(x)
  \/ \E j \in Projects \X Slots : DeleteAll(x, j) \/ WaitAll(x, j)
  \/ \E q \in Projects : RemoveAllProject(x, q)
Proceed(x) == Allocate(x) \/ Listing(x) \/ ChangeOne(x) \/ Remove(x) \/ Cleanup(x) \/ RemoveAll(x)

Next ==
  \/ Tick
  \/ \E q \in Projects, s \in Slots : Capella(q, s)
  \/ \E x \in Procs : Proceed(x) \/ Fail(x) \/ \E fails \in BOOLEAN : CleanupAgain(x, fails)

(* Capella finishes what it has begun, a command goes on until it ends, and   *)
(* cleanup is run again for ever; no end of failing calls is excluded.        *)
Fairness ==
  /\ WF_vars(Tick)
  /\ \A q \in Projects : WF_vars(\E s \in Slots : Capella(q, s))
  /\ \A x \in Procs : WF_vars(Proceed(x)) /\ SF_vars(CleanupAgain(x, FALSE))

Spec == Init /\ [][Next]_vars /\ Fairness

-----------------------------------------------------------------------------
(* Safety.                                                                    *)

(* Cleanup deletes the cluster of a project only if the expiry in the         *)
(* project's name has passed, unless a refresh came after it listed the       *)
(* projects, or another command has removed the project since.                *)
VictimsWereExpired ==
  \A x \in Procs : Cleaning(x) /\ step[x] \in {"delete", "deleted", "events", "project"} =>
    LET q == target[x] IN
      \/ q \in renamed[x] \/ q \notin projects
      \/ expiry[q] # 0 /\ expiry[q] <= now

(* A cluster created through the v4 API is created once, and any cluster is   *)
(* when the session of the v2 API was not lost in between.                    *)
CreatedOnceOrReauthenticated ==
  \A x \in Procs : op[x] = "allocate" /\ Cardinality(Holds(target[x])) > 1 =>
    Legacy(Kind[target[x]]) /\ reauthed[x]

(* removeCluster asks for a project to be deleted when the cluster it deleted *)
(* is gone, and RemoveAll when all clusters it has seen there are, the one    *)
(* behind a columnar instance included, also when the lists are incomplete.   *)
ProjectAfterClusters ==
  \A x \in Procs :
    /\ step[x] = "project" => state[target[x]][slot[x]] = "gone"
    /\ step[x] = "projects" => \A q \in todo[x] : \A s \in seen[x][q].held : state[q][s] = "gone"

-----------------------------------------------------------------------------
(* Liveness.                                                                  *)

Stuck(q) == Cardinality(Holds(q)) > 1 \/ \E s \in Slots : state[q][s] = "destroyFailed"
Blocked == \E q \in Projects, s \in Slots : Kind[q] = "columnar" /\ InFailedState(q, s)
Leftover(q) == q \in projects /\ (Listed(q) = {} \/ (expiry[q] # 0 /\ expiry[q] <= now))

(* What a failed or interrupted command has left behind, and what has expired, *)
(* is reclaimed by a later cleanup, whatever happens to other projects; not   *)
(* so a corrupted project, a cluster whose destruction failed, and anything   *)
(* when a columnar instance is in a failed state, as its wait may not end.    *)
LeftoversAreReclaimed ==
  \A q \in Projects : Leftover(q) ~> (~Leftover(q) \/ Stuck(q) \/ Blocked)

(* Every command ends, but for a modification whose transient state goes by   *)
(* between two polls, unless a destruction fails that cleanup may retry.      *)
CommandsEnd ==
  \A x \in Procs : op[x] \notin {"modify", "cleanup"} =>
    <>(step[x] \in Ended \/ Blocked \/ \E q \in Projects : Stuck(q))
=============================================================================
