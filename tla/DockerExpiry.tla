---------------------------- MODULE DockerExpiry ----------------------------
(***************************************************************************)
(* The expiry of a Docker cluster.  Each container carries its own expiry  *)
(* in a state file; `refresh' rewrites the files one by one, `nodes add'   *)
(* derives the expiry of the new container from those of the others, and   *)
(* `cleanup' removes what it finds expired.  The commands are separate     *)
(* processes that share nothing but the Docker host.                       *)
(*                                                                         *)
(* Source: deployment/dockerdeploy (deployer.go, deployer_clusterinfo.go,  *)
(* deployer_newaddremove.go, controller.go) and cmd/refresh.go.            *)
(***************************************************************************)
EXTENDS Naturals, FiniteSets

CONSTANTS
    Container,  \* the containers of one cluster
    Fresh,      \* those that AddNode creates, each by a call of its own
    Cleaner,    \* processes that run Cleanup, again and again
    Refresher,  \* processes that run UpdateClusterExpiry, once
    Dates,      \* the expiries the cluster may have been allocated with
    Extension,  \* the durations a refresh may ask for
    MaxTime     \* bound on the clock

ASSUME ContainerAssumption == Fresh \subseteq Container
ASSUME TimeAssumption ==
    /\ MaxTime \in Nat
    /\ Dates \subseteq Nat \ {0}
    /\ Extension \subseteq Nat \ {0}

VARIABLES
    clock,
    box,        \* "absent", "bare" (no state file yet) or "recorded"
    expiry,     \* the date in the state file; 0 is the zero time, never
    clean,      \* each Cleanup: where it is,
    reading,    \*   the listed containers whose file it has still to read,
    seen,       \*   the dates it has read,
    victims,    \*   the containers it is removing,
    dirty,      \*   those whose file was rewritten after it was read
    refresh,    \* each refresh: where it is,
    target,     \*   the date it writes,
    todo,       \*   the containers it has still to write
    add,        \* each AddNode: where it is,
    base,       \*   the expiry of the cluster it has read,
    life        \*   the lifetime derived from it, 0 if that is not positive

cleanVars == <<clean, reading, seen, victims>>
refreshVars == <<refresh, target, todo>>
addVars == <<add, base, life>>
vars == <<clock, box, expiry, cleanVars, dirty, refreshVars, addVars>>

Present == {c \in Container : box[c] # "absent"}

Init ==
    /\ clock = 1
    /\ box = [c \in Container |-> IF c \in Fresh THEN "absent" ELSE "recorded"]
    /\ \/ expiry = [c \in Container |-> 0]
       \/ \E date \in [Container -> Dates] :
             expiry = [c \in Container |-> IF c \in Fresh THEN 0 ELSE date[c]]
    /\ clean = [k \in Cleaner |-> "idle"]
    /\ reading = [k \in Cleaner |-> {}]
    /\ seen = [k \in Cleaner |-> [c \in Container |-> 0]]
    /\ victims = [k \in Cleaner |-> {}]
    /\ dirty = [k \in Cleaner |-> {}]
    /\ refresh = [r \in Refresher |-> "idle"]
    /\ target = [r \in Refresher |-> 0]
    /\ todo = [r \in Refresher |-> {}]
    /\ add = [n \in Fresh |-> "idle"]
    /\ base = [n \in Fresh |-> 0]
    /\ life = [n \in Fresh |-> 0]

Tick ==
    /\ clock < MaxTime
    /\ clock' = clock + 1
    /\ UNCHANGED <<box, expiry, cleanVars, dirty, refreshVars, addVars>>

\* WriteNodeState; a Cleanup that has read the file already does not notice.
WriteNodeState(c, date) ==
    /\ box' = [box EXCEPT ![c] = "recorded"]
    /\ expiry' = [expiry EXCEPT ![c] = date]
    /\ dirty' = [k \in Cleaner |->
                    IF c \in reading[k] THEN dirty[k] ELSE dirty[k] \union {c}]

-----------------------------------------------------------------------------
(* Cleanup                                                                 *)

\* ListNodes lists the containers ...
CleanupList(k) ==
    /\ clean[k] = "idle"
    /\ clean' = [clean EXCEPT ![k] = "reading"]
    /\ reading' = [reading EXCEPT ![k] = Present]
    /\ seen' = [seen EXCEPT ![k] = [c \in Container |-> 0]]
    /\ dirty' = [dirty EXCEPT ![k] = {}]
    /\ UNCHANGED <<clock, box, expiry, victims, refreshVars, addVars>>

\* Mutant: a file that cannot be read counts as expired long ago.
ReadNodeStateOld(k, c) ==
    /\ clean[k] = "reading" /\ c \in reading[k]
    /\ seen' = [seen EXCEPT ![k][c] = IF box[c] = "recorded" THEN expiry[c] ELSE 1]
    /\ reading' = [reading EXCEPT ![k] = @ \ {c}]
    /\ UNCHANGED <<clock, box, expiry, clean, victims, dirty, refreshVars, addVars>>

\* ... and reads their files one by one; one it cannot read counts as zero.
ReadNodeState(k, c) ==
    /\ clean[k] = "reading" /\ c \in reading[k]
    /\ seen' = [seen EXCEPT ![k][c] = IF box[c] = "recorded" THEN expiry[c] ELSE 0]
    /\ reading' = [reading EXCEPT ![k] = @ \ {c}]
    /\ UNCHANGED <<clock, box, expiry, clean, victims, dirty, refreshVars, addVars>>

\* The error of a read is dropped, whatever its cause.
ReadMiss(k, c) ==
    /\ clean[k] = "reading" /\ c \in reading[k]
    /\ seen' = [seen EXCEPT ![k][c] = 0]
    /\ reading' = [reading EXCEPT ![k] = @ \ {c}]
    /\ UNCHANGED <<clock, box, expiry, clean, victims, dirty, refreshVars, addVars>>

\* !node.Expiry.IsZero() && !node.Expiry.After(curTime)
IsExpired(date, now) == date # 0 /\ date <= now

\* Mutant: the whole cluster is removed once one of its containers expired.
CleanupSelectCluster(k) ==
    /\ clean[k] = "reading" /\ reading[k] = {}
    /\ clean' = [clean EXCEPT ![k] = "removing"]
    /\ victims' = [victims EXCEPT ![k] =
                      {c \in Present : \E e \in Container : IsExpired(seen[k][e], clock)}]
    /\ UNCHANGED <<clock, box, expiry, reading, seen, dirty, refreshVars, addVars>>

\* Mutant: a cluster is removed only when all its containers expired.
CleanupSelectWhole(k) ==
    /\ clean[k] = "reading" /\ reading[k] = {}
    /\ clean' = [clean EXCEPT ![k] = "removing"]
    /\ victims' = [victims EXCEPT ![k] =
                      {c \in Container : \A e \in Present : IsExpired(seen[k][e], clock)}]
    /\ UNCHANGED <<clock, box, expiry, reading, seen, dirty, refreshVars, addVars>>

CleanupSelect(k) ==
    /\ clean[k] = "reading" /\ reading[k] = {}
    /\ clean' = [clean EXCEPT ![k] = "removing"]
    /\ victims' = [victims EXCEPT ![k] =
                      {c \in Container : IsExpired(seen[k][c], clock)}]
    /\ UNCHANGED <<clock, box, expiry, reading, seen, dirty, refreshVars, addVars>>

\* removeNodes runs one RemoveNode per container and drops their errors.
CleanupRemove(k, c) ==
    /\ clean[k] = "removing" /\ c \in victims[k]
    /\ box' = [box EXCEPT ![c] = "absent"]
    /\ expiry' = [expiry EXCEPT ![c] = 0]
    /\ victims' = [victims EXCEPT ![k] = @ \ {c}]
    /\ UNCHANGED <<clock, clean, reading, seen, dirty, refreshVars, addVars>>

CleanupMiss(k, c) ==
    /\ clean[k] = "removing" /\ c \in victims[k]
    /\ victims' = [victims EXCEPT ![k] = @ \ {c}]
    /\ UNCHANGED <<clock, box, expiry, clean, reading, seen, dirty, refreshVars, addVars>>

CleanupDone(k) ==
    /\ clean[k] = "removing" /\ victims[k] = {}
    /\ clean' = [clean EXCEPT ![k] = "idle"]
    /\ UNCHANGED <<clock, box, expiry, reading, seen, victims, dirty, refreshVars, addVars>>

-----------------------------------------------------------------------------
(* refresh: UpdateClusterExpiry, UpdateExpiry                              *)

\* A duration of zero or less asks for no expiry; the nodes are listed once.
RefreshList(r) ==
    /\ refresh[r] = "idle" /\ Present # {}
    /\ \E date \in {0} \union {clock + d : d \in Extension} :
          target' = [target EXCEPT ![r] = date]
    /\ todo' = [todo EXCEPT ![r] = Present]
    /\ refresh' = [refresh EXCEPT ![r] = "writing"]
    /\ UNCHANGED <<clock, box, expiry, cleanVars, dirty, addVars>>

\* The old state has to be readable, and is overwritten.
UpdateExpiry(r, c) ==
    /\ refresh[r] = "writing" /\ c \in todo[r]
    /\ box[c] = "recorded"
    /\ WriteNodeState(c, target[r])
    /\ todo' = [todo EXCEPT ![r] = @ \ {c}]
    /\ UNCHANGED <<clock, cleanVars, refresh, target, addVars>>

\* A read or a write fails: the rest of the nodes keep their old expiry.
RefreshFails(r) ==
    /\ refresh[r] = "writing" /\ todo[r] # {}
    /\ refresh' = [refresh EXCEPT ![r] = "failed"]
    /\ UNCHANGED <<clock, box, expiry, cleanVars, dirty, target, todo, addVars>>

RefreshDone(r) ==
    /\ refresh[r] = "writing" /\ todo[r] = {}
    /\ refresh' = [refresh EXCEPT ![r] = "done"]
    /\ UNCHANGED <<clock, box, expiry, cleanVars, dirty, target, todo, addVars>>

-----------------------------------------------------------------------------
(* AddNode: getCluster, addRemoveNodes, DeployNode                         *)

\* listClusters: the latest of the non-zero dates it could read, or zero.
IsClusterExpiry(date, readable) ==
    /\ date \in {0} \union {expiry[c] : c \in readable}
    /\ \A c \in readable : expiry[c] <= date

AddList(n) ==
    /\ add[n] = "idle" /\ Present # {}
    /\ \E date \in {0} \union {expiry[c] : c \in Present} :
          /\ \E readable \in SUBSET Present : IsClusterExpiry(date, readable)
          /\ base' = [base EXCEPT ![n] = date]
    /\ add' = [add EXCEPT ![n] = "listed"]
    /\ UNCHANGED <<clock, box, expiry, cleanVars, dirty, refreshVars, life>>

\* Mutant: a lapsed cluster gives a negative lifetime.
AddLifetimeSigned(n) ==
    /\ add[n] = "listed"
    /\ life' = [life EXCEPT ![n] = base[n] - clock]
    /\ add' = [add EXCEPT ![n] = "timed"]
    /\ UNCHANGED <<clock, box, expiry, cleanVars, dirty, refreshVars, base>>

\* Expiry: time.Until(clusterInfo.Expiry); DeployNode only asks if it is > 0.
AddLifetime(n) ==
    /\ add[n] = "listed"
    /\ life' = [life EXCEPT ![n] = IF base[n] > clock THEN base[n] - clock ELSE 0]
    /\ add' = [add EXCEPT ![n] = "timed"]
    /\ UNCHANGED <<clock, box, expiry, cleanVars, dirty, refreshVars, base>>

ContainerCreate(n) ==
    /\ add[n] = "timed"
    /\ box' = [box EXCEPT ![n] = "bare"]
    /\ add' = [add EXCEPT ![n] = "created"]
    /\ UNCHANGED <<clock, expiry, cleanVars, dirty, refreshVars, base, life>>

\* Mutant: the lifetime is rounded down.
AddWriteRounded(n) ==
    /\ add[n] = "created" /\ box[n] # "absent"
    /\ WriteNodeState(n, IF life[n] > 0 THEN (clock + life[n]) - 1 ELSE 0)
    /\ add' = [add EXCEPT ![n] = "done"]
    /\ UNCHANGED <<clock, cleanVars, refreshVars, base, life>>

AddWrite(n) ==
    /\ add[n] = "created" /\ box[n] # "absent"
    /\ WriteNodeState(n, IF life[n] > 0 THEN clock + life[n] ELSE 0)
    /\ add' = [add EXCEPT ![n] = "done"]
    /\ UNCHANGED <<clock, cleanVars, refreshVars, base, life>>

\* No error path of addRemoveNodes removes what it has deployed.
AddFails(n) ==
    /\ add[n] \in {"listed", "timed", "created"}
    /\ add' = [add EXCEPT ![n] = "failed"]
    /\ UNCHANGED <<clock, box, expiry, cleanVars, dirty, refreshVars, base, life>>

-----------------------------------------------------------------------------
Cleanup(k) ==
    \/ CleanupList(k) \/ CleanupSelect(k) \/ CleanupDone(k)
    \/ \E c \in Container :
          \/ ReadNodeState(k, c) \/ ReadMiss(k, c)
          \/ CleanupRemove(k, c) \/ CleanupMiss(k, c)

UpdateClusterExpiry(r) ==
    \/ RefreshList(r) \/ RefreshFails(r) \/ RefreshDone(r)
    \/ \E c \in Container : UpdateExpiry(r, c)

AddNode(n) ==
    \/ AddList(n) \/ AddLifetime(n) \/ ContainerCreate(n) \/ AddWrite(n)
    \/ AddFails(n)

Next ==
    \/ Tick
    \/ \E k \in Cleaner : Cleanup(k)
    \/ \E r \in Refresher : UpdateClusterExpiry(r)
    \/ \E n \in Fresh : AddNode(n)

Spec == Init /\ [][Next]_vars

\* Time passes, cleanup is run again and again, and a read or a removal that is
\* tried again and again succeeds at last.
Fairness ==
    /\ WF_vars(Tick)
    /\ \A k \in Cleaner :
          /\ WF_vars(Cleanup(k))
          /\ \A c \in Container :
                /\ SF_vars(ReadNodeState(k, c))
                /\ SF_vars(CleanupRemove(k, c))

FairSpec == Spec /\ Fairness

-----------------------------------------------------------------------------
(* Properties.                                                             *)

\* Every variable has its type.
TypeOK ==
    /\ clock \in Nat
    /\ box \in [Container -> {"absent", "bare", "recorded"}]
    /\ expiry \in [Container -> Nat]
    /\ clean \in [Cleaner -> {"idle", "reading", "removing"}]
    /\ reading \in [Cleaner -> SUBSET Container]
    /\ seen \in [Cleaner -> [Container -> Nat]]
    /\ victims \in [Cleaner -> SUBSET Container]
    /\ dirty \in [Cleaner -> SUBSET Container]
    /\ refresh \in [Refresher -> {"idle", "writing", "failed", "done"}]
    /\ target \in [Refresher -> Nat]
    /\ todo \in [Refresher -> SUBSET Container]
    /\ add \in [Fresh -> {"idle", "listed", "timed", "created", "done", "failed"}]
    /\ base \in [Fresh -> Nat]
    /\ life \in [Fresh -> Nat]

\* What a Cleanup is about to remove is expired at that moment, unless its file
\* was rewritten after this Cleanup read it: the clock, other Cleanups and
\* nodes being added cannot make a live container a victim.
VictimsExpiredUnlessRewritten ==
    \A k \in Cleaner : \A c \in victims[k] :
        box[c] = "absent" \/ c \in dirty[k] \/ IsExpired(expiry[c], clock)

\* A container without a state file, which only a running or failed AddNode
\* leaves, is no Cleanup's victim.
BareIsNeverVictim ==
    \A c \in Container : box[c] = "bare" =>
        /\ c \in Fresh /\ add[c] \in {"created", "failed"}
        /\ \A k \in Cleaner : c \notin victims[k]

\* A node added to a cluster that had not lapsed lives at least as long as the
\* cluster was going to when AddNode looked, however long the deployment took.
AddedNodeOutlives ==
    [][\A n \in Fresh :
          (add[n] = "created" /\ add'[n] = "done" /\ life[n] > 0)
              => expiry'[n] >= base[n]]_vars

\* A container that is past its expiry is removed in the end, unless its file
\* is rewritten first.
ExpiredIsReclaimed ==
    \A c \in Container :
        IsExpired(expiry[c], clock) ~> ~IsExpired(expiry[c], clock)
=============================================================================
