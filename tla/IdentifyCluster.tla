--------------------------- MODULE IdentifyCluster ---------------------------
(***************************************************************************)
(* CmdHelper.IdentifyCluster of cmd/cmdhelper.go, which every command that *)
(* names a cluster starts with.  One goroutine per deployer lists its      *)
(* clusters and sends those whose identifier has the prefix the user gave  *)
(* over a channel of capacity one; another closes the channel once the     *)
(* wait group is done; main takes the first cluster that arrives and       *)
(* cancels the other searches.                                             *)
(***************************************************************************)
EXTENDS Naturals, Sequences, FiniteSets

CONSTANTS
    Deployer,   \* the configured deployers
    Cluster     \* the identifiers with the given prefix

ASSUME DeployerAssumption == IsFiniteSet(Deployer)

VARIABLES
    matches,    \* the clusters each deployer would list that have the prefix
    fails,      \* the deployers whose listing fails of itself
    worker,     \* where each deployer's goroutine is
    unsent,     \* the matches a goroutine has still to send
    channel, closed,
    wg,         \* the counter of the wait group
    cancelled,  \* the context of the listings
    main,
    found

vars == <<matches, fails, worker, unsent, channel, closed, wg, cancelled,
          main, found>>

inputs == <<matches, fails>>

Capacity == 1

\* No cluster has been found.
Nothing == <<>>

Init ==
    /\ matches \in [Deployer -> SUBSET Cluster]
    /\ fails \in SUBSET Deployer
    /\ worker = [d \in Deployer |-> "listing"]
    /\ unsent = [d \in Deployer |-> {}]
    /\ channel = <<>> /\ closed = FALSE
    /\ wg = Cardinality(Deployer)
    /\ cancelled = FALSE
    /\ main = "ranging"
    /\ found = Nothing

-----------------------------------------------------------------------------
\* Mutant: wg.Done() as soon as the listing answers, and again at the end.
ListClustersDone(d) ==
    /\ worker[d] = "listing" /\ d \notin fails
    /\ worker' = [worker EXCEPT ![d] = "sending"]
    /\ unsent' = [unsent EXCEPT ![d] = matches[d]]
    /\ wg' = wg - 1
    /\ UNCHANGED <<inputs, channel, closed, cancelled, main, found>>

\* The listing answers; it may also do so after the context was cancelled.
ListClusters(d) ==
    /\ worker[d] = "listing" /\ d \notin fails
    /\ worker' = [worker EXCEPT ![d] = "sending"]
    /\ unsent' = [unsent EXCEPT ![d] = matches[d]]
    /\ UNCHANGED <<inputs, channel, closed, wg, cancelled, main, found>>

\* Mutant: the error path does call wg.Done().
ListFailsDone(d) ==
    /\ worker[d] = "listing" /\ (d \in fails \/ cancelled)
    /\ worker' = [worker EXCEPT ![d] = "returned"]
    /\ wg' = wg - 1
    /\ UNCHANGED <<inputs, unsent, channel, closed, cancelled, main, found>>

\* The listing fails, of itself or because it was cancelled.  Both branches of
\* the error path return without wg.Done().
ListFails(d) ==
    /\ worker[d] = "listing" /\ (d \in fails \/ cancelled)
    /\ worker' = [worker EXCEPT ![d] = "returned"]
    /\ UNCHANGED <<inputs, unsent, channel, closed, wg, cancelled, main, found>>

Send(d) ==
    /\ worker[d] = "sending"
    /\ Len(channel) < Capacity
    /\ \E c \in unsent[d] :
          /\ channel' = Append(channel, <<d, c>>)
          /\ unsent' = [unsent EXCEPT ![d] = @ \ {c}]
    /\ UNCHANGED <<inputs, worker, closed, wg, cancelled, main, found>>

\* Mutant: a goroutine without a match returns early.
DoneIfMatched(d) ==
    /\ worker[d] = "sending" /\ unsent[d] = {} /\ matches[d] # {}
    /\ worker' = [worker EXCEPT ![d] = "done"]
    /\ wg' = wg - 1
    /\ UNCHANGED <<inputs, unsent, channel, closed, cancelled, main, found>>

Done(d) ==
    /\ worker[d] = "sending" /\ unsent[d] = {}
    /\ worker' = [worker EXCEPT ![d] = "done"]
    /\ wg' = wg - 1
    /\ UNCHANGED <<inputs, unsent, channel, closed, cancelled, main, found>>

\* Mutant: the first goroutine to finish closes the channel.
CloseEarly ==
    /\ wg < Cardinality(Deployer) /\ ~closed
    /\ closed' = TRUE
    /\ UNCHANGED <<inputs, worker, unsent, channel, wg, cancelled, main, found>>

\* wg.Wait(), close(identifiedCluster)
Close ==
    /\ wg = 0 /\ ~closed
    /\ closed' = TRUE
    /\ UNCHANGED <<inputs, worker, unsent, channel, wg, cancelled, main, found>>

Receive ==
    /\ main = "ranging" /\ channel # <<>>
    /\ found' = Head(channel)
    /\ channel' = Tail(channel)
    /\ cancelled' = TRUE
    /\ main' = "found"
    /\ UNCHANGED <<inputs, worker, unsent, closed, wg>>

\* The range ends on a closed and empty channel; the command then dies.
NotFound ==
    /\ main = "ranging" /\ closed /\ channel = <<>>
    /\ cancelled' = TRUE
    /\ main' = "notFound"
    /\ UNCHANGED <<inputs, worker, unsent, channel, closed, wg, found>>

\* Goroutines blocked on the channel are left behind when main goes on.
Resolved == main # "ranging" /\ UNCHANGED vars

Search(d) == ListClusters(d) \/ ListFails(d) \/ Send(d) \/ Done(d)

Next ==
    \/ \E d \in Deployer : Search(d)
    \/ Close
    \/ Receive \/ NotFound
    \/ Resolved

Spec == Init /\ [][Next]_vars

\* Goroutines are scheduled and every listing answers in the end.
Fairness ==
    /\ \A d \in Deployer : WF_vars(Search(d))
    /\ WF_vars(Close)
    /\ WF_vars(Receive \/ NotFound)

FairSpec == Spec /\ Fairness

-----------------------------------------------------------------------------
(* Properties.                                                             *)

\* Every variable has its type.
TypeOK ==
    /\ matches \in [Deployer -> SUBSET Cluster]
    /\ fails \in SUBSET Deployer
    /\ worker \in [Deployer -> {"listing", "sending", "done", "returned"}]
    /\ unsent \in [Deployer -> SUBSET Cluster]
    /\ channel \in Seq(Deployer \X Cluster)
    /\ closed \in BOOLEAN
    /\ wg \in Nat
    /\ cancelled \in BOOLEAN
    /\ main \in {"ranging", "found", "notFound"}
    /\ found \in {Nothing} \union (Deployer \X Cluster)

\* The cluster returned was listed, under the deployer it is returned with.
FoundIsListed ==
    main = "found" =>
        /\ found # Nothing
        /\ found[1] \notin fails /\ found[2] \in matches[found[1]]

\* The command reports that no cluster has the prefix only when every deployer
\* answered and none listed one: a failed or unfinished search, or a match
\* still in the channel, never turns into "not found".
NotFoundIsComplete ==
    main = "notFound" => fails = {} /\ \A d \in Deployer : matches[d] = {}

\* IdentifyCluster keeps what it promises its callers: one answer, which is
\* never taken back, that is either a match its deployer lists or the truth
\* that nobody has one.
Contract == INSTANCE SearchContract WITH state <- main, answer <- found

RefinesSearch == Contract!Spec

\* The channel is closed only after the last send: no goroutine can send on a
\* closed channel, which would panic.
NoSendAfterClose == closed => \A d \in Deployer : worker[d] = "done"

\* If every listing answers, or some deployer lists a match, the search ends.
ResolvesIfAnswered ==
    (fails = {} \/ \E d \in Deployer \ fails : matches[d] # {})
        => <>(main # "ranging")
=============================================================================
