--------------------------- MODULE SearchContract ---------------------------
(***************************************************************************)
(* What a search for a cluster by a prefix promises its caller, whatever   *)
(* the deployers do: one answer, given once.  A cluster is answered only   *)
(* if its deployer lists it, together with that deployer; that there is    *)
(* none only if every deployer has been asked with success and none lists  *)
(* a match.  A search may also give no answer at all.                      *)
(*                                                                         *)
(* IdentifyCluster implements this contract (see IdentifyCluster!Contract). *)
(***************************************************************************)
CONSTANTS Deployer, Cluster

VARIABLES
    matches,   \* the clusters each deployer lists that have the prefix
    fails,     \* the deployers that cannot list their clusters
    state,     \* "ranging", "found" or "notFound"
    answer     \* the answer, as a deployer and a cluster; none at first

vars == <<matches, fails, state, answer>>

Init ==
    /\ matches \in [Deployer -> SUBSET Cluster]
    /\ fails \in SUBSET Deployer
    /\ state = "ranging"
    /\ answer = <<>>

Found(d, c) ==
    /\ state = "ranging"
    /\ d \notin fails /\ c \in matches[d]
    /\ state' = "found" /\ answer' = <<d, c>>
    /\ UNCHANGED <<matches, fails>>

NotFound ==
    /\ state = "ranging"
    /\ fails = {} /\ \A d \in Deployer : matches[d] = {}
    /\ state' = "notFound"
    /\ UNCHANGED <<matches, fails, answer>>

Next == NotFound \/ \E d \in Deployer, c \in Cluster : Found(d, c)

Spec == Init /\ [][Next]_vars
=============================================================================
