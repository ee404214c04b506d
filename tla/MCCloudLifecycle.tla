-------------------------- MODULE MCCloudLifecycle --------------------------
(* An instance of CloudLifecycle: a server and a columnar cluster, and any    *)
(* one command beside a cleanup.                                              *)
EXTENDS CloudLifecycle

CONSTANTS p1, p2, user, cron

MCKind == [q \in Projects |-> IF q = p1 THEN "server" ELSE "columnar"]
MCDuties == [x \in Procs |-> IF x = user THEN Ops \ {"cleanup"} ELSE {"cleanup"}]
(* For liveness: the commands that leave something for cleanup.               *)
MCDutiesLive == [x \in Procs |-> IF x = user THEN {"allocate", "remove"} ELSE {"cleanup"}]
(* A server cluster is allocated beside a columnar one, and that one alone.   *)
MCInitLive ==
  /\ Init
  /\ op[user] = "allocate" => IF target[user] = p1 THEN projects = {p2} ELSE projects = {}
MCSpecLive == MCInitLive /\ [][Next]_vars /\ Fairness
=============================================================================
