--------------------------- MODULE MCCaoClusters ----------------------------
(* An instance of CaoClusters: one process runs any two commands one after    *)
(* the other, or one while the other, which cleans up for ever, modifies a    *)
(* cluster.                                                                   *)
EXTENDS CaoClusters

CONSTANTS user, cron, c1

MCDuties == [x \in Procs |-> IF x = user THEN Ops \ {"cleanup"} ELSE {"cleanup", "modify"}]
MCCommands == [x \in Procs |-> IF x = user THEN 2 ELSE 1]

(* Nothing but the resource definitions is installed; the second command      *)
(* meets what the first one made.                                             *)
MCInit == Init /\ (\A h \in AdmHomes : adm[h] = "none") /\ (\A c \in Clusters : ns[c] = "unused")
MCNext == Next /\ left'[user] + left'[cron] >= 1
MCSpec == MCInit /\ [][MCNext]_vars /\ Fairness
=============================================================================
