-------------------------- MODULE MCDockerAllocate --------------------------
(***************************************************************************)
(* Instances of DockerAllocate for TLC.                                    *)
(***************************************************************************)
EXTENDS DockerAllocate

CONSTANTS n1, n2, n3

MCDefSeq == <<n1, n2, n3>>

Definition(columnar, passive, active, expires, version) ==
    [columnar |-> columnar, passive |-> passive, active |-> active,
     expires |-> expires, version |-> version]

\* Server nodes only, the newer ones last or first in the definition.
MCDefsPlain ==
    {Definition(FALSE, FALSE, FALSE, TRUE, version) :
        version \in {[n \in Node |-> IF n = n3 THEN 7 ELSE 6],
                     [n \in Node |-> IF n = n1 THEN 7 ELSE 6]}}

\* Also nodes of one version, with haproxy and no expiry, with nginx, or with
\* the S3 mock.
MCDefs ==
    MCDefsPlain \union
        {Definition(FALSE, FALSE, TRUE, FALSE, [n \in Node |-> 7]),
         Definition(FALSE, TRUE, FALSE, TRUE, [n \in Node |-> 7]),
         Definition(TRUE, FALSE, FALSE, TRUE, [n \in Node |-> 7])}

\* An interrupt, after which nothing happens, is tried with server nodes only.
MCNext == Next /\ (result # "killed" /\ result' = "killed" => def \in MCDefsPlain)
MCSpec == Init /\ [][MCNext]_vars /\ Fairness
=============================================================================
