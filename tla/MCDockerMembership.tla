------------------------- MODULE MCDockerMembership -------------------------
(***************************************************************************)
(* Instances of DockerMembership for TLC.                                  *)
(***************************************************************************)
EXTENDS DockerMembership, TLC

Server(features) == [features |-> features, certs |-> TRUE, columnar |-> FALSE]

MCPlain == {Server({})}

\* A client is sent to the nodes by the records and by both load balancers.
MCNamed == {Server({"dns", "nginx", "haproxy"})}

\* Commands at the same time add at most one node each and remove at most one.
MCNext ==
    /\ Next
    /\ \A p \in Proc : step[p] = "idle" =>
          Cardinality(fresh'[p]) <= 1 /\ Cardinality(leaving'[p]) <= 1
MCSpec == Init /\ [][MCNext]_vars

\* In sequence they add and remove at most two nodes in all.
MCNextInTurn ==
    /\ Next
    /\ \A p \in Proc : step[p] = "idle" =>
          Cardinality(fresh'[p]) + Cardinality(leaving'[p]) <= 2
MCSpecInTurn == Init /\ [][MCNextInTurn]_vars /\ Fairness

\* The commands are interchangeable, and so are the nodes they may add.
MCSymmetry == Permutations(Proc) \union Permutations(Node \ Initial)
=============================================================================
