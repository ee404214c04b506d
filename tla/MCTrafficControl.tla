-------------------------- MODULE MCTrafficControl --------------------------
(***************************************************************************)
(* Instances of TrafficControl for TLC.                                    *)
(***************************************************************************)
EXTENDS TrafficControl, TLC

\* The peers of a cluster are alike.
Symmetric == Permutations(Peer)
=============================================================================
