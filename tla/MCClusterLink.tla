---------------------------- MODULE MCClusterLink ----------------------------
(* Connections are interchangeable; used by the runs without liveness.       *)
EXTENDS ClusterLink, TLC

Symmetry == Permutations(Conn)
==============================================================================
