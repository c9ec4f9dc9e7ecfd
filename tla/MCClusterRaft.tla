--------------------------- MODULE MCClusterRaft ----------------------------
(* Instances of the cluster adapter for TLC. *)
EXTENDS ClusterRaft, TLC

NodeSymmetry == Permutations(Nodes)
=============================================================================
