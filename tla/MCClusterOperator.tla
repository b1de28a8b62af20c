-------------------------- MODULE MCClusterOperator --------------------------
(* ClusterOperator for TLC.  No symmetry: a liveness property is checked.  *)
EXTENDS ClusterOperator, TLC
=============================================================================
