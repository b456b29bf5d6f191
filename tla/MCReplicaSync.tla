--------------------------- MODULE MCReplicaSync ---------------------------
(* ReplicaSync on two tables and two concurrent writers. *)
EXTENDS ReplicaSync, TLC
=============================================================================
