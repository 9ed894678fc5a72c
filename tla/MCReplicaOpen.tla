---------------------------- MODULE MCReplicaOpen ----------------------------
(***************************************************************************)
(* ReplicaOpen with two callers of one session.                            *)
(***************************************************************************)
EXTENDS ReplicaOpen

CONSTANTS c1, c2, s1, p1, p2
==============================================================================
