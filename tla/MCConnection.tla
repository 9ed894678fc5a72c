---------------------------- MODULE MCConnection ----------------------------
(***************************************************************************)
(* One MCP connection from its three sides: its calls and the references   *)
(* in their answers, its bindings to a server, and the presence it shows   *)
(* there.  They share nothing that these models tell apart, so a behaviour *)
(* is of one of them.                                                      *)
(***************************************************************************)
EXTENDS McpAdapter, ServerBindings, Presence

CONSTANTS c1, c2, f1, f2, f3, path1, path2

VARIABLE part

\* The first file was deleted and created again.
MCPathOf == [f \in Files |-> IF f = f3 THEN path2 ELSE path1]

MCInit == Init /\ SInit /\ PInit /\ part \in {"calls", "servers", "presence"}

MCNext ==
  /\ \/ part = "calls" /\ Next /\ UNCHANGED <<svars, pvars>>
     \/ part = "servers" /\ SNext /\ UNCHANGED <<vars, pvars>>
     \/ part = "presence" /\ PNext /\ UNCHANGED <<vars, svars>>
  /\ UNCHANGED part

MCSpec == MCInit /\ [][MCNext]_<<vars, svars, pvars, part>>
=============================================================================
