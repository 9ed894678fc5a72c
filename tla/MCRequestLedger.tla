--------------------------- MODULE MCRequestLedger ---------------------------
(***************************************************************************)
(* A small instance of RequestLedger: two overlapping calls, a registry of  *)
(* two receipts and numbers on both sides of the legal range.               *)
(***************************************************************************)
EXTENDS RequestLedger

CONSTANTS c1, c2

P(tool, body) == [tool |-> tool, body |-> body]

\* An edit, an execution, which awaits before it begins, and the start of a
\* server that is too large to accept and looks again at its session.
MCPayloads == {P("apply", 1), P("execute", 1), P("server_start", 1)}
MCOversized == {P("server_start", 1)}
=============================================================================
