-------------------------- MODULE MCRefreshGrants --------------------------
(* An instance of RefreshGrants: which request is which does not matter.     *)
EXTENDS RefreshGrants, TLC

CONSTANTS r1, r2

Symmetry == Permutations(Requests)
=============================================================================
