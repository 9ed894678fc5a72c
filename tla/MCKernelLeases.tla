--------------------------- MODULE MCKernelLeases ---------------------------
(***************************************************************************)
(* KernelLeases with two handles.                                          *)
(***************************************************************************)
EXTENDS KernelLeases, TLC

CONSTANTS c1, c2, nbA, nbB, s1, s2, p1

\* Two working sessions that opened the same notebook share its kernel.
TwoSessions == (nbA :> s1) @@ (nbB :> s2)
SamePath    == (nbA :> p1) @@ (nbB :> p1)

\* Callers make the same calls.
CallerSymmetry == Permutations(Callers)
=============================================================================
