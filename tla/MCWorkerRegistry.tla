-------------------------- MODULE MCWorkerRegistry --------------------------
(***************************************************************************)
(* WorkerRegistry with two requests of one login.                          *)
(***************************************************************************)
EXTENDS WorkerRegistry, TLC

CONSTANTS k1, r1, r2, p

OneLogin == (r1 :> k1) @@ (r2 :> k1)
Owner    == (k1 :> p)
=============================================================================
