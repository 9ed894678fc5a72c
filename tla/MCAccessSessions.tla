-------------------------- MODULE MCAccessSessions --------------------------
(***************************************************************************)
(* The gateway's workers in two deployments: under transport sessions (two *)
(* requests of one session and one of another), and under login grants     *)
(* (two requests of one login, on the registry alone), where closing a     *)
(* worker process may fail.                                                *)
(***************************************************************************)
EXTENDS AccessSessions, TLC

CONSTANTS k1, k2, r1, r2, r3, p

TwoOfOne == (r1 :> k1) @@ (r2 :> k1) @@ (r3 :> k2)
OneOwner == (k1 :> p) @@ (k2 :> p)

VARIABLE deployment

mcVars == <<asVars, deployment>>

MCInit == ASInit /\ deployment \in {"grants", "sessions"}

\* The registry alone, for the requests of k1.
Grants ==
  /\ deployment = "grants"
  /\ Next
  /\ pc'[r3] = "idle" /\ k2 \notin revoked'
  /\ UNCHANGED <<sessions, made, late, fetch, prunes>>

\* Under sessions every close of a worker succeeds.
Transport ==
  /\ deployment = "sessions"
  /\ ASNext
  /\ \A r \in Requests : pc[r] = "cleanup" /\ pc'[r] # "cleanup" => on[r] \notin live'

MCNext == (Grants \/ Transport) /\ UNCHANGED deployment

MCSpec == MCInit /\ [][MCNext]_mcVars /\ ASFairness
=============================================================================
