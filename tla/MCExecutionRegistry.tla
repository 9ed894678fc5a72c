------------------------ MODULE MCExecutionRegistry ------------------------
(***************************************************************************)
(* ExecutionRegistry on two small jobs over two cells: both of them while  *)
(* the notebook is left alone, or the first while peers edit, delete,      *)
(* clear and run its cells, the room drops and the notebook closes, with   *)
(* at most two of these in force at a time.                                *)
(***************************************************************************)
EXTENDS ExecutionRegistry, TLC

CONSTANTS j1, j2, cellA, cellB

\* One job runs both cells, the other a cell that the first one runs too.
MCTargets == (j1 :> <<cellA, cellB>>) @@ (j2 :> <<cellB>>)
OneTarget == j1 :> <<cellA, cellB>>

\* What peers, the room and the handle have done to the notebook.
Disturbances ==
  {<<"gone", c>> : c \in gone} \cup {<<"text", c>> : c \in {d \in Cells : text[d] > 0}}
    \cup {<<"area", c>> : c \in {d \in Cells : area[d].owner # area[d].gen}}
    \cup {x \in {<<"closed", closed>>, <<"rtc", ~rtc>>} : x[2] = TRUE}

OneJob == \A j \in Jobs \ {j1} : state[j] = "none"

MCNext ==
  /\ Next
  /\ OneJob' \/ Disturbances' = {}
  /\ Cardinality(Disturbances') <= 2

\* The restriction bars no step of the pump, the kernel, the connection or the
\* watcher, so that the fairness of FairSpec is fairness of these steps here.
MCFairSpec ==
  /\ Init /\ [][MCNext]_vars
  /\ WF_vars(Pump) /\ WF_vars(Hear) /\ WF_vars(Connect) /\ WF_vars(WatchAny)
=============================================================================
