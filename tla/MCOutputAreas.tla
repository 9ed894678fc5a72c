---------------------------- MODULE MCOutputAreas ----------------------------
(***************************************************************************)
(* The outputs of an execution, where they are written and where they are  *)
(* followed: the output areas of two interchangeable cells, and the views  *)
(* of a job with the snapshots an agent reads.  The registry keeps its own *)
(* copy of the outputs for the views, so a behaviour is of one of them.    *)
(***************************************************************************)
EXTENDS OutputAreas, ExecutionViews

CellSymmetry == Permutations(Cells)

\* Text with one wide character, base64 of four bytes, and ASCII text.
MCBoundaries == <<{0, 1, 3}, {0, 4}, {0, 1, 2}>>
MCAlternate  == <<2, 0, 1>>

VARIABLE part

MCInit == AInit /\ EInit /\ part \in {"areas", "views"}

MCNext ==
  /\ \/ part = "areas" /\ ANext /\ UNCHANGED evars
     \/ part = "views" /\ ENext /\ UNCHANGED avars
  /\ UNCHANGED part

MCSpec == MCInit /\ [][MCNext]_<<avars, evars, part>>
=============================================================================
