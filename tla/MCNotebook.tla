----------------------------- MODULE MCNotebook -----------------------------
(***************************************************************************)
(* A shared notebook as one caller meets it: a caller that reads it in     *)
(* pages and follows its journal, and a caller that edits it from what it  *)
(* observed, each beside other clients.  A behaviour is of one of them;    *)
(* their documents are kept apart, as the objects of the two are bounded   *)
(* differently.                                                            *)
(***************************************************************************)
EXTENDS NotebookReader

CONSTANTS Sources, Requested, Lines, Keys, WrittenKeys, Values, Quiet,
          MaxRemembered, MaxBatch, MaxEdits

VARIABLES part,
          edited, content, nbMeta, refs, nbRefs, history, created, wrongs, steps

Editor == INSTANCE NotebookEdits
            WITH doc <- edited, cell <- content, born <- created, events <- steps,
                 MaxEvents <- MaxEdits

editorVars == <<edited, content, nbMeta, refs, nbRefs, history, created, wrongs, steps>>

\* Reading: two or three cells; only the source of the second is longer than
\* a page.
MCObjects == 1..3
MCInitialDoc == <<1, 2>>
MCInitialId == <<"a", "b", "a">>
MCBoundaries == <<{0, 1}, {0, 1, 3}, {0, 2}>>
MCAlongEdits == {<<2, {"outputs"}>>}

\* Editing: two cells, sources of up to three lines.
MCSources == {<<"p", "q">>, <<"n", "p", "q">>, <<"p", "m", "q">>}
MCRequested == {<<"o", "q">>, <<"n", "p">>}
MCLines == {<<"q", "r">>}

MCInit == RInit /\ Editor!Init /\ part \in {"reading", "editing"}

MCNext ==
  /\ \/ part = "reading" /\ RNext /\ UNCHANGED editorVars
     \/ part = "editing" /\ Editor!Next /\ UNCHANGED rvars
  /\ UNCHANGED part

MCSpec == MCInit /\ [][MCNext]_<<rvars, editorVars, part>>

\* The properties of NotebookEdits, of the documents that are edited here.
ExecutionMatchesPlan   == Editor!ExecutionMatchesPlan
GuardsAreExact         == Editor!GuardsAreExact
ChangesOfOthersSurvive == Editor!ChangesOfOthersSurvive
=============================================================================
