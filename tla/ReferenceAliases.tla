--------------------------- MODULE ReferenceAliases ---------------------------
(***************************************************************************)
(* The table of short references of one MCP connection (mcp/               *)
(* references.ts).  An alias stands for a full handle (an execution, a     *)
(* cell id of one notebook); an observed reference stands for what the     *)
(* agent was shown of a cell or of a notebook's metadata.  The references  *)
(* of a response are staged first, and the table keeps only those the      *)
(* final payload still holds; a response that is not published puts the    *)
(* table back, counters included.                                          *)
(*                                                                         *)
(* The two maps of each kind and their inverses are kept apart as in the   *)
(* source, the maps for cells and for notebooks are one map here: both     *)
(* draw their numbers from one counter and share one budget.               *)
(***************************************************************************)
EXTENDS Integers, Sequences, SequencesExt, FiniteSets, Functions, TLC

CONSTANTS AliasKinds,   \* the kinds of full handles that get an alias
          MaxEntries    \* observed references of one connection

EmptyTable ==
  [alias    |-> [k \in AliasKinds |-> <<>>],  \* number -> [full, owner]
   byRef    |-> <<>>,                          \* observed reference -> observation
   byValue  |-> <<>>,                          \* observation -> observed reference
   observed |-> 1]                             \* the next observed reference

Expired == [what |-> "HANDLE_EXPIRED"]

\* An alias is made once for a handle, within its notebook where the handle
\* means nothing without one.
Present(table, kind, full, owner) ==
  LET entry == [full |-> full, owner |-> owner]
  IN  IF entry \in Range(table.alias[kind]) THEN table
      ELSE [table EXCEPT !.alias[kind] = Append(@, entry)]

AliasOf(table, kind, full, owner) ==
  CHOOSE n \in DOMAIN table.alias[kind] :
    table.alias[kind][n] = [full |-> full, owner |-> owner]

\* The handle an alias stands for, for a call about one notebook.
Resolve(table, kind, alias, notebook) ==
  IF alias \notin DOMAIN table.alias[kind] THEN Expired
  ELSE LET entry == table.alias[kind][alias]
       IN  IF entry.owner \in {"none", notebook} THEN entry.full ELSE Expired

Observed(table, what, ref, notebook) ==
  IF /\ ref \in DOMAIN table.byRef
     /\ table.byRef[ref].what = what
     /\ table.byRef[ref].notebook = notebook
  THEN table.byRef[ref]
  ELSE Expired

\* Observations not known yet get the next references, each its own.
PresentObserved(table, news) ==
  CHOOSE f \in Bijection(news, table.observed..table.observed + Cardinality(news) - 1) : TRUE

\* An observation already known keeps its reference.  Nothing is refused
\* while a response is staged, only when it is published.
Stage(table, observations) ==
  LET news == observations \ DOMAIN table.byValue
      new  == PresentObserved(table, news)
  IN  [table EXCEPT
         !.byRef    = [r \in DOMAIN @ \cup Range(new) |->
                         IF r \in DOMAIN @ THEN @[r] ELSE CHOOSE v \in news : new[v] = r],
         !.byValue  = [v \in DOMAIN @ \cup news |->
                         IF v \in DOMAIN @ THEN @[v] ELSE new[v]],
         !.observed = @ + Cardinality(news)]

\* What the response staged and its payload does not hold is forgotten.
PruneUnpublished(table, checkpoint, published) ==
  LET kept == {r \in DOMAIN table.byRef :
                 r \in DOMAIN checkpoint.byRef \cup published}
  IN  [table EXCEPT
         !.byRef   = Restrict(@, kept),
         !.byValue = Restrict(@, {v \in DOMAIN @ : @[v] \in kept})]

\* Publishing a response: FALSE when the table would be over its budget, and
\* then nothing of the response stays.
CommitPublished(staged, checkpoint, published) ==
  LET pruned == PruneUnpublished(staged, checkpoint, published)
  IN  IF Cardinality(DOMAIN pruned.byRef) > MaxEntries
      THEN [ok |-> FALSE, table |-> checkpoint]
      ELSE [ok |-> TRUE, table |-> pruned]

\* The one reference of a request that names this cell; 0 when none does, or
\* when two do.
SubmittedCellReference(table, refs, notebook, cell) ==
  LET naming == {r \in refs : /\ r \in DOMAIN table.byRef
                              /\ table.byRef[r].notebook = notebook
                              /\ table.byRef[r].what = "cell"
                              /\ table.byRef[r].cell = cell}
  IN  IF Cardinality(naming) = 1 THEN CHOOSE r \in naming : TRUE ELSE 0
=============================================================================
