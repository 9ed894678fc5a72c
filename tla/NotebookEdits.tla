---------------------------- MODULE NotebookEdits ----------------------------
(***************************************************************************)
(* Edits of a shared notebook from what a caller observed of it: a batch   *)
(* of operations is validated in full on a simulated document              *)
(* (core/notebook/plan.ts), planned once more when it has been accepted,   *)
(* and then executed on the live one in one transaction                    *)
(* (core/notebook/execute.ts, model.ts), while other clients edit the same *)
(* cells.  What a revision stood for is remembered in a                    *)
(* bounded history (core/notebook/observation-history.ts), from which a    *)
(* replaced source is merged and a metadata key is guarded.                *)
(*                                                                         *)
(* A revision is a digest of content, and here the content itself.  A cell *)
(* object stands for its Y.Map and its identity token.  All cells are code *)
(* cells, and a metadata path stands for its first key, which is all the   *)
(* executor writes.                                                        *)
(***************************************************************************)
EXTENDS SourceMerge

CONSTANTS Sources,      \* sources other clients leave in a cell
          Requested,    \* sources the caller asks for
          Lines,        \* <<old, new>> lines of the caller's replace_text
          Keys,         \* metadata keys
          WrittenKeys,  \* those the caller writes
          Values,       \* what it writes (Absent: it deletes the key)
          Quiet,        \* bound: cells nobody else edits
          MaxRemembered,\* revisions a history holds (4096 in the code)
          MaxBatch,     \* operations in a batch
          MaxEvents     \* bound: reads, batches and edits of others

VARIABLES doc,      \* the cell objects of the notebook, in order
          cell,     \* the id and content of every object
          nbMeta,   \* the metadata of the notebook
          refs,     \* the observations the caller holds: [obj, content]
          nbRefs,   \* the notebook metadata it observed
          history,  \* the revisions remembered, oldest first, by kind
          born,     \* how many objects there have been
          wrongs,   \* what went wrong in some batch: empty if nothing ever did
          events    \* counter the bound is on

vars == <<doc, cell, nbMeta, refs, nbRefs, history, born, wrongs, events>>

Absent == 0
NoMeta == [k \in Keys |-> Absent]
Content(c) == [src |-> c.src, meta |-> c.meta, out |-> c.out]

-----------------------------------------------------------------------------
(* The history: the least recently remembered revision leaves first.       *)

Remember(revisions, rev) ==
  LET others == SelectSeq(revisions, LAMBDA r : r # rev)
      all    == Append(others, rev)
  IN  SubSeq(all, Max({1, Len(all) - MaxRemembered + 1}), Len(all))
Knows(revisions, rev) == rev \in ToSet(revisions)

\* A row that is handed out: its source, and its metadata under the revision
\* of the whole cell.
RememberCell(h, content) ==
  [h EXCEPT !.sources = Remember(@, content.src), !.cellMeta = Remember(@, content)]

-----------------------------------------------------------------------------
(* Planning.  The simulation holds of every cell its state now, and the    *)
(* one it had when the batch began.                                        *)

Simulation(h) ==
  [order |-> [i \in DOMAIN doc |->
                [obj |-> doc[i], id |-> cell[doc[i]].id, old |-> TRUE,
                 now |-> Content(cell[doc[i]]), original |-> Content(cell[doc[i]])]],
   meta |-> nbMeta, history |-> h, ops |-> <<>>, ok |-> TRUE]

Rejected(s) == [s EXCEPT !.ok = FALSE]
Hits(s, id) == {i \in DOMAIN s.order : s.order[i].id = id}

\* Mutant: an id is enough.
AddressedById(s, ref) == {i \in Hits(s, ref.id) : Cardinality(Hits(s, ref.id)) = 1}

\* The one cell an operation addresses: unique by id, and the very object the
\* caller observed.  A cell made by the batch has no identity yet.
Addressed(s, ref) ==
  {i \in Hits(s, ref.id) : /\ Cardinality(Hits(s, ref.id)) = 1
                           /\ s.order[i].old /\ s.order[i].obj = ref.obj}

\* A guard accepts what the replica had at the start of the batch, or what
\* the batch itself has made of it.
Guarded(expected, now, original) == expected = now \/ expected = original

\* Mutant: what the caller asked for, whatever the source is by now.
MergedSource_Overwrites(s, i, expected, requested) == Merged(requested)

\* What a replacement of the source leaves: the caller's change, merged into
\* the current text.  Without a base there is nothing to merge from.
MergedSource(s, i, expected, requested) ==
  LET current == s.order[i].now.src
  IN  CASE current = expected -> Merged(requested)
        [] current # expected /\ ~(\/ s.order[i].original.src = expected
                                   \/ Knows(s.history.sources, expected)) -> Conflict
        [] OTHER -> MergeSources(expected, current, requested)

\* A metadata key may be written when it has not changed since the caller's
\* observation, whatever else has; an observation that is no longer known
\* must be the current one.
KeyUnchanged(known, key, expectedMeta, originalMeta, isCurrent) ==
  isCurrent \/ (known /\ expectedMeta[key] = originalMeta[key])

\* The simulated cell i after an operation, and the instruction for it.
Planned(s, i, content, instruction) ==
  [s EXCEPT !.order[i].now = content, !.ops = Append(@, instruction)]

\* An error hands back a reference to the cell: it is remembered whether or
\* not the guard it is computed for lets the operation pass.
WithDetails(s, i) == [s EXCEPT !.history = RememberCell(@, s.order[i].original)]

PlanMerged(s, op, i, merged) ==
  IF merged = Conflict THEN Rejected(WithDetails(s, i))
  ELSE Planned(s, i, [s.order[i].now EXCEPT !.src = merged.text],
               [kind |-> "text", obj |-> op.ref.obj,
                edits |-> RegionEdits(s.order[i].now.src, merged.text)])

PlanReplaceSource(s, op, i) ==
  PlanMerged(s, op, i, MergedSource(s, i, op.ref.src, op.text))

\* Anchored on a text that occurs exactly once now.
PlanReplaceText(s, op, i) ==
  LET now == s.order[i].now.src
      at  == {n \in DOMAIN now : now[n] = op.text[1]}
      n   == CHOOSE m \in at : TRUE
  IN  IF Cardinality(at) # 1 THEN Rejected(WithDetails(s, i))
      ELSE Planned(s, i, [s.order[i].now EXCEPT !.src = [now EXCEPT ![n] = op.text[2]]],
                   [kind |-> "text", obj |-> op.ref.obj,
                    edits |-> <<[from |-> n - 1, to |-> n, text |-> <<op.text[2]>>]>>])

\* Mutant: the position is the one in the document the batch began with.
PlanDelete_Unshifted(s, op, i) ==
  IF ~Guarded(Content(op.ref), s.order[i].now, s.order[i].original)
  THEN Rejected(WithDetails(s, i))
  ELSE [WithDetails(s, i) EXCEPT
          !.order = RemoveAt(@, i),
          !.ops = Append(@, [kind |-> "delete",
                             at |-> CHOOSE n \in DOMAIN doc : doc[n] = op.ref.obj])]

PlanDelete(s, op, i) ==
  IF ~Guarded(Content(op.ref), s.order[i].now, s.order[i].original)
  THEN Rejected(WithDetails(s, i))
  ELSE [WithDetails(s, i) EXCEPT !.order = RemoveAt(@, i),
                                 !.ops = Append(@, [kind |-> "delete", at |-> i])]

PlanClear(s, op, i) ==
  IF ~Guarded(op.ref.out, s.order[i].now.out, s.order[i].original.out)
  THEN Rejected(WithDetails(s, i))
  ELSE Planned(WithDetails(s, i), i, [s.order[i].now EXCEPT !.out = 0],
               [kind |-> "clear", obj |-> op.ref.obj])

\* set_cell_metadata, and delete_cell_metadata with the value Absent.
PlanCellMeta(s, op, i) ==
  IF ~KeyUnchanged(Knows(s.history.cellMeta, Content(op.ref)), op.key, op.ref.meta,
                   s.order[i].original.meta, Content(op.ref) = s.order[i].original)
  THEN Rejected(WithDetails(s, i))
  ELSE Planned(WithDetails(s, i), i, [s.order[i].now EXCEPT !.meta[op.key] = op.value],
               [kind |-> "cell_meta", obj |-> op.ref.obj, key |-> op.key, value |-> op.value])

PlanNotebookMeta(s, op) ==
  LET h == [s.history EXCEPT !.nbMeta = Remember(@, nbMeta)]
  IN  IF ~KeyUnchanged(Knows(h.nbMeta, op.ref), op.key, op.ref, nbMeta, op.ref = nbMeta)
      THEN Rejected([s EXCEPT !.history = h])
      ELSE [s EXCEPT !.history = h, !.meta[op.key] = op.value,
                     !.ops = Append(@, [kind |-> "nb_meta", key |-> op.key,
                                        value |-> op.value])]

\* The position is that in the simulated order: earlier operations of the
\* batch have moved what comes after them.
PlanAdd(s, op) ==
  LET anchored == Addressed(s, op.ref)
      at == CASE op.where = "end"    -> Len(s.order) + 1
              [] op.where = "before" -> CHOOSE i \in anchored : TRUE
              [] op.where = "after"  -> 1 + CHOOSE i \in anchored : TRUE
      obj == born + 1 + Cardinality({n \in DOMAIN s.ops : s.ops[n].kind = "insert"})
      fresh == [src |-> <<>>, meta |-> NoMeta, out |-> 0]
  IN  IF op.where # "end" /\ anchored = {} THEN Rejected(s)
      ELSE [s EXCEPT !.order = InsertAt(@, at, [obj |-> obj, id |-> obj, old |-> FALSE,
                                                now |-> fresh, original |-> fresh]),
                     !.ops = Append(@, [kind |-> "insert", at |-> at, obj |-> obj])]

PlanOne(s, op) ==
  LET found == Addressed(s, op.ref)
      i     == CHOOSE x \in found : TRUE
  IN  CASE ~s.ok -> s
        [] s.ok /\ op.op = "add_cell" -> PlanAdd(s, op)
        [] s.ok /\ op.op = "set_notebook_metadata" -> PlanNotebookMeta(s, op)
        [] s.ok /\ op.op \notin {"add_cell", "set_notebook_metadata"} ->
             CASE found = {} -> Rejected(s)
               [] found # {} /\ op.op = "replace_source"    -> PlanReplaceSource(s, op, i)
               [] found # {} /\ op.op = "replace_text"      -> PlanReplaceText(s, op, i)
               [] found # {} /\ op.op = "delete_cell"       -> PlanDelete(s, op, i)
               [] found # {} /\ op.op = "clear_outputs"     -> PlanClear(s, op, i)
               [] found # {} /\ op.op = "set_cell_metadata" -> PlanCellMeta(s, op, i)

PlanOperations(h, batch) == FoldLeft(PlanOne, Simulation(h), batch)

-----------------------------------------------------------------------------
(* Execution: every instruction in turn, on the live document.             *)

ExecuteOne(live, op) ==
  CASE op.kind = "insert" ->
         [live EXCEPT !.doc = InsertAt(@, op.at, op.obj),
                      !.cell[op.obj] = [id |-> op.obj, src |-> <<>>, meta |-> NoMeta, out |-> 0]]
    [] op.kind = "text" ->
         [live EXCEPT !.cell[op.obj].src = FoldLeft(ApplyEdit, @, op.edits)]
    [] op.kind = "delete" -> [live EXCEPT !.doc = RemoveAt(@, op.at)]
    [] op.kind = "clear"  -> [live EXCEPT !.cell[op.obj].out = 0]
    [] op.kind = "cell_meta" -> [live EXCEPT !.cell[op.obj].meta[op.key] = op.value]
    [] op.kind = "nb_meta" -> [live EXCEPT !.meta[op.key] = op.value]

Execute(ops) == FoldLeft(ExecuteOne, [doc |-> doc, cell |-> cell, meta |-> nbMeta], ops)

-----------------------------------------------------------------------------
(* What a batch may not do.                                                *)

\* The executed document is the one the batch was accepted for.
Diverges(s, live) ==
  \/ live.meta # s.meta
  \/ [i \in DOMAIN live.doc |-> <<live.doc[i], Content(live.cell[live.doc[i]])>>]
       # [i \in DOMAIN s.order |-> <<s.order[i].obj, s.order[i].now>>]

CountOf(line, text) == Cardinality({n \in DOMAIN text : text[n] = line})

\* A merged source has every line the others and the caller added since the
\* observation, once, and none that either removed.  What both changed alike
\* is in it once.
Shared(base, current, requested) ==
  {h \in ToSet(Tagged(DiffLines(base, requested), requested)) :
     h \in ToSet(Tagged(DiffLines(base, current), current))}
LosesLines(base, current, requested, next) ==
  LET added(h, line)   == CountOf(line, h.text) - CountOf(line, Slice(base, h.from, h.to))
      all == ToSet(base) \union ToSet(current) \union ToSet(requested) \union ToSet(next)
      twice(line) == MapThenSumSet(LAMBDA h : added(h, line), Shared(base, current, requested))
  IN  /\ base # current
      /\ \E line \in all : CountOf(line, next) # CountOf(line, current) + CountOf(line, requested)
                                               - CountOf(line, base) - twice(line)

\* The first operation of an accepted batch destroys what the caller has not
\* seen: another object, or content that is not the one it observed.
Destroys(op) ==
  LET c == cell[op.ref.obj]
      gone == op.ref.obj \notin ToSet(doc)
  IN  CASE op.op = "delete_cell"   -> gone \/ Content(c) # Content(op.ref)
        [] op.op = "clear_outputs" -> gone \/ c.out # op.ref.out
        [] op.op = "set_cell_metadata" -> gone \/ c.meta[op.key] # op.ref.meta[op.key]
        [] op.op = "set_notebook_metadata" -> nbMeta[op.key] # op.ref[op.key]
        [] op.op \in {"replace_source", "replace_text"} -> gone
        [] OTHER -> FALSE

\* The operation refers to the notebook exactly as it is.
UpToDate(op) ==
  CASE op.op = "add_cell" -> FALSE
    [] op.op = "set_notebook_metadata" -> op.ref = nbMeta
    [] op.op \in {"delete_cell", "clear_outputs", "set_cell_metadata", "replace_source"} ->
         /\ op.ref.obj \in ToSet(doc)
         /\ Content(cell[op.ref.obj]) = Content(op.ref)
         /\ \A o \in ToSet(doc) : cell[o].id = op.ref.id => o = op.ref.obj
    [] OTHER -> FALSE

WrongsOf(batch, checked, s, live) ==
  LET op == batch[1]
      wrong(name, condition) == IF condition THEN {name} ELSE {}
  IN  IF ~s.ok THEN wrong("conflict", Len(batch) = 1 /\ UpToDate(op))
      ELSE wrong("diverges", Diverges(checked, live))
           \union wrong("destroys", Destroys(op))
           \union wrong("loses", /\ Len(batch) = 1 /\ op.op = "replace_source"
                                 /\ LosesLines(op.ref.src, cell[op.ref.obj].src, op.text,
                                               live.cell[op.ref.obj].src))

-----------------------------------------------------------------------------
(* The caller.                                                             *)

Event == events < MaxEvents /\ events' = events + 1

Ref(o, c) == [obj |-> o, id |-> c.id, src |-> c.src, meta |-> c.meta, out |-> c.out]

\* A reference to one cell, as a read of the cell hands it out.
ObserveCell ==
  /\ Event /\ events + 1 < MaxEvents
  /\ \E o \in ToSet(doc) :
       /\ \A x \in ToSet(doc) : cell[x].id = cell[o].id => x = o
       /\ refs' = refs \union {Ref(o, cell[o])}
       /\ history' = RememberCell(history, Content(cell[o]))
  /\ UNCHANGED <<doc, cell, nbMeta, nbRefs, born, wrongs>>

ReadNotebookMetadata ==
  /\ Event /\ events + 1 < MaxEvents
  /\ nbRefs' = nbRefs \union {nbMeta}
  /\ history' = [history EXCEPT !.nbMeta = Remember(@, nbMeta)]
  /\ UNCHANGED <<doc, cell, nbMeta, refs, born, wrongs>>

Operations ==
  UNION {[op : {"replace_source"}, ref : refs, text : Requested],
         [op : {"replace_text"}, ref : refs, text : Lines],
         [op : {"delete_cell", "clear_outputs"}, ref : refs],
         [op : {"set_cell_metadata"}, ref : refs, key : WrittenKeys, value : Values],
         [op : {"add_cell"}, ref : refs, where : {"before", "after"}],
         [op : {"add_cell"}, where : {"end"}],
         [op : {"set_notebook_metadata"}, ref : nbRefs, key : WrittenKeys, value : Values]}

\* Bound: batches of several operations come last, so that what they leave is
\* not explored further.
BatchBound == IF events + 1 = MaxEvents THEN MaxBatch ELSE 1

\* What a batch leaves that was checked as checked and planned at last as s.
\* A batch that is applied gives the caller new references to the cells it
\* edited.
Leave(batch, checked, s, live) ==
  LET edited == {o \in ToSet(live.doc) : \E i \in DOMAIN batch :
                   batch[i].op \notin {"add_cell", "set_notebook_metadata"}
                   /\ batch[i].ref.obj = o}
  IN  /\ doc' = live.doc /\ cell' = live.cell /\ nbMeta' = live.meta
      /\ born' = Max({born} \union ToSet(live.doc))
      /\ refs' = IF s.ok THEN refs \union {Ref(o, live.cell[o]) : o \in edited} ELSE refs
      /\ history' = IF s.ok
                    THEN FoldLeft(LAMBDA h, o : RememberCell(h, Content(live.cell[o])),
                                  s.history, SetToSeq(edited))
                    ELSE s.history
      /\ wrongs' = wrongs \union WrongsOf(batch, checked, s, live)

\* notebook_apply: a batch is planned before it is accepted, and again when it
\* is executed, from the history the first planning has left; the second may
\* refuse what the first accepted.  Nothing is changed by a batch that is
\* refused, but the history.
Apply ==
  /\ Event
  /\ \E n \in 1..BatchBound : \E batch \in [1..n -> Operations] :
       \E checked \in {PlanOperations(history, batch)} :
         \E s \in {IF checked.ok THEN PlanOperations(checked.history, batch) ELSE checked} :
           Leave(batch, checked, s, IF s.ok THEN Execute(s.ops)
                                    ELSE [doc |-> doc, cell |-> cell, meta |-> nbMeta])
  /\ UNCHANGED nbRefs

-----------------------------------------------------------------------------
(* Other clients.                                                          *)

\* Bound: nothing looks at an edit that comes last.
Others ==
  /\ Event /\ events + 1 < MaxEvents
  /\ UNCHANGED <<refs, nbRefs, history, wrongs>>

EditByOthers ==
  /\ Others
  /\ \E o \in ToSet(doc) \ Quiet :
       \/ \E text \in Sources : cell' = [cell EXCEPT ![o].src = text]
       \/ \E key \in Keys : cell' = [cell EXCEPT ![o].meta[key] = @ + 1]
       \/ cell' = [cell EXCEPT ![o].out = @ + 1]
  /\ UNCHANGED <<doc, nbMeta, born>>

MetadataByOthers ==
  /\ Others
  /\ \E key \in Keys : nbMeta' = [nbMeta EXCEPT ![key] = @ + 1]
  /\ UNCHANGED <<doc, cell, born>>

DeleteByOthers ==
  /\ Others
  /\ \E i \in DOMAIN doc : doc' = RemoveAt(doc, i)
  /\ UNCHANGED <<cell, nbMeta, born>>

\* An external write puts a new object in the place of a cell, and a second
\* cell with an id that is taken in front of the others.
ReplaceByOthers ==
  /\ Others
  /\ born + 1 \in DOMAIN cell
  /\ born' = born + 1
  /\ \E i \in DOMAIN doc :
       /\ cell' = [cell EXCEPT ![born + 1] = cell[doc[i]]]
       /\ doc' \in {[doc EXCEPT ![i] = born + 1], <<born + 1>> \o doc}
  /\ UNCHANGED nbMeta

Init ==
  /\ doc = <<1, 2>>
  /\ cell = [o \in 1..2 + MaxBatch * MaxEvents |->
               [id |-> o, src |-> IF o = 1 THEN CHOOSE s \in Sources : TRUE ELSE <<>>,
                meta |-> NoMeta, out |-> 0]]
  /\ nbMeta = NoMeta
  /\ refs = {} /\ nbRefs = {}
  /\ history = [sources |-> <<>>, cellMeta |-> <<>>, nbMeta |-> <<>>]
  /\ born = 2 /\ wrongs = {} /\ events = 0

Next ==
  \/ ObserveCell \/ ReadNotebookMetadata \/ Apply
  \/ EditByOthers \/ MetadataByOthers \/ DeleteByOthers \/ ReplaceByOthers

Spec == Init /\ [][Next]_vars

-----------------------------------------------------------------------------
(* Properties.                                                             *)

\* The document a batch was accepted for is the one its execution leaves,
\* whatever positions and cells the earlier operations of the batch have
\* changed, and though it is planned anew, from another history, in between
\* (plan.ts: "all addressing already resolved"; execute.ts works on the live
\* document).
ExecutionMatchesPlan == "diverges" \notin wrongs

\* A delete, a clear or a metadata write never destroys what the caller has
\* not seen, and no operation acts on another object than the one observed,
\* though another client may have edited, replaced or duplicated the cell
\* meanwhile, and though the history may have forgotten the observation.
OnlyTheSeenIsDestroyed == "destroys" \notin wrongs

\* A source that is replaced keeps every line other clients have added since
\* it was observed and brings back none that they removed: their changes and
\* the caller's are both in it, once.
ChangesOfOthersSurvive == "loses" \notin wrongs

\* An operation that refers to a cell exactly as it is is never refused, by
\* either planning, even when the history has forgotten the observation it
\* comes from.
UpToDateIsAccepted == "conflict" \notin wrongs

\* Both: the guards refuse exactly what is not up to date.
GuardsAreExact == OnlyTheSeenIsDestroyed /\ UpToDateIsAccepted
=============================================================================
