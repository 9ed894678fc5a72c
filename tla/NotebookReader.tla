---------------------------- MODULE NotebookReader ----------------------------
(***************************************************************************)
(* A caller that reads a shared notebook page by page and then follows its *)
(* changes, while other clients edit it: the shared cells, the index of    *)
(* cell ids (core/notebook/cell-index.ts), the observer that journals      *)
(* every transaction (core/notebook/observer.ts), and the reads            *)
(* (core/notebook/model.ts, service.ts).                                   *)
(*                                                                         *)
(* One action is one transaction on the document, or one call of the       *)
(* caller: both are synchronous.  A cell object stands for its Y.Map, and  *)
(* so for the identity token the index gives it.                           *)
(***************************************************************************)
EXTENDS ChangeJournal, NotebookRead

CONSTANTS Objects,          \* cell objects: 1, 2, ... in the order they come into being
          InitialDoc,       \* the objects of the first document, in order
          InitialId,        \* their ids (and any id for the others)
          Views,            \* the views a reader asks for
          Edits,            \* what one transaction changes of a cell's aspects
          AlongEdits,       \* <<object, aspects>> of the edits along with a
                            \* structural change
          Positions,        \* where a cell is inserted
          PollLimits,       \* events a poll asks for
          MaxEvents,        \* bound: transactions and calls of the caller
          MaxUnread         \* bound: the event after which a transaction that no
                            \* caller reads about is not worth exploring

ASSUME ReaderBounds ==
  /\ Objects \subseteq DOMAIN Boundaries
  /\ InitialDoc \in Seq(1..Len(InitialDoc)) /\ \A i \in DOMAIN InitialDoc : InitialDoc[i] \in Objects
  /\ \A i, k \in DOMAIN InitialDoc : InitialDoc[i] = InitialDoc[k] => i = k
  /\ InitialId \in [Objects -> Ids]
  /\ Views \subseteq {"summary", "cells"}
  /\ Positions \subseteq Nat /\ PollLimits \subseteq Nat
  /\ MaxEvents \in Nat /\ MaxUnread \in Nat

VARIABLES doc,        \* the cell objects in the document, in order
          cell,       \* the content of every object
          idOf,       \* the id of every object
          index,      \* CellIndex: the entries [obj, id], in order
          journal,
          phase,      \* the caller: "idle", "paging" or "following"
          view,       \* the view it pages through
          cursor,     \* the cursor of its next page
          parts,      \* the parts of sources it was given, in order
          changes,    \* its changes cursor
          known,      \* what it knows of every id
          order,      \* the ids in order, as it knows them
          born,       \* how many objects have come into being
          events      \* how many transactions and calls there have been

rvars == <<doc, cell, idOf, index, journal, born, phase, view, cursor, parts,
          changes, known, order, events>>
document == <<doc, cell, idOf, index, born>>
caller   == <<phase, view, cursor, parts, changes, known, order>>

Entries(d, ids) == [i \in DOMAIN d |-> [obj |-> d[i], id |-> ids[d[i]]]]
IdsOf(entries) == [i \in DOMAIN entries |-> entries[i].id]
ObjsOf(entries) == [i \in DOMAIN entries |-> entries[i].obj]
Was(before, obj) == before[CHOOSE i \in DOMAIN before : before[i].obj = obj].id
Has(entries, id) == \E i \in DOMAIN entries : entries[i].id = id

KnowsNothing == [id \in Ids |-> [told |-> FALSE, rev |-> NoRevision]]

NotReading ==
  /\ phase = "idle" /\ view = "summary" /\ cursor = NoCursor /\ parts = <<>>
  /\ changes = 0 /\ order = <<>>
  /\ known = KnowsNothing

RInit ==
  /\ doc = InitialDoc
  /\ cell = [obj \in Objects |-> NoRevision]
  /\ idOf = InitialId
  /\ index = Entries(InitialDoc, InitialId)
  /\ journal = EmptyJournal
  /\ events = 0 /\ born = Len(InitialDoc)
  /\ NotReading

-----------------------------------------------------------------------------
(* The index and the observer.                                             *)

\* What a rebuild of the index found, as places in the two lists: objects gone
\* and come, paired by id into replacements, and the objects that stayed but
\* under another id.
Diff(before, after) ==
  LET gone  == {i \in DOMAIN before : before[i].obj \notin ToSet(ObjsOf(after))}
      fresh == {i \in DOMAIN after : after[i].obj \notin ToSet(ObjsOf(before))}
      count(s, places, id) == Cardinality({i \in places : s[i].id = id})
      replaced == {n \in fresh : count(after, fresh \intersect (1..n), after[n].id)
                                   <= count(before, gone, after[n].id)}
      deleted  == {n \in gone : count(before, gone \intersect (1..n), before[n].id)
                                  > count(after, fresh, before[n].id)}
      renamed  == {i \in DOMAIN after \ fresh : Was(before, after[i].obj) # after[i].id}
  IN  [replaced |-> replaced, added |-> fresh \ replaced, deleted |-> deleted,
       renamed  |-> renamed,
       reordered |-> fresh = {} /\ deleted = {} /\ ObjsOf(before) # ObjsOf(after),
       freshTokens |-> {after[i].obj : i \in fresh \union renamed}]

Structure(kind, id, after) ==
  [kind |-> kind, id |-> id, rev |-> NoRevision, ids |-> IdsOf(after)]

\* The bookkeeping of an id is dropped only when no cell has it any more.
ForgetIfGone(j, id, after, content) ==
  IF Has(after, id) THEN j ELSE ForgetCell(j, id, content)
PublishDeleted(j, id, after, content) ==
  Publish(ForgetIfGone(j, id, after, content), Structure("cell_deleted", id, after))

\* One structural event, of the cell e, which is of the list before or after.
PublishChange(j, kind, e, before, after, content) ==
  CASE kind = "replaced" -> Publish(j, Structure("cell_replaced", e.id, after))
    [] kind = "renamed"  -> Publish(PublishDeleted(j, Was(before, e.obj), after, content),
                                    Structure("cell_added", e.id, after))
    [] kind = "deleted"  -> PublishDeleted(j, e.id, after, content)
    [] kind = "added"    -> Publish(j, Structure("cell_added", e.id, after))

\* The events of one kind, in the order of the list.
PublishAt(j, kind, list, places, before, after, content) ==
  LET done[n \in 0..Len(list)] ==
        IF n = 0 THEN j
        ELSE IF n \in places THEN PublishChange(done[n - 1], kind, list[n], before, after, content)
        ELSE done[n - 1]
  IN  done[Len(list)]

\* The structural events of a transaction.
PublishStructure(j, diff, before, after, content) ==
  LET j1 == PublishAt(j,  "replaced", after,  diff.replaced, before, after, content)
      j2 == PublishAt(j1, "renamed",  after,  diff.renamed,  before, after, content)
      j3 == PublishAt(j2, "deleted",  before, diff.deleted,  before, after, content)
      j4 == PublishAt(j3, "added",    after,  diff.added,    before, after, content)
  IN  IF diff.reordered THEN Publish(j4, Structure("order_changed", NoCell, after)) ELSE j4

\* The content events of one touched cell.  A source or metadata event first
\* publishes the pending outputs of the cell, so that they never come after
\* what superseded them.
PublishCell(j, entry, aspects, content) ==
  LET event(kind) == [kind |-> kind, id |-> entry.id, rev |-> content[entry.obj],
                      ids |-> <<>>]
      j1 == IF "source" \notin aspects THEN j
            ELSE Publish(FlushCell(j, entry.id, content), event("source_changed"))
      j2 == IF "metadata" \notin aspects THEN j1
            ELSE Publish(FlushCell(j1, entry.id, content), event("metadata_changed"))
  IN  IF "outputs" \notin aspects THEN j2
      ELSE RecordOutputs(j2, entry.id, entry.obj, content)

\* A cell announced by a structural event gets no content event.
PublishContent(j, entries, fresh, touched, content) ==
  LET done[n \in 0..Len(entries)] ==
        IF n = 0 THEN j
        ELSE IF entries[n].obj \in fresh THEN done[n - 1]
        ELSE PublishCell(done[n - 1], entries[n], touched[entries[n].obj], content)
  IN  done[Len(entries)]

\* The index is rebuilt.
Restructured(after, diff, touched, content) ==
  [index   |-> after,
   journal |-> PublishContent(
                 PublishStructure(Flush(journal, content), diff, index, after, content),
                 after, diff.freshTokens, touched, content)]

\* onCells: the structure has changed when the array or an id has.
OnCells(doc2, ids2, content, touched) ==
  IF doc2 # doc \/ \E o \in ToSet(doc) : ids2[o] # idOf[o]
  THEN LET after == Entries(doc2, ids2)
       IN  Restructured(after, Diff(index, after), touched, content)
  ELSE [index |-> index, journal |-> PublishContent(journal, index, {}, touched, content)]

-----------------------------------------------------------------------------
(* Transactions: of other clients, and of this one.  Each changes the      *)
(* structure in one way, or not at all, and may edit one cell that stays.  *)

Touching(o, aspects) == [x \in Objects |-> IF x = o THEN aspects ELSE {}]

\* An edit that goes with a structural change: of no cell, or of one that
\* stays.
Along == {Touching(1, {})} \union
         {Touching(e[1], e[2]) : e \in {x \in AlongEdits : x[1] \in ToSet(doc)}}

Event == events < MaxEvents /\ events' = events + 1
Transaction == Event /\ (phase = "idle" => events < MaxUnread)

\* The commit of a transaction: the document changes, and before anything
\* else runs the observer sees all of it; the content of an object that left
\* is of no more interest.  A call of this client then flushes
\* the journal (model.apply).
Commit(doc2, ids2, touched, local) ==
  LET bump(aspect, o) == IF aspect \in touched[o] THEN 1 ELSE 0
      cell2 == [o \in Objects |-> [src  |-> cell[o].src  + bump("source", o),
                                  meta |-> cell[o].meta + bump("metadata", o),
                                  out  |-> cell[o].out  + bump("outputs", o)]]
  IN  /\ Transaction
      /\ doc' = doc2 /\ idOf' = ids2
      /\ cell' = [o \in Objects |-> IF o \in ToSet(doc2) THEN cell2[o] ELSE NoRevision]
      /\ born' = IF born + 1 \in ToSet(doc2) THEN born + 1 ELSE born
      /\ \E seen \in {OnCells(doc2, ids2, cell2, touched)} :
           /\ index' = seen.index
           /\ journal' = IF local THEN Flush(seen.journal, cell2) ELSE seen.journal
      /\ UNCHANGED caller

EditCell(local) ==
  \E i \in DOMAIN doc, aspects \in Edits :
    Commit(doc, idOf, Touching(doc[i], aspects), local)

\* A new cell of another client, which may give it an id that is already there.
InsertCell ==
  \E position \in Positions \intersect (0..Len(doc)), id \in Ids, also \in Along :
    /\ born + 1 \in Objects
    /\ Commit(InsertAt(doc, position + 1, born + 1), [idOf EXCEPT ![born + 1] = id], also, FALSE)

DeleteCell(local) ==
  \E position \in DOMAIN doc, also \in Along :
    /\ also[doc[position]] = {}
    /\ Commit(RemoveAt(doc, position), idOf, also, local)

\* Another client's move makes a new object with the id of the old one; so does an external
\* write that replaces a cell where it is.
MoveCell ==
  \E from \in DOMAIN doc, to \in 0..Len(doc) - 1, also \in Along :
    /\ born + 1 \in Objects
    /\ also[doc[from]] = {}
    /\ Commit(InsertAt(RemoveAt(doc, from), to + 1, born + 1),
              [idOf EXCEPT ![born + 1] = idOf[doc[from]]], also, FALSE)

\* The server gives one of two cells with the same id a new one.
RenameCell ==
  \E i \in DOMAIN doc, id \in Ids, also \in Along :
    /\ ~Has(index, id)
    /\ Commit(doc, [idOf EXCEPT ![doc[i]] = id], also, FALSE)

\* connection_state and kernel_changed take a sequence number each.
RecordOther ==
  /\ Transaction
  /\ journal' = Publish(journal, [kind |-> "connection_state", id |-> NoCell,
                                 rev |-> NoRevision, ids |-> <<>>])
  /\ UNCHANGED <<doc, cell, idOf, index, born, caller>>

-----------------------------------------------------------------------------
(* Time and the timer.                                                     *)

Tick ==
  /\ Later(journal) # journal
  /\ journal' = Later(journal)
  /\ UNCHANGED <<document, caller, events>>

TimerFires ==
  /\ journal.timer = 0
  /\ journal' = OnTimer(journal, cell)
  /\ UNCHANGED <<document, caller, events>>

-----------------------------------------------------------------------------
(* The caller.                                                             *)

\* An error leaves the caller with nothing it can go on from.
StartOver ==
  /\ phase' = "idle" /\ view' = "summary" /\ cursor' = NoCursor /\ parts' = <<>>
  /\ changes' = 0 /\ order' = <<>>
  /\ known' = KnowsNothing
  /\ UNCHANGED <<document, journal>>

\* What an event tells: the content of a cell, or that the structure changed
\* and the cell must be read again.
Told(state, e) ==
  [known |-> CASE e.kind \in ContentKinds ->
                    [state.known EXCEPT ![e.id] = [told |-> TRUE, rev |-> e.rev]]
               [] e.kind \in Structural \ {"order_changed"} ->
                    [state.known EXCEPT ![e.id] = [told |-> FALSE, rev |-> NoRevision]]
               [] OTHER -> state.known,
   order |-> IF e.kind \in Structural THEN e.ids ELSE state.order]

\* What the events at some places of a sequence tell, one after the other.
Hear(state, seq, places) ==
  LET after[n \in 0..Len(seq)] ==
        IF n = 0 THEN state
        ELSE IF n \in places THEN Told(after[n - 1], seq[n]) ELSE after[n - 1]
  IN  after[Len(seq)]

\* A row of a page tells the content of a cell, as an event does.
Row(entry) == [kind |-> "source_changed", id |-> entry.id, rev |-> cell[entry.obj], ids |-> <<>>]

\* What one page adds.  Only the first page gives the changes cursor the
\* caller follows; a summary flushes the journal first, the cells do not.
Accept(v, first, rows, given, next) ==
  LET j == IF v = "summary" THEN Flush(journal, cell) ELSE journal
  IN  /\ journal' = j
      /\ view' = v
      /\ parts' = (IF first THEN <<>> ELSE parts) \o given
      /\ cursor' = next
      /\ phase' = IF next = NoCursor THEN "following" ELSE "paging"
      /\ changes' = IF first THEN j.last ELSE changes
      /\ order' = IF first THEN IdsOf(index) ELSE order
      /\ known' = Hear([known |-> IF first THEN KnowsNothing ELSE known, order |-> order],
                       [i \in DOMAIN rows |-> Row(rows[i])], DOMAIN rows).known
      /\ UNCHANGED document

ReadSummary(first, from) ==
  \E page \in {SummaryPage(index, from)} :
    Accept("summary", first, page.rows,
           [i \in DOMAIN page.rows |->
              [obj |-> page.rows[i].obj, src |-> 0, from |-> 0, to |-> 0]],
           page.next)

ReadCells(first, from) ==
  \E page \in {CellsPage(index, cell, from)} :
    IF page.refused THEN StartOver
    ELSE Accept("cells", first,
                [i \in DOMAIN page.parts |->
                   [obj |-> page.parts[i].obj, id |-> idOf[page.parts[i].obj]]],
                page.parts, page.next)

StartReading ==
  /\ Event
  /\ phase = "idle"
  /\ \E v \in Views : IF v = "summary" THEN ReadSummary(TRUE, NoCursor)
                                       ELSE ReadCells(TRUE, NoCursor)

ContinueReading ==
  /\ Event
  /\ phase = "paging"
  /\ IF CursorExpired(index, cell, cursor) THEN StartOver
     ELSE IF view = "summary" THEN ReadSummary(FALSE, cursor)
     ELSE ReadCells(FALSE, cursor)

\* Between two structural events a cell's output events are merged into the
\* last of them: the places of those that stay.
CoalesceOutputEvents(page) ==
  LET superseded(n) == /\ page[n].kind = "outputs_changed"
                       /\ \E m \in n + 1..Len(page) :
                            /\ page[m].kind = "outputs_changed" /\ page[m].id = page[n].id
                            /\ \A k \in n..m : page[k].kind = "outputs_changed"
  IN  {n \in DOMAIN page : ~superseded(n)}

\* notebook_changes.
Poll ==
  /\ Event
  /\ phase = "following"
  /\ IF IsExpired(journal, changes) THEN StartOver
     ELSE \E limit \in PollLimits :
            LET page   == Since(journal, changes, limit)
                after  == Hear([known |-> known, order |-> order], page,
                               CoalesceOutputEvents(page))
            IN  /\ changes' = IF page = <<>> THEN changes ELSE page[Len(page)].seq
                /\ known' = after.known /\ order' = after.order
                /\ view' = "summary" /\ parts' = <<>>   \* the pages are behind it
                /\ UNCHANGED <<document, journal, phase, cursor>>

-----------------------------------------------------------------------------
RNext ==
  \/ \E local \in BOOLEAN :
       EditCell(local) \/ DeleteCell(local)
  \/ InsertCell \/ MoveCell \/ RenameCell \/ RecordOther
  \/ Tick \/ TimerFires
  \/ StartReading \/ ContinueReading \/ Poll

RSpec == RInit /\ [][RNext]_rvars

-----------------------------------------------------------------------------
(* Properties.                                                             *)

\* The types of the variables; and the index, which is only rebuilt when the
\* observer sees the array or an id change, has every cell at its place and
\* under its id (cell-index.ts: the address of every later operation).
IndexOK ==
  /\ \A i \in DOMAIN doc : doc[i] \in 1..born
  /\ \A o \in Objects : idOf[o] \in Ids
  /\ index = Entries(doc, idOf)
  /\ phase \in {"idle", "paging", "following"}
  /\ changes \in 0..journal.last
  /\ \A i \in DOMAIN journal.pending : journal.pending[i].id \in Ids

\* A caller whose cursor has not expired never silently misses a change: once
\* the events it has still to be given are given, it knows the order of the
\* cells, and of every cell either the content it has, or that it must read
\* it again.  Outputs that are waiting in the journal are the only thing it
\* may not know yet.
Undelivered == [n \in 1..journal.last - changes |-> journal.ring[(changes + n - 1) % Limit]]
NothingMissed ==
  phase = "following" /\ changes >= journal.last - Limit =>
    LET final == Hear([known |-> known, order |-> order], Undelivered, DOMAIN Undelivered)
    IN  /\ final.order = IdsOf(Entries(doc, idOf))
        /\ \A i \in DOMAIN doc :
             LET id == idOf[doc[i]]
             IN  \/ IsPending(journal, id)
                 \/ ~final.known[id].told
                 \/ final.known[id].rev \in {cell[o] : o \in {x \in ToSet(doc) : idOf[x] = id}}

\* A read of several pages is a read of one document: its pages hold every
\* cell of the document once, in order, none skipped and none repeated, up to
\* the one just given; and what it was given of one source is of one revision
\* of that source.
Rows(given) ==
  LET rows[n \in 0..Len(given)] ==
        IF n = 0 THEN <<>>
        ELSE IF given[n].from = 0 THEN Append(rows[n - 1], given[n].obj) ELSE rows[n - 1]
  IN  rows[Len(given)]
PagesFollowTheDocument ==
  [][parts' # parts /\ parts' # <<>> =>
       /\ IsPrefix(Rows(parts'), doc')
       /\ cursor' = NoCursor => Rows(parts') = doc'
       /\ \A m, n \in DOMAIN parts' :
            parts'[m].obj = parts'[n].obj => parts'[m].src = parts'[n].src]_rvars

\* An output change that is held back is never forgotten: whatever else is
\* recorded, flushed, merged or deleted meanwhile, the timer is armed for the
\* record that is due first, and no record is due later than one window.
HeldBackIsDue ==
  \A i \in DOMAIN journal.pending :
    /\ journal.timer # NoTimer
    /\ journal.timer <= journal.pending[i].due
    /\ journal.pending[i].due <= Window

\* What the index and the journal say of the document, at any time.
JournalInvariant == IndexOK /\ HeldBackIsDue
=============================================================================
