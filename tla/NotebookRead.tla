----------------------------- MODULE NotebookRead -----------------------------
(***************************************************************************)
(* The paged reads of a notebook (core/notebook/read.ts): which cells, and *)
(* which bytes of their sources, one page holds, and the cursor it hands   *)
(* out.  A page cursor names a position in the list of cells, a source     *)
(* cursor a byte of the source of one cell, and both are bound to the list *)
(* of cell objects they were issued for.                                   *)
(*                                                                         *)
(* A document is a sequence of entries [obj, id]; a source is known by its *)
(* revision and by the bytes at which its code points begin and end.       *)
(***************************************************************************)
EXTENDS Integers, Sequences, SequencesExt, FiniteSets, FiniteSetsExt

CONSTANTS Boundaries, \* where the code points of each object's source begin and end
          MaxCells,   \* cells in a page
          MaxBytes    \* bytes of source in a page

ASSUME ReadBounds ==
  /\ MaxCells \in Nat \ {0} /\ MaxBytes \in Nat
  /\ \A obj \in DOMAIN Boundaries :
       Boundaries[obj] \in SUBSET Nat /\ IsFiniteSet(Boundaries[obj]) /\ 0 \in Boundaries[obj]

Utf8Length(obj) == Max(Boundaries[obj])

\* What a text beginning at a boundary keeps of itself within a budget: whole
\* code points only.
TruncateUtf8(obj, from, budget) == Max({b \in Boundaries[obj] : b <= from + budget})

NoCursor == [kind |-> "none"]
PageCursor(bind, offset) == [kind |-> "page", bind |-> bind, offset |-> offset]
SourceCursor(bind, obj, src, byte) ==
  [kind |-> "source", bind |-> bind, obj |-> obj, src |-> src, byte |-> byte]

\* What both cursors are bound to: the objects and their ids, in order.
PageBinding(index) == index

PositionOf(index, obj) == CHOOSE i \in DOMAIN index : index[i].obj = obj

\* Mutant: a source cursor outlives an edit of the source.
CursorExpiredStructureOnly(index, cell, cursor) ==
  cursor.kind # "none" /\ cursor.bind # PageBinding(index)

\* A cursor is accepted while the structure is that of its page; a source
\* cursor also needs the source it was cut from, and an unread boundary.
CursorExpired(index, cell, cursor) ==
  CASE cursor.kind = "none"   -> FALSE
    [] cursor.kind = "page"   -> cursor.bind # PageBinding(index)
    [] cursor.kind = "source" ->
         \/ cursor.bind # PageBinding(index)
         \/ cell[cursor.obj].src # cursor.src
         \/ cursor.byte >= Utf8Length(cursor.obj)
         \/ cursor.byte \notin Boundaries[cursor.obj]

\* The first entry of a page and the first byte of its source.
Selected(index, cursor) ==
  CASE cursor.kind = "none"   -> [offset |-> 0, byte |-> 0]
    [] cursor.kind = "page"   -> [offset |-> cursor.offset, byte |-> 0]
    [] cursor.kind = "source" -> [offset |-> PositionOf(index, cursor.obj) - 1,
                                  byte   |-> cursor.byte]

\* One summary page: rows without sources.
SummaryPage(index, cursor) ==
  LET offset == Selected(index, cursor).offset
      end    == Min({offset + MaxCells, Len(index)})
  IN  [rows |-> SubSeq(index, offset + 1, end),
       next |-> IF end < Len(index) THEN PageCursor(PageBinding(index), end)
                                    ELSE NoCursor]

\* One more cell of a page, if there is room for it: a cell whose source does not
\* fit ends the page with a source cursor.  "refused" is RESOURCE_LIMIT: not even
\* one code point fits.
TakeCell(page, index, cell, start, i) ==
  LET obj  == index[i].obj
      from == IF i = start.offset + 1 THEN start.byte ELSE 0
      to   == TruncateUtf8(obj, from, Max({0, MaxBytes - page.used}))
  IN  IF \/ page.ended
         \/ Len(page.parts) >= MaxCells
         \/ page.used >= MaxBytes /\ page.parts # <<>>
      THEN [page EXCEPT !.ended = TRUE]
      ELSE IF to = from /\ to < Utf8Length(obj)
      THEN [page EXCEPT !.ended = TRUE, !.refused = TRUE]
      ELSE [used    |-> page.used + to - from,
            parts   |-> Append(page.parts,
                          [obj |-> obj, src |-> cell[obj].src, from |-> from, to |-> to]),
            ended   |-> to < Utf8Length(obj),
            refused |-> FALSE,
            next    |-> IF to < Utf8Length(obj)
                        THEN SourceCursor(PageBinding(index), obj, cell[obj].src,
                                          \* the offset of the page's first cell,
                                          \* whichever cell is cut
                                          start.byte + to - from)
                        ELSE NoCursor]

\* One page of cells: cells are taken while the page has room for cells and bytes.
CellsPage(index, cell, cursor) ==
  LET start == Selected(index, cursor)
      taken[n \in 0..Len(index) - start.offset] ==
        IF n = 0
        THEN [used |-> 0, parts |-> <<>>, ended |-> FALSE, refused |-> FALSE, next |-> NoCursor]
        ELSE TakeCell(taken[n - 1], index, cell, start, start.offset + n)
      page == taken[Len(index) - start.offset]
      end  == start.offset + Len(page.parts)
  IN  [parts   |-> page.parts,
       refused |-> page.refused,
       next    |-> IF page.next = NoCursor /\ end < Len(index)
                   THEN PageCursor(PageBinding(index), end)
                   ELSE page.next]
=============================================================================
