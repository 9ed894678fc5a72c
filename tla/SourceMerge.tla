----------------------------- MODULE SourceMerge -----------------------------
(***************************************************************************)
(* The three-way merge of sources behind replace_source                    *)
(* (core/notebook/merge.ts), as operators on sequences of lines.  A hunk   *)
(* says that the lines a[aStart, aEnd) are replaced by b[bStart, bEnd),    *)
(* in the code's zero-based, half-open numbering.                          *)
(***************************************************************************)
EXTENDS Integers, Sequences, SequencesExt, FiniteSets, FiniteSetsExt

\* The lines s[from, to).
Slice(s, from, to) == SubSeq(s, from + 1, to)

CommonPrefix(a, b) ==
  Max({n \in 0..Min({Len(a), Len(b)}) : SubSeq(a, 1, n) = SubSeq(b, 1, n)})

\* The longest common suffix of what the prefix leaves of both.
CommonSuffix(a, b) ==
  LET p == CommonPrefix(a, b)
  IN  Max({n \in 0..Min({Len(a), Len(b)}) - p :
             SubSeq(a, Len(a) - n + 1, Len(a)) = SubSeq(b, Len(b) - n + 1, Len(b))})

-----------------------------------------------------------------------------
(* Myers' O(ND) search on two sequences without a common prefix or suffix. *)
(* v[k] is how far the furthest path on diagonal k has come in a.          *)

\* Whether the furthest path with d differences comes to diagonal k from
\* above (an insertion) or from the left (a deletion).
ComesDown(v, d, k) == k = -d \/ (k # d /\ v[k - 1] < v[k + 1])

\* Along the diagonal as long as the lines match.
Snake(a, b, x, k) ==
  Min({n \in x..Len(a) : ~(n < Len(a) /\ n - k < Len(b) /\ a[n + 1] = b[n - k + 1])})

StepFrom(v, d, k) == IF ComesDown(v, d, k) THEN v[k + 1] ELSE v[k - 1] + 1

\* The furthest paths with d differences, from those with d - 1.
Furthest(a, b, v, d) ==
  [k \in DOMAIN v |-> IF k \in {-d + 2 * i : i \in 0..d}
                      THEN Snake(a, b, StepFrom(v, d, k), k) ELSE v[k]]

\* trace[d + 1] is v before round d; the search ends in the first round that
\* reaches the end of both.
Search(a, b) ==
  LET size == Len(a) + Len(b)
      round(s, d) ==
        IF s.found >= 0 THEN s
        ELSE LET next == Furthest(a, b, s.v, d)
             IN  [v |-> next, trace |-> Append(s.trace, s.v),
                  found |-> IF /\ Len(a) - Len(b) \in {-d + 2 * i : i \in 0..d}
                               /\ next[Len(a) - Len(b)] >= Len(a)
                            THEN d ELSE -1]
  IN  FoldLeft(round, [v |-> [k \in -size - 1..size + 1 |-> 0], trace |-> <<>>, found |-> -1],
               [i \in 1..size + 1 |-> i - 1])

\* The pairs of matching lines, by walking the trace of a search back from the
\* end.
WalkBack(a, b, result) ==
  LET diagonal(x, y, n) == {<<x - i, y - i>> : i \in 1..n}
      back(w, d) ==
        LET v    == result.trace[d + 1]
            k    == w.x - w.y
            down == ComesDown(v, d, k)
            px   == v[IF down THEN k + 1 ELSE k - 1]
            py   == px - (IF down THEN k + 1 ELSE k - 1)
            from == IF down THEN px ELSE px + 1
        IN  [x |-> px, y |-> py, pairs |-> w.pairs \union diagonal(w.x, w.y, w.x - from)]
      walk == FoldLeft(back, [x |-> Len(a), y |-> Len(b), pairs |-> {}],
                       [i \in 1..result.found |-> result.found + 1 - i])
  IN  SetToSortSeq(walk.pairs \union diagonal(walk.x, walk.y, Min({walk.x, walk.y})),
                   LAMBDA p, q : p[1] < q[1])

Matches(a, b) == WalkBack(a, b, Search(a, b))

-----------------------------------------------------------------------------
\* The gaps between the pairs of matching lines after a prefix of p lines; the
\* last pair stands for the end.
Gaps(p, pairs) ==
  LET gap(i) == [aStart |-> p + IF i = 1 THEN 0 ELSE pairs[i - 1][1] + 1,
                 aEnd   |-> p + pairs[i][1],
                 bStart |-> p + IF i = 1 THEN 0 ELSE pairs[i - 1][2] + 1,
                 bEnd   |-> p + pairs[i][2]]
  IN  SelectSeq([i \in DOMAIN pairs |-> gap(i)],
                LAMBDA h : h.aEnd > h.aStart \/ h.bEnd > h.bStart)

DiffLines(a, b) ==
  LET p == CommonPrefix(a, b)
      s == CommonSuffix(a, b)
      n == Len(a) - p - s
      m == Len(b) - p - s
      whole == [aStart |-> p, aEnd |-> p + n, bStart |-> p, bEnd |-> p + m]
  IN  CASE n = 0 /\ m = 0 -> <<>>
        [] n # m /\ 0 \in {n, m} -> <<whole>>
        [] OTHER -> Gaps(p, Append(Matches(Slice(a, p, p + n), Slice(b, p, p + m)),
                                   <<n, m>>))

SameReplacement(left, leftLines, right, rightLines) ==
  /\ left.aStart = right.aStart /\ left.aEnd = right.aEnd
  /\ Slice(leftLines, left.bStart, left.bEnd) = Slice(rightLines, right.bStart, right.bEnd)

IsInsertion(h) == h.aStart = h.aEnd

\* Ranges that overlap, two insertions at one point, an insertion strictly
\* inside a replaced range.
Collide(left, right) ==
  \/ Max({left.aStart, right.aStart}) < Min({left.aEnd, right.aEnd})
  \/ /\ IsInsertion(left) /\ IsInsertion(right)
     /\ left.aStart = right.aStart
  \/ /\ IsInsertion(left) /\ ~IsInsertion(right)
     /\ right.aStart < left.aStart /\ left.aStart < right.aEnd
  \/ /\ IsInsertion(right) /\ ~IsInsertion(left)
     /\ left.aStart < right.aStart /\ right.aStart < left.aEnd

\* Both sides' hunks in the order of the base; an insertion goes before the
\* range replaced at the same place.  A hunk carries its new lines.
Tagged(hunks, lines) ==
  [i \in DOMAIN hunks |-> [from |-> hunks[i].aStart, to |-> hunks[i].aEnd,
                           text |-> Slice(lines, hunks[i].bStart, hunks[i].bEnd)]]
Before(g, h) == g.from < h.from \/ (g.from = h.from /\ g.to - g.from < h.to - h.from)

Splice(base, hunks) ==
  LET put(w, h) == [out |-> w.out \o Slice(base, w.at, h.from) \o h.text,
                    at  |-> Max({w.at, h.to})]
      last == FoldLeft(put, [out |-> <<>>, at |-> 0], hunks)
  IN  last.out \o Slice(base, last.at, Len(base))

Merged(text) == [kind |-> "merged", text |-> text]
Conflict == [kind |-> "conflict", text |-> <<>>]

\* The hunks of both sides together, unless two of them collide.
MergeHunks(base, current, theirs, requested, ours) ==
  LET same(mine) == \E i \in DOMAIN theirs :
                      SameReplacement(mine, requested, theirs[i], current)
      collides == \E m \in DOMAIN ours, t \in DOMAIN theirs :
                    /\ Collide(ours[m], theirs[t])
                    /\ ~SameReplacement(ours[m], requested, theirs[t], current)
      own == SelectSeq(ours, LAMBDA h : ~same(h))
  IN  IF collides THEN Conflict
      ELSE Merged(Splice(base, SetToSortSeq(
             ToSet(Tagged(theirs, current)) \union ToSet(Tagged(own, requested)), Before)))

MergeSources(base, current, requested) ==
  CASE current = base \/ current = requested -> Merged(requested)
    [] requested = base -> Merged(current)
    [] OTHER -> MergeHunks(base, current, DiffLines(base, current),
                           requested, DiffLines(base, requested))

\* The edits that turn one text into another, the last first, so that they do
\* not shift each other.
RegionEdits(current, next) == Reverse(Tagged(DiffLines(current, next), next))

\* One edit of the shared text: the new lines go in before the old go out.
ApplyEdit(text, edit) ==
  Slice(text, 0, edit.from) \o edit.text \o Slice(text, edit.to, Len(text))
=============================================================================
