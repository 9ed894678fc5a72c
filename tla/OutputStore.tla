------------------------------ MODULE OutputStore ------------------------------
(***************************************************************************)
(* The output snapshots of a working session (service/outputs.ts).  An     *)
(* answer interns every output it mentions, all or none: what is retained  *)
(* already keeps its id, the oldest snapshots nobody asked for make room,  *)
(* and alternate representations are given up before the answer is         *)
(* refused.                                                                *)
(*                                                                         *)
(* An output is a token: where the code points of its preferred            *)
(* representation begin and end, the bytes of its alternate one (0: it has *)
(* none), and whether it is text.  Ids are given in the order in which     *)
(* snapshots are retained, so that an older snapshot has the smaller id.   *)
(***************************************************************************)
EXTENDS Integers, FiniteSets, FiniteSetsExt

CONSTANTS Boundaries,  \* token -> the offsets that split no code point, both ends included
          Alternate,   \* token -> bytes of its other representation
          Binary,      \* the tokens that are base64
          StoreBytes   \* bytes one session retains

Bytes(token) == Max(Boundaries[token])

EmptyStore == [snapshots |-> {},    \* [id, key, alternate]
               byKey     |-> <<>>,  \* address and content -> id
               used      |-> 0,
               next      |-> 1]

\* A key is where the output sits, and what it is, whichever tool mentions it.
Retained(s) == Bytes(s.key.token) + s.alternate

\* The bytes of snapshots, one by one.
Total(snapshots) == Cardinality(UNION {{s.id} \X (1..Retained(s)) : s \in snapshots})

IdsOf(snapshots) == {s.id : s \in snapshots}
Ids(store) == IdsOf(store.snapshots)
SnapshotById(store, id) == CHOOSE s \in store.snapshots : s.id = id

\* The order in which an answer mentions its outputs.
Before(j, k) == j.cell < k.cell \/ (j.cell = k.cell /\ j.index < k.index)

\* A snapshot of this answer's own, or the one already retained.
Candidate(store, keys, key) ==
  [id        |-> store.next + Cardinality({k \in keys : Before(k, key)}),
   key       |-> key,
   alternate |-> Alternate[key.token]]
Interned(store, keys, key) ==
  IF key \in DOMAIN store.byKey THEN SnapshotById(store, store.byKey[key])
  ELSE Candidate(store, keys, key)

GivenUp(s) == [s EXCEPT !.alternate = 0]

\* New snapshots give up their alternates, first to last, while it is too much.
TrimNewAlternates(store, snapshots) ==
  LET new == snapshots \ store.snapshots
      sofar(s) == {IF r \in new /\ Before(r.key, s.key) THEN GivenUp(r) ELSE r : r \in snapshots}
  IN  {IF s \in new /\ Total(sofar(s)) > StoreBytes THEN GivenUp(s) ELSE s : s \in snapshots}

\* Retained ones with an alternate are made anew without it, first to last,
\* while it is too much; it never is enough when the answer must be refused.
ReplaceRetained(store, keys, snapshots) ==
  LET old     == {s \in snapshots \cap store.snapshots : s.alternate > 0}
      anew(s) == Candidate(store, keys, s.key)
      upTo(s) == TrimNewAlternates(store,
                   {IF r = s THEN anew(r)
                    ELSE IF r \in old /\ Before(r.key, s.key) THEN GivenUp(anew(r))
                    ELSE r : r \in snapshots})
      enough  == {s \in old : Total(upTo(s)) <= StoreBytes}
  IN  IF Total(snapshots) <= StoreBytes \/ enough = {} THEN snapshots
      ELSE upTo(CHOOSE s \in enough : \A r \in enough : ~Before(r.key, s.key))

Drop(store, evicted) ==
  [store EXCEPT !.snapshots = @ \ evicted,
                !.byKey = [k \in {x \in DOMAIN @ : @[x] \notin IdsOf(evicted)} |-> @[k]],
                !.used = @ - Total(evicted)]

\* Of these, the oldest go that must go for `additional` more bytes to fit.
Evicted(store, additional, snapshots) ==
  {s \in snapshots :
     store.used - Total({r \in snapshots : r.id < s.id}) + additional > StoreBytes}

\* Mutant: what the answer mentions is evicted like anything else.
EvictForAll(store, additional, kept) ==
  Drop(store, Evicted(store, additional, store.snapshots))

\* The oldest that the answer does not mention go, until it fits.
EvictFor(store, additional, kept) ==
  Drop(store, Evicted(store, additional, store.snapshots \ kept))

\* What is retained once these are added.
Added(store, added) ==
  LET keys == {s.key : s \in added}
  IN  [store EXCEPT !.snapshots = @ \cup added,
                    !.byKey = [k \in DOMAIN @ \cup keys |->
                                 IF k \in keys THEN (CHOOSE s \in added : s.key = k).id
                                 ELSE @[k]],
                    !.used = @ + Total(added)]

\* The snapshots of one answer, for its keys: what is retained for them, or a
\* refusal that changes nothing.
Commit(store, keys) ==
  LET first   == {Interned(store, keys, k) : k \in keys}
      final   == ReplaceRetained(store, keys, TrimNewAlternates(store, first))
      added   == final \ store.snapshots
      left    == EvictFor(store, Total(added), final \cap store.snapshots)
  IN  IF Total(final) > StoreBytes THEN [ok |-> FALSE, store |-> store, ids |-> {}]
      ELSE [ok    |-> TRUE,
            store |-> [Added(left, added) EXCEPT !.next = @ + Cardinality(keys)],
            ids   |-> IdsOf(final)]

-------------------------------------------------------------------------------
(* Reading a snapshot in parts. *)

\* Where the part from `offset` ends: three raw bytes make a base64 unit, and
\* no code point is split; `offset` itself when not even one fits.
SliceSnapshot(token, offset, budget) ==
  LET end == Min({Bytes(token), offset + budget})
  IN  IF end >= Bytes(token) THEN Bytes(token)
      ELSE IF token \in Binary
      THEN Min({Bytes(token), offset + Max({3, ((end - offset) \div 3) * 3})})
      ELSE Max({b \in Boundaries[token] : b <= end})
=============================================================================
