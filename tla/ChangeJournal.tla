---------------------------- MODULE ChangeJournal ----------------------------
(***************************************************************************)
(* The bounded change journal of one notebook replica                      *)
(* (core/notebook/journal.ts): a ring of numbered events, and per cell an  *)
(* output record that is held back until the coalescing window of the cell *)
(* is over.  A journal is one record, and every method is an operator from *)
(* a journal to a journal, so that the observer can thread it through a    *)
(* whole transaction.                                                      *)
(*                                                                         *)
(* Revisions are digests of content: here a revision is the content.       *)
(* Times are what is left of them: due counts down to the publication of   *)
(* a pending record, age counts up from the last publication.              *)
(***************************************************************************)
EXTENDS Integers, Sequences, SequencesExt, FiniteSets, FiniteSetsExt

CONSTANTS Ids,        \* cell ids
          Limit,      \* capacity of the ring (10 000 in the code)
          Window      \* coalescing window, in ticks (100 ms in the code)

ASSUME JournalBounds == Limit \in Nat \ {0} /\ Window \in Nat \ {0}

NoTimer == -1
NoCell == "none"
NoRevision == [src |-> 0, meta |-> 0, out |-> 0]

\* Events of one kind and one address; an order_changed or a
\* connection_state event has no cell.
Structural == {"cell_replaced", "cell_deleted", "cell_added", "order_changed"}
ContentKinds == {"source_changed", "metadata_changed", "outputs_changed"}

EmptyJournal ==
  [ring    |-> [slot \in 0..Limit - 1 |-> [seq |-> 0]],
   last    |-> 0,
   pending |-> <<>>,
   age     |-> [id \in Ids |-> Window],
   timer   |-> NoTimer]

\* Publish: the next sequence number, in the slot of the ring it shares with
\* the event it overwrites.
Publish(j, event) ==
  [j EXCEPT !.last = @ + 1,
            !.ring = [@ EXCEPT ![j.last % Limit] =
              [kind |-> event.kind, id |-> event.id, rev |-> event.rev, ids |-> event.ids,
               seq |-> j.last + 1]]]

\* The revisions of a pending record are computed when it is published: they
\* are those the cell object has then.
EmitOutputs(j, id, obj, cell) ==
  [Publish(j, [kind |-> "outputs_changed", id |-> id, rev |-> cell[obj], ids |-> <<>>])
     EXCEPT !.age[id] = 0]

IsPending(j, id) == \E i \in DOMAIN j.pending : j.pending[i].id = id

\* The pending records but for those that go.
Without(pending, goes) ==
  LET kept[n \in 0..Len(pending)] ==
        IF n = 0 THEN <<>>
        ELSE IF pending[n] \in goes THEN kept[n - 1] ELSE Append(kept[n - 1], pending[n])
  IN  kept[Len(pending)]

\* The records that go are published, in their order.
PublishPending(j, goes, cell) ==
  LET after[n \in 0..Len(j.pending)] ==
        IF n = 0 THEN [j EXCEPT !.pending = Without(@, goes)]
        ELSE LET p == j.pending[n]
             IN  IF p \in goes THEN EmitOutputs(after[n - 1], p.id, p.obj, cell)
                                ELSE after[n - 1]
  IN  after[Len(j.pending)]

\* Mutant: the timer is left as it is when a record joins the pending ones.
NoRearm(j) == j

\* One timer, for the record that is due first.
Rearm(j) ==
  [j EXCEPT !.timer = IF j.pending = <<>> THEN NoTimer
                                          ELSE Min({p.due : p \in ToSet(j.pending)})]

\* An output change: into the pending record there is, at once when the cell
\* has been quiet for a window, or into a new pending record.
RecordOutputs(j, id, obj, cell) ==
  IF IsPending(j, id)
  THEN Rearm([j EXCEPT !.pending =
         [i \in DOMAIN @ |-> IF @[i].id = id THEN [@[i] EXCEPT !.obj = obj] ELSE @[i]]])
  ELSE IF j.age[id] >= Window
  THEN EmitOutputs(j, id, obj, cell)
  ELSE Rearm([j EXCEPT !.pending =
         Append(@, [id |-> id, obj |-> obj, due |-> Window - j.age[id]])])

FlushCell(j, id, cell) ==
  IF ~IsPending(j, id) THEN j
  ELSE Rearm(PublishPending(j, {p \in ToSet(j.pending) : p.id = id}, cell))

\* The id left the document: its record is published, its age forgotten.
ForgetCell(j, id, cell) == [FlushCell(j, id, cell) EXCEPT !.age[id] = Window]

Flush(j, cell) ==
  IF j.pending = <<>> THEN j
  ELSE Rearm(PublishPending(j, ToSet(j.pending), cell))

\* The timer is due: every record that is due is published.
OnTimer(j, cell) ==
  Rearm(PublishPending(j, {p \in ToSet(j.pending) : p.due = 0}, cell))

\* Time passes for the journal.
Later(j) ==
  [j EXCEPT !.age = [id \in Ids |-> Min({@[id] + 1, Window})],
            !.pending = [i \in DOMAIN @ |-> [@[i] EXCEPT !.due = Max({j.pending[i].due - 1, 0})]],
            !.timer = IF @ = NoTimer THEN NoTimer ELSE Max({@ - 1, 0})]

OldestSequence(j) == Max({1, j.last - Limit + 1})

\* Mutant: refuse one event too late.
IsExpiredLate(j, from) == j.last > 0 /\ from < OldestSequence(j) - 2

\* since(): a cursor whose events have left the ring is refused.
IsExpired(j, from) == j.last > 0 /\ from < OldestSequence(j) - 1

Since(j, from, limit) ==
  [n \in 1..Min({limit, j.last - from}) |-> j.ring[(from + n - 1) % Limit]]
=============================================================================
