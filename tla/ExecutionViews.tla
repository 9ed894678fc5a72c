---------------------------- MODULE ExecutionViews ----------------------------
(***************************************************************************)
(* An agent that follows an execution (service/execution.ts): it asks for  *)
(* a view from its cursor, within a byte budget, while the kernel appends, *)
(* updates and clears the outputs of the job's cells, and keeps what it is *)
(* told; it reads the outputs that were not inlined in parts.  Answers may *)
(* be lost, and it may start over without a cursor.                        *)
(***************************************************************************)
EXTENDS OutputStore, Sequences, SequencesExt

CONSTANTS JobCells,     \* the number of cells of the job
          Tokens,       \* the outputs the kernel may produce, once each
          Previews,     \* those of which a text excerpt of one byte is shown
          Budgets,      \* the byte budgets of an answer
          OutputBytes,  \* what one inlined output may take
          Parts,        \* the byte budgets of one part of a snapshot
          ResourceBytes,      \* what a resource may take, read as a whole
          MaxOutputChanges,   \* bound: changes of the outputs
          MaxViews      \* bound: answers

ASSUME ViewsAssumption ==
  /\ JobCells \in Nat /\ StoreBytes \in Nat /\ Parts \subseteq Nat
  /\ \A t \in Tokens :
       /\ IsFiniteSet(Boundaries[t]) /\ Boundaries[t] \subseteq Nat /\ 0 \in Boundaries[t]
       /\ Alternate[t] \in Nat

VARIABLES job,      \* the job: its cells, its change counter
          store,    \* the session's snapshots
          agent,    \* the agent: what it has of each cell, its cursor, its reading
          answer,   \* the last view: the outputs it was built from, its snapshots
          views     \* how many were built
evars == <<job, store, agent, answer, views>>

Positions == 1..JobCells
NoCursor  == [registry |-> 0, positions |-> <<>>]
NotReading == [id |-> 0, token |-> 0, parts |-> <<>>]

EInit ==
  /\ job = [cells |-> [p \in Positions |-> [outputs |-> <<>>, version |-> 0]],
            changes |-> 0, used |-> {}]
  /\ store = EmptyStore
  /\ agent = [have |-> [p \in Positions |-> <<>>], cursor |-> NoCursor,
              reading |-> NotReading]
  /\ answer = [asOf |-> [p \in Positions |-> <<>>],
               truncated |-> [p \in Positions |-> TRUE], ids |-> {}]
  /\ views = 0

-------------------------------------------------------------------------------
(* The kernel changes the outputs of a cell: a new version of them. *)

Changed(cell, outputs) == [outputs |-> outputs, version |-> cell.version + 1]

Changes(p, outputs, new) ==
  /\ job.changes < MaxOutputChanges
  /\ job' = [cells   |-> [job.cells EXCEPT ![p] = Changed(@, outputs)],
             changes |-> job.changes + 1,
             used    |-> job.used \cup new]
  /\ UNCHANGED <<store, agent, answer, views>>

AppendOutput(p) ==
  \E t \in Tokens \ job.used : Changes(p, Append(job.cells[p].outputs, t), {t})

\* A stream goes on, or a display is updated.
RewriteOutput(p) ==
  \E n \in DOMAIN job.cells[p].outputs, t \in Tokens \ job.used :
    Changes(p, [job.cells[p].outputs EXCEPT ![n] = t], {t})

ClearOutputs(p) ==
  job.cells[p].outputs # <<>> /\ Changes(p, <<>>, {})

-------------------------------------------------------------------------------
(* The view. *)

\* What one output takes of what is left: it is inlined, or an excerpt is.
OutputCost(token, remaining) ==
  LET size == Bytes(token) + Alternate[token]
  IN  IF size <= Min({remaining, OutputBytes}) THEN size
      ELSE IF token \in Previews THEN Min({1, remaining}) ELSE 0

\* What is left after each output of a cell, from the first the agent has not.
Left(outputs, from, budget) ==
  LET left[n \in from..Len(outputs)] ==
        IF n = from THEN budget ELSE left[n - 1] - OutputCost(outputs[n], left[n - 1])
  IN  left

\* The last output delivered: the next one found nothing left.
Delivered(outputs, from, budget) ==
  LET left == Left(outputs, from, budget)
  IN  Max({from} \cup {n \in from + 1..Len(outputs) : left[n - 1] > 0})

\* Mutant: a new version is delivered from where the old one was left.
FromAnyVersion(cursor, p) ==
  IF cursor = NoCursor THEN 0
  ELSE Min({cursor.positions[p].delivered, Len(job.cells[p].outputs)})

\* What the agent has of a cell: nothing once there is a new version.
From(cursor, p) ==
  IF cursor = NoCursor \/ cursor.positions[p].version # job.cells[p].version THEN 0
  ELSE cursor.positions[p].delivered

BuildExecutionView(cursor, budget) ==
  LET outputs(p) == job.cells[p].outputs
      from(p)    == From(cursor, p)
      before[p \in Positions] ==
        IF p = 1 THEN budget
        ELSE Left(outputs(p - 1), from(p - 1), before[p - 1])[Len(outputs(p - 1))]
      to == [p \in Positions |-> Delivered(outputs(p), from(p), before[p])]
  IN  [entries   |-> [p \in Positions |-> SubSeq(outputs(p), from(p) + 1, to[p])],
       truncated |-> [p \in Positions |-> to[p] < Len(outputs(p))],
       keys      |-> UNION {{[cell |-> p, index |-> n, token |-> outputs(p)[n]] :
                               n \in from(p) + 1..to[p]} : p \in Positions},
       reset     |-> [p \in Positions |->
                        \/ cursor = NoCursor
                        \/ cursor.positions[p].version # job.cells[p].version],
       cursor    |-> [registry  |-> job.changes,
                      positions |-> [p \in Positions |->
                        [version |-> job.cells[p].version, delivered |-> to[p]]]]]

\* The agent asks, with its cursor or without, and the answer arrives, or is
\* lost after its snapshots were retained; one whose snapshots cannot be
\* retained is refused.
ExecutionGet ==
  /\ views < MaxViews
  /\ views' = views + 1
  /\ \E cursor \in {agent.cursor, NoCursor}, budget \in Budgets, arrives \in BOOLEAN :
     \E view \in {BuildExecutionView(cursor, budget)} :
     \E commit \in {Commit(store, view.keys)} :
       /\ store' = commit.store
       /\ IF commit.ok /\ arrives
          THEN /\ agent' = [agent EXCEPT
                    !.have = [p \in Positions |->
                                IF view.reset[p] THEN view.entries[p]
                                ELSE @[p] \o view.entries[p]],
                    !.cursor = view.cursor]
               /\ answer' = [asOf      |-> [p \in Positions |-> job.cells[p].outputs],
                             truncated |-> view.truncated,
                             ids       |-> commit.ids]
          ELSE /\ answer' = [answer EXCEPT !.ids = commit.ids]
               /\ UNCHANGED agent
  /\ UNCHANGED job

\* output_read: one more part of a snapshot the last answer named, or of the
\* one being read, unless it was evicted.
OutputRead ==
  \E id \in answer.ids \cup {agent.reading.id}, budget \in Parts :
    LET reading == IF agent.reading.id = id THEN agent.reading
                   ELSE [id |-> id, parts |-> <<>>,
                         token |-> IF id \in Ids(store) THEN SnapshotById(store, id).key.token ELSE 0]
        offset  == IF reading.parts = <<>> THEN 0 ELSE Last(reading.parts).to
    IN  IF id \notin Ids(store)
        THEN /\ agent.reading # NotReading
             /\ agent' = [agent EXCEPT !.reading = NotReading]
             /\ UNCHANGED <<job, store, answer, views>>
        ELSE LET token == SnapshotById(store, id).key.token
                 end   == SliceSnapshot(token, offset, budget)
             IN  /\ offset < Bytes(token) /\ end > offset
                 /\ agent' = [agent EXCEPT !.reading =
                      [reading EXCEPT !.parts = Append(@, [from |-> offset, to |-> end])]]
                 /\ UNCHANGED <<job, store, answer, views>>

\* Every output of a cell, at its position.
CellOutputsRead(p) ==
  {[index |-> n, token |-> job.cells[p].outputs[n]] : n \in DOMAIN job.cells[p].outputs}

\* Each is retained, inlined or not, under a key that names no execution: an
\* output that a view of the job mentioned has the snapshot it has already.
OutputEntries(p, reads) ==
  {[cell |-> p, index |-> r.index, token |-> r.token] : r \in reads}

\* notebook_read, view "outputs": the outputs of the cells asked for, whose
\* snapshots are retained all or none.
NotebookReadOutputs ==
  /\ views < MaxViews
  /\ views' = views + 1
  /\ \E cells \in (SUBSET Positions) \ {{}} :
     \E commit \in {Commit(store, UNION {OutputEntries(p, CellOutputsRead(p)) : p \in cells})} :
       /\ store' = commit.store
       /\ answer' = [answer EXCEPT !.ids = commit.ids]
  /\ UNCHANGED <<job, agent>>

\* The resources of the session: what is retained of any earlier answer.
ListOutputResources ==
  /\ answer.ids # Ids(store)
  /\ answer' = [answer EXCEPT !.ids = Ids(store)]
  /\ UNCHANGED <<job, store, agent, views>>

\* A snapshot as a resource: whole, or, when it is too large, left to
\* output_read from its beginning.  One that was evicted is refused.
ReadOutputResource ==
  \E id \in (answer.ids \cup {agent.reading.id}) \cap Ids(store) :
    LET token == SnapshotById(store, id).key.token
        whole == [from |-> 0, to |-> Bytes(token)]
    IN  /\ agent' = [agent EXCEPT !.reading =
             [id |-> id, token |-> token,
              parts |-> IF Bytes(token) > ResourceBytes THEN <<>> ELSE <<whole>>]]
        /\ UNCHANGED <<job, store, answer, views>>

ENext ==
  \/ \E p \in Positions : AppendOutput(p) \/ RewriteOutput(p) \/ ClearOutputs(p)
  \/ ExecutionGet
  \/ NotebookReadOutputs
  \/ OutputRead
  \/ ListOutputResources
  \/ ReadOutputResource

ESpec == EInit /\ [][ENext]_evars

-------------------------------------------------------------------------------
(* The agent that follows an execution has, of every cell whose outputs    *)
(* the last answer did not cut short, exactly the outputs the cell had     *)
(* then, in order and once each; of a cell that was cut short it has a     *)
(* beginning of them, and never one that was taken back: whatever was      *)
(* appended, rewritten or cleared between its polls, and whichever answers *)
(* it lost.  (execution.ts, buildExecutionView)                            *)
FollowerIsCurrent ==
  \A p \in Positions :
    IF answer.truncated[p] THEN IsPrefix(agent.have[p], answer.asOf[p])
    ELSE agent.have[p] = answer.asOf[p]

(* Every snapshot the last answer named can be read when it is given; what *)
(* is retained is within the budget and accounted for; an output that is   *)
(* still retained keeps its one id.  (outputs.ts, #commit, #evictFor)      *)
SnapshotsAreRetained ==
  /\ answer.ids \subseteq Ids(store)
  /\ store.used = Total(store.snapshots) /\ store.used <= StoreBytes
  /\ Cardinality(Ids(store)) = Cardinality(store.snapshots)
  /\ \A k \in DOMAIN store.byKey :
       /\ store.byKey[k] \in Ids(store)
       /\ SnapshotById(store, store.byKey[k]).key = k

(* The parts of a snapshot read one after the other are its bytes, each    *)
(* once and in order, cut between code points, or between base64 units of  *)
(* three bytes, so that they can be put together as they come.             *)
(* (service.ts, sliceSnapshot)                                             *)
PartsReassemble ==
  \A n \in DOMAIN agent.reading.parts :
    LET part == agent.reading.parts[n]
        token == agent.reading.token
    IN  /\ part.from = IF n = 1 THEN 0 ELSE agent.reading.parts[n - 1].to
        /\ part.to <= Bytes(token)
        /\ part.to < Bytes(token) =>
             IF token \in Binary THEN (part.to - part.from) % 3 = 0
             ELSE part.to \in Boundaries[token]

(* Both: what an answer names can be read, and put together from its parts. *)
SnapshotsAreReadable == SnapshotsAreRetained /\ PartsReassemble
===============================================================================
