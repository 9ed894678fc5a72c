------------------------------ MODULE McpAdapter ------------------------------
(***************************************************************************)
(* The tool calls of one MCP connection (mcp/server.ts) over the table of  *)
(* ReferenceAliases.  A call resolves the references of its arguments when *)
(* it starts, waits for the service, and answers in one step: the result   *)
(* is staged, cut to the response budget, and published, or rolled back    *)
(* for an error that must still tell what the call has done.               *)
(*                                                                         *)
(* One notebook file, open through one handle at a time; other clients     *)
(* edit it.  A batch of operations is planned as a whole, each after what  *)
(* the ones before it do.  Cell ids are unique.  The size of a response is *)
(* a choice: it fits, its page is halved until it fits, or it cannot be    *)
(* cut.                                                                    *)
(***************************************************************************)
EXTENDS ReferenceAliases

CONSTANTS Calls,      \* the calls the agent makes: 1, 2, ...
          Cells,      \* the cells of the notebook
          MaxBatch,   \* bound: operations, or cells, of one call
          MaxEdits,   \* bound: what other clients and the kernel change
          MaxOpens    \* bound: handles of the notebook

VARIABLES table,      \* the references of the connection
          handle,     \* the open handle of the notebook
          doc,        \* the cells: identity, source and outputs versions, type
          metadata,   \* the version of the notebook's metadata
          edits,
          calls,      \* each call: its state and its answer
          jobs,       \* execution -> what it was submitted with
          seen,       \* what the agent was ever shown: references and their meaning
          effect,     \* what each call has done: nothing, an edit, or an execution
          wrongs      \* what should never happen
vars == <<table, handle, doc, metadata, edits, calls, jobs, seen, effect, wrongs>>

Tools    == {"notebook_read", "notebook_apply", "notebook_execute",
             "execution_get", "execution_cancel"}
ReadOnly == {"notebook_read", "execution_get"}
Ops      == {"replace_source", "clear_outputs", "delete_cell"}

NoCell == 0  \* the identity of a cell that is deleted
Live(c) == doc[c].token # NoCell

Idle == [state |-> "idle"]

Nothing == -1
AnEdit  == 0

CellObservation(c) ==
  [what |-> "cell", notebook |-> handle, cell |-> c, token |-> doc[c].token,
   source |-> doc[c].source, outputs |-> doc[c].outputs]
NotebookObservation == [what |-> "notebook", notebook |-> handle, metadata |-> metadata]

Row(field, obs) == [field |-> field, obs |-> obs]

Init ==
  /\ table = EmptyTable
  /\ handle = 1
  /\ doc = [c \in Cells |-> [token |-> 1, source |-> 1, outputs |-> 1, code |-> TRUE]]
  /\ metadata = 1
  /\ edits = 0
  /\ calls = [i \in Calls |-> Idle]
  /\ jobs = <<>>
  /\ seen = {}
  /\ effect = [i \in Calls |-> Nothing]
  /\ wrongs = {}

-------------------------------------------------------------------------------
(* Building the answer of a call. *)

\* Mutant: only the rows of a read count as published.
ObservedRowsOnly == {"cell_ref", "notebook_ref"}

\* The fields whose references keep an observation in the table.
ObservedFields == {"cell_ref", "notebook_ref", "current_cell_ref",
                   "cancelled_cell_refs", "already_sent_cell_refs"}

CollectPublishedObservedRefs(staged, rows) ==
  {staged.byValue[r.obs] : r \in {x \in rows : x.field \in ObservedFields}}

Aliased(job) == IF job = 0 THEN table ELSE Present(table, "execution", job, "none")

ObservationsOf(rows) == {r.obs : r \in rows}

\* What the agent reads in a response: every reference of the payload, and
\* the execution it names.
Shown(staged, rows, job) ==
  {[field |-> r.field, ref |-> staged.byValue[r.obs], means |-> r.obs] : r \in rows}
  \cup IF job = 0 THEN {}
       ELSE {[field |-> "execution_id", means |-> job,
              ref |-> AliasOf(staged, "execution", job, "none")]}

Answered(code, effects, accepted, job) ==
  [state |-> "answered", code |-> code, effects |-> effects,
   accepted |-> accepted, job |-> job]

\* An error of a call: what it tells of the effects, and at most one
\* observation, of what the cell is now.
Failure(code, effects, rows, accepted, job) ==
  [code |-> code, effects |-> effects, rows |-> rows, accepted |-> accepted, job |-> job]

\* errorResult: the current observation is published with the error; when
\* the table has no room for it, the answer is RESOURCE_LIMIT with the same
\* recovery facts.
ErrorResult(e) ==
  LET staged == Stage(Aliased(e.job), ObservationsOf(e.rows))
      commit == CommitPublished(staged, table,
                                CollectPublishedObservedRefs(staged, e.rows))
  IN  IF commit.ok
      THEN [table |-> commit.table, shown |-> Shown(staged, e.rows, e.job),
            answer |-> Answered(e.code, e.effects, e.accepted, e.job)]
      ELSE [table |-> Aliased(e.job), shown |-> Shown(Aliased(e.job), {}, e.job),
            answer |-> Answered("RESOURCE_LIMIT", e.effects, e.accepted, e.job)]

\* A result of the service: the rows of a page in their order, the rows that
\* are no page, and what it tells of its effect.
Result(page, rest, accepted, job) ==
  [page |-> page, rest |-> rest, accepted |-> accepted, job |-> job]

\* How many rows of a page of n may be published: all, what halving leaves
\* when the page has a continuation, or none because it is over budget.
OverBudget == -1
Cuts(n, continued) ==
  {OverBudget, n} \cup IF continued /\ n > 1 THEN {n \div 2, 1} ELSE {}

\* Mutant: the effects of a call whose result is lost are those of an error.
SideEffectsByCode(tool, result) == "none"

SideEffects(tool, result) ==
  CASE tool \in ReadOnly -> "none"
    [] result.accepted   -> "applied"
    [] OTHER             -> "unknown"

\* buildResult: everything is staged, the page cut, what is left published.
\* A result that cannot be published is an error that keeps what the call
\* has done.
BuildResult(tool, result, cut) ==
  LET all     == Range(result.page) \cup result.rest
      rows    == Range(SubSeq(result.page, 1, cut)) \cup result.rest
      staged  == Stage(Aliased(result.job), ObservationsOf(all))
      commit  == CommitPublished(staged, table, CollectPublishedObservedRefs(staged, rows))
  IN  IF cut = OverBudget \/ ~commit.ok
      THEN ErrorResult(Failure("RESOURCE_LIMIT", SideEffects(tool, result), {},
                               result.accepted, result.job))
      ELSE [table |-> commit.table, shown |-> Shown(staged, rows, result.job),
            answer |-> Answered("ok", "none", result.accepted, result.job)]

Answer(i, outcome) ==
  /\ table' = outcome.table
  /\ seen' = seen \cup outcome.shown
  /\ calls' = [calls EXCEPT ![i] = outcome.answer]

Answers(i, result, continued) ==
  \E cut \in Cuts(Len(result.page), continued) :
    Answer(i, BuildResult(calls[i].tool, result, cut))

\* A request is refused that has had no effect, accepted or not.
Refused(i, code, rows, accepted) ==
  Answer(i, ErrorResult(Failure(code, "none", rows, accepted, 0)))
Fails(i, code, rows) == Refused(i, code, rows, FALSE)

-------------------------------------------------------------------------------
(* A call begins: its references are resolved before the service sees it. *)

CellFields == {"cell_ref", "current_cell_ref", "cancelled_cell_refs",
               "already_sent_cell_refs", "sent_cell_ref"}
KnownCells == {s.ref : s \in {x \in seen : x.field \in CellFields}}
KnownBooks == {s.ref : s \in {x \in seen : x.field = "notebook_ref"}}
KnownJobs  == {s.ref : s \in {x \in seen : x.field = "execution_id"}}

\* Calls are numbered in the order in which they start.
IsNext(i) == calls[i] = Idle /\ \A k \in Calls : k < i => calls[k] # Idle

\* A call starts with a batch of operations, unless a reference of one does
\* not resolve.
Begin(i, tool, what, batch, notebook) ==
  LET targets == [n \in DOMAIN batch |-> Observed(table, what, batch[n].ref, notebook)]
  IN  /\ IsNext(i)
      /\ IF Expired \in Range(targets)
         THEN Fails(i, "HANDLE_EXPIRED", {})
         ELSE /\ calls' = [calls EXCEPT ![i] =
                   [state |-> "called", tool |-> tool, batch |-> batch,
                    targets |-> targets, notebook |-> notebook]]
              /\ UNCHANGED <<table, seen>>
      /\ UNCHANGED <<handle, doc, metadata, edits, jobs, effect, wrongs>>

\* An operation of a batch, and batches of some operations.
Operation(op, ref) == [op |-> op, ref |-> ref]
Batches(ops, size) == UNION {[1..n -> ops] : n \in 1..size}

\* Bound: batches of several edits come last, so that what they leave is not
\* explored further.
BatchBound(i) == IF \A k \in Calls : k <= i THEN MaxBatch ELSE 1

Read(i) == Begin(i, "notebook_read", "cell", <<>>, handle)

ApplyCells(i, notebook) ==
  \E batch \in Batches({Operation(op, ref) : op \in Ops, ref \in KnownCells}, BatchBound(i)) :
    Begin(i, "notebook_apply", "cell", batch, notebook)
ApplyMetadata(i, notebook) ==
  \E ref \in KnownBooks :
    Begin(i, "notebook_apply", "notebook", <<Operation("set_notebook_metadata", ref)>>, notebook)

Apply(i) ==
  \E notebook \in 1..handle : ApplyCells(i, notebook) \/ ApplyMetadata(i, notebook)

Execute(i) ==
  \E batch \in Batches({Operation("execute", ref) : ref \in KnownCells}, MaxBatch) :
    Begin(i, "notebook_execute", "cell", batch, handle)

\* Executions are named by their alias.
AskExecution(i) ==
  \E alias \in KnownJobs, tool \in {"execution_get", "execution_cancel"} :
    /\ IsNext(i)
    /\ calls' = [calls EXCEPT ![i] =
         [state |-> "called", tool |-> tool,
          job |-> Resolve(table, "execution", alias, "none")]]
    /\ UNCHANGED <<table, handle, doc, metadata, edits, jobs, seen, effect, wrongs>>

-------------------------------------------------------------------------------
(* The service answers. *)

Waiting(i, tool) == calls[i].state = "called" /\ calls[i].tool = tool

Gone(i) == calls[i].notebook # handle

\* A page of the cells there are.
Page ==
  LET order == SetToSeq({c \in Cells : Live(c)})
  IN  [n \in DOMAIN order |-> Row("cell_ref", CellObservation(order[n]))]

\* The notebook, from its first cell on; cells outside the model may follow.
ServeRead(i) ==
  /\ Waiting(i, "notebook_read")
  /\ IF Gone(i) THEN Fails(i, "HANDLE_EXPIRED", {})
     ELSE \E continued \in BOOLEAN :
            Answers(i, Result(Page, {Row("notebook_ref", NotebookObservation)}, FALSE, 0),
                    continued)
  /\ UNCHANGED <<handle, doc, metadata, edits, jobs, effect, wrongs>>

Replaced(t) == doc[t.cell].token # t.token
Stale(op, t) ==
  \/ op # "clear_outputs" /\ doc[t.cell].source # t.source
  \/ op \in {"clear_outputs", "delete_cell"} /\ doc[t.cell].outputs # t.outputs

\* An operation before the nth of a batch, one of ops, is on the same cell.
After(call, n, ops) ==
  \E m \in 1..n - 1 : /\ call.batch[m].op \in ops
                      /\ call.targets[m].cell = call.targets[n].cell

\* The nth operation finds the very cell the agent saw, and of the type it is
\* for.
Finds(call, n) ==
  ~After(call, n, {"delete_cell"}) /\ ~Replaced(call.targets[n])
Fits(call, n) ==
  call.batch[n].op \in {"execute", "clear_outputs"} => doc[call.targets[n].cell].code

\* It may be planned after the ones before it: what it expects is what the
\* cell is, or what they may have made of it; a stale source may still merge.
MayPass(call, n) ==
  LET op == call.batch[n].op
  IN  /\ Finds(call, n) /\ Fits(call, n)
      /\ Stale(op, call.targets[n]) =>
           \/ op = "replace_source"
           \/ op = "clear_outputs" /\ After(call, n, {op})
           \/ op = "delete_cell" /\ After(call, n, Ops)

\* What an error says of a reference of the agent's that it names.
IsSo(claim, op, v) ==
  CASE claim = "no live cell"    -> Replaced(v)
    [] claim = "changed"         -> Stale(op, v)
    [] claim = "not a code cell" -> ~Replaced(v) /\ ~doc[v.cell].code
    [] claim = "overlaps"        -> TRUE

\* The error about one cell names the reference the agent sent for it, when
\* only one did.
Blame(i, n, claim) ==
  wrongs' = wrongs \cup
    LET call == calls[i]
        ref  == SubmittedCellReference(table, {o.ref : o \in Range(call.batch)},
                                       call.notebook, call.targets[n].cell)
    IN  IF ref # 0 /\ ~(/\ table.byRef[ref] = call.targets[n]
                        /\ IsSo(claim, call.batch[n].op, table.byRef[ref]))
        THEN {"a reference was wrongly blamed"} ELSE {}

CurrentRow(t) == Row("current_cell_ref", CellObservation(t.cell))

RefuseMissing(i, n) ==
  /\ ~Finds(calls[i], n)
  /\ Fails(i, IF Live(calls[i].targets[n].cell) /\ ~After(calls[i], n, {"delete_cell"})
              THEN "CELL_REPLACED" ELSE "CELL_NOT_FOUND", {})
  /\ IF After(calls[i], n, {"delete_cell"})
     THEN UNCHANGED wrongs
     ELSE Blame(i, n, "no live cell")

\* Only notebook_execute names a cell that is not code.
RefuseType(i, n) ==
  /\ Finds(calls[i], n) /\ ~Fits(calls[i], n)
  /\ Fails(i, "INVALID_ARGUMENT", {})
  /\ IF calls[i].tool = "notebook_execute"
     THEN Blame(i, n, "not a code cell") ELSE UNCHANGED wrongs

\* A source whose base is remembered no longer may be found out by the second
\* planning of a batch, which is then accepted already.
RefuseStale(i, n) ==
  LET op == calls[i].batch[n].op
      t  == calls[i].targets[n]
  IN  /\ Finds(calls[i], n) /\ Fits(calls[i], n) /\ Stale(op, t)
      /\ \E accepted \in {FALSE, op = "replace_source"} :
           Refused(i, "REVISION_CONFLICT", {CurrentRow(t)}, accepted)
      /\ Blame(i, n, "changed")

\* A source that an earlier operation of the batch has replaced on the same
\* lines.
RefuseOverlap(i, n) ==
  /\ Finds(calls[i], n)
  /\ calls[i].batch[n].op = "replace_source" /\ After(calls[i], n, {"replace_source"})
  /\ Fails(i, "REVISION_CONFLICT", {CurrentRow(calls[i].targets[n])})
  /\ Blame(i, n, "overlaps")

\* A batch is refused as a whole, for its first operation that fails.
Refuse(i) ==
  \E n \in DOMAIN calls[i].batch :
    /\ \A m \in 1..n - 1 : MayPass(calls[i], m)
    /\ RefuseMissing(i, n) \/ RefuseType(i, n) \/ RefuseStale(i, n) \/ RefuseOverlap(i, n)

Passes(call) == \A n \in DOMAIN call.batch : MayPass(call, n)

\* The cells after a batch of edits, and the rows that tell of them.
CellsOf(call) == {t.cell : t \in Range(call.targets)}

Edited(call) ==
  [c \in Cells |->
     LET ops == {call.batch[n].op : n \in {m \in DOMAIN call.batch : call.targets[m].cell = c}}
     IN  [doc[c] EXCEPT !.token   = IF "delete_cell" \in ops THEN NoCell ELSE @,
                        !.source  = IF "replace_source" \in ops THEN @ + 1 ELSE @,
                        !.outputs = IF "clear_outputs" \in ops THEN @ + 1 ELSE @]]

EditedRows(call) ==
  {Row("cell_ref", [CellObservation(c) EXCEPT !.source  = Edited(call)[c].source,
                                              !.outputs = Edited(call)[c].outputs]) :
     c \in {x \in CellsOf(call) : Edited(call)[x].token # NoCell}}

\* A batch of edits, or a metadata key of the notebook.
ServeApply(i) ==
  /\ Waiting(i, "notebook_apply")
  /\ LET call == calls[i]
         book == call.batch[1].op = "set_notebook_metadata"
     IN  \/ /\ Gone(i)
            /\ Fails(i, "HANDLE_EXPIRED", {})
            /\ UNCHANGED <<doc, metadata, effect, wrongs>>
         \/ /\ ~Gone(i) /\ book /\ call.targets[1].metadata # metadata
            /\ Fails(i, "REVISION_CONFLICT", {Row("notebook_ref", NotebookObservation)})
            /\ UNCHANGED <<doc, metadata, effect, wrongs>>
         \/ /\ ~Gone(i) /\ book /\ call.targets[1].metadata = metadata
            /\ metadata' = metadata + 1
            /\ Answers(i, Result(<<>>, {Row("notebook_ref", [NotebookObservation EXCEPT
                                                               !.metadata = metadata + 1])},
                                 TRUE, 0), FALSE)
            /\ effect' = [effect EXCEPT ![i] = AnEdit]
            /\ UNCHANGED <<doc, wrongs>>
         \/ /\ ~Gone(i) /\ ~book
            /\ Refuse(i)
            /\ UNCHANGED <<doc, metadata, effect>>
         \/ /\ ~Gone(i) /\ ~book /\ Passes(call)
            /\ doc' = Edited(call)
            /\ Answers(i, Result(<<>>, EditedRows(call), TRUE, 0), FALSE)
            /\ effect' = [effect EXCEPT ![i] = AnEdit]
            /\ UNCHANGED <<metadata, wrongs>>
  /\ UNCHANGED <<handle, edits, jobs>>

Active == {j \in DOMAIN jobs : jobs[j].handle = handle /\ ~jobs[j].done}

\* The view of an execution: what each cell is now, if it is still the same
\* cell, and what it was when it was submitted, once it is sent.
ExecutionView(j) ==
  LET job  == jobs[j]
      same == {c \in DOMAIN job.submitted : doc[c].token = job.submitted[c].token}
  IN  {Row("sent_cell_ref", job.submitted[c]) : c \in job.sent}
      \cup {Row("cell_ref", CellObservation(c)) : c \in same}

\* The submission is accepted and the call goes on to wait for its view.
ServeExecute(i) ==
  /\ Waiting(i, "notebook_execute")
  /\ LET call == calls[i]
     IN  \/ /\ Gone(i)
            /\ Fails(i, "HANDLE_EXPIRED", {})
            /\ UNCHANGED <<jobs, effect, wrongs>>
         \/ /\ ~Gone(i)
            /\ Refuse(i)
            /\ UNCHANGED <<jobs, effect>>
         \/ /\ ~Gone(i) /\ Active # {} /\ Passes(call)
            /\ \E j \in Active :
                 Answer(i, ErrorResult(Failure("EXECUTION_ACTIVE", "none", {}, FALSE, j)))
            /\ UNCHANGED <<jobs, effect, wrongs>>
         \/ /\ ~Gone(i) /\ Active = {} /\ Passes(call)
            /\ jobs' = Append(jobs,
                 [handle |-> handle, sent |-> {}, done |-> FALSE, cancelled |-> FALSE,
                  submitted |-> [c \in CellsOf(call) |-> CellObservation(c)]])
            /\ calls' = [calls EXCEPT ![i] =
                 [state |-> "waiting", tool |-> call.tool, job |-> Len(jobs) + 1]]
            /\ effect' = [effect EXCEPT ![i] = Len(jobs) + 1]
            /\ UNCHANGED <<table, seen, wrongs>>
  /\ UNCHANGED <<handle, doc, metadata, edits>>

\* The wait of notebook_execute ends; a handle closed meanwhile is an error
\* of an accepted execution.
ViewExecution(i) ==
  /\ calls[i].state = "waiting"
  /\ LET j == calls[i].job
     IN  IF jobs[j].handle # handle
         THEN Answer(i, ErrorResult(Failure("HANDLE_EXPIRED", "applied", {}, TRUE, j)))
         ELSE Answers(i, Result(<<>>, ExecutionView(j), TRUE, j), FALSE)
  /\ UNCHANGED <<handle, doc, metadata, edits, jobs, effect, wrongs>>

ServeGet(i) ==
  /\ Waiting(i, "execution_get")
  /\ LET j == calls[i].job
     IN  IF jobs[j].handle # handle
         THEN Answer(i, ErrorResult(Failure("HANDLE_EXPIRED", "none", {}, FALSE, j)))
         ELSE Answers(i, Result(<<>>, ExecutionView(j), FALSE, j), FALSE)
  /\ UNCHANGED <<handle, doc, metadata, edits, jobs, effect, wrongs>>

\* execution_cancel reports the cells it took back and those already sent.
ServeCancel(i) ==
  /\ Waiting(i, "execution_cancel")
  /\ LET j    == calls[i].job
         live == {c \in DOMAIN jobs[j].submitted :
                    /\ jobs[j].handle = handle
                    /\ doc[c].token = jobs[j].submitted[c].token}
         rows == {Row(IF c \in jobs[j].sent THEN "already_sent_cell_refs"
                                           ELSE "cancelled_cell_refs",
                      CellObservation(c)) : c \in live}
     IN  /\ jobs' = [jobs EXCEPT ![j].cancelled = TRUE,
                                 ![j].done = @ \/ jobs[j].sent = {}]
         /\ Answers(i, Result(<<>>, rows, FALSE, j), FALSE)
  /\ UNCHANGED <<handle, doc, metadata, edits, effect, wrongs>>

-------------------------------------------------------------------------------
(* Everyone else. *)

\* Another client edits, deletes or replaces a cell; what takes its place may
\* be of another type.
PeerEdits(c) ==
  /\ edits < MaxEdits /\ Live(c)
  /\ edits' = edits + 1
  /\ \/ doc' = [doc EXCEPT ![c].source = @ + 1]
     \/ doc' = [doc EXCEPT ![c].outputs = @ + 1]
     \/ doc' = [doc EXCEPT ![c].token = NoCell]
     \/ \E code \in BOOLEAN : doc' = [doc EXCEPT ![c].token = @ + 1, ![c].code = code]
  /\ UNCHANGED <<table, handle, metadata, calls, jobs, seen, effect, wrongs>>

\* A cell is what was submitted, and may be sent.
Unchanged(j, c) ==
  /\ doc[c].token = jobs[j].submitted[c].token
  /\ doc[c].source = jobs[j].submitted[c].source

\* The kernel is sent the next cell of a job, whose outputs are cleared.
KernelRuns(j) ==
  \E c \in DOMAIN jobs[j].submitted :
    /\ ~jobs[j].done /\ ~jobs[j].cancelled
    /\ c \notin jobs[j].sent /\ Unchanged(j, c)
    /\ jobs' = [jobs EXCEPT ![j].sent = @ \cup {c}]
    /\ doc' = [doc EXCEPT ![c].outputs = @ + 1]
    /\ UNCHANGED <<table, handle, metadata, edits, calls, seen, effect, wrongs>>

\* A job ends when nothing is left of it to send.
KernelEnds(j) ==
  /\ ~jobs[j].done
  /\ \/ jobs[j].cancelled
     \/ \A c \in DOMAIN jobs[j].submitted \ jobs[j].sent : ~Unchanged(j, c)
  /\ jobs' = [jobs EXCEPT ![j].done = TRUE]
  /\ UNCHANGED <<table, handle, doc, metadata, edits, calls, seen, effect, wrongs>>

\* The agent closes the notebook and opens it again: another handle, and
\* other identities for the same cells.
Reopen ==
  /\ handle < MaxOpens
  /\ handle' = handle + 1
  /\ doc' = [c \in Cells |-> [doc[c] EXCEPT !.token = IF Live(c) THEN @ + 10 ELSE @]]
  /\ jobs' = [j \in DOMAIN jobs |->
                IF jobs[j].handle = handle THEN [jobs[j] EXCEPT !.done = TRUE] ELSE jobs[j]]
  /\ UNCHANGED <<table, metadata, edits, calls, seen, effect, wrongs>>

Next ==
  \/ \E i \in Calls :
       \/ Read(i) \/ Apply(i) \/ Execute(i) \/ AskExecution(i)
       \/ ServeRead(i) \/ ServeApply(i) \/ ServeExecute(i) \/ ViewExecution(i)
       \/ ServeGet(i) \/ ServeCancel(i)
  \/ \E c \in Cells : PeerEdits(c)
  \/ \E j \in DOMAIN jobs : KernelRuns(j) \/ KernelEnds(j)
  \/ Reopen

Spec == Init /\ [][Next]_vars

-------------------------------------------------------------------------------
TypeOK ==
  /\ DOMAIN table.byRef \subseteq 1..table.observed - 1
  /\ handle \in 1..MaxOpens
  /\ edits \in 0..MaxEdits
  /\ \A i \in Calls :
       /\ calls[i].state \in {"idle", "called", "waiting", "answered"}
       /\ effect[i] \in {Nothing, AnEdit} \cup DOMAIN jobs
  /\ \A s \in seen : s.ref \in Nat

\* What a reference of the agent's stands for, in the table.
StandsFor(s) ==
  /\ s.ref \in DOMAIN table.byRef
  /\ table.byRef[s.ref] = s.means

(* A reference the agent was given keeps its meaning for as long as the    *)
(* connection lives: it stays in the table, for the very observation it    *)
(* was shown with, whatever is staged, pruned and rolled back later; no    *)
(* number, of a reference or of an execution, is ever shown with two       *)
(* meanings.  (references.ts, commitPublished, #pruneUnpublished,          *)
(* #restore)                                                               *)
RefsKeepTheirMeaning ==
  /\ \A s \in seen : s.field \notin {"execution_id", "sent_cell_ref"} => StandsFor(s)
  /\ \A s, t \in seen :
       /\ s.ref = t.ref
       /\ s.field = "execution_id" <=> t.field = "execution_id"
       => s.means = t.means

(* The table never holds more than its budget, holds only what the agent   *)
(* was shown, and its two directions agree: a response that was cut or     *)
(* refused takes no room.  (references.ts, stageValue)                     *)
NothingLeaks ==
  /\ Cardinality(DOMAIN table.byRef) <= MaxEntries
  /\ DOMAIN table.byRef \subseteq {s.ref : s \in {x \in seen : x.field # "execution_id"}}
  /\ {<<v, table.byValue[v]>> : v \in DOMAIN table.byValue}
       = {<<table.byRef[r], r>> : r \in DOMAIN table.byRef}

(* The table and what the agent holds of it, at any time. *)
TableInvariant == TypeOK /\ RefsKeepTheirMeaning /\ NothingLeaks

(* A call that has changed something never ends with an error that says    *)
(* nothing happened: its error says "applied", that the request was        *)
(* accepted, and which execution it began; and a call that changed nothing *)
(* never says it did: a batch that is accepted and then refused by its     *)
(* second planning is an error without effects.                            *)
(* (server.ts, buildResult, errorResult; model.ts, apply)                  *)
EffectsAreTold ==
  \A i \in Calls :
    calls[i].state = "answered" =>
      IF effect[i] = Nothing
      THEN /\ calls[i].effects # "applied"
           /\ calls[i].accepted => calls[i].code # "ok" /\ calls[i].effects = "none"
      ELSE /\ calls[i].accepted
           /\ calls[i].code # "ok" => calls[i].effects = "applied"
           /\ effect[i] # AnEdit =>
                /\ calls[i].job = effect[i]
                /\ \E s \in seen : s.field = "execution_id" /\ s.means = effect[i]

(* What an error says of the one reference it names is so of the cell that *)
(* reference stands for, and that cell is the one the call failed for:     *)
(* that it is no longer there, has changed since it was read, or is not a  *)
(* code cell.  A change that the batch itself was to make is never called  *)
(* a change of others, though the cell may be named by several references  *)
(* of the batch, current ones and stale ones.  One error is excepted: an   *)
(* operation on a cell that the batch deletes before it is told, as if of  *)
(* now, that the cell is gone.                                             *)
(* (server.ts, projectSubmittedCellError, revisionConflictMessage;         *)
(* references.ts, submittedCellReference; plan.ts, guard, mergedSource)    *)
BlameIsDeserved == "a reference was wrongly blamed" \notin wrongs

(* Both: what an error tells the agent is true. *)
ErrorsAreTrue == EffectsAreTold /\ BlameIsDeserved
=============================================================================
