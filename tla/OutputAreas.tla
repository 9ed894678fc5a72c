----------------------------- MODULE OutputAreas -----------------------------
(***************************************************************************)
(* Who writes the output area of a cell: the executions of one kernel      *)
(* (kernel/execution-registry.ts: runCell, applyEffect, the areas and the  *)
(* late routes; kernel/kernel-client.ts: the routes), the output-area      *)
(* generations of the notebook (core/notebook/generations.ts), the         *)
(* observer that polices them (core/notebook/observer.ts), the watcher     *)
(* that closes them (service/execution.ts), and the peers of the shared    *)
(* document.                                                               *)
(*                                                                         *)
(* One action is one task: a kernel message with everything it writes, the *)
(* start of a cell, a kernel lifecycle event, or one transaction of a peer.*)
(* Jobs, the queue and the revalidation are ExecutionRegistry's; a run     *)
(* here is one cell of a job from begin on.  Area keys are                 *)
(* [cell, token, generation]; only code cells are modelled, and a cell id  *)
(* is renamed only when the server resolves a duplicate.                   *)
(***************************************************************************)
EXTENDS OutputReducer, FiniteSets

CONSTANTS
  Cells,          \* cell ids
  MaxRuns,        \* bound: cells ever sent
  MaxMessages,    \* bound: output messages of the kernel
  MaxForeign,     \* bound: transactions of peers
  MaxChanges,     \* bound: kernel lifecycle and channel events, and the release
  MaxEvents,      \* bound: all of these together
  AreaLimit,      \* AREA_CACHE_LIMIT
  LateRouteLimit  \* LATE_ROUTE_LIMIT

ASSUME AreasAssumption ==
  /\ MaxRuns \in Nat \ {0} /\ MaxMessages \in Nat /\ MaxForeign \in Nat /\ MaxChanges \in Nat /\ MaxEvents \in Nat
  /\ AreaLimit \in Nat \ {0} /\ LateRouteLimit \in Nat \ {0}

FreshCell(token) == [token |-> token, outputs |-> << >>, count |-> 0, state |-> "idle", dup |-> FALSE]
Absent == FreshCell(0)
Foreign == Output("foreign", 1)

VARIABLES
  doc,       \* the shared document: each id's cell, or Absent
  active,    \* generations: the run whose sink is current for the id, or 0
  counter,   \* generations: numbers given out per id
  runs,      \* the cells sent, with sink, reducer and job record
  areas,     \* registry: runs whose output area is reachable, oldest first
  table,     \* the kernel's display table
  routes,    \* kernel client: runs whose messages are routed
  late,      \* registry: finished runs whose route is kept, oldest first
  inflight,  \* the run awaited by runCell, or 0
  disposed,  \* the notebook model has been released
  tokens,    \* identity tokens given out
  messages, foreigns, changes,
  touched    \* history: ids whose area a peer changed since the last begin

writers == <<doc, active, runs, areas, table>>
avars == <<writers, counter, routes, late, inflight, disposed, tokens, messages, foreigns, changes, touched>>
bounds == <<messages, foreigns, changes>>

AInit ==
  /\ doc = [c \in Cells |-> FreshCell(1)]
  /\ active = [c \in Cells |-> 0] /\ counter = [c \in Cells |-> 0]
  /\ runs = << >> /\ areas = << >> /\ table = << >>
  /\ routes = {} /\ late = << >> /\ inflight = 0
  /\ disposed = FALSE /\ tokens = 1
  /\ messages = 0 /\ foreigns = 0 /\ changes = 0
  /\ touched = {}

------------------------------------------------------------------------------
(* Handlers change several of the writers' variables one after the other;  *)
(* W is their value in between.                                            *)

World == [doc |-> doc, active |-> active, runs |-> runs, areas |-> areas, table |-> table]
Becomes(W) ==
  /\ doc' = W.doc /\ active' = W.active /\ runs' = W.runs
  /\ areas' = W.areas /\ table' = W.table

AreaOf(W, r) == [cell |-> W.runs[r].cell, token |-> W.runs[r].token, generation |-> W.runs[r].generation]

\* cellFor: the sink is the current one and its cell is still the one it was opened for.
CellFor(W, r) ==
  LET c == W.runs[r].cell
  IN  /\ W.active[c] = r
      /\ W.doc[c] # Absent
      /\ ~W.doc[c].dup /\ W.doc[c].token = W.runs[r].token

Eventful == messages + foreigns + changes < MaxEvents

Current(r) == CellFor(World, r)

Invalidate(W, c) == [W EXCEPT !.active[c] = 0]

MatchesRememberedState(W, c) ==
  LET r == W.active[c]
  IN  /\ r # 0 /\ CellFor(W, r)
      /\ W.runs[r].expected = W.doc[c].outputs
      /\ W.runs[r].memory = <<W.doc[c].count, W.doc[c].state>>

\* Mutant of ObserveOutputs: a peer's write leaves the generation alone.
ObserveOutputs_Off(W, c) == W

\* publishCell: a transaction that leaves anything but what the sink remembers takes
\* the area away from it.
ObserveOutputs(W, c) == IF MatchesRememberedState(W, c) THEN W ELSE Invalidate(W, c)

Remember(W, r) ==
  LET cell == W.doc[W.runs[r].cell]
  IN  [W EXCEPT !.runs[r].memory = <<cell.count, cell.state>>]

\* One transaction of a sink, and the observer's look at it.
OwnWrite(W, r, cell, expected) ==
  LET c == W.runs[r].cell
  IN  ObserveOutputs(Remember([W EXCEPT !.doc[c] = cell, !.runs[r].expected = expected], r), c)

\* appendStream: a claimed stream delta, which the observer lets through.
OwnStream(W, r, index) ==
  LET c == W.runs[r].cell
  IN  Remember([W EXCEPT !.doc[c].outputs[index].size = @ + 1,
                         !.runs[r].expected[index].size = @ + 1], r)

Lose(W, r) == [W EXCEPT !.runs[r].lost = TRUE]

\* The sink's mutators, by the kind of effect; an index beyond the area is refused.
Write(W, s, e) ==
  LET cell == W.doc[W.runs[s].cell]
      exp  == W.runs[s].expected
  IN  CASE e.kind = "append" ->
             OwnWrite(W, s, [cell EXCEPT !.outputs = @ \o e.outputs], exp \o e.outputs)
        [] e.kind = "update" ->
             OwnWrite(W, s, [cell EXCEPT !.outputs[e.index] = e.outputs[1]],
                      [exp EXCEPT ![e.index] = e.outputs[1]])
        [] e.kind \in {"replace", "clear"} -> OwnWrite(W, s, [cell EXCEPT !.outputs = e.outputs], e.outputs)
        [] e.kind = "setCount" -> OwnWrite(W, s, [cell EXCEPT !.count = e.index], exp)
        [] e.kind = "setState" -> OwnWrite(W, s, [cell EXCEPT !.state = "idle"], exp)
        [] e.kind = "appendStream" -> OwnStream(W, s, e.index)

Refused(W, s, e) ==
  LET outputs == W.doc[W.runs[s].cell].outputs
  IN  \/ e.kind = "update" /\ e.index \notin DOMAIN outputs
      \/ e.kind = "appendStream" /\ ~(e.index \in DOMAIN outputs /\ outputs[e.index].type = "stream")

\* A display of another run was updated: its owner's record follows.
OwnerReducer(W, s, r, e) ==
  IF s # r /\ e.kind = "update"
  THEN [W EXCEPT !.runs[s].red = ReplaceOutput(@, e.index, e.outputs[1])]
  ELSE W

\* applyEffect: only while the target area is live; a loss is recorded on the run that writes.
ApplyEffect(W, r, e) ==
  LET owners == {s \in ToSet(W.areas) : AreaOf(W, s) = e.area}
      s      == CHOOSE s \in owners : TRUE
  IN  IF owners = {} THEN Lose(W, r)
      ELSE IF ~CellFor(W, s) THEN Lose([W EXCEPT !.areas = Keep(@, ToSet(@) \ {s})], r)
      ELSE IF Refused(W, s, e) THEN Lose(W, r)
      ELSE OwnerReducer(Write(W, s, e), s, r, e)

\* rememberArea: stale areas go first, then the oldest.
RememberArea(W, r) ==
  LET live == Keep(W.areas, {a \in ToSet(W.areas) : CellFor(W, a)})
      kept == IF Len(live) >= AreaLimit THEN SubSeq(live, Len(live) - AreaLimit + 2, Len(live)) ELSE live
  IN  [W EXCEPT !.areas = Append(kept, r)]

\* Mutant of FinishCompletedCells: a run of unknown fate leaves its prompt on.
FinishCompletedCells_KnownOnly(W, r) ==
  LET c == W.runs[r].cell
      s == W.active[c]
  IN  IF /\ W.runs[r].state \in {"succeeded", "failed", "aborted"}
         /\ s # 0 /\ CellFor(W, s) /\ W.runs[s].generation = W.runs[r].generation
      THEN OwnWrite(W, s, [W.doc[c] EXCEPT !.count = W.runs[r].red.count, !.state = "idle"],
                    W.runs[s].expected)
      ELSE W

\* The watcher's finishExecution: the final count and `idle`, in one transaction.
FinishCompletedCells(W, r) ==
  LET c == W.runs[r].cell
      s == W.active[c]
  IN  IF /\ W.runs[r].state \in {"succeeded", "failed", "aborted", "unknown"}
         /\ s # 0 /\ CellFor(W, s) /\ W.runs[s].generation = W.runs[r].generation
      THEN OwnWrite(W, s, [W.doc[c] EXCEPT !.count = W.runs[r].red.count, !.state = "idle"],
                    W.runs[s].expected)
      ELSE W

------------------------------------------------------------------------------
(* Starting a cell. *)

Generation(c) == counter[c] + 1

\* generations.begin, in one transaction: no outputs, no count, `running`; whoever
\* had the area loses it.
OpenGeneration(c, state) ==
  LET r    == Len(runs) + 1
      cell == [doc[c] EXCEPT !.outputs = << >>, !.count = 0, !.state = "running"]
      area == [cell |-> c, token |-> cell.token, generation |-> Generation(c)]
      run  == [cell |-> c, token |-> cell.token, generation |-> Generation(c), state |-> state,
               red |-> NewReducer(area), expected |-> << >>, memory |-> <<0, "running">>, lost |-> FALSE]
  IN  RememberArea([World EXCEPT !.doc[c] = cell, !.active[c] = r, !.runs = Append(@, run)], r)

CanBegin(c) ==
  /\ Len(runs) < MaxRuns /\ inflight = 0
  /\ ~disposed /\ doc[c] # Absent /\ ~doc[c].dup

\* begin, then requestExecute: the route is registered before the kernel can answer.
BeginCell(c) ==
  /\ CanBegin(c)
  /\ Becomes(OpenGeneration(c, "sent"))
  /\ counter' = [counter EXCEPT ![c] = Generation(c)]
  /\ inflight' = Len(runs) + 1
  /\ routes' = routes \union {Len(runs) + 1}
  /\ touched' = touched \ {c}
  /\ UNCHANGED <<late, disposed, tokens, bounds>>

\* requestExecute throws, as it does once the kernel is dead: the area is open and the
\* cell says `running`, but nothing was sent and nothing will close it.
BeginThrows(c) ==
  /\ CanBegin(c) /\ changes > 0
  /\ Becomes(OpenGeneration(c, "not_sent"))
  /\ counter' = [counter EXCEPT ![c] = Generation(c)]
  /\ touched' = touched \ {c}
  /\ UNCHANGED <<routes, late, inflight, disposed, tokens, bounds>>

------------------------------------------------------------------------------
(* Kernel messages and kernel events. *)

Outcome(red) == CASE red.status = "aborted" -> "aborted"
                  [] red.status = "error"   -> "failed"
                  [] OTHER                  -> "succeeded"

\* keepLateRoute: stale routes are released, then the oldest beyond the limit.
KeepLateRoute(W, r) ==
  LET fresh == Keep(late, {a \in ToSet(late) : CellFor(W, a)})
      kept  == IF Len(fresh) >= LateRouteLimit
               THEN SubSeq(fresh, Len(fresh) - LateRouteLimit + 2, Len(fresh)) ELSE fresh
  IN  late' = Append(kept, r) /\ routes' = ToSet(kept) \union {r}

\* recordOutcome, the watcher, and the route: kept for late output while the area is ours.
Settle(W, r, state, completed) ==
  LET done == FinishCompletedCells([W EXCEPT !.runs[r].state = state], r)
  IN  /\ Becomes(done)
      /\ inflight' = 0
      /\ IF completed /\ CellFor(done, r) THEN KeepLateRoute(done, r)
         ELSE UNCHANGED late /\ routes' = routes \ {r}

\* The effects of a message, in order.
Applied(r, fed) ==
  LET start == [World EXCEPT !.runs[r].red = fed.red, !.table = fed.table]
      after[n \in 0..Len(fed.effects)] ==
        IF n = 0 THEN start ELSE ApplyEffect(after[n - 1], r, fed.effects[n])
  IN  after[Len(fed.effects)]

\* One routed message: the reducer, its effects, and the fate of the route.
Consume(r, msg) ==
  \E fed \in {FeedReducer(runs[r].red, table, msg, r)} : \E W \in {Applied(r, fed)} :
    IF inflight = r /\ fed.red.completed THEN Settle(W, r, Outcome(fed.red), TRUE)
    ELSE /\ Becomes(W)
         /\ UNCHANGED inflight
         /\ IF fed.red.completed /\ ~CellFor(W, r)
            THEN routes' = routes \ {r} /\ late' = Keep(late, ToSet(late) \ {r})
            ELSE UNCHANGED <<routes, late>>

KernelOutput(r, msg) ==
  /\ r \in routes /\ messages < MaxMessages /\ Eventful
  /\ Consume(r, msg)
  /\ messages' = messages + 1
  /\ UNCHANGED <<counter, disposed, tokens, foreigns, changes, touched>>

\* The kernel answers once, announces the input before anything else and is idle once.
KernelEvidence(r, msg) ==
  /\ r \in routes
  /\ CASE msg.type = "execute_input" -> runs[r].red = NewReducer(runs[r].red.area)
       [] msg.type = "execute_reply" -> ~runs[r].red.reply
       [] msg.type = "idle"          -> ~runs[r].red.idle
  /\ Consume(r, msg)
  /\ UNCHANGED <<counter, disposed, tokens, bounds, touched>>

\* Restart, death, shutdown or release of the kernel: no area, no display, no late route.
KernelChanged ==
  /\ changes < MaxChanges /\ Eventful /\ changes' = changes + 1
  /\ LET W == [World EXCEPT !.areas = << >>, !.table = << >>]
     IN  Becomes(IF inflight = 0 THEN W
                 ELSE FinishCompletedCells([W EXCEPT !.runs[inflight].state = "unknown"], inflight))
  /\ late' = << >> /\ routes' = {} /\ inflight' = 0
  /\ UNCHANGED <<counter, disposed, tokens, messages, foreigns, touched>>

\* The channel is not connected: the evidence of the run in flight is lost.
ChannelLost ==
  /\ changes < MaxChanges /\ Eventful /\ changes' = changes + 1
  /\ inflight # 0
  /\ Settle(World, inflight, "unknown", FALSE)
  /\ UNCHANGED <<counter, disposed, tokens, messages, foreigns, touched>>

------------------------------------------------------------------------------
(* The peers of the document, and the release of the replica. *)

\* A browser's transaction on the output area or the prompt; a peer that runs the cell
\* itself clears it.
PeerValues(cell) ==
  {[cell EXCEPT !.outputs = Append(@, Foreign)],
   [cell EXCEPT !.outputs = << >>, !.count = 0, !.state = "running"],
   [cell EXCEPT !.state = "idle"]} \ {cell}

PeerWrites(c) ==
  /\ doc[c] # Absent /\ ~doc[c].dup
  /\ \E cell \in PeerValues(doc[c]) :
       LET W == ObserveOutputs([World EXCEPT !.doc[c] = cell], c) IN Becomes(W)
  /\ UNCHANGED <<counter, tokens>>

\* A reload or a browser puts another cell behind the id.
PeerReplaces(c) ==
  /\ doc[c] # Absent /\ ~doc[c].dup
  /\ tokens' = tokens + 1
  /\ Becomes(Invalidate([World EXCEPT !.doc[c] = FreshCell(tokens')], c))
  /\ UNCHANGED counter

\* The id leaves the document; its generation numbers are given out again later.
PeerDeletes(c) ==
  /\ doc[c] # Absent /\ ~doc[c].dup
  /\ Becomes(Invalidate([World EXCEPT !.doc[c] = Absent], c))
  /\ counter' = [counter EXCEPT ![c] = 0]
  /\ UNCHANGED tokens

PeerAdds(c) ==
  /\ doc[c] = Absent
  /\ tokens' = tokens + 1
  /\ Becomes([World EXCEPT !.doc[c] = FreshCell(tokens')])
  /\ UNCHANGED counter

\* A pasted copy: two cells answer to the id, until the server renames one of them.
PeerDuplicates(c) ==
  /\ doc[c] # Absent /\ ~doc[c].dup
  /\ Becomes([World EXCEPT !.doc[c].dup = TRUE])
  /\ UNCHANGED <<counter, tokens>>

ServerRenames(c) ==
  /\ doc[c] # Absent /\ doc[c].dup
  /\ \/ /\ Becomes(Invalidate([World EXCEPT !.doc[c].dup = FALSE], c))
        /\ UNCHANGED tokens
     \/ /\ tokens' = tokens + 1
        /\ Becomes(Invalidate([World EXCEPT !.doc[c] = FreshCell(tokens')], c))
  /\ UNCHANGED counter

Peer(c) ==
  /\ foreigns < MaxForeign /\ Eventful /\ foreigns' = foreigns + 1
  /\ \/ PeerWrites(c) \/ PeerReplaces(c) \/ PeerDeletes(c) \/ PeerAdds(c)
     \/ PeerDuplicates(c) \/ ServerRenames(c)
  /\ touched' = touched \union {c}
  /\ UNCHANGED <<routes, late, inflight, disposed, messages, changes>>

\* The handle is closed: every generation ends, and no transaction is observed any more.
Dispose ==
  /\ ~disposed /\ disposed' = TRUE
  /\ changes < MaxChanges /\ Eventful /\ changes' = changes + 1
  /\ Becomes([World EXCEPT !.active = [c \in Cells |-> 0]])
  /\ UNCHANGED <<counter, routes, late, inflight, tokens, messages, foreigns, touched>>

ANext ==
  \/ \E c \in Cells : BeginCell(c) \/ BeginThrows(c) \/ Peer(c)
  \/ \E r \in routes : \/ \E msg \in Outputs : KernelOutput(r, msg)
                       \/ \E msg \in Evidence : KernelEvidence(r, msg)
  \/ KernelChanged \/ ChannelLost \/ Dispose

ASpec == AInit /\ [][ANext]_avars

------------------------------------------------------------------------------
(* Properties. *)

RunIds == DOMAIN runs

\* A run that has not been told it lost its area wrote all its outputs there, and while
\* the area is still its own the document shows exactly those: clears, deferred clears,
\* updates by other runs, budgets and peers included (output-reducer.ts, applyEffect).
AreaShowsTheRun ==
  \A r \in RunIds :
    /\ runs[r].lost \/ runs[r].red.outputs = runs[r].expected
    /\ Current(r) => doc[runs[r].cell].outputs = runs[r].expected

\* Once a peer changed a cell's area, nothing but a peer or a new run writes to it: a
\* late output, an update of a display or the watcher leaves it alone (generations.ts:254).
PeerChangesStay ==
  [][\A c \in Cells : c \in touched /\ c \in touched' /\ doc'[c] # doc[c] => \E d \in Cells : Peer(d)]_avars

\* The kernel client routes messages to the run in flight and the kept late routes and
\* to nobody else, and both tables are bounded; two reachable areas never share a key,
\* although generation numbers recur (execution-registry.ts: keepLateRoute, areaKey).
RoutesAreOwned ==
  /\ routes = ToSet(late) \union ({inflight} \ {0})
  /\ Len(late) <= LateRouteLimit /\ Len(areas) <= AreaLimit
  /\ \A r, s \in ToSet(areas) : AreaOf(World, r) = AreaOf(World, s) => r = s

\* A cell whose area a settled run still owns does not go on saying `running`, whatever
\* became of the run, unless it was never sent; a completed one shows its count.
PromptEnds ==
  \A r \in RunIds : Current(r) =>
    LET cell == doc[runs[r].cell]
    IN  /\ cell.state = "running" => inflight = r \/ runs[r].state = "not_sent"
        /\ runs[r].state \in {"succeeded", "failed", "aborted"} =>
             cell.state = "idle" /\ cell.count = runs[r].red.count

\* Both: neither a route nor a running prompt outlives the run it belongs to.
RunsLeaveNothing == RoutesAreOwned /\ PromptEnds
==============================================================================
