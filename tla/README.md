# Verification of jupyter-collab-mcp

TLA+ models of the parts of jupyter-collab-mcp whose correctness depends on
order: what two tool calls, a kernel, a browser, a reconnecting socket and a
closing session do to each other between the awaits of one Node process, and
what several gateways do to each other over one store. The models are translated
from the TypeScript; TLC checks them on small instances, and TLAPS proves the
safety of the request ledger, of the execution registry and of the opens for
every instance.

## The system

An agent talks MCP to one process. The process holds live Yjs replicas of the
notebooks it opened, a kernel connection per kernel, jobs, and a ledger of the
numbered mutations it accepted. Jupyter, its kernels and the user's browser
change the same notebooks and kernels. A gateway puts many logins in front of
many such processes, its workers.

| Component | State | Operations | Interacts with | Hard behaviour | What makes it correct |
|---|---|---|---|---|---|
| Request ledger, session lock (`service/ledger.ts`, `mutex.ts`) | receipts, high-water mark, FIFO lock | preflight, begin, complete, fail, clear | every mutating tool | awaits between preflight and begin, eviction, teardown under a running call | a number takes effect at most once; answers are truthful |
| Execution registry (`kernel/execution-registry.ts`) | jobs, queue, the cell in flight, kernel epoch, channel | submit, cancel, pump, evidence, kernel and status events, dispose | kernel client, output areas, replica | cancellation, kernel change and disconnect racing the evidence | code runs in order, once, as accepted; a verdict is evidence |
| Sessions and handles (`service/session.ts`, `notebook-handle.ts`, opens in `service.ts`) | registered replicas, opens in flight, closed sessions | open, create, close, session close, shutdown | rooms, lock | five awaits in an open, any of which a close overtakes | no replica leaks; overlapping opens share one |
| Kernel hub, bindings (`service/kernel-hub.ts`, `#bind`) | shared connections, reference counts, leases | acquire, release, invalidate, dispose | execution registry, Jupyter sessions | a restart through another handle, stale leases, closes | exact references; one connection per kernel; jobs on live ones |
| Room connection, saves (`jupyter/rtc-connection.ts`, `save-requests.ts`; `notebook_save`) | connection state, two retry timers, pending saves | connect, reconnect, revalidate, save, dispose | handle, y-websocket, Contents API | late answers after dispose, retry budget, save timeouts, a file others write | terminal states are final; a lost room comes back or ends; a confirmed save was on disk |
| Output areas (`core/notebook/generations.ts`, `observer.ts`; `kernel/output-reducer.ts`, `display-registry.ts`) | the generation that owns each area, late routes, displays | begin, append, clear, update, finish, take over, invalidate | execution registry, document | browser and late messages writing one area | the document shows what the owner produced, and only the owner writes |
| Execution views (`service/execution.ts`, `outputs.ts`) | cursors, bounded snapshots | execution_get, output_read, resources | registry, agent | outputs rewritten between polls, lost answers, eviction | a follower has each output once; what is named can be read |
| Change journal, reading (`core/notebook/journal.ts`, `read.ts`, `model.ts`) | ring of events, held-back output records, page and source cursors | publish, record, flush, read, page | observer, tools | cursors at the edge of the ring, coalescing, structure changes between pages | a reader misses nothing silently |
| Edits (`core/notebook/plan.ts`, `cell-index.ts`, `execute.ts`, `merge.ts`) | identities of cells, what was observed | plan, apply, merge | document | remote changes between calls, replaced cells under one id | a batch does what was validated; nothing unseen is destroyed |
| Servers (`service/server-registry.ts`, `jupyter/hub-client.ts`, `#sessionFor`) | bindings, Hub state, cached session id | bind, status, start, open, shutdown | Hub, other clients of it | shared first binding, lost start answers | one binding; an effect is never denied |
| Presence (`service/presence.ts`, `jupyter/awareness-room.ts`) | user, documents in use, the server room | identify, open, touch, close, publish | rooms, owner lookup | renames and lookups during an open, lost sockets | others see the agent as it is now |
| MCP adapter (`mcp/server.ts`, `references.ts`) | table of short references | resolve, stage, publish, roll back | every tool | cut and unpublishable answers | a reference keeps its meaning; errors tell what was done |
| Worker registry, access sessions (`gateway/worker-registry.ts`, `access-sessions.ts`) | slots, slot locks, limits, sessions | acquire, release, renew, expire, revoke, close, initialize, DELETE | worker processes | retirements that overlap, aborts in line, failed cleanups, deadlines | limits; no lost lock; no worker without a session |
| Grants (`gateway/refresh-grants.ts`, `oauth.ts`, `crypto-store.ts`) | families of rotated tokens, claims, receipts | authorize, redeem, refresh, revoke | store, upstream | crash or retry in mid-rotation, two gateways | a token is spent once; a repeat is answered alike |
| The rest | see `PROJECT.json` | | | | |

## Modules

| Module | Models |
|---|---|
| `AtMostOnce` | what the ledger promises its callers: accepted in order, one at a time, each at most once, answered truthfully |
| `RequestLedger` | the ledger, its lock and the five mutating tools; implements `AtMostOnce` |
| `ExecutionRegistry` | jobs, the pump and the events that end a cell |
| `ReplicaOpen` | opening, creating and closing notebooks |
| `KernelLeases` | kernel bindings, the hub of shared connections, `kernel_control` |
| `RtcConnection` | one room: sockets, timers, revalidation, pending saves |
| `NotebookSave` | `notebook_save` on a room (extends `RtcConnection`) |
| `OutputReducer` | the reducer of one execution and the display table, as operators |
| `OutputAreas` | generations, routes and the peers of a document (extends `OutputReducer`) |
| `OutputStore` | the bounded store of output snapshots, as operators |
| `ExecutionViews` | an agent that follows a job (extends `OutputStore`) |
| `ChangeJournal` | the ring and its held-back records, as operators |
| `NotebookRead` | page and source cursors, as operators |
| `NotebookReader` | a caller that pages and follows (extends both) |
| `SourceMerge` | the three-way merge of lines, as operators |
| `NotebookEdits` | the planner, the executor and the guards (extends `SourceMerge`) |
| `WorkerRegistry` | the gateway's slots of worker processes |
| `AccessSessions` | HTTP sessions over workers (extends `WorkerRegistry`) |
| `ExpiringStore` | the gateway's store, as operators |
| `RefreshGrants` | the code flow and refresh rotation (extends `ExpiringStore`) |
| `ReferenceAliases` | the reference table, as operators |
| `McpAdapter` | the calls of one MCP connection (extends `ReferenceAliases`) |
| `ServerBindings` | binding, status and start of servers, the cached session id |
| `Presence` | what others see of the agent |
| `Connection_proofs` | the theorems of `ServerBindings` and `McpAdapter` |
| `ReplicaOpen_proofs` | the theorems of `ReplicaOpen` and `Presence` |
| `RequestLedger_proofs` | the theorems of `RequestLedger` and `OutputAreas` |
| `Execution_proofs` | the theorems of `ExecutionRegistry` and `ExecutionViews` |
| `Notebook_proofs` | the theorems of `NotebookSave` and `NotebookReader` |
| other `..._proofs` | the theorems of the module before the underscore |
| `MC...` | model values, and compositions that one run checks |

Modules compose by EXTENDS where one component's step contains the other's:
`NotebookSave` takes `RtcConnection`'s callbacks as its own, `AccessSessions`
opens and releases the slots of `WorkerRegistry`, `OutputAreas` feeds every
message through `OutputReducer`. Elsewhere a module sees its neighbour as an
environment, no narrower than the neighbour's model: `RequestLedger` knows of a
tool only that it awaits, succeeds or fails; `KernelLeases` and `ReplicaOpen`
model what those tools do while they hold the lock; `KernelLeases` sees a job as
unfinished or not, `ExecutionRegistry` models its life up to the evidence and
`OutputAreas` what it writes; `ExecutionViews` reads outputs that change at will.

### RequestLedger and AtMostOnce

Callers send numbered requests; `Issue` appends a call to the promise chain
(`queue`). The head runs `preflight` (`Decision`), suspends where the tool
awaits, begins (evicting the oldest completed receipt at the limit), runs, and
completes or fails its receipt. A session may be torn down at any point, which
clears the receipts. Both contexts of the code are covered: a library session has
its own ledger, and `Teardown` is its close; an MCP connection has one ledger and
one lock for all its server bindings, `Teardown` is the shutdown of the service,
and closing a binding, which keeps the receipts, is `CloseNotebook`. `log` is a history variable, the refinement mapping to
`AtMostOnce` is the identity on `log`, `asked` and `told`. Payloads stand for
what is digested; `Oversized` ones break a size budget.

### ExecutionRegistry

One kernel's registry. `Submit`, `Cancel`, `Dispose`, `KernelChanged` and
`StatusChanged` are the calls and events; `Pump` is the loop, one action per
stretch between two awaits; `Hear` is a reply or an idle status arriving;
`Watch` is the service's watcher, which turns the prompt of an unknown cell off.
Peers edit, delete and take over cells. What they write is the business of
`OutputAreas`.

### ReplicaOpen

`NotebookOpen` joins an open of the same path or starts `#openHandle`, whose
awaits are the values of `pc`: the file's stat, the collaboration session, the
room, the baseline read. `NotebookCreate` waits for the session lock first and
makes the file. Creating the untitled file and renaming it is one action, since
nothing else reads the intermediate name. `NotebookClose`, `SessionClose` and
the two steps of shutdown dispose what is registered. An open of a path that is
already open changes nothing and is no action.

### KernelLeases

The hub's functions map the leases (`binding`, `client`, `hub`) to the leases.
`Call` queues on the session lock; `GotLock`, `ExecutionBinds`, `ControlLooks`,
`ControlAccepted`, `KernelControl` and `StatusRead` are what a call does between
its awaits; `NotebookClose` takes no lock, as in the code. Handles are open at
the start, and a closed handle never comes back (its id is a fresh UUID). A
request to Jupyter takes effect in the step that answers it; a change made
earlier is a browser's, which the model has. Interrupting a kernel changes none
of this state and is left out.

### WorkerRegistry

A task is a request or a background retirement of one slot. Continuations of
settled promises are in `ready`, first in, first out; I/O and new requests come
only when it is empty, which is how the event loop orders them and matters to
what the slot lock excludes. Credentials are left out: a renewal may fail.

### AccessSessions

A fetch is a request of the HTTP handler: it resolves the identity, prunes expired
sessions, opens one for an initialize, or calls the session it names; its worker
comes from `WorkerRegistry`'s acquire, the same request's task. A request that prunes
waits for the removals it started itself; the worker of a session that a timer or
another request removed may still be closing when it goes on. Deadlines are events. The gateway is deployed in two ways, and `MCAccessSessions` has both:
grants that hold workers directly (`Grants`), and sessions that do (`Transport`).

### RtcConnection and NotebookSave

One action is one callback: a provider event, a timer, or the answer of an awaited
call. y-websocket is external: `ws`, `shouldConnect`, `providerSynced` are its
state, and it arms a retry timer of its own. `NotebookSave` adds the replica's and
the file's content: an edit, a write by somebody else, or the server's save changes
them, and a Contents read is served at one moment and answered at a later one.

### OutputReducer and OutputAreas

`FeedReducer` takes a reducer, the display table and a routed message to the next
reducer and table and the effects on areas; an output is its type and size.
`KernelOutput` and `KernelEvidence` are one kernel message each with all it writes;
`BeginCell`, the lifecycle events and one transaction of a peer are the other actions. `expected` is a
history variable: what the run's messages call for without the code's bookkeeping.
The loops of the code, over the displays of an id and over the effects of a message,
are recursive functions on the numbers up to the length of the list.

### OutputStore and ExecutionViews

The agent asks for a view from its cursor within a byte budget; the answer may be
lost. It interns the outputs it mentions, evicting the oldest snapshots that are
not part of the answer, and reads the rest in parts that end on code points. The
resources of MCP are read from the same store.

An output is a token, and its size is where its code points end. The key of a snapshot
names no execution: an output that the job and `notebook_read` both give away is one
snapshot, with one output id. The digest in it is taken of the output as the document
gives it back; a document that gave back the fields in another order would make
another key, which the model does not have. Ids grow with the
order in which snapshots are retained, so that the loops of `#commit` and `#evictFor`
over maps in insertion order have closed forms over sets: what is evicted is what
the snapshots older than it would not make room for (`Evicted`), and what is trimmed is
decided by what was trimmed before it. `Total` counts bytes as a set of pairs, which
makes sums over disjoint sets a fact about cardinalities.

### ChangeJournal, NotebookRead, NotebookReader

A journal is one record and each method an operator on it, so that the observer
can thread it through a transaction; one action of `NotebookReader` is a
transaction on the document or a call of the caller. A revision is a digest of
content and is the content here. Times are what is left of them: the coalescing
window counts down. A source is its revision and the bytes at which its code points
begin and end (`Boundaries`). A loop that carries a journal or a page along is a
function of the number of its steps, because theorems can follow such a function and
no fold.

### SourceMerge and NotebookEdits

`PlanOne` simulates one operation, `PlanOperations` a batch, `Execute` runs its
resolved steps on the live document. The history of observations is bounded as in
the code. `wrongs` records a batch whose execution left another document than its
plan (`diverges`), an operation that destroyed what the caller had not seen, a merge
that lost a line of others, or a refusal of what was up to date; each is judged
from the document, not from the code's own guards.

### ExpiringStore and RefreshGrants

The store has take and compare-and-swap; a version never comes back, as every
write is encrypted anew. A request is a process that may vanish at any await (its
gateway crashes); an answer may be lost and any request repeated. The upstream
refuses, rotates or keeps its token.

### ReferenceAliases and McpAdapter

A call resolves its references when it starts, waits for the service, and answers
in one step: the result is staged, cut until it fits, and published or rolled
back. A batch is a list of operations, each planned after what the ones before it do,
and several of them may be on one cell, by one reference or by several. It is refused
for the first that fails, and the error may name the reference the agent sent: because
the cell is gone, was replaced, has changed, is not a code cell, or because the batch
itself replaced the same lines before. What lines an edit touches is a choice: a stale
source may merge or not. A source whose base is forgotten between the two plannings of
a batch is refused after it was accepted. The size of a response is a choice, and so is the order in which what it
observes for the first time is numbered: rows that are no page are sets.

### ServerBindings and Presence

A call binds the server once, asks its status, starts it on the Hub (`Post`, which
may be unanswered, and a read-back), or opens a notebook with the cached
collaboration session. `Presence` has two sides, what the code publishes and what
a server still shows (`visible`), which it forgets by its own timeout after a socket
is lost.

## Runs

| Run | What it shows | Bounds |
|---|---|---|
| `ledger` | no second effect, no active receipt without its call, exact eviction (`LedgerInvariant`); implements `AtMostOnce` (`Promise`); every call is answered | 2 callers, 4 numbers, one of them past the range of 3; 2 receipts, so that 3 accepted numbers evict; 3 payloads |
| `execution` | one cell in flight, no lost wake-up, ended jobs account for their cells (`RegistryInvariant`); order; what is sent was accepted; verdicts are evidence; runs end, on the screen too | 2 jobs on a shared cell, or 1 with a peer's edit of each cell and at most two kinds of disturbance |
| `replica_open` | no leak, nothing registered late, no poisoned path (`ReplicasInvariant`); opens coalesce; every call returns | 2 callers, one of which creates, 2 paths, 3 replicas, one move of a file |
| `kernel_leases` | exact references, one connection per kernel; one job per handle, on a live connection; a dropped connection stays dropped, and no job, earlier or later, is on it | 2 callers, 2 sessions on one notebook, 2 kernels, 2 connections |
| `notebook_save` | one way forward, saves follow their socket (`RoomInvariant`); what is over stays over; what a save confirms was on disk; a lost room comes back or ends | 2 lost sockets, 1 retry of close code 4500, 1 rejected revalidation, 2 saves, an edit and a foreign write |
| `output_areas` | areas show their run; no route or prompt outlives it; peers' changes stay; a follower is current; snapshots can be read and put together | 2 cells, 2 runs, 3 messages, a transaction of a peer over 2 cells, areas and routes at their limits; 3 outputs, 3 answers, room for 2 snapshots |
| `notebook` | held-back records are due; nothing is missed; pages follow the document; execution matches the plan; guards are exact; merges keep others' lines | a ring of 2 events, a window of 2, 5 events; 2 or 3 cells; 4 edits, batches of 2 operations |
| `gateway_workers` | the slot lock is neither lost nor shared and references are exact; sessions, workers and limits agree; leases are permitted; requests and lapsed sessions end | 2 logins of one principal, 3 requests, one worker at a time, 2 slots |
| `gateway_grants` | one answer per refresh, no upstream token spent twice; grants end when they should and for good | 2 requests at once, 5 ever sent, time to 5: a receipt lasts 2, a claim 3, a grant 6 |
| `connection` | references keep their meaning and none leaks; errors are true; one binding, no effect denied; presence is true | 3 calls, 2 cells, batches of 2, 1 edit of another client, 2 handles, a table of 3; 2 callers, 4 calls, 2 acts of other clients; 3 files at 2 paths, 2 renames, 2 rooms |

`notebook`, `output_areas`, `gateway_workers` and `connection` start in one of two
or three parts that share nothing the properties tell apart, or, for
`gateway_workers`, in one of two deployments; `MC...` says so with a variable that
never changes.

Two callers suffice for a race of two calls; a third adds only a bystander, who
queues behind them on a FIFO lock or joins the open of one. Two connections to a
kernel are enough for a stale lease of one to meet its replacement. Three accepted
numbers over two receipts, three events over a ring of two, and three snapshots over
room for two are the least that tells the oldest from the newest. One edit between
plan and observation makes a conflict; a second makes it go away again, which is
what equality of contents could hide. Every bound is a constant (`Max...`), named
where it is declared: the action that would pass it is disabled. Batches of two
operations come last in `notebook`, and nothing looks at what they leave; in
`connection` two edits are in one batch only in the last call, which may be refused after
whatever the other two and a peer did. One edit of a peer suffices there, for an
execution and the calls themselves change the cells too. Symmetry
(callers, cells, requests) is used in `kernel_leases`, `output_areas` and
`gateway_grants`, which check no liveness. Deadlock is not checked: each system may
rest, after a shutdown, or when nobody calls.

### Where the code and its documents disagree

Two runs must find their property violated.

| Run | What happens | What is written |
|---|---|---|
| `worker_orphan` | a late retirement of an old slot unregisters its successor; a second worker starts for the login | `gateway/DESIGN.md:71` |
| `stale_session` | the session id of a restarted server is cached for the life of the process and offered again after a room rejected it | `server-registry.ts:14`, `:210` |

Others were met and have no run. The models take the steps; the properties are
worded so as not to claim the contrary, and say what does hold.

- Later cells are sent while the room is lost (`SPEC.md:801`); a send that throws
  leaves the area of a cell that was not sent running, which `PromptEnds` excepts
  (`docs/REVIEW-RESOLUTION.md:30`); a cell sent into a connection that has given up
  waits for no event, the exception of `EveryJobEnds` (`execution-registry.ts:188`).
- Concurrent opens exceed the replica budget (`SPEC.md:1137`); an open during a
  creation builds a second replica of the file (`SPEC.md:135`).
- A call that waits while its handle closes leases a kernel connection that nobody
  releases (`SPEC.md:188`); a `kernel_control` that waited for its lock is accepted
  after shutdown (`SPEC.md:132`).
- A page of cells that continues one long source and then cuts another counts the
  bytes of the first into the cursor of the second, whose beginning is then skipped
  or refused (`read.ts:333`, `mcp/schemas.ts:585`, `SPEC.md:531`). `NotebookRead`
  computes that cursor; the run has one source longer than a page, and
  `PagesFollowTheDocument` speaks of cells and revisions.
- Planning remembers and evicts observations, so that a batch `notebook_apply` has
  planned (`service.ts:964`) and accepted may be refused by the second planning
  (`model.ts:380`), after its receipt exists; `service.ts:955` calls the planner pure,
  and `SPEC.md` has every expected error leave the number unused. `Apply` plans twice;
  `GuardsAreExact` says that an operation that is up to date meets no refusal.
- Two `notebook_save` calls of one handle move each other's baseline, so that an
  external change may go unreported, or be reported where nothing external changed
  (`service.ts:1361`, `:1377`, `SPEC.md:1592`). The model marks a call whose baseline
  was moved (`sawMoved`), and `AnswersAreTrue` excepts it; the run has one save at a
  time, the proof any number.
- A finished cell's count and its idle state are two transactions
  (`output-reducer.ts:30`, `docs/SERVICE-DESIGN.md:304`); `execution_get` still waits
  when its outputs were truncated.
- An operation on a cell that an earlier operation of its batch deletes is refused
  with an error that names the agent's reference and says that it "no longer
  identifies a live cell" (`server.ts:249`), although the batch changed nothing and the
  cell is there (`plan.ts:211`). `BlameIsDeserved` excepts it.
- The reference of a sent cell is answered under a name the reference table does not
  observe (`server.ts:1177`, `references.ts:532`; `SPEC.md:1553`).
- A `server_start` that was applied and then fails while it polls answers with the
  error of the poll, side effects none (`service.ts:476`, `SPEC.md:1047`);
  `StartsAreTold` is about the start itself.
- Two notebooks at one path, after the file was recreated, share an entry of the
  presence: the first close takes it away (`presence.ts:217`). `shared` excepts it.

## Fairness

Fairness stands for a few things only: the event loop runs the continuations of
settled promises; timers fire; a request to Jupyter is answered, fails or times out
(a room has its open timeout, a fetch the header timeout of Node's client); a
kernel that is reached answers. It is weak, except that `gateway_workers` assumes
strong fairness for the ends of starting and closing a worker and for the timers of
sessions: their actions are enabled only when the event loop is idle, which other
requests may interrupt again and again. Callers, browsers, failures, closes, crashes
and shutdowns have no fairness. In `execution` a job may stay unfinished while the
channel is given up: nothing then answers.

## Proofs

`RequestLedger_proofs` proves of `RequestLedger`, for all callers, numbers, payloads, budgets and
limits that satisfy `LedgerAssumption`:

| Theorem | Says |
|---|---|
| `Typing` | `Spec => []TypeOK` |
| `NoEffectTwice` | `Spec => []EffectAtMostOnce` |
| `ActiveOnlyWhileRunning` | `Spec => []ActiveIsTheHolders` |
| `EvictsOldestFirst` | `Spec => []RetainsTheNewest` |
| `ExpiredMeansGone` | `Spec => ExpiredOnlyIfGone` |
| `RefusingIsFree` | `Spec => RefusalSpendsNothing` |
| `LedgerKeepsPromise` | `Spec => Promise`, the refinement of `AtMostOnce` |
| `LedgerIsSound` | `Spec => []LedgerInvariant`, the first four together |

The inductive invariant `IInv` adds to the types: only the head of the lock is
past the lock (`LockInv`); a running call is the newest entry of the log and
pending (`RunningInv`); the log is gapless, and what is pending in it is being
run by the holder (`LogInv`); a receipt tells what the log tells (`ReceiptInv`).
None of the safety properties is inductive alone: that a number runs once needs
that accepted numbers are a gapless prefix, which needs that two calls are never
both past the lock. The refinement also needs `CallInv`, that a call that has
not been told its answer is in the queue. There is one lemma per action. The two
action properties go through `WhoIsAnswered`: a step that answers a call is a
refusal, a known answer or the end of that call's own operation, and only the
second can say EXPIRED, which by `NothingPending` is never about a running call.

Of `OutputAreas` and the reducer it feeds it proves, for any cells, display ids and
sizes, any numbers of runs, messages, kernel changes and transactions of peers, and
all budgets and limits that satisfy `ReducerAssumption` and `AreasAssumption`:

| Theorem | Says |
|---|---|
| `AreasShowRuns` | `ASpec => []AreaShowsTheRun` |
| `NothingIsLeft` | `ASpec => []RunsLeaveNothing` |
| `PeersAreLeftAlone` | `ASpec => PeerChangesStay` |

`AInv` is about a world, the part of the state that an effect can change. At every
moment between two writes (`Base`), the sink that is current for a cell is one of its
own (`SinksSound`), no two runs have one area key (`KeysSound`), and the document shows
what the run that owns an area remembers of it (`Remembered`). Between two messages the
reducer of a run that was told of no loss holds what it wrote (`Recorded`), a completed
record has its reply and its idle status (`Settled`), prompts end (`Prompts`), tokens
and generation numbers given out next are new (`NumbersSound`), the routes are those of
the run in flight and the late ones (`RoutesSound`), and nobody owns the area of a cell
that a peer touched (`TouchedSound`). `Recorded` is not inductive effect by effect: the reducer has
done everything before the first effect is applied. So `Fed` says of the reducer that
the effects it emits, followed one after the other (`Follows`, `Trail`), lead from the
outputs it had to those it has; there is a lemma for each handler up to `FeedFed`. And
`Effective` says of the areas that after n effects the run has lost its area or stands
where the trail does: `WriteFacts` and `WriteKeeps` show it for one transaction of a sink,
`ApplyKeeps` for one effect, whoever shows the display it updates, `EffectsKeep` for all of
them. `Kept` and `Moved` say what they leave alone, and carry the rest of `AInv` through
(`MovedInv`); then there is a lemma for each action. That a new run takes an area under a key nobody
ever had (`OpenInv`) needs `NumbersSound`, since deleting a cell resets the
counter of a cell: a token is never given out twice. The recursive functions exist by `Recursion`, and `Inductive` is
induction for a set of values in place of a predicate, both from the least
counterexample (`LeastOf`).

`ReplicaOpen_proofs` proves, for all callers, sessions, paths (finitely many) and
bounds that satisfy `ConstantsAssumption`:

| Theorem | Says |
|---|---|
| `Typing` | `Spec => []TypeOK` |
| `NoReplicaLeaks` | `Spec => []ReplicasAreOwned` |
| `NoneRegisteredLate` | `Spec => []RegisteredIsLive` |
| `NoPoisonedPath` | `Spec => []OpeningIsRunning` |
| `ConcurrentOpensCoalesce` | `Spec => []OpensCoalesce` |
| `NoLateCreation` | `Spec => NothingCreatedAfterClose` |
| `ReplicasAreSound` | `Spec => []ReplicasInvariant`, the first, second, third and fourth together |

Its `IInv` adds what a call in `#openHandle` holds (`BuildingInv`): a live replica
of its own session and path that is registered nowhere and, when an open built
it, stands in `session.opening` unless the session was closed. Without it an
open that settles could drop the replica of another one (`NotShared`), and a
second open could start beside the first. A call in no such state holds nothing (`EmptyHands`), and only
joined calls have a leader (`FollowersJoined`). `BookkeepingIInv`, `DiscardIInv`,
`DropIInv`, `RegisterIInv` and `BuildIInv` cover the five things a step can do to
the replicas; each action is one or two of them. For `OpensCoalesce` the step that
matters is `BuildIInv`: the older replica of that file is registered, and then
`findByFileId` answers it, or is still being built by the call that
`session.opening` names, and then this one would have joined.

Of `Presence` it proves `PresenceHolds`, `PSpec => []PresenceIsTrue`, for any
bindings, files, paths and names and bounds that are numbers. Its `PIInv` says that
no two presences have one room and that a room nobody left has one of them
(`RoomsAreHeld`), which is how `RoomsCounted` gets equal numbers of both: a bijection.
It says what each room shows (`RoomSound`), that the documents of a presence are each
there once, only once it was made and none after the end (`PresenceSound`), and that
a path of two open handles is in `shared` (`SharedKnown`), without which the first
close would take away a document that nothing excuses. A step either publishes
states in rooms that stay held (`Publication`), or leaves rooms (`Leaving`).
`Refreshed` counts on the user being the owner's and the context's of now, hence
`OneUser` is inductive only together with `UserOnceOpen`, which takes the user of the
moment the replica is registered.

`Execution_proofs` proves of `ExecutionRegistry`, for all jobs, cells, lists of targets and bounds
that satisfy `ConstantsAssumption`:

| Theorem | Says |
|---|---|
| `Typing` | `Spec => []TypeOK` |
| `OneCellInFlight` | `Spec => []SentIsInFlight` |
| `CellsRunInOrder` | `Spec => []InOrder` |
| `NoLostWakeUp` | `Spec => []QueueIsServed` |
| `EndedAccountsForCells` | `Spec => []EndedIsDecided` |
| `EndedStaysEnded` | `Spec => EndedIsFinal` |
| `SendsAccepted` | `Spec => SendsWhatWasAccepted` |
| `VerdictNeedsEvidence` | `Spec => VerdictIsEvidence` |
| `RegistryIsSound` | `Spec => []RegistryInvariant` |

Its `IInv` says where the pump may stand (`PumpInv`), that the queue is the set of
queued jobs without repetition (`QueueInv`), that the records of a waiting job are
untouched (`WaitingInv`), and how the records of the running job stand around the
current cell (`RunningInv`: vouched for before it, unsent after it). `InOrder` and
`SentIsInFlight` need `RunningInv`, for they say nothing of the cells behind the
current one that no evidence has come for; `EndedIsDecided` after a cancellation
needs `WaitingInv`, for a queued job is called cancelled without a look at its
records. `EndJobIInv` covers every way a job ends, `AtHandIInv` the steps that
write the record at hand, `EnterIInv` the move to the next cell or job. By
`StepKinds` a step marks unsent records and leaves ended jobs alone, sends the cell
at hand, or judges it; the three action properties follow case by case.

The same module proves of `ExecutionViews`, with any number of cells, outputs of any
size and any byte budgets (`ViewsAssumption`):

| Theorem | Says |
|---|---|
| `ViewsHold` | `ESpec => []ViewsInv` |
| `FollowersAreCurrent` | `ESpec => []FollowerIsCurrent` |
| `SnapshotsCanBeRead` | `ESpec => []SnapshotsAreReadable` |

`FollowerIsCurrent` says nothing of the cursor, so `ViewsInv` adds that the cursor says
how much of a cell the agent has, and that a version the cursor still finds is of the
very outputs the last answer was built from (`CursorInv`): an answer that arrives then
goes on where the agent was (`Arrives`), and a kernel that changes a cell takes a new
version. That an answer was lost needs no case, for the cursor in it was lost too.
`StoreInv` says that ids are distinct and below the next one, that the accounts are
right and that every key leads to its own snapshot. Building an answer keeps a list of
one snapshot for each key, retained or new (`Pending`), through interning, trimming and
replacing; what is new is younger than the store and in the order of the keys
(`PlacesDiffer`), so no id is given twice. `EvictionMakesRoom` is where eviction is shown
to suffice: if the answer alone fits, the oldest snapshot that stays is the one for which
everything older was enough. `ReadingInv` adds that an id is never given to another
snapshot, so that the parts of one are not continued with bytes of the next. Minima of
sets of numbers come from `WFMin`, the well-foundedness of `<` on the naturals, and
maxima of finite ones from the size of a smallest set that has none (`Greatest`).

`KernelLeases_proofs` proves, for all calls, sessions and paths, finitely many
handles and any numbers of kernels and connections:

| Theorem | Says |
|---|---|
| `LeasesAreSound` | `Spec => []LeasesInvariant` |
| `JobsAreSound` | `Spec => []JobsInvariant` |
| `RestartDrops` | `Spec => RestartDropsConnection`: what is dropped, by a restart, a close or the watch, stays dropped, without jobs |

Its `IInv` has a part for the leases (`Sound`: references are the lessees, a live
connection has some and is the hub's, the hub has only live ones of the right
kernel), one for the lock (`HoldInv`: a call past it has it) and one for the calls
that found their handle idle (`IdleInv`: it still is, for only the holder submits).
The hub's operations are functions from leases to leases, so their lemmas speak of
any leases: by `ClosingSound` whatever takes connections away and leaves exact
references keeps `Sound`; `Released` and `Invalidated` do that, `Acquired` adds one,
and `BoundSound` combines them into `#bind`, after which the handle's connection is
live. `Later` orders leases, a connection that went stays away, and carries
`JobInv` through every step (`BecomeKeeps`). Jobs are on live connections only
because `Become` ends the others in the step that drops a connection, and a handle
has one job only by `IdleInv`, which needs that two calls of one handle never hold
the lock together. Releasing several leases is written in closed form, not as a
fold, which is what lets the prover compute it.

`Connection_proofs` proves `ServersAreSound`, `SSpec => []ServersInvariant`, for
all callers and options and any bounds that are numbers, of one server. It says nothing
of the cached session id, which `stale_session` shows to go stale. Its `IInv` says where a
call may stand and that it has begun nothing while it could still be told that
nothing happened (`CallsInv`), that whoever waits for a binding waits for an attempt
under way that has not failed (`BindingInv`), that the only implicit session is that
of the binding (`SessionsInv`), and that no answer was wrong so far (`FaultsInv`).
`OneBinding` follows from `SessionsInv`, which needs `BindingInv` when an attempt
ends, and `StartsAreTold` needs `CallsInv` where a start fails.

It also proves, about `McpAdapter` with any number of calls, finitely many cells and
any size of the table, if executions are among what has an alias (`ConnectionBounds`):

| Theorem | Says |
|---|---|
| `ReferencesKeepTheirMeaning` | `Spec => []TableInvariant` |
| `ErrorsTellTheTruth` | `Spec => []ErrorsAreTrue` |

Their `AdapterInv` says that the two directions of the table agree and its numbers
are below the next one (`TableOk`), that what the agent was shown has one meaning per
number and is in the table (but for a `sent_cell_ref`, which alone does not keep a
reference there), and that the table holds nothing else and no more than its budget
(`SeenOk`, `Connected`), that an execution the agent was shown has begun
(`JobsShown`), and what each call has still to tell (`CallsOk`): one that waits has no effect yet and names cells by what
its references mean (`Asked`, for every operation of its batch), one whose execution was accepted waits for its view, and one
that is done has told its effect. The budget alone is not inductive, for a table
that is full while a response is staged shrinks again only because what is kept of
it was published: `StageGrows` says that staging adds references and disturbs none,
`CommitKeeps` that publishing or taking back leaves a table that agrees with what
was shown before and now. `ErrorOutcome` and `BuiltOutcome` are the two ways a call
ends, and `AnswerStep` reduces a step to its outcome, so that each handler owes only
that its rows are well formed and its effect is told. `BlameStep` holds because a
reference is named only if it is the only one for the cell, however many operations of
the batch are on it: the target that failed is then what that very reference means, and
what the refusal says of the target (`IsSo`) it says of the reference. `RefuseStep`
shows for each of the four refusals that it is so. Numbers are taken as a bijection onto the next
ones, in no particular order, in place of a fold that the prover could not follow.

`WorkerRegistry_proofs` proves, for finitely many requests, any logins or sessions,
limits and number of slots, if no request is named like a retirement
(`TasksAssumption`), about the registry alone (`Spec`) and under the sessions of
`AccessSessions` (`ASSpec`):

| Theorem | Says |
|---|---|
| `SlotsAreSound` | `Spec => []SlotsInvariant` |
| `LeasesArePermitted` | `Spec => LeaseIsPermitted` |
| `SessionsKeepSlotsSound` | `ASSpec => []SlotsInvariant` |
| `SessionLeasesArePermitted` | `ASSpec => LeaseIsPermitted` |
| `SessionsInUseStay` | `ASSpec => InUseIsNotIdle`, the safety half of `SessionsEndInTime` |
| `SessionsHoldTheirWorkers` | `~ClosingMayFail /\ ASSpec => []SessionsInvariant` |
| `OneWorkerPerSession` | `~ClosingMayFail /\ ASSpec => []OneWorkerPerLogin` |

`OneHolder` alone is not inductive: that one task holds a lock
depends on who waits and on what is queued to go on. So `IInv` says where a task may
stand (`PlacesInv`), that the line of a slot has each waiter once and only tasks
that asked for its lock (`LinesInv`), that what is queued to go on is queued once and
waits nowhere, and that a request that asked for a lock is queued or waits
(`ReadyInv`), and only then that a held lock has one holder (`LocksInv`); `RefsInv`
counts the references. `Step` is what a step of one task on one slot has in common,
and `StepKeeps` reduces the invariant after it to the lock of that slot; `LetsGo`,
`Takes`, `PassesBy`, `GoesOn` and `GivesUp` are the five things a task does with a
lock, and each action is one of them. Only `RetireAll` and `Shutdown` move several
tasks at once: `StartsKeep` is about both.

A shutdown may start the retirement of a slot whose session ends with it only because
no earlier end of that session has started one. So `BInv` adds to `IInv` that a
retirement for an end is of a session that is over (`RetireesInv`), and that a request
that opens a session has it to itself until it is open (`FetchInv`). Under logins a
key may be retired again and again; a session id is never used again.

`SInv` adds `WorkersInv`: a worker and the requests for it are found under their key; a
retirement is for a barred key; a slot whose key is still good retires only in the
hands of a request that will close its worker; and somebody is about to close the
worker of what is over (`SlotOk`). Every step of one task is quiet, or a worker starts,
or the task quits its slot, or a request joins one (`Quiet`, `Starts`, `Quits`,
`Joins`), and `StepOk` covers the four; `MarksOk` covers the retirements that start
together. Limits hold because each worker of a session is found under a key of its own
(`WorkersWithin`). All of it needs that a close succeeds (`~ClosingMayFail`), as the
run has it for sessions: after a close that fails a retirement that comes late
unregisters a successor, which is what `worker_orphan` shows of logins, and why
`OneWorkerPerLogin` is not to be proved of `Spec`.

`Notebook_proofs` holds what is proved of `NotebookSave` and of `NotebookReader`. Of
saves, for any number at once, any retry budget and any numbers of closes, if
`Unknown` and `None` are no contents (`ContentsAssumption`):

| Theorem | Says |
|---|---|
| `RoomHolds` | `Spec => []RoomInvariant` |
| `AnswersHold` | `Spec => []AnswersAreTrue` |
| `OverHolds` | `Spec => OverIsFinal` |

`OneWayForward` counts the ways a lost room can come back, and is not inductive: a
timer that fires must find the others gone. So `RoomInv` says for each state which
of the socket, the two retry timers and the revalidation are there (`OneWay`), that a
connection that is over has none (`Ended`), and that nothing is stored before it has
started (`NotStarted`). The handlers end in few ways: they fail (`FailEnds`),
reconnect, settle the saves of a socket, or touch nothing of the room, and a lemma
about each serves all of them. `CallInv` is about the saves: the observation is what
is on disk unless the file changed since (`ObservationIsCurrent`), a read on its way
fits the observation it is compared with (`ReadsAreCurrent`), and what a read-back
returns was held by the file after the save was answered (`ReadBacksWereHeld`).
`OneCallMoves` reduces a step of one save to that save. `Recovers` is a liveness
property and stays with TLC.

Of reading, for every document, every set of ids (an id may be given to two cells in
turn, or to two at once), every number of transactions, and every size of the ring,
the window and the pages but zero (`JournalBounds`, `ReadBounds`, `ReaderBounds`):

| Theorem | Says |
|---|---|
| `JournalHolds` | `RSpec => []JournalInvariant` |
| `NothingIsMissed` | `RSpec => []NothingMissed` |
| `PagesFollow` | `RSpec => PagesFollowTheDocument` |

A caller knows what it was last told about an id, and that may be old: it is right only
once it has polled. So `NothingMissed`, which asks whether a poll now would leave it
right, becomes inductive as a statement about the ring. Of the events after the
caller's cursor that concern an id, the last one says what the document has, or there
is none and the caller knows it already, or the ring has dropped events after the
cursor and the next poll is told so (`Informed`, `Ordered`, `Aware`; together `Right`).
`CallerSound` says this of a caller that pages or follows, `JournalSound` that the ring
is numbered without gaps up to `last`, that the timer is armed for what is held back
and that what is held back is of cells that are there, and `DocumentSound` that the
index has the document as it is. A transaction goes through the journal in stages,
and in between the caller is right but for what the stages to come will publish
(`Unheard`): `RebuildTold`, `EditTold` and `ContentTold` are the stages, and
`OnCellsTold` puts them together. `HearIs` says what a poll makes of the events it
receives, and that a caller who then starts over or goes on is right again.

Pages are about one structure. `PagesSound` adds that what was given reaches exactly up
to the cursor, and that a source that was cut was given in one revision so far, which is
the cursor's (`ReadUpto`). `CellsPageIs` says what one page holds, by induction on the
number of cells looked at, and `PageGoesOn` that it continues what was given before. No
theorem says that the bytes of a source continue, which they do not always (see above).

`RefreshGrants_proofs` proves, for any number of requests at once, through any number
of gateways, and for all times to live (`TimesAssumption`) that leave a margin
(`MarginsAssumption`):

| Theorem | Says |
|---|---|
| `TypesHold` | `Spec => []Types` |
| `GrantsHold` | `Spec => []GrantsInvariant` |
| `RevokedStaysOver` | `Spec => [][RevokedIsOver]_vars` |
| `GrantsEndAsTheyShould` | `Spec => GrantsEndRightly` |

The store forgets by its clock and any request may stop anywhere, so its `IInv`
depends on no order of events, only on what versions say: what a request makes of a
family still fits it if the version it read is still there (`ReadsFit`), and one
request at a time carries a family from its claim to its commit (`Alone`). From the
claim on, the family in the store is refreshing, or revoked, under the digest that the
request presented, hence a second claim fails. That an upstream token is spent once
also needs that no two grants share a token or a digest, in the store or on the way
there (`Owned`), and that what may still be sent was not (`Unspent`); that answers
agree needs that nothing answered is a digest that can still be exchanged, and that
the receipt repeats the answer (`Answered`). `Taken`, `Unanswered` and `CodesOwn` say
the same of the login and its code, and `LateIsLate` that a bearer presented late
finds its grant revoked. Most steps leave the families alone and are covered by
`FamiliesKept`, `LoginKept`, `LateKept` and, all three together, `QuietStep`; what
remains is `CreateStep`, `UpstreamAnswers` and `WriteKeeps`, the compare-and-swap that
claim, commit and revocation have in common.

The other half of `GrantsEndRightly`, `RevocationIsJustified`, is about time, and has an
invariant of its own over `IInv`: `JInv`. What is recorded once is not recorded
otherwise (`Known`): the record of a refresh token names one grant and one generation,
which the family agrees with, and a grant never expires at another time. And as long as
nothing has happened to excuse a revocation, everybody is in time (`Timely`): the
requests under way present one token (`OneToken`); that token is the current one of its
family, or the one just exchanged with a receipt that lasts until the next poll, or the
grant is revoked or about to expire (`OnTime`); and a family that is refreshing is in
the hands of a request that still has time (`Attended`). So a look finds the token due
or the grant over, who carries a family finds its claim still standing, and only what
is over is revoked. A tick eats into every deadline: `TickOnTime` is where the margins
are spent, `WriteStep` is the rest of the argument about compare-and-swap, and
`GrowStep` and `ElsewhereStep` cover all that write no family that was there. A receipt and an
assertion of two seconds and a refresh of one are what the proof needs. Ten and 45 are in
the code; how long an assertion lasts is up to the upstream. Were it shorter, a client
that repeats a refresh in time could be taken for a replay.

The rest is only model-checked. Liveness and ENABLED are beyond the prover; so is
what a fold computes for every input, since the theorems about folds and recursion
take an operator as a parameter. `NotebookEdits` and `SourceMerge` are written with
folds, and with them go `ExecutionMatchesPlan`, `GuardsAreExact` and
`ChangesOfOthersSurvive`. A function on numbers is within reach where its values have a
set to range over: `Inductive` in `Notebook_proofs` is induction for a sequence of such
sets, from a well-founded order and with no operator parameter. No module uses a
RECURSIVE operator.

## Not modelled

Wording, schemas, MIME handling, redaction, field conversion, encodings and sockets
are left out: no property here is about them. Without state that two actors share,
and so without a model: the REST client and the listings of notebooks, kernels and
servers; the command lines and configuration; the discovery of servers and sources
of credentials (their renewal is a step that may fail); the start of worker
processes and the proxy between them; cryptography, of which only the fresh version
of every write matters. Left out although they keep state: the bounded sets of
closed ids that make a second close idempotent, the sampling of auth expiry on
sockets, and client authentication, PKCE and scopes of the gateway. Digests are
equality of contents, so a collision is out of reach, and integers stay far from
2^53.

What remains worth proving is the planner and the executor: that `Execute` does to the
document what `PlanOperations` simulated, which needs both written as functions of
the number of operations, as the journal is.
