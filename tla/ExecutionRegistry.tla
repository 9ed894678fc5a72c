-------------------------- MODULE ExecutionRegistry --------------------------
(***************************************************************************)
(* The sequential job runner of one kernel connection                      *)
(* (kernel/execution-registry.ts), together with what decides its fate:    *)
(* the kernel client's change and status events, the cells of the shared   *)
(* notebook, and the service's watcher that puts out the running prompt.   *)
(*                                                                         *)
(* The pump runs in pieces between awaits.  pump.at names the piece that   *)
(* runs next:                                                              *)
(*   idle      no pump is running                                          *)
(*   entered   synchronous: the loop body runs before anything else        *)
(*   flight    awaiting the cell's completion evidence                     *)
(*   settled   the evidence promise is resolved, its continuation queued   *)
(*   returned  runCell has returned, the loop's continuation is queued     *)
(*   between   the job is over, the pump's continuation is queued          *)
(* Kernel messages are handled in a promise chain of their own, so events  *)
(* may fall between two pieces; only "entered" excludes them.              *)
(***************************************************************************)
EXTENDS Integers, Sequences, FiniteSets, SequencesExt

CONSTANTS
  Jobs,        \* submissions that may happen
  NoJob,
  Cells,       \* code cells of the notebook
  Targets,     \* Targets[j]: the ordered cells of job j
  StopOnError, \* the jobs submitted with stop_on_error
  MaxEpoch,    \* bound: kernel lifecycle events
  MaxEdits,    \* bound: source edits of one cell
  Touched,     \* bound: the cells that peers edit, delete, clear or run
  RoomMayDrop  \* bound: whether the room's connection comes and goes

ASSUME ConstantsAssumption ==
  /\ NoJob \notin Jobs
  /\ Targets \in [Jobs -> Seq(Cells)]
  /\ \A j \in Jobs : Targets[j] # << >>
  /\ StopOnError \subseteq Jobs
  /\ MaxEpoch \in Nat /\ MaxEdits \in Nat
  /\ Touched \subseteq Cells /\ RoomMayDrop \in BOOLEAN

VARIABLES
  state,     \* state[j]: the job's state, "none" before its submission
  cells,     \* cells[j]: its cell records: state, reason, output generation
  bornIn,    \* bornIn[j]: the kernel epoch it was accepted in
  saw,       \* saw[j]: the source versions it was accepted with
  cancelled, \* the jobs execution_cancel was called for
  queue,     \* accepted jobs the pump has not taken yet
  pump,      \* where the pump stands, and the evidence of the cell in flight
  epoch, channel, alive, disposed, \* the kernel client, as the registry sees it
  text,      \* text[c]: the source version of a cell
  gone,      \* cells that were deleted
  area,      \* area[c]: the shared output area: generations, owner, prompt
  closed,    \* the notebook handle was closed
  rtc        \* the notebook's room is connected

jobVars    == <<state, cells, bornIn, saw, cancelled>>
kernelVars == <<epoch, channel, alive, disposed>>
docVars    == <<text, gone, area, closed, rtc>>
vars       == <<jobVars, queue, pump, kernelVars, docVars>>

Terminal  == {"succeeded", "failed", "cancelled", "interrupted", "unknown"}
JobStates == {"none", "queued", "running"} \cup Terminal

\* Outcomes the kernel itself vouches for.
Proven     == {"succeeded", "failed", "aborted"}
Finished   == Proven \cup {"unknown"}
CellStates == {"queued", "sent", "not_sent"} \cup Finished
Reasons    == {"", "cancelled", "kernel_changed", "kernel_dead", "target",
               "stop_on_error", "rtc_not_ready", "kernel_aborted", "interrupted"}

Statuses == {"running", "ok", "error", "interrupt", "aborted"}
Channels == {"connecting", "connected", "disconnected"}
Outcomes == {"", "completed", "kernel_changed", "disconnected", "disposed"}

Idle    == [at |-> "idle", job |-> NoJob, i |-> 0,
            outcome |-> "", got |-> {}, status |-> "running"]
Between == [Idle EXCEPT !.at = "between"]
At(where, j, i) == [Idle EXCEPT !.at = where, !.job = j, !.i = i]

NewCell == [st |-> "queued", why |-> "", gen |-> 0]

Init ==
  /\ state = [j \in Jobs |-> "none"]
  /\ cells = [j \in Jobs |-> [k \in DOMAIN Targets[j] |-> NewCell]]
  /\ bornIn = [j \in Jobs |-> 0]
  /\ saw = [j \in Jobs |-> [k \in DOMAIN Targets[j] |-> 0]]
  /\ cancelled = {}
  /\ queue = << >>
  /\ pump = Idle
  /\ epoch = 0 /\ channel = "connecting" /\ alive = TRUE /\ disposed = FALSE
  /\ text = [c \in Cells |-> 0]
  /\ gone = {}
  /\ area = [c \in Cells |-> [gen |-> 0, owner |-> 0, prompt |-> "idle"]]
  /\ closed = FALSE /\ rtc = TRUE

-----------------------------------------------------------------------------
\* Only the cells that are still queued are marked.
MarkRest_AfterNext(cs, from, why) ==
  [k \in DOMAIN cs |->
     IF k > from /\ cs[k].st = "queued"
     THEN [cs[k] EXCEPT !.st = "not_sent", !.why = why]
     ELSE cs[k]]
MarkRest(cs, from, why) ==
  [k \in DOMAIN cs |->
     IF k >= from /\ cs[k].st = "queued"
     THEN [cs[k] EXCEPT !.st = "not_sent", !.why = why]
     ELSE cs[k]]

FinalState(cs) ==
  LET some(st, why) == \E k \in DOMAIN cs : cs[k].st \in st /\ cs[k].why \in why
  IN  IF some({"unknown"}, Reasons) THEN "unknown"
      ELSE IF some(CellStates, {"interrupted"}) THEN "interrupted"
      ELSE IF some({"failed", "aborted"}, Reasons) THEN "failed"
      ELSE IF some({"not_sent"}, {"cancelled"}) THEN "cancelled"
      ELSE IF some({"not_sent"}, Reasons) THEN "failed"
      ELSE "succeeded"

\* The first outcome ends the evidence; a later one finds nobody to settle.
Settle_Last(outcome) ==
  pump' = IF pump.at \in {"flight", "settled"}
          THEN [pump EXCEPT !.at = "settled", !.outcome = outcome] ELSE pump
Settle_Deaf(outcome) == pump' = pump
Settle(outcome) ==
  pump' = IF pump.at = "flight"
          THEN [pump EXCEPT !.at = "settled", !.outcome = outcome] ELSE pump

\* Nothing runs in the middle of a synchronous piece.
Quiet == pump.at # "entered"

-----------------------------------------------------------------------------
(***************************************************************************)
(* Accepting and cancelling jobs.                                          *)
(***************************************************************************)
\* An idle pump takes the job in the same call: its loop body runs at once.
Submit(j) ==
  /\ Quiet /\ ~disposed /\ ~closed /\ rtc
  /\ state[j] = "none"
  /\ \A k \in DOMAIN Targets[j] : Targets[j][k] \notin gone
  /\ bornIn' = [bornIn EXCEPT ![j] = epoch]
  /\ saw' = [saw EXCEPT ![j] = [k \in DOMAIN Targets[j] |-> text[Targets[j][k]]]]
  /\ IF pump.at = "idle"
     THEN /\ state' = [state EXCEPT ![j] = "running"]
          /\ pump' = At("entered", j, 1)
          /\ UNCHANGED queue
     ELSE /\ state' = [state EXCEPT ![j] = "queued"]
          /\ queue' = Append(queue, j)
          /\ UNCHANGED pump
  /\ UNCHANGED <<cells, cancelled, kernelVars, docVars>>

\* A cell already handed to the kernel is never called cancelled.
Unsent(cs) == MarkRest(cs, 1, "cancelled")

Dequeued(j) ==
  IF \E n \in 1..Len(queue) : queue[n] = j
  THEN RemoveAt(queue, CHOOSE n \in 1..Len(queue) : queue[n] = j) ELSE queue

CancelledState(j) == IF state[j] = "queued" THEN "cancelled" ELSE state[j]

Cancel(j) ==
  /\ Quiet
  /\ state[j] # "none" /\ j \notin cancelled
  /\ cancelled' = cancelled \cup {j}
  /\ cells' = [cells EXCEPT ![j] = Unsent(@)]
  /\ queue' = Dequeued(j)
  /\ state' = [state EXCEPT ![j] = CancelledState(j)]
  /\ UNCHANGED <<bornIn, saw, pump, kernelVars, docVars>>

-----------------------------------------------------------------------------
(***************************************************************************)
(* The pump.                                                               *)
(***************************************************************************)
\* The job is over with the cell records cs.
EndJob(j, cs) ==
  /\ cells' = [cells EXCEPT ![j] = cs]
  /\ state' = [state EXCEPT ![j] = FinalState(cs)]
  /\ pump' = Between
  /\ UNCHANGED <<bornIn, saw, cancelled, queue, kernelVars>>

\* The pre-send check: the same object, with the source that was accepted, in
\* a replica that is still open.
TargetOk(j, i) ==
  LET c == Targets[j][i]
  IN  c \notin gone /\ text[c] = saw[j][i] /\ ~closed

\* What stops the job before cell i, with the records it leaves; no such
\* reason means that the cell is sent.
StopsBefore_EpochOfStart(j, i) ==
  \/ j \in cancelled
  \/ i = 1 /\ bornIn[j] # epoch
  \/ ~TargetOk(j, i)
StopsBefore(j, i) ==
  \/ j \in cancelled
  \/ bornIn[j] # epoch
  \/ ~TargetOk(j, i)

Stopped(j, i) ==
  IF j \in cancelled THEN MarkRest(cells[j], i, "cancelled")
  ELSE IF bornIn[j] # epoch THEN MarkRest(cells[j], i, "kernel_changed")
  ELSE MarkRest([cells[j] EXCEPT ![i].st = "not_sent", ![i].why = "target"],
                i + 1, "stop_on_error")

\* A new output generation: outputs cleared, prompt running, one writer.
Opened(a) == [gen |-> a.gen + 1, owner |-> a.gen + 1, prompt |-> "running"]

\* The kernel client refuses before anything reaches the socket.
Refuses == disposed \/ ~alive

\* The loop body: end of the list, a reason to stop, or open the area and send.
Iterate ==
  /\ pump.at = "entered"
  /\ LET j == pump.job
         i == pump.i
     IN  \/ /\ i > Len(Targets[j])
            /\ EndJob(j, cells[j])
            /\ UNCHANGED docVars
         \/ /\ i <= Len(Targets[j]) /\ StopsBefore(j, i)
            /\ EndJob(j, Stopped(j, i))
            /\ UNCHANGED docVars
         \/ /\ i <= Len(Targets[j]) /\ ~StopsBefore(j, i)
            /\ LET c == Targets[j][i]
                   opened == Opened(area[c])
               IN  /\ area' = [area EXCEPT ![c] = opened]
                   /\ cells' = [cells EXCEPT ![j][i] =
                        IF Refuses
                        THEN [st |-> "not_sent", why |-> "kernel_dead", gen |-> opened.gen]
                        ELSE [st |-> "sent", why |-> "", gen |-> opened.gen]]
            /\ pump' = IF Refuses
                       THEN [At("returned", j, i) EXCEPT !.outcome = "kernel_changed"]
                       ELSE At("flight", j, i)
            /\ UNCHANGED <<state, bornIn, saw, cancelled, queue, kernelVars,
                           text, gone, closed, rtc>>

\* A callback of the job threw: nothing of it is sent, and the queue goes on.
Abandon ==
  /\ pump.at = "entered" /\ pump.i <= Len(Targets[pump.job])
  /\ ~StopsBefore(pump.job, pump.i)
  /\ EndJob(pump.job, MarkRest(cells[pump.job], 1, "rtc_not_ready"))
  /\ UNCHANGED docVars

\* The cell's verdict once its evidence has ended.
Verdict(outcome, status) ==
  IF outcome # "completed" THEN [st |-> "unknown", why |-> ""]
  ELSE CASE status = "aborted"   -> [st |-> "aborted", why |-> "kernel_aborted"]
         [] status = "interrupt" -> [st |-> "aborted", why |-> "interrupted"]
         [] status = "error"     -> [st |-> "failed", why |-> ""]
         [] OTHER                -> [st |-> "succeeded", why |-> ""]

\* runCell resumes: the record gets its verdict, nothing is in flight.
Resume ==
  /\ pump.at = "settled"
  /\ LET v == Verdict(pump.outcome, pump.status)
     IN  cells' = [cells EXCEPT ![pump.job][pump.i].st = v.st,
                                ![pump.job][pump.i].why = v.why]
  /\ pump' = [pump EXCEPT !.at = "returned"]
  /\ UNCHANGED <<state, bornIn, saw, cancelled, queue, kernelVars, docVars>>

\* runJob resumes: stop on lost evidence or on an error, or take the next cell.
LostEvidence_Never == FALSE
LostEvidence == pump.outcome # "completed"
FailedHere == /\ pump.job \in StopOnError
              /\ cells[pump.job][pump.i].st \in {"failed", "aborted"}

Continue ==
  /\ pump.at = "returned"
  /\ LET j == pump.job
         i == pump.i
     IN  IF LostEvidence THEN EndJob(j, MarkRest(cells[j], i + 1, "kernel_changed"))
         ELSE IF FailedHere THEN EndJob(j, MarkRest(cells[j], i + 1, "stop_on_error"))
         ELSE /\ pump' = At("entered", j, i + 1)
              /\ UNCHANGED <<jobVars, queue, kernelVars>>
  /\ UNCHANGED docVars

\* The pump takes the next job, or ends.
NextJob ==
  /\ pump.at = "between"
  /\ IF queue = << >>
     THEN pump' = Idle /\ UNCHANGED <<state, queue>>
     ELSE /\ pump' = At("entered", Head(queue), 1)
          /\ queue' = Tail(queue)
          /\ state' = [state EXCEPT ![Head(queue)] = "running"]
  /\ UNCHANGED <<cells, bornIn, saw, cancelled, kernelVars, docVars>>

-----------------------------------------------------------------------------
(***************************************************************************)
(* The kernel and its connection.                                          *)
(***************************************************************************)
\* The reducer completes on the matching reply and IOPub idle, in either order.
Complete(got) == got = {"reply", "idle"}

\* The terminal effects reach the area only while this generation owns it.
ExtinguishOf(j, k, areas) ==
  LET c == Targets[j][k]
  IN  IF areas[c].owner = cells[j][k].gen /\ areas[c].owner # 0
      THEN [areas EXCEPT ![c].prompt = "idle"] ELSE areas

\* A reply or an idle of the cell in flight arrives.
Receive(m, status) ==
  /\ pump.at = "flight" /\ channel = "connected" /\ alive
  /\ m \notin pump.got
  /\ IF m = "idle" THEN status = pump.status ELSE status # "running"
  /\ LET got == pump.got \cup {m}
     IN  IF Complete(got)
         THEN /\ pump' = [pump EXCEPT !.at = "settled", !.got = got,
                                      !.status = status, !.outcome = "completed"]
              /\ area' = ExtinguishOf(pump.job, pump.i, area)
         ELSE /\ pump' = [pump EXCEPT !.got = got, !.status = status]
              /\ UNCHANGED area
  /\ UNCHANGED <<jobVars, queue, kernelVars, text, gone, closed, rtc>>

\* Restart, autorestart, termination or death is observed.
KernelChanged(dies) ==
  /\ Quiet /\ ~disposed /\ alive /\ epoch < MaxEpoch
  /\ epoch' = epoch + 1
  /\ alive' = ~dies
  /\ Settle("kernel_changed")
  /\ UNCHANGED <<jobVars, queue, channel, disposed, docVars>>

\* The socket: any state that is not connected ends the evidence in flight.
\* The connection gives up for good after its last attempt.
StatusChanged(to) ==
  /\ Quiet /\ ~disposed
  /\ <<channel, to>> \in {<<"connecting", "connected">>, <<"connected", "connecting">>,
                          <<"connecting", "disconnected">>}
  /\ channel' = to
  /\ IF to # "connected" THEN Settle("disconnected") ELSE UNCHANGED pump
  /\ UNCHANGED <<jobVars, queue, epoch, alive, disposed, docVars>>

\* The last lease is released, or the connection is invalidated: the registry
\* and its client are disposed in one go.
Dispose ==
  /\ Quiet /\ ~disposed
  /\ disposed' = TRUE
  /\ Settle("disposed")
  /\ LET waiting == {queue[k] : k \in 1..Len(queue)}
     IN  /\ cells' = [j \in Jobs |-> IF j \in waiting
                                     THEN MarkRest(cells[j], 1, "cancelled") ELSE cells[j]]
         /\ state' = [j \in Jobs |-> IF j \in waiting
                                     THEN FinalState(cells'[j]) ELSE state[j]]
  /\ queue' = << >>
  /\ UNCHANGED <<bornIn, saw, cancelled, epoch, channel, alive, docVars>>

-----------------------------------------------------------------------------
(***************************************************************************)
(* The notebook and the service.                                           *)
(***************************************************************************)
Edit(c) ==
  /\ Quiet /\ ~closed /\ c \notin gone /\ text[c] < MaxEdits
  /\ text' = [text EXCEPT ![c] = @ + 1]
  /\ UNCHANGED <<jobVars, queue, pump, kernelVars, gone, area, closed, rtc>>

\* Deleting a cell ends its generation.
Delete(c) ==
  /\ Quiet /\ ~closed /\ c \notin gone
  /\ gone' = gone \cup {c}
  /\ area' = [area EXCEPT ![c].owner = 0]
  /\ UNCHANGED <<jobVars, queue, pump, kernelVars, text, closed, rtc>>

\* A peer clears the outputs or runs the cell: the generation is not ours now.
TakeOver(c) ==
  /\ Quiet /\ ~closed /\ area[c].owner # 0
  /\ area' = [area EXCEPT ![c].owner = 0, ![c].prompt = "idle"]
  /\ UNCHANGED <<jobVars, queue, pump, kernelVars, text, gone, closed, rtc>>

\* The handle is closed while other leases keep the registry alive.
CloseNotebook ==
  /\ Quiet /\ ~closed
  /\ closed' = TRUE
  /\ area' = [c \in Cells |-> [area[c] EXCEPT !.owner = 0]]
  /\ UNCHANGED <<jobVars, queue, pump, kernelVars, text, gone, rtc>>

Room ==
  /\ Quiet /\ ~closed /\ RoomMayDrop
  /\ rtc' = ~rtc
  /\ UNCHANGED <<jobVars, queue, pump, kernelVars, text, gone, area, closed>>

\* The watcher writes the terminal prompt of a cell the kernel is done with.
FinishedCells == Finished
Lit(j, k) ==
  LET a == area[Targets[j][k]]
  IN  a.owner # 0 /\ a.owner = cells[j][k].gen /\ a.prompt = "running"
Watch(j, k) ==
  /\ Quiet /\ ~closed
  /\ cells[j][k].st \in FinishedCells /\ Lit(j, k)
  /\ area' = ExtinguishOf(j, k, area)
  /\ UNCHANGED <<jobVars, queue, pump, kernelVars, text, gone, closed, rtc>>

Pump == Iterate \/ Abandon \/ Resume \/ Continue \/ NextJob
Hear == \E m \in {"reply", "idle"}, status \in Statuses : Receive(m, status)
Connect == \E to \in {"connected", "disconnected"} : StatusChanged(to)
WatchAny == \E j \in Jobs : \E k \in DOMAIN Targets[j] : Watch(j, k)

Next ==
  \/ Pump \/ Hear \/ WatchAny
  \/ \E j \in Jobs : Submit(j) \/ Cancel(j)
  \/ \E dies \in BOOLEAN : KernelChanged(dies)
  \/ \E to \in Channels : StatusChanged(to)
  \/ \E c \in Touched : Edit(c) \/ Delete(c) \/ TakeOver(c)
  \/ Dispose \/ CloseNotebook \/ Room

Spec == Init /\ [][Next]_vars

\* Continuations always run and so does the watcher; a kernel that is reached
\* answers, and a connection attempt ends one way or the other.
FairSpec ==
  /\ Spec
  /\ WF_vars(Pump) /\ WF_vars(Hear) /\ WF_vars(Connect) /\ WF_vars(WatchAny)

-----------------------------------------------------------------------------
(***************************************************************************)
(* Properties.                                                             *)
(***************************************************************************)
CellRecord == [st : CellStates, why : Reasons, gen : Nat]

\* Types; the records of a job are as many as its targets.
TypeOK ==
  /\ state \in [Jobs -> JobStates]
  /\ \A j \in Jobs :
       /\ cells[j] \in [DOMAIN Targets[j] -> CellRecord]
       /\ saw[j] \in [DOMAIN Targets[j] -> 0..MaxEdits]
  /\ bornIn \in [Jobs -> 0..MaxEpoch]
  /\ cancelled \subseteq Jobs
  /\ queue \in Seq(Jobs)
  /\ pump \in [at : {"idle", "entered", "flight", "settled", "returned", "between"},
               job : Jobs \cup {NoJob}, i : Nat, outcome : Outcomes,
               got : SUBSET {"reply", "idle"}, status : Statuses]
  /\ epoch \in 0..MaxEpoch /\ channel \in Channels
  /\ alive \in BOOLEAN /\ disposed \in BOOLEAN
  /\ text \in [Cells -> 0..MaxEdits] /\ gone \subseteq Cells
  /\ area \in [Cells -> [gen : Nat, owner : Nat, prompt : {"idle", "running"}]]
  /\ closed \in BOOLEAN /\ rtc \in BOOLEAN

\* One cell at a time: a record says "sent" exactly while the pump awaits that
\* cell's evidence, whatever is cancelled, disposed or lost meanwhile.
SentIsInFlight ==
  \A j \in Jobs : \A k \in DOMAIN Targets[j] :
    cells[j][k].st = "sent"
      <=> pump.at \in {"flight", "settled"} /\ pump.job = j /\ pump.i = k

\* Code runs in the order of the list and never past doubt: a cell was sent
\* only if the kernel vouched for every cell before it, and for a success of
\* each when the job stops on errors.
InOrder ==
  \A j \in Jobs : \A k \in DOMAIN Targets[j] : \A i \in 1..(k - 1) :
    cells[j][k].st \in {"sent"} \cup Finished =>
      /\ cells[j][i].st \in Proven
      /\ j \in StopOnError => cells[j][i].st = "succeeded"

\* No lost wake-up: the queue holds exactly the queued jobs, each once, and
\* while it holds one the pump runs.
QueueIsServed ==
  /\ {queue[n] : n \in 1..Len(queue)} = {j \in Jobs : state[j] = "queued"}
  /\ Len(queue) = Cardinality({j \in Jobs : state[j] = "queued"})
  /\ queue # << >> => pump.at # "idle"

\* A job in a terminal state accounts for all of its cells.
EndedIsDecided ==
  \A j \in Jobs : state[j] \in Terminal =>
    /\ \A k \in DOMAIN Targets[j] : cells[j][k].st \notin {"queued", "sent"}
    /\ state[j] = FinalState(cells[j])

\* What the records, the queue and the pump say of each other at any time.
RegistryInvariant ==
  /\ TypeOK
  /\ SentIsInFlight
  /\ QueueIsServed
  /\ EndedIsDecided

\* What is sent now was accepted for this kernel, has not been cancelled, and
\* is the text the caller saw, however long the job waited in the queue.
SendsWhatWasAccepted ==
  [][\A j \in Jobs : \A k \in DOMAIN Targets[j] :
       cells[j][k].st # "sent" /\ cells'[j][k].st = "sent" =>
         /\ j \notin cancelled /\ bornIn[j] = epoch /\ ~disposed
         /\ text[Targets[j][k]] = saw[j][k] /\ Targets[j][k] \notin gone]_vars

\* A terminal state is final, and so are the records under it.
EndedIsFinal ==
  [][\A j \in Jobs : state[j] \in Terminal =>
       state'[j] = state[j] /\ cells'[j] = cells[j]]_vars

\* A sent cell gets a verdict of the kernel exactly when its reply and its
\* idle both came before anything else ended the evidence; otherwise it is
\* unknown, and never "not sent".
VerdictIsEvidence ==
  [][\A j \in Jobs : \A k \in DOMAIN Targets[j] :
       cells[j][k].st = "sent" /\ cells'[j][k].st # "sent" =>
         /\ cells'[j][k].st \in Finished
         /\ (cells'[j][k].st \in Proven <=> pump.got = {"reply", "idle"})]_vars

\* Every accepted job ends, unless its cell waits on a connection that has
\* given up.
EveryJobEnds ==
  \A j \in Jobs :
    state[j] \in {"queued", "running"} ~> state[j] \in Terminal \/ channel = "disconnected"

\* A cell whose fate is unknown does not keep the running prompt.
UnknownGoesDark ==
  \A j \in Jobs : \A k \in DOMAIN Targets[j] :
    cells[j][k].st = "unknown" /\ Lit(j, k) ~> ~Lit(j, k)

\* Both: every run comes to an end, in the registry and on the screen.
EveryRunSettles == EveryJobEnds /\ UnknownGoesDark
=============================================================================
