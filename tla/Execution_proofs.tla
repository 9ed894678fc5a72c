--------------------------- MODULE Execution_proofs ---------------------------
(***************************************************************************)
(* Proofs about ExecutionRegistry, for every set of jobs and cells, every   *)
(* list of targets and every bound, and about ExecutionViews and the        *)
(* OutputStore it works on, for every number of cells, every set of         *)
(* outputs of every size, and every budget.                                 *)
(***************************************************************************)
EXTENDS ExecutionRegistry, ExecutionViews, WellFoundedInduction, FiniteSetTheorems,
        SequenceTheorems, TLAPS

\* The pump is somewhere in a job.
InJob == {"entered", "flight", "settled", "returned"}
Evidence == {"reply", "idle"}

PumpType == [at : {"idle", "entered", "flight", "settled", "returned", "between"},
             job : Jobs \cup {NoJob}, i : Nat, outcome : Outcomes,
             got : SUBSET {"reply", "idle"}, status : Statuses]
Areas == [Cells -> [gen : Nat, owner : Nat, prompt : {"idle", "running"}]]

\* The records and the accepted sources are kept for every job.
TablesInv ==
  /\ cells = [j \in Jobs |-> cells[j]]
  /\ saw = [j \in Jobs |-> saw[j]]

\* The pump works on a running job, within its list, and what it holds as
\* evidence is what came before the outcome.
PumpInv ==
  /\ pump.at \in InJob =>
       /\ pump.job \in Jobs /\ state[pump.job] = "running"
       /\ pump.i \in 1..(Len(Targets[pump.job]) + 1)
       /\ pump.at # "entered" => pump.i \in DOMAIN Targets[pump.job]
  /\ pump.at = "flight" => pump.got # Evidence
  /\ pump.at = "settled" => (pump.outcome = "completed" <=> pump.got = Evidence)

\* The queue holds the queued jobs, each once, and never waits for an idle pump.
QueueInv ==
  /\ \A n \in 1..Len(queue) : state[queue[n]] = "queued"
  /\ \A m, n \in 1..Len(queue) : queue[m] = queue[n] => m = n
  /\ \A j \in Jobs : state[j] = "queued" => \E n \in 1..Len(queue) : queue[n] = j
  /\ queue # << >> => pump.at # "idle"

\* Nothing has happened to the cells of a job that waits.
WaitingInv ==
  \A j \in Jobs : state[j] \in {"none", "queued"} =>
    \A k \in DOMAIN Targets[j] : cells[j][k].st = "queued" /\ cells[j][k].why = ""

\* How the cells of the job at hand stand: the kernel vouched for those before
\* the current one, and those after it are not sent.
RunningInv ==
  pump.at \in InJob =>
    \A k \in DOMAIN Targets[pump.job] :
      LET st == cells[pump.job][k].st IN
      /\ k < pump.i => /\ st \in Proven
                       /\ pump.job \in StopOnError => st = "succeeded"
      /\ k > pump.i => st \in {"queued", "not_sent"}
      /\ k = pump.i /\ pump.at = "entered" => st \in {"queued", "not_sent"}
      /\ k = pump.i /\ pump.at = "returned" =>
           IF pump.outcome = "completed" THEN st \in Proven
           ELSE st \in {"unknown", "not_sent"}

IInv ==
  /\ TypeOK
  /\ TablesInv
  /\ PumpInv
  /\ QueueInv
  /\ WaitingInv
  /\ RunningInv
  /\ SentIsInFlight
  /\ InOrder
  /\ EndedIsDecided

-----------------------------------------------------------------------------
(* Operators on cell records. *)

LEMMA MarkRestFacts ==
  ASSUME NEW D, NEW cs \in [D -> CellRecord], NEW from, NEW why \in Reasons
  PROVE  /\ MarkRest(cs, from, why) \in [D -> CellRecord]
         /\ \A k \in D :
              IF k >= from /\ cs[k].st = "queued"
              THEN /\ MarkRest(cs, from, why)[k].st = "not_sent"
                   /\ MarkRest(cs, from, why)[k].why = why
              ELSE MarkRest(cs, from, why)[k] = cs[k]
<1>1. \A k \in D : cs[k] \in CellRecord
  OBVIOUS
<1>2. \A k \in D : [cs[k] EXCEPT !.st = "not_sent", !.why = why] \in CellRecord
  BY <1>1 DEF CellRecord, CellStates
<1>3. \A k \in D : /\ [cs[k] EXCEPT !.st = "not_sent", !.why = why].st = "not_sent"
                   /\ [cs[k] EXCEPT !.st = "not_sent", !.why = why].why = why
  BY <1>1 DEF CellRecord
<1> QED BY <1>1, <1>2, <1>3 DEF MarkRest

LEMMA FinalIsTerminal == \A cs : FinalState(cs) \in Terminal
  BY DEF FinalState, Terminal

LEMMA TargetsFacts ==
  \A j \in Jobs : /\ Targets[j] \in Seq(Cells) /\ DOMAIN Targets[j] = 1..Len(Targets[j])
                  /\ Len(Targets[j]) \in Nat /\ Len(Targets[j]) > 0
  BY ConstantsAssumption

LEMMA InitIInv == Init => IInv
<1> SUFFICES ASSUME Init PROVE IInv
  OBVIOUS
<1>1. NewCell \in CellRecord /\ NewCell.st = "queued" /\ NewCell.why = ""
  BY DEF NewCell, CellRecord, CellStates, Reasons
<1>2. \A j \in Jobs : \A k \in DOMAIN Targets[j] : cells[j][k] = NewCell
  BY DEF Init
<1>3. pump = Idle /\ pump.at = "idle" /\ queue = << >> /\ \A j \in Jobs : state[j] = "none"
  BY DEF Init, Idle
<1>4. TypeOK
  <2>1. \A j \in Jobs : /\ cells[j] \in [DOMAIN Targets[j] -> CellRecord]
                        /\ saw[j] \in [DOMAIN Targets[j] -> 0..MaxEdits]
    <3>1. 0 \in 0..MaxEdits
      BY ConstantsAssumption
    <3>2. \A j \in Jobs : cells[j] = [k \in DOMAIN Targets[j] |-> NewCell]
      BY DEF Init
    <3>3. \A j \in Jobs : saw[j] = [k \in DOMAIN Targets[j] |-> 0]
      BY DEF Init
    <3> QED BY <1>1, <3>1, <3>2, <3>3
  <2>2. /\ state \in [Jobs -> JobStates]
        /\ bornIn \in [Jobs -> 0..MaxEpoch]
        /\ cancelled \subseteq Jobs
        /\ queue \in Seq(Jobs)
    BY ConstantsAssumption DEF Init, JobStates
  <2>3. pump \in PumpType
    BY DEF PumpType, Init, Idle, Outcomes, Statuses
  <2>4. /\ epoch \in 0..MaxEpoch /\ channel \in Channels
        /\ alive \in BOOLEAN /\ disposed \in BOOLEAN
        /\ text \in [Cells -> 0..MaxEdits] /\ gone \subseteq Cells
        /\ area \in [Cells -> [gen : Nat, owner : Nat, prompt : {"idle", "running"}]]
        /\ closed \in BOOLEAN /\ rtc \in BOOLEAN
    <3>1. 0 \in 0..MaxEdits /\ 0 \in 0..MaxEpoch
      BY ConstantsAssumption
    <3>2. area \in [Cells -> [gen : Nat, owner : Nat, prompt : {"idle", "running"}]]
      BY DEF Init
    <3> QED BY <3>1, <3>2 DEF Init, Channels
  <2> QED BY <2>1, <2>2, <2>3, <2>4 DEF PumpType, TypeOK
<1>5. TablesInv
  <2>1. cells = [j \in Jobs |-> [k \in DOMAIN Targets[j] |-> NewCell]]
    BY DEF Init
  <2>2. saw = [j \in Jobs |-> [k \in DOMAIN Targets[j] |-> 0]]
    BY DEF Init
  <2> QED BY <2>1, <2>2 DEF TablesInv
<1>6. PumpInv /\ QueueInv /\ RunningInv
  BY <1>3 DEF PumpInv, QueueInv, RunningInv, InJob
<1>7. WaitingInv
  BY <1>1, <1>2 DEF WaitingInv
<1>8. SentIsInFlight /\ InOrder
  BY <1>1, <1>2, <1>3 DEF SentIsInFlight, InOrder, Finished, Proven
<1>9. EndedIsDecided
  BY <1>3 DEF EndedIsDecided, Terminal
<1> QED BY <1>4, <1>5, <1>6, <1>7, <1>8, <1>9 DEF IInv

-----------------------------------------------------------------------------
(* Steps that leave the jobs and the queue alone. *)

LEMMA ElsewhereIInv ==
  ASSUME IInv, TypeOK', UNCHANGED <<jobVars, queue, pump>>
  PROVE  IInv'
<1>1. UNCHANGED <<state, cells, bornIn, saw, cancelled, queue, pump>>
  BY DEF jobVars
<1>2. TablesInv' /\ WaitingInv'
  BY <1>1 DEF IInv, TablesInv, WaitingInv
<1>3. PumpInv' /\ QueueInv'
  BY <1>1 DEF IInv, PumpInv, QueueInv
<1>4. RunningInv'
  BY <1>1 DEF IInv, RunningInv
<1>5. SentIsInFlight' /\ InOrder' /\ EndedIsDecided'
  BY <1>1 DEF IInv, SentIsInFlight, InOrder, EndedIsDecided
<1> QED BY <1>2, <1>3, <1>4, <1>5 DEF IInv

\* Evidence arrives, or ends.
LEMMA EvidenceIInv ==
  ASSUME IInv, TypeOK', UNCHANGED <<jobVars, queue>>,
         pump.at = "flight", pump'.at \in {"flight", "settled"},
         pump'.job = pump.job, pump'.i = pump.i,
         pump'.at = "flight" => pump'.got # Evidence,
         pump'.at = "settled" => (pump'.outcome = "completed" <=> pump'.got = Evidence)
  PROVE  IInv'
<1>1. UNCHANGED <<state, cells, bornIn, saw, cancelled, queue>>
  BY DEF jobVars
<1>2. TablesInv' /\ WaitingInv'
  BY <1>1 DEF IInv, TablesInv, WaitingInv
<1>3. PumpInv'
  BY <1>1 DEF IInv, PumpInv, InJob
<1>4. QueueInv' /\ RunningInv'
  BY <1>1 DEF IInv, QueueInv, RunningInv, InJob
<1>5. SentIsInFlight' /\ InOrder' /\ EndedIsDecided'
  BY <1>1 DEF IInv, SentIsInFlight, InOrder, EndedIsDecided
<1> QED BY <1>2, <1>3, <1>4, <1>5 DEF IInv

LEMMA SettleIInv ==
  ASSUME IInv, NEW o \in {"kernel_changed", "disconnected", "disposed"}, Settle(o)
  PROVE  /\ pump' \in PumpType
         /\ \/ pump' = pump
            \/ /\ pump.at = "flight" /\ pump'.at = "settled"
               /\ pump'.job = pump.job /\ pump'.i = pump.i
               /\ pump'.outcome = o /\ pump'.got = pump.got /\ pump'.got # Evidence
<1>1. pump \in PumpType
  BY DEF PumpType, IInv, TypeOK
<1>2. pump.at = "flight" => pump.got # Evidence
  BY DEF IInv, PumpInv
<1> QED BY <1>1, <1>2 DEF PumpType, Settle, Outcomes

LEMMA ExtinguishFacts ==
  ASSUME NEW j, NEW k, NEW a \in Areas
  PROVE  ExtinguishOf(j, k, a) \in Areas
  BY DEF ExtinguishOf, Areas

LEMMA HearIInv ==
  ASSUME IInv, NEW m \in {"reply", "idle"}, NEW status \in Statuses, Receive(m, status)
  PROVE  IInv'
<1> DEFINE got == pump.got \cup {m}
<1>1. /\ pump.at = "flight" /\ m \notin pump.got
      /\ \/ /\ got = Evidence
            /\ pump' = [pump EXCEPT !.at = "settled", !.got = got,
                                    !.status = status, !.outcome = "completed"]
            /\ area' = ExtinguishOf(pump.job, pump.i, area)
         \/ /\ got # Evidence
            /\ pump' = [pump EXCEPT !.got = got, !.status = status]
            /\ UNCHANGED area
      /\ UNCHANGED <<jobVars, queue, kernelVars, text, gone, closed, rtc>>
  BY DEF Receive, Complete, Evidence
<1>2. pump \in PumpType
      /\ area \in Areas
  BY DEF PumpType, IInv, TypeOK, Areas
<1>3. pump' \in PumpType
  <2>1. got \in SUBSET {"reply", "idle"}
    BY <1>2 DEF PumpType
  <2> HIDE DEF got
  <2> QED BY <1>1, <1>2, <2>1 DEF PumpType, Outcomes
<1>4. area' \in Areas
  BY <1>1, <1>2, ExtinguishFacts
<1>5. TypeOK'
  BY <1>1, <1>3, <1>4 DEF IInv, TypeOK, PumpType, Areas, jobVars, kernelVars
<1>6. /\ pump'.at \in {"flight", "settled"} /\ pump'.job = pump.job /\ pump'.i = pump.i
      /\ pump'.at = "flight" => pump'.got # Evidence
      /\ pump'.at = "settled" => (pump'.outcome = "completed" <=> pump'.got = Evidence)
  BY <1>1, <1>2 DEF PumpType
<1> QED BY <1>1, <1>5, <1>6, EvidenceIInv

LEMMA KernelIInv ==
  ASSUME IInv, \/ \E dies \in BOOLEAN : KernelChanged(dies)
               \/ \E to \in Channels : StatusChanged(to)
  PROVE  IInv'
<1>1. /\ UNCHANGED <<jobVars, queue, docVars>>
      /\ pump' = pump \/ \E o \in {"kernel_changed", "disconnected", "disposed"} : Settle(o)
      /\ epoch' \in 0..MaxEpoch /\ channel' \in Channels /\ alive' \in BOOLEAN
      /\ disposed' \in BOOLEAN
  <2>0. /\ epoch \in 0..MaxEpoch /\ MaxEpoch \in Nat /\ channel \in Channels
        /\ alive \in BOOLEAN /\ disposed \in BOOLEAN
    BY ConstantsAssumption DEF IInv, TypeOK
  <2>1. ASSUME NEW dies \in BOOLEAN, KernelChanged(dies)
        PROVE  /\ UNCHANGED <<jobVars, queue, docVars, channel, disposed>>
               /\ Settle("kernel_changed")
               /\ epoch' \in 0..MaxEpoch /\ alive' \in BOOLEAN
    BY <2>0, <2>1 DEF KernelChanged
  <2>2. ASSUME NEW to \in Channels, StatusChanged(to)
        PROVE  /\ UNCHANGED <<jobVars, queue, docVars, epoch, alive, disposed>>
               /\ Settle("disconnected") \/ pump' = pump
               /\ channel' \in Channels
    BY <2>0, <2>2 DEF StatusChanged
  <2> QED BY <2>0, <2>1, <2>2
<1>2. \/ pump' = pump
      \/ /\ pump.at = "flight" /\ pump'.at = "settled"
         /\ pump'.job = pump.job /\ pump'.i = pump.i
         /\ pump'.outcome # "completed" /\ pump'.got # Evidence
  BY <1>1, SettleIInv
<1>3. pump' \in PumpType
  <2>1. pump' = pump => pump' \in PumpType
    BY DEF PumpType, IInv, TypeOK
  <2> QED BY <1>1, <2>1, SettleIInv
<1>4. TypeOK'
  BY <1>1, <1>3 DEF PumpType, IInv, TypeOK, jobVars, docVars
<1>5. CASE pump' = pump
  BY <1>1, <1>4, <1>5, ElsewhereIInv
<1>6. CASE pump' # pump
  BY <1>1, <1>2, <1>4, <1>6, EvidenceIInv
<1> QED BY <1>5, <1>6

LEMMA NotebookIInv ==
  ASSUME IInv,
         \/ \E c \in Touched : Edit(c) \/ Delete(c) \/ TakeOver(c)
         \/ CloseNotebook \/ Room \/ WatchAny
  PROVE  IInv'
<1>0. /\ text \in [Cells -> 0..MaxEdits] /\ gone \subseteq Cells /\ area \in Areas
      /\ closed \in BOOLEAN /\ rtc \in BOOLEAN
  BY DEF IInv, TypeOK, Areas
<1>1. /\ UNCHANGED <<jobVars, queue, pump, kernelVars>>
      /\ text' \in [Cells -> 0..MaxEdits] /\ gone' \subseteq Cells /\ area' \in Areas
      /\ closed' \in BOOLEAN /\ rtc' \in BOOLEAN
  <2>1. ASSUME NEW c \in Touched, Edit(c)
        PROVE  /\ UNCHANGED <<jobVars, queue, pump, kernelVars, gone, area, closed, rtc>>
               /\ text' \in [Cells -> 0..MaxEdits]
    <3>1. text[c] + 1 \in 0..MaxEdits
      BY <1>0, <2>1, ConstantsAssumption DEF Edit
    <3> QED BY <1>0, <2>1, <3>1 DEF Edit
  <2>2. ASSUME NEW c \in Touched, Delete(c) \/ TakeOver(c)
        PROVE  /\ UNCHANGED <<jobVars, queue, pump, kernelVars, text, closed, rtc>>
               /\ gone' \subseteq Cells /\ area' \in Areas
    <3>1. CASE Delete(c)
      BY <1>0, <2>2, <3>1, ConstantsAssumption DEF Delete, Areas
    <3>2. CASE TakeOver(c)
      BY <1>0, <2>2, <3>2 DEF TakeOver, Areas
    <3> QED BY <2>2, <3>1, <3>2
  <2>3. CASE CloseNotebook
    BY <1>0, <2>3 DEF CloseNotebook, Areas
  <2>4. CASE Room
    BY <1>0, <2>4 DEF Room
  <2>5. CASE WatchAny
    <3>1. PICK j \in Jobs : \E k \in DOMAIN Targets[j] : Watch(j, k)
      BY <2>5 DEF WatchAny
    <3>2. PICK k \in DOMAIN Targets[j] : Watch(j, k)
      BY <3>1
    <3>3. /\ UNCHANGED <<jobVars, queue, pump, kernelVars, text, gone, closed, rtc>>
          /\ area' = ExtinguishOf(j, k, area)
      BY <3>2 DEF Watch
    <3>4. area' \in Areas
      BY <1>0, <3>3, ExtinguishFacts
    <3> QED BY <1>0, <3>3, <3>4
  <2> QED BY <1>0, <2>1, <2>2, <2>3, <2>4, <2>5
<1>2. TypeOK'
  BY <1>1 DEF IInv, TypeOK, jobVars, kernelVars, Areas
<1> QED BY <1>1, <1>2, ElsewhereIInv

-----------------------------------------------------------------------------
(* Accepting and cancelling jobs. *)

LEMMA SubmitIInv ==
  ASSUME IInv, NEW j \in Jobs, Submit(j)
  PROVE  IInv'
<1>0. TypeOK
  BY DEF IInv
<1>1. /\ state[j] = "none"
      /\ bornIn' = [bornIn EXCEPT ![j] = epoch]
      /\ saw' = [saw EXCEPT ![j] = [k \in DOMAIN Targets[j] |-> text[Targets[j][k]]]]
      /\ \/ /\ pump.at = "idle"
            /\ state' = [state EXCEPT ![j] = "running"]
            /\ pump' = At("entered", j, 1)
            /\ queue' = queue
         \/ /\ pump.at # "idle"
            /\ state' = [state EXCEPT ![j] = "queued"]
            /\ queue' = Append(queue, j)
            /\ pump' = pump
      /\ UNCHANGED <<cells, cancelled, epoch, channel, alive, disposed, text, gone, area, closed, rtc>>
  BY DEF Submit, kernelVars, docVars
<1>2. TypeOK' /\ TablesInv'
  <2>1. \A i \in Jobs : saw'[i] \in [DOMAIN Targets[i] -> 0..MaxEdits]
    <3>1. \A k \in DOMAIN Targets[j] : text[Targets[j][k]] \in 0..MaxEdits
      BY <1>0, TargetsFacts DEF TypeOK
    <3>2. [k \in DOMAIN Targets[j] |-> text[Targets[j][k]]] \in [DOMAIN Targets[j] -> 0..MaxEdits]
      BY <3>1
    <3>3. saw = [i \in Jobs |-> saw[i]]
      BY DEF IInv, TablesInv
    <3> QED BY <1>0, <1>1, <3>2, <3>3 DEF TypeOK
  <2>2. saw' = [i \in Jobs |-> saw'[i]]
    <3>1. saw = [i \in Jobs |-> saw[i]]
      BY DEF IInv, TablesInv
    <3> QED BY <1>1, <3>1
  <2>3. state' \in [Jobs -> JobStates] /\ bornIn' \in [Jobs -> 0..MaxEpoch]
    BY <1>0, <1>1 DEF TypeOK, JobStates
  <2>4. queue' \in Seq(Jobs)
    <3>1. queue \in Seq(Jobs)
      BY <1>0 DEF TypeOK
    <3>2. Append(queue, j) \in Seq(Jobs)
      BY <3>1
    <3> QED BY <1>1, <3>1, <3>2
  <2>5. pump' \in PumpType
    <3>1. pump \in PumpType
      BY <1>0 DEF TypeOK, PumpType
    <3>2. At("entered", j, 1) \in PumpType
      BY DEF PumpType, At, Idle, Outcomes, Statuses
    <3> QED BY <1>1, <3>1, <3>2
  <2>6. TypeOK'
    <3>1. \A i \in Jobs : cells'[i] \in [DOMAIN Targets[i] -> CellRecord]
      BY <1>0, <1>1 DEF TypeOK
    <3>2. /\ cancelled' \subseteq Jobs /\ epoch' \in 0..MaxEpoch /\ channel' \in Channels
          /\ alive' \in BOOLEAN /\ disposed' \in BOOLEAN
          /\ text' \in [Cells -> 0..MaxEdits] /\ gone' \subseteq Cells /\ area' \in Areas
          /\ closed' \in BOOLEAN /\ rtc' \in BOOLEAN
      BY <1>0, <1>1 DEF TypeOK, Areas
    <3> QED BY <2>1, <2>3, <2>4, <2>5, <3>1, <3>2 DEF TypeOK, PumpType, Areas
  <2>7. TablesInv'
    BY <1>1, <2>2 DEF IInv, TablesInv
  <2> QED BY <2>6, <2>7
<1>3. \A i \in Jobs \ {j} : state'[i] = state[i]
  BY <1>0, <1>1 DEF TypeOK
<1>4. state'[j] \in {"queued", "running"}
  BY <1>0, <1>1 DEF TypeOK
<1>5. \A k \in DOMAIN Targets[j] : cells[j][k].st = "queued" /\ cells[j][k].why = ""
  BY <1>1 DEF IInv, WaitingInv
<1>6. WaitingInv' /\ EndedIsDecided' /\ InOrder'
  <2>0. cells' = cells
    BY <1>1
  <2>1. WaitingInv'
    BY <2>0, <1>3, <1>5 DEF IInv, WaitingInv
  <2>2. InOrder'
    BY <2>0 DEF IInv, InOrder
  <2>3. EndedIsDecided'
    <3> SUFFICES ASSUME NEW i \in Jobs, state'[i] \in Terminal
                 PROVE  /\ \A k \in DOMAIN Targets[i] : cells[i][k].st \notin {"queued", "sent"}
                        /\ state'[i] = FinalState(cells[i])
      BY <2>0 DEF EndedIsDecided
    <3>1. i # j
      BY <1>4 DEF Terminal
    <3> QED BY <1>3, <3>1 DEF IInv, EndedIsDecided
  <2> QED BY <2>1, <2>2, <2>3
<1>7. CASE pump.at = "idle"
  <2>1. /\ pump'.at = "entered" /\ pump'.job = j /\ pump'.i = 1
        /\ state'[j] = "running" /\ queue' = queue
    BY <1>0, <1>1, <1>7 DEF TypeOK, At, Idle
  <2>2. PumpInv'
    BY <2>1, TargetsFacts DEF PumpInv
  <2>3. QueueInv'
    <3>1. queue \in Seq(Jobs)
      BY <1>0 DEF TypeOK
    <3>2. \A n \in 1..Len(queue) : queue[n] \in Jobs \ {j}
      BY <1>1, <3>1 DEF IInv, QueueInv
    <3>3. \A n \in 1..Len(queue') : state'[queue'[n]] = "queued"
      BY <1>3, <2>1, <3>2 DEF IInv, QueueInv
    <3>4. \A m, n \in 1..Len(queue') : queue'[m] = queue'[n] => m = n
      BY <2>1 DEF IInv, QueueInv
    <3>5. \A i \in Jobs : state'[i] = "queued" => \E n \in 1..Len(queue') : queue'[n] = i
      BY <1>3, <2>1 DEF IInv, QueueInv
    <3> QED BY <2>1, <3>3, <3>4, <3>5 DEF QueueInv
  <2>4. RunningInv'
    <3>1. \A k \in DOMAIN Targets[j] : cells'[j][k].st = "queued"
      BY <1>1, <1>5
    <3>2. \A k \in DOMAIN Targets[j] : ~(k < 1)
      BY TargetsFacts
    <3> QED BY <2>1, <3>1, <3>2 DEF RunningInv
  <2>5. SentIsInFlight'
    BY <1>1, <1>7, <2>1 DEF IInv, SentIsInFlight
  <2> QED BY <1>2, <1>6, <2>2, <2>3, <2>4, <2>5 DEF IInv
<1>8. CASE pump.at # "idle"
  <2>1. pump' = pump /\ queue' = Append(queue, j) /\ state'[j] = "queued" /\ queue \in Seq(Jobs)
    BY <1>0, <1>1, <1>8 DEF TypeOK
  <2>2. PumpInv'
    BY <1>1, <1>3, <2>1 DEF IInv, PumpInv
  <2>3. QueueInv'
    <3>1. /\ Len(queue') = Len(queue) + 1 /\ queue'[Len(queue) + 1] = j /\ Len(queue) \in Nat
          /\ \A n \in 1..Len(queue) : queue'[n] = queue[n] /\ queue[n] \in Jobs
      BY <2>1
    <3>2. \A n \in 1..Len(queue) : queue[n] # j
      BY <1>1 DEF IInv, QueueInv
    <3>3. \A n \in 1..Len(queue') : n \in 1..Len(queue) \/ n = Len(queue) + 1
      BY <3>1
    <3>4. \A n \in 1..Len(queue') : state'[queue'[n]] = "queued"
      BY <1>3, <2>1, <3>1, <3>2, <3>3 DEF IInv, QueueInv
    <3>5. \A m, n \in 1..Len(queue') : queue'[m] = queue'[n] => m = n
      BY <3>1, <3>2, <3>3 DEF IInv, QueueInv
    <3>6. \A i \in Jobs : state'[i] = "queued" => \E n \in 1..Len(queue') : queue'[n] = i
      <4>1. \A n \in 1..Len(queue) : n \in 1..Len(queue')
        BY <3>1
      <4>2. Len(queue) + 1 \in 1..Len(queue')
        BY <3>1
      <4> QED BY <1>3, <3>1, <4>1, <4>2 DEF IInv, QueueInv
    <3> QED BY <1>8, <2>1, <3>4, <3>5, <3>6 DEF QueueInv
  <2>4. RunningInv' /\ SentIsInFlight'
    BY <1>1, <2>1 DEF IInv, RunningInv, SentIsInFlight
  <2> QED BY <1>2, <1>6, <2>2, <2>3, <2>4 DEF IInv
<1> QED BY <1>7, <1>8

(* Records only go from queued to not sent. *)
OnlyMarks(j) ==
  /\ cells'[j] \in [DOMAIN Targets[j] -> CellRecord]
  /\ \A k \in DOMAIN Targets[j] :
       \/ cells'[j][k].st = cells[j][k].st
       \/ cells[j][k].st = "queued" /\ cells'[j][k].st = "not_sent"

\* What has ended stays as it is; elsewhere records are only marked.
Kept ==
  \A j \in Jobs :
    /\ OnlyMarks(j)
    /\ state[j] \in Terminal => state'[j] = state[j] /\ cells'[j] = cells[j]

LEMMA MarkingKeepsOrder ==
  ASSUME InOrder, \A j \in Jobs : OnlyMarks(j)
  PROVE  InOrder'
<1> SUFFICES ASSUME NEW j \in Jobs, NEW k \in DOMAIN Targets[j], NEW i \in 1..(k - 1),
                    cells'[j][k].st \in {"sent"} \cup Finished
             PROVE  /\ cells'[j][i].st \in Proven
                    /\ j \in StopOnError => cells'[j][i].st = "succeeded"
  BY DEF InOrder
<1>1. i \in DOMAIN Targets[j]
  BY TargetsFacts
<1>2. cells[j][k].st = cells'[j][k].st
  BY DEF OnlyMarks, Finished, Proven
<1>3. /\ cells[j][i].st \in Proven
      /\ j \in StopOnError => cells[j][i].st = "succeeded"
  BY <1>2 DEF InOrder
<1>4. cells'[j][i].st = cells[j][i].st
  BY <1>1, <1>3 DEF OnlyMarks, Proven
<1> QED BY <1>3, <1>4

LEMMA MarkingKeepsFlight ==
  ASSUME SentIsInFlight, \A j \in Jobs : OnlyMarks(j),
         (pump.at \in {"flight", "settled"}) <=> (pump'.at \in {"flight", "settled"}),
         pump'.at \in {"flight", "settled"} => pump'.job = pump.job /\ pump'.i = pump.i
  PROVE  SentIsInFlight'
<1>1. \A j \in Jobs : \A k \in DOMAIN Targets[j] :
        cells'[j][k].st = "sent" <=> cells[j][k].st = "sent"
  BY DEF OnlyMarks
<1> QED BY <1>1 DEF SentIsInFlight

LEMMA MarkRestOnlyMarks ==
  ASSUME TypeOK, NEW j \in Jobs, NEW from, NEW why \in Reasons,
         cells'[j] = MarkRest(cells[j], from, why)
  PROVE  OnlyMarks(j)
<1>1. cells[j] \in [DOMAIN Targets[j] -> CellRecord]
  BY DEF TypeOK
<1> QED BY <1>1, MarkRestFacts DEF OnlyMarks

LEMMA RemoveAtFacts ==
  ASSUME NEW q \in Seq(Jobs), NEW n \in 1..Len(q)
  PROVE  /\ RemoveAt(q, n) \in Seq(Jobs)
         /\ Len(RemoveAt(q, n)) = Len(q) - 1
         /\ \A m \in 1..(Len(q) - 1) :
              RemoveAt(q, n)[m] = IF m < n THEN q[m] ELSE q[m + 1]
<1>1. /\ SubSeq(q, 1, n - 1) \in Seq(Jobs) /\ Len(SubSeq(q, 1, n - 1)) = n - 1
      /\ \A m \in 1..(n - 1) : SubSeq(q, 1, n - 1)[m] = q[m]
  BY SubSeqProperties
<1>2. /\ SubSeq(q, n + 1, Len(q)) \in Seq(Jobs) /\ Len(SubSeq(q, n + 1, Len(q))) = Len(q) - n
      /\ \A m \in 1..(Len(q) - n) : SubSeq(q, n + 1, Len(q))[m] = q[m + n]
  BY SubSeqProperties
<1> DEFINE front == SubSeq(q, 1, n - 1)
           back  == SubSeq(q, n + 1, Len(q))
<1> HIDE DEF front, back
<1>3. /\ front \in Seq(Jobs) /\ back \in Seq(Jobs)
      /\ Len(front) = n - 1 /\ Len(back) = Len(q) - n
      /\ \A m \in 1..(n - 1) : front[m] = q[m]
      /\ \A m \in 1..(Len(q) - n) : back[m] = q[m + n]
  BY <1>1, <1>2 DEF front, back
<1>4. RemoveAt(q, n) = front \o back
  BY DEF RemoveAt, front, back
<1>5. /\ front \o back \in Seq(Jobs) /\ Len(front \o back) = Len(q) - 1
      /\ \A m \in 1..(Len(q) - 1) :
           (front \o back)[m] = IF m <= n - 1 THEN front[m] ELSE back[m - (n - 1)]
  <2>1. front \in Seq(Jobs) /\ back \in Seq(Jobs)
    BY <1>3
  <2>2. /\ front \o back \in Seq(Jobs)
        /\ Len(front \o back) = Len(front) + Len(back)
        /\ \A i \in 1 .. Len(front) + Len(back) : (front \o back)[i] =
             IF i <= Len(front) THEN front[i] ELSE back[i - Len(front)]
    BY <2>1, ConcatProperties
  <2>3. Len(front) + Len(back) = Len(q) - 1 /\ Len(front) = n - 1
    BY <1>3
  <2> QED BY <2>2, <2>3
<1>6. \A m \in 1..(Len(q) - 1) : (front \o back)[m] = IF m < n THEN q[m] ELSE q[m + 1]
  BY <1>3, <1>5
<1> QED BY <1>4, <1>5, <1>6

LEMMA CancelQueue ==
  ASSUME IInv, NEW j \in Jobs, queue' = Dequeued(j)
  PROVE  /\ queue' \in Seq(Jobs)
         /\ \A n \in 1..Len(queue') : queue'[n] # j /\ state[queue'[n]] = "queued"
         /\ \A m, n \in 1..Len(queue') : queue'[m] = queue'[n] => m = n
         /\ \A i \in Jobs \ {j} : state[i] = "queued" => \E n \in 1..Len(queue') : queue'[n] = i
         /\ queue' # << >> => queue # << >>
<1>0. queue \in Seq(Jobs) /\ QueueInv
  BY DEF IInv, TypeOK
<1>1. CASE ~\E n \in 1..Len(queue) : queue[n] = j
  BY <1>0, <1>1 DEF Dequeued, QueueInv
<1>2. CASE \E n \in 1..Len(queue) : queue[n] = j
  <2> DEFINE p == CHOOSE n \in 1..Len(queue) : queue[n] = j
  <2>1. p \in 1..Len(queue) /\ queue[p] = j
    BY <1>2
  <2>2. queue' = RemoveAt(queue, p)
    BY <1>2 DEF Dequeued
  <2> HIDE DEF p
  <2>3. /\ queue' \in Seq(Jobs) /\ Len(queue') = Len(queue) - 1 /\ Len(queue) \in Nat
        /\ \A m \in 1..(Len(queue) - 1) : queue'[m] = IF m < p THEN queue[m] ELSE queue[m + 1]
    <3> DEFINE r == RemoveAt(queue, p)
    <3>1. /\ r \in Seq(Jobs) /\ Len(r) = Len(queue) - 1
          /\ \A m \in 1..(Len(queue) - 1) : r[m] = IF m < p THEN queue[m] ELSE queue[m + 1]
      BY <1>0, <2>1, RemoveAtFacts
    <3>2. queue' = r /\ Len(queue) \in Nat
      BY <1>0, <2>2
    <3> HIDE DEF r
    <3> QED BY <3>1, <3>2
  <2>4. \A n \in 1..Len(queue') : queue'[n] # j /\ state[queue'[n]] = "queued"
    <3> SUFFICES ASSUME NEW n \in 1..Len(queue')
                 PROVE  queue'[n] # j /\ state[queue'[n]] = "queued"
      OBVIOUS
    <3>1. CASE n < p
      BY <1>0, <2>1, <2>3, <3>1 DEF QueueInv
    <3>2. CASE ~(n < p)
      <4>1. n + 1 \in 1..Len(queue) /\ n + 1 # p /\ queue'[n] = queue[n + 1]
        BY <2>1, <2>3, <3>2
      <4> QED BY <1>0, <2>1, <4>1 DEF QueueInv
    <3> QED BY <3>1, <3>2
  <2>5. \A m, n \in 1..Len(queue') : queue'[m] = queue'[n] => m = n
    BY <1>0, <2>1, <2>3 DEF QueueInv
  <2>6. \A i \in Jobs \ {j} : state[i] = "queued" => \E n \in 1..Len(queue') : queue'[n] = i
    <3> SUFFICES ASSUME NEW i \in Jobs \ {j}, state[i] = "queued"
                 PROVE  \E n \in 1..Len(queue') : queue'[n] = i
      OBVIOUS
    <3>1. PICK n \in 1..Len(queue) : queue[n] = i
      BY <1>0 DEF QueueInv
    <3>2. n # p
      BY <2>1, <3>1
    <3>3. CASE n < p
      BY <2>1, <2>3, <3>1, <3>3
    <3>4. CASE n > p
      <4>1. n - 1 \in 1..Len(queue') /\ queue'[n - 1] = i
        BY <2>1, <2>3, <3>1, <3>4
      <4> QED BY <4>1
    <3> QED BY <2>1, <3>2, <3>3, <3>4
  <2>7. queue # << >>
    BY <1>0, <2>1
  <2> QED BY <2>3, <2>4, <2>5, <2>6, <2>7
<1> QED BY <1>1, <1>2

LEMMA CancelIInv ==
  ASSUME IInv, NEW j \in Jobs, Cancel(j)
  PROVE  IInv' /\ Kept
<1>0. TypeOK
  BY DEF IInv
<1>1. /\ state[j] # "none"
      /\ cancelled' = cancelled \cup {j}
      /\ cells' = [cells EXCEPT ![j] = Unsent(cells[j])]
      /\ queue' = Dequeued(j)
      /\ state' = [state EXCEPT ![j] = CancelledState(j)]
      /\ UNCHANGED <<bornIn, saw, pump, epoch, channel, alive, disposed, text, gone, area, closed, rtc>>
  BY DEF Cancel, kernelVars, docVars
<1>2. /\ queue' \in Seq(Jobs)
      /\ \A n \in 1..Len(queue') : queue'[n] # j /\ state[queue'[n]] = "queued"
      /\ \A m, n \in 1..Len(queue') : queue'[m] = queue'[n] => m = n
      /\ \A i \in Jobs \ {j} : state[i] = "queued" => \E n \in 1..Len(queue') : queue'[n] = i
      /\ queue' # << >> => queue # << >>
  BY <1>1, CancelQueue
<1>3. cells = [i \in Jobs |-> cells[i]] /\ saw = [i \in Jobs |-> saw[i]]
  BY DEF IInv, TablesInv
<1>4. /\ \A i \in Jobs \ {j} : cells'[i] = cells[i]
      /\ cells'[j] = MarkRest(cells[j], 1, "cancelled")
      /\ cells' = [i \in Jobs |-> cells'[i]]
  BY <1>1, <1>3 DEF Unsent
<1>5. \A i \in Jobs \ {j} : state'[i] = state[i]
  BY <1>0, <1>1 DEF TypeOK
<1>6. /\ state[j] = "queued" => state'[j] = "cancelled"
      /\ state[j] # "queued" => state'[j] = state[j]
  BY <1>0, <1>1 DEF TypeOK, CancelledState
<1>7. OnlyMarks(j)
  BY <1>0, <1>4, MarkRestOnlyMarks DEF Reasons
<1>8. \A i \in Jobs : OnlyMarks(i)
  <2>1. \A i \in Jobs \ {j} : OnlyMarks(i)
    BY <1>0, <1>4 DEF OnlyMarks, TypeOK
  <2> QED BY <1>7, <2>1
<1>9. \A k \in DOMAIN Targets[j] :
        IF cells[j][k].st = "queued"
        THEN cells'[j][k].st = "not_sent" /\ cells'[j][k].why = "cancelled"
        ELSE cells'[j][k] = cells[j][k]
  <2>1. cells[j] \in [DOMAIN Targets[j] -> CellRecord]
    BY <1>0 DEF TypeOK
  <2>2. \A k \in DOMAIN Targets[j] : k >= 1
    BY TargetsFacts
  <2>3. "cancelled" \in Reasons
    BY DEF Reasons
  <2>4. \A k \in DOMAIN Targets[j] :
          IF k >= 1 /\ cells[j][k].st = "queued"
          THEN /\ MarkRest(cells[j], 1, "cancelled")[k].st = "not_sent"
               /\ MarkRest(cells[j], 1, "cancelled")[k].why = "cancelled"
          ELSE MarkRest(cells[j], 1, "cancelled")[k] = cells[j][k]
    BY <2>1, <2>3, MarkRestFacts
  <2> QED BY <1>4, <2>2, <2>4
<1>10. TypeOK'
  <2>1. \A i \in Jobs : cells'[i] \in [DOMAIN Targets[i] -> CellRecord]
    BY <1>8 DEF OnlyMarks
  <2>2. state' \in [Jobs -> JobStates]
    <3>1. CancelledState(j) \in JobStates
      BY <1>0 DEF TypeOK, CancelledState, JobStates, Terminal
    <3> QED BY <1>0, <1>1, <3>1 DEF TypeOK
  <2>3. /\ \A i \in Jobs : saw'[i] \in [DOMAIN Targets[i] -> 0..MaxEdits]
        /\ bornIn' \in [Jobs -> 0..MaxEpoch] /\ cancelled' \subseteq Jobs
        /\ pump' \in PumpType
        /\ epoch' \in 0..MaxEpoch /\ channel' \in Channels
        /\ alive' \in BOOLEAN /\ disposed' \in BOOLEAN
        /\ text' \in [Cells -> 0..MaxEdits] /\ gone' \subseteq Cells /\ area' \in Areas
        /\ closed' \in BOOLEAN /\ rtc' \in BOOLEAN
    BY <1>0, <1>1 DEF TypeOK, PumpType, Areas
  <2> QED BY <1>2, <2>1, <2>2, <2>3 DEF TypeOK, PumpType, Areas
<1>11. TablesInv'
  BY <1>1, <1>3, <1>4 DEF TablesInv
<1>12. PumpInv'
  <2>1. pump.at \in InJob => state'[pump.job] = "running"
    BY <1>5, <1>6 DEF IInv, PumpInv
  <2> QED BY <1>1, <2>1 DEF IInv, PumpInv
<1>13. QueueInv'
  <2>1. \A n \in 1..Len(queue') : queue'[n] \in Jobs
    BY <1>2
  <2>2. \A n \in 1..Len(queue') : state'[queue'[n]] = "queued"
    BY <1>2, <1>5, <2>1
  <2>3. \A i \in Jobs : state'[i] = "queued" => \E n \in 1..Len(queue') : queue'[n] = i
    BY <1>2, <1>5, <1>6
  <2> QED BY <1>1, <1>2, <2>2, <2>3 DEF IInv, QueueInv
<1>14. WaitingInv'
  <2>1. state'[j] \notin {"none", "queued"}
    BY <1>1, <1>6
  <2> SUFFICES ASSUME NEW i \in Jobs, state'[i] \in {"none", "queued"}
               PROVE  \A k \in DOMAIN Targets[i] : cells'[i][k].st = "queued" /\ cells'[i][k].why = ""
    BY DEF WaitingInv
  <2>2. cells'[i] = cells[i] /\ state'[i] = state[i]
    BY <1>4, <1>5, <2>1
  <2> QED BY <2>2 DEF IInv, WaitingInv
<1>15. RunningInv'
  <2> SUFFICES ASSUME pump.at \in InJob, NEW k \in DOMAIN Targets[pump.job]
               PROVE  LET st == cells'[pump.job][k].st IN
                      /\ k < pump.i => /\ st \in Proven
                                       /\ pump.job \in StopOnError => st = "succeeded"
                      /\ k > pump.i => st \in {"queued", "not_sent"}
                      /\ k = pump.i /\ pump.at = "entered" => st \in {"queued", "not_sent"}
                      /\ k = pump.i /\ pump.at = "returned" =>
                           IF pump.outcome = "completed" THEN st \in Proven
                           ELSE st \in {"unknown", "not_sent"}
    BY <1>1 DEF RunningInv
  <2>1. pump.job \in Jobs
    BY DEF IInv, PumpInv
  <2>2. CASE pump.job # j
    BY <1>4, <2>1, <2>2 DEF IInv, RunningInv
  <2>3. CASE pump.job = j
    BY <1>9, <2>3 DEF IInv, RunningInv, Proven
  <2> QED BY <2>2, <2>3
<1>16. SentIsInFlight' /\ InOrder'
  <2>1. SentIsInFlight /\ InOrder
    BY DEF IInv
  <2> QED BY <1>1, <1>8, <2>1, MarkingKeepsFlight, MarkingKeepsOrder
<1>17. state[j] \in Terminal => cells'[j] = cells[j]
  <2> SUFFICES ASSUME state[j] \in Terminal PROVE cells'[j] = cells[j]
    OBVIOUS
  <2>1. \A k \in DOMAIN Targets[j] : cells'[j][k] = cells[j][k]
    BY <1>9 DEF IInv, EndedIsDecided
  <2>2. cells'[j] = cells[j]
    <3>1. /\ cells[j] \in [DOMAIN Targets[j] -> CellRecord]
          /\ cells'[j] \in [DOMAIN Targets[j] -> CellRecord]
      BY <1>0, <1>10 DEF TypeOK
    <3>2. /\ cells[j] = [k \in DOMAIN Targets[j] |-> cells[j][k]]
          /\ cells'[j] = [k \in DOMAIN Targets[j] |-> cells'[j][k]]
      BY <3>1
    <3> DEFINE old == cells[j]
               new == cells'[j]
    <3>3. old = [k \in DOMAIN Targets[j] |-> old[k]] /\ new = [k \in DOMAIN Targets[j] |-> new[k]]
          /\ \A k \in DOMAIN Targets[j] : new[k] = old[k]
      BY <2>1, <3>2
    <3> HIDE DEF old, new
    <3>4. old = new
      BY <3>3
    <3> QED BY <3>4 DEF old, new
  <2> QED BY <2>2
<1>18. EndedIsDecided'
  <2>1. ASSUME NEW i \in Jobs \ {j}, state'[i] \in Terminal
        PROVE  /\ \A k \in DOMAIN Targets[i] : cells'[i][k].st \notin {"queued", "sent"}
               /\ state'[i] = FinalState(cells'[i])
    BY <1>4, <1>5, <2>1 DEF IInv, EndedIsDecided
  <2>2. CASE state[j] = "queued"
    <3>1. \A k \in DOMAIN Targets[j] :
            cells'[j][k].st = "not_sent" /\ cells'[j][k].why = "cancelled"
      BY <1>9, <2>2 DEF IInv, WaitingInv
    <3>2. DOMAIN cells'[j] = DOMAIN Targets[j] /\ 1 \in DOMAIN Targets[j]
      BY <1>10, TargetsFacts DEF TypeOK
    <3>3. FinalState(cells'[j]) = "cancelled"
      BY <3>1, <3>2 DEF FinalState, Reasons, CellStates
    <3> QED BY <1>6, <2>1, <2>2, <3>1, <3>3 DEF EndedIsDecided
  <2>3. CASE state[j] \in Terminal
    <3>2. cells'[j] = cells[j]
      BY <1>17, <2>3
    <3>3. state'[j] = state[j]
      BY <1>6, <2>3 DEF Terminal
    <3>4. /\ \A k \in DOMAIN Targets[j] : cells'[j][k].st \notin {"queued", "sent"}
          /\ state'[j] = FinalState(cells'[j])
      BY <2>3, <3>2, <3>3 DEF IInv, EndedIsDecided
    <3> QED BY <2>1, <3>4 DEF EndedIsDecided
  <2>4. CASE state[j] = "running"
    <3>1. state'[j] \notin Terminal
      BY <1>6, <2>4 DEF Terminal
    <3> QED BY <2>1, <3>1 DEF EndedIsDecided
  <2> QED BY <1>0, <1>1, <2>2, <2>3, <2>4 DEF TypeOK, JobStates
<1>19. Kept
  BY <1>4, <1>5, <1>6, <1>8, <1>17 DEF Kept, Terminal
<1> QED BY <1>10, <1>11, <1>12, <1>13, <1>14, <1>15, <1>16, <1>18, <1>19 DEF IInv

LEMMA DisposeIInv ==
  ASSUME IInv, Dispose
  PROVE  IInv' /\ Kept
<1>0. TypeOK
  BY DEF IInv
<1> DEFINE waiting == {queue[k] : k \in 1..Len(queue)}
<1>1. /\ Settle("disposed")
      /\ cells' = [j \in Jobs |-> IF j \in waiting
                                  THEN MarkRest(cells[j], 1, "cancelled") ELSE cells[j]]
      /\ state' = [j \in Jobs |-> IF j \in waiting
                                  THEN FinalState(cells'[j]) ELSE state[j]]
      /\ queue' = << >> /\ disposed' = TRUE
      /\ UNCHANGED <<bornIn, saw, cancelled, epoch, channel, alive, text, gone, area, closed, rtc>>
  BY DEF Dispose, docVars
<1>2. \A j \in Jobs : j \in waiting <=> state[j] = "queued"
  <2>1. /\ \A n \in 1..Len(queue) : state[queue[n]] = "queued"
        /\ \A j \in Jobs : state[j] = "queued" => \E n \in 1..Len(queue) : queue[n] = j
    BY DEF IInv, QueueInv
  <2> QED BY <2>1
<1> HIDE DEF waiting
<1>3. \A j \in Jobs : state[j] # "queued" => state'[j] = state[j] /\ cells'[j] = cells[j]
  BY <1>1, <1>2
<1>4. \A j \in Jobs : state[j] = "queued" =>
        /\ cells'[j] = MarkRest(cells[j], 1, "cancelled")
        /\ state'[j] = FinalState(cells'[j]) /\ state'[j] \in Terminal
        /\ \A k \in DOMAIN Targets[j] : cells'[j][k].st = "not_sent"
  <2> SUFFICES ASSUME NEW j \in Jobs, state[j] = "queued"
               PROVE  /\ cells'[j] = MarkRest(cells[j], 1, "cancelled")
                      /\ state'[j] = FinalState(cells'[j]) /\ state'[j] \in Terminal
                      /\ \A k \in DOMAIN Targets[j] : cells'[j][k].st = "not_sent"
    OBVIOUS
  <2>1. cells'[j] = MarkRest(cells[j], 1, "cancelled") /\ state'[j] = FinalState(cells'[j])
    BY <1>1, <1>2
  <2>2. cells[j] \in [DOMAIN Targets[j] -> CellRecord] /\ "cancelled" \in Reasons
    BY <1>0 DEF TypeOK, Reasons
  <2>3. \A k \in DOMAIN Targets[j] : k >= 1 /\ cells[j][k].st = "queued"
    <3>1. \A k \in DOMAIN Targets[j] : k >= 1
      BY TargetsFacts
    <3>2. \A k \in DOMAIN Targets[j] : cells[j][k].st = "queued"
      BY DEF IInv, WaitingInv
    <3> QED BY <3>1, <3>2
  <2>4. \A k \in DOMAIN Targets[j] : MarkRest(cells[j], 1, "cancelled")[k].st = "not_sent"
    BY <2>2, <2>3, MarkRestFacts
  <2> QED BY <2>1, <2>4, FinalIsTerminal
<1>5. \A j \in Jobs : OnlyMarks(j)
  <2> SUFFICES ASSUME NEW j \in Jobs PROVE OnlyMarks(j)
    OBVIOUS
  <2>1. CASE state[j] = "queued"
    BY <1>0, <1>4, <2>1, MarkRestOnlyMarks DEF Reasons
  <2>2. CASE state[j] # "queued"
    BY <1>0, <1>3, <2>2 DEF OnlyMarks, TypeOK
  <2> QED BY <2>1, <2>2
<1>6. /\ pump' \in PumpType
      /\ \/ pump' = pump
         \/ /\ pump.at = "flight" /\ pump'.at = "settled"
            /\ pump'.job = pump.job /\ pump'.i = pump.i
            /\ pump'.outcome # "completed" /\ pump'.got # Evidence
  BY <1>1, SettleIInv
<1>7. TypeOK'
  <2>1. \A i \in Jobs : cells'[i] \in [DOMAIN Targets[i] -> CellRecord]
    BY <1>5 DEF OnlyMarks
  <2>2. state' \in [Jobs -> JobStates]
    <3>1. \A j \in Jobs : state'[j] \in JobStates
      BY <1>0, <1>3, <1>4 DEF TypeOK, JobStates
    <3>2. state' = [j \in Jobs |-> state'[j]]
      BY <1>1
    <3> QED BY <3>1, <3>2
  <2>3. /\ \A i \in Jobs : saw'[i] \in [DOMAIN Targets[i] -> 0..MaxEdits]
        /\ bornIn' \in [Jobs -> 0..MaxEpoch] /\ cancelled' \subseteq Jobs
        /\ epoch' \in 0..MaxEpoch /\ channel' \in Channels
        /\ alive' \in BOOLEAN /\ disposed' \in BOOLEAN
        /\ text' \in [Cells -> 0..MaxEdits] /\ gone' \subseteq Cells /\ area' \in Areas
        /\ closed' \in BOOLEAN /\ rtc' \in BOOLEAN
    BY <1>0, <1>1 DEF TypeOK, Areas
  <2>4. queue' \in Seq(Jobs)
    BY <1>1
  <2> QED BY <1>6, <2>1, <2>2, <2>3, <2>4 DEF TypeOK, PumpType, Areas
<1>8. TablesInv'
  <2>1. cells' = [j \in Jobs |-> cells'[j]]
    BY <1>1
  <2> QED BY <1>1, <2>1 DEF IInv, TablesInv
<1>9. PumpInv'
  <2>1. pump.at \in InJob => pump.job \in Jobs /\ state'[pump.job] = "running"
    BY <1>3 DEF IInv, PumpInv
  <2> QED BY <1>6, <2>1 DEF IInv, PumpInv, InJob
<1>10. QueueInv'
  <2>1. \A j \in Jobs : state'[j] # "queued"
    BY <1>3, <1>4 DEF Terminal
  <2>2. queue' = << >> /\ Len(queue') = 0
    BY <1>1
  <2> QED BY <2>1, <2>2 DEF QueueInv
<1>11. WaitingInv'
  <2> SUFFICES ASSUME NEW j \in Jobs, state'[j] \in {"none", "queued"}
               PROVE  \A k \in DOMAIN Targets[j] : cells'[j][k].st = "queued" /\ cells'[j][k].why = ""
    BY DEF WaitingInv
  <2>1. state[j] # "queued"
    BY <1>4 DEF Terminal
  <2>2. state'[j] = state[j] /\ cells'[j] = cells[j]
    BY <1>3, <2>1
  <2> QED BY <2>2 DEF IInv, WaitingInv
<1>12. RunningInv'
  <2>1. pump'.at \in InJob =>
          /\ pump'.at # "settled" => pump' = pump
          /\ pump.at \in InJob /\ pump'.job = pump.job /\ pump'.i = pump.i
    BY <1>6 DEF InJob
  <2>2. pump.at \in InJob => cells'[pump.job] = cells[pump.job]
    BY <1>3 DEF IInv, PumpInv
  <2> QED BY <2>1, <2>2 DEF IInv, RunningInv
<1>13. SentIsInFlight' /\ InOrder'
  <2>1. SentIsInFlight /\ InOrder
    BY DEF IInv
  <2>2. /\ (pump.at \in {"flight", "settled"}) <=> (pump'.at \in {"flight", "settled"})
        /\ pump'.job = pump.job /\ pump'.i = pump.i
    BY <1>6
  <2> QED BY <1>5, <2>1, <2>2, MarkingKeepsFlight, MarkingKeepsOrder
<1>14. EndedIsDecided'
  <2> SUFFICES ASSUME NEW j \in Jobs, state'[j] \in Terminal
               PROVE  /\ \A k \in DOMAIN Targets[j] : cells'[j][k].st \notin {"queued", "sent"}
                      /\ state'[j] = FinalState(cells'[j])
    BY DEF EndedIsDecided
  <2>1. CASE state[j] = "queued"
    BY <1>4, <2>1
  <2>2. CASE state[j] # "queued"
    BY <1>3, <2>2 DEF IInv, EndedIsDecided
  <2> QED BY <2>1, <2>2
<1>15. Kept
  BY <1>3, <1>5 DEF Kept, Terminal
<1> QED BY <1>7, <1>8, <1>9, <1>10, <1>11, <1>12, <1>13, <1>14, <1>15 DEF IInv

-----------------------------------------------------------------------------
(* The pump. *)

\* A job ends with every cell decided.
LEMMA EndJobIInv ==
  ASSUME IInv, pump.at \in {"entered", "returned"},
         NEW cs \in [DOMAIN Targets[pump.job] -> CellRecord],
         \A k \in DOMAIN Targets[pump.job] :
           /\ cs[k].st # "queued"
           /\ \/ cs[k].st = cells[pump.job][k].st
              \/ cells[pump.job][k].st = "queued" /\ cs[k].st = "not_sent",
         EndJob(pump.job, cs), UNCHANGED docVars
  PROVE  IInv' /\ Kept
<1>0. TypeOK
  BY DEF IInv
<1> DEFINE j == pump.job
<1>1. /\ cells' = [cells EXCEPT ![j] = cs]
      /\ state' = [state EXCEPT ![j] = FinalState(cs)]
      /\ pump' = Between
      /\ UNCHANGED <<bornIn, saw, cancelled, queue, epoch, channel, alive, disposed,
                     text, gone, area, closed, rtc>>
  BY DEF EndJob, kernelVars, docVars
<1>2. j \in Jobs /\ state[j] = "running"
  BY DEF IInv, PumpInv, InJob
<1>3. cells = [i \in Jobs |-> cells[i]] /\ saw = [i \in Jobs |-> saw[i]]
  BY DEF IInv, TablesInv
<1>4. cells'[j] = cs /\ cells' = [i \in Jobs |-> cells'[i]]
      /\ \A i \in Jobs \ {j} : cells'[i] = cells[i]
  BY <1>1, <1>2, <1>3
<1>5. state'[j] = FinalState(cs) /\ state'[j] \in Terminal
      /\ \A i \in Jobs \ {j} : state'[i] = state[i]
  BY <1>0, <1>1, <1>2, FinalIsTerminal DEF TypeOK
<1>6. \A k \in DOMAIN Targets[j] : cells[j][k].st # "sent"
  BY <1>2 DEF IInv, SentIsInFlight
<1>7. \A i \in Jobs : OnlyMarks(i)
  <2>1. OnlyMarks(j)
    BY <1>4 DEF OnlyMarks
  <2>2. \A i \in Jobs \ {j} : OnlyMarks(i)
    BY <1>0, <1>4 DEF OnlyMarks, TypeOK
  <2> QED BY <2>1, <2>2
<1>8. pump' = Between /\ pump'.at = "between" /\ pump' \in PumpType
  BY <1>1 DEF Between, Idle, PumpType, Outcomes, Statuses
<1>9. TypeOK'
  <2>1. \A i \in Jobs : cells'[i] \in [DOMAIN Targets[i] -> CellRecord]
    BY <1>7 DEF OnlyMarks
  <2>2. state' \in [Jobs -> JobStates]
    <3>1. FinalState(cs) \in JobStates
      BY FinalIsTerminal DEF JobStates
    <3> QED BY <1>0, <1>1, <3>1 DEF TypeOK
  <2>3. /\ \A i \in Jobs : saw'[i] \in [DOMAIN Targets[i] -> 0..MaxEdits]
        /\ bornIn' \in [Jobs -> 0..MaxEpoch] /\ cancelled' \subseteq Jobs
        /\ queue' \in Seq(Jobs)
        /\ epoch' \in 0..MaxEpoch /\ channel' \in Channels
        /\ alive' \in BOOLEAN /\ disposed' \in BOOLEAN
        /\ text' \in [Cells -> 0..MaxEdits] /\ gone' \subseteq Cells /\ area' \in Areas
        /\ closed' \in BOOLEAN /\ rtc' \in BOOLEAN
    BY <1>0, <1>1 DEF TypeOK, Areas
  <2> QED BY <1>8, <2>1, <2>2, <2>3 DEF TypeOK, PumpType, Areas
<1>10. TablesInv'
  BY <1>1, <1>3, <1>4 DEF TablesInv
<1>11. PumpInv' /\ RunningInv'
  BY <1>8 DEF PumpInv, RunningInv, InJob
<1>12. QueueInv'
  <2>1. queue \in Seq(Jobs) /\ queue' = queue
    BY <1>0, <1>1 DEF TypeOK
  <2>2. \A n \in 1..Len(queue) : queue[n] \in Jobs \ {j}
    BY <1>2, <2>1 DEF IInv, QueueInv
  <2>3. \A n \in 1..Len(queue) : state'[queue[n]] = "queued"
    BY <1>5, <2>2 DEF IInv, QueueInv
  <2>4. \A i \in Jobs : state'[i] = "queued" => \E n \in 1..Len(queue) : queue[n] = i
    BY <1>5 DEF IInv, QueueInv, Terminal
  <2>5. \A m, n \in 1..Len(queue) : queue[m] = queue[n] => m = n
    BY DEF IInv, QueueInv
  <2> QED BY <1>8, <2>1, <2>3, <2>4, <2>5 DEF QueueInv
<1>13. WaitingInv'
  <2> SUFFICES ASSUME NEW i \in Jobs, state'[i] \in {"none", "queued"}
               PROVE  \A k \in DOMAIN Targets[i] : cells'[i][k].st = "queued" /\ cells'[i][k].why = ""
    BY DEF WaitingInv
  <2>1. cells'[i] = cells[i] /\ state[i] \in {"none", "queued"}
    BY <1>4, <1>5 DEF Terminal
  <2>2. \A k \in DOMAIN Targets[i] : cells[i][k].st = "queued" /\ cells[i][k].why = ""
    BY <2>1 DEF IInv, WaitingInv
  <2> QED BY <2>1, <2>2
<1>14. SentIsInFlight' /\ InOrder'
  <2>1. SentIsInFlight /\ InOrder
    BY DEF IInv
  <2> QED BY <1>7, <1>8, <2>1, MarkingKeepsFlight, MarkingKeepsOrder
<1>15. EndedIsDecided'
  <2> SUFFICES ASSUME NEW i \in Jobs, state'[i] \in Terminal
               PROVE  /\ \A k \in DOMAIN Targets[i] : cells'[i][k].st \notin {"queued", "sent"}
                      /\ state'[i] = FinalState(cells'[i])
    BY DEF EndedIsDecided
  <2>1. CASE i = j
    BY <1>4, <1>5, <1>6, <2>1
  <2>2. CASE i # j
    BY <1>4, <1>5, <2>2 DEF IInv, EndedIsDecided
  <2> QED BY <2>1, <2>2
<1>16. Kept
  BY <1>2, <1>4, <1>5, <1>7 DEF Kept, Terminal
<1> QED BY <1>9, <1>10, <1>11, <1>12, <1>13, <1>14, <1>15, <1>16 DEF IInv

\* What the pump's position says of the job it is in.
LEMMA AtJob ==
  ASSUME IInv, pump.at \in InJob
  PROVE  /\ pump.job \in Jobs /\ state[pump.job] = "running"
         /\ pump.i \in Nat /\ pump.i \in 1..(Len(Targets[pump.job]) + 1)
         /\ pump.at # "entered" => pump.i \in DOMAIN Targets[pump.job]
         /\ cells[pump.job] \in [DOMAIN Targets[pump.job] -> CellRecord]
         /\ Targets[pump.job] \in Seq(Cells)
         /\ DOMAIN Targets[pump.job] = 1..Len(Targets[pump.job])
         /\ Len(Targets[pump.job]) \in Nat
<1>1. /\ pump.job \in Jobs /\ pump.i \in 1..(Len(Targets[pump.job]) + 1)
      /\ state[pump.job] = "running"
      /\ pump.at # "entered" => pump.i \in DOMAIN Targets[pump.job]
  BY DEF IInv, PumpInv
<1>2. \A j \in Jobs : cells[j] \in [DOMAIN Targets[j] -> CellRecord]
  BY DEF IInv, TypeOK
<1>3. cells[pump.job] \in [DOMAIN Targets[pump.job] -> CellRecord]
  BY <1>1, <1>2
<1>4. /\ Targets[pump.job] \in Seq(Cells)
      /\ DOMAIN Targets[pump.job] = 1..Len(Targets[pump.job])
      /\ Len(Targets[pump.job]) \in Nat
  BY <1>1, TargetsFacts
<1>5. pump.i \in Nat
  BY <1>1, <1>4
<1> QED BY <1>1, <1>3, <1>4, <1>5

\* A job that ends with its records marked from some cell on.
LEMMA MarkedEndIInv ==
  ASSUME IInv, pump.at \in {"entered", "returned"}, NEW from \in Nat, NEW why \in Reasons,
         \A k \in DOMAIN Targets[pump.job] : k < from => cells[pump.job][k].st # "queued",
         EndJob(pump.job, MarkRest(cells[pump.job], from, why)), UNCHANGED docVars
  PROVE  IInv' /\ Kept
<1> DEFINE old == cells[pump.job]
           cs  == MarkRest(old, from, why)
<1>1. old \in [DOMAIN Targets[pump.job] -> CellRecord]
      /\ DOMAIN Targets[pump.job] = 1..Len(Targets[pump.job])
      /\ Len(Targets[pump.job]) \in Nat
  BY AtJob DEF InJob
<1>2. /\ cs \in [DOMAIN Targets[pump.job] -> CellRecord]
      /\ \A k \in DOMAIN Targets[pump.job] :
           IF k >= from /\ old[k].st = "queued" THEN cs[k].st = "not_sent" ELSE cs[k] = old[k]
  <2> HIDE DEF old
  <2> QED BY <1>1, MarkRestFacts
<1>3. \A k \in DOMAIN Targets[pump.job] : k < from => old[k].st # "queued"
  OBVIOUS
<1>4. EndJob(pump.job, cs)
  OBVIOUS
<1> HIDE DEF cs
<1>5. \A k \in DOMAIN Targets[pump.job] :
        /\ cs[k].st # "queued"
        /\ \/ cs[k].st = cells[pump.job][k].st
           \/ cells[pump.job][k].st = "queued" /\ cs[k].st = "not_sent"
  BY <1>1, <1>2, <1>3
<1> QED BY <1>2, <1>4, <1>5, EndJobIInv

LEMMA StopIInv ==
  ASSUME IInv, pump.at = "entered", pump.i <= Len(Targets[pump.job]),
         StopsBefore(pump.job, pump.i),
         EndJob(pump.job, Stopped(pump.job, pump.i)), UNCHANGED docVars
  PROVE  IInv' /\ Kept
<1> DEFINE j == pump.job
           i == pump.i
<1>1. /\ j \in Jobs /\ i \in DOMAIN Targets[j] /\ i \in Nat
      /\ cells[j] \in [DOMAIN Targets[j] -> CellRecord]
      /\ DOMAIN Targets[j] = 1..Len(Targets[j]) /\ Len(Targets[j]) \in Nat
  BY AtJob DEF InJob
<1>2. \A k \in DOMAIN Targets[j] :
        /\ k < i => cells[j][k].st \in Proven
        /\ k = i => cells[j][k].st \in {"queued", "not_sent"}
  BY DEF IInv, RunningInv, InJob
<1>3. \A k \in DOMAIN Targets[j] : k < i => cells[j][k].st # "queued"
  BY <1>2 DEF Proven
<1>4. CASE j \in cancelled
  BY <1>1, <1>3, <1>4, MarkedEndIInv DEF Stopped, Reasons
<1>5. CASE j \notin cancelled /\ bornIn[j] # epoch
  BY <1>1, <1>3, <1>5, MarkedEndIInv DEF Stopped, Reasons
<1>6. CASE j \notin cancelled /\ bornIn[j] = epoch
  <2> DEFINE mid == [cells[j] EXCEPT ![i].st = "not_sent", ![i].why = "target"]
             cs  == MarkRest(mid, i + 1, "stop_on_error")
  <2>1. /\ mid \in [DOMAIN Targets[j] -> CellRecord]
        /\ mid[i].st = "not_sent"
        /\ \A k \in DOMAIN Targets[j] : k # i => mid[k] = cells[j][k]
    BY <1>1 DEF CellRecord, CellStates, Reasons
  <2>2. EndJob(j, cs)
    BY <1>6 DEF Stopped
  <2> HIDE DEF mid
  <2>3. /\ cs \in [DOMAIN Targets[j] -> CellRecord]
        /\ \A k \in DOMAIN Targets[j] :
             IF k >= i + 1 /\ mid[k].st = "queued" THEN cs[k].st = "not_sent" ELSE cs[k] = mid[k]
    <3>1. "stop_on_error" \in Reasons
      BY DEF Reasons
    <3> QED BY <2>1, <3>1, MarkRestFacts
  <2> HIDE DEF cs
  <2>4. \A k \in DOMAIN Targets[j] :
          /\ cs[k].st # "queued"
          /\ \/ cs[k].st = cells[j][k].st
             \/ cells[j][k].st = "queued" /\ cs[k].st = "not_sent"
    <3> SUFFICES ASSUME NEW k \in DOMAIN Targets[j]
                 PROVE  /\ cs[k].st # "queued"
                        /\ \/ cs[k].st = cells[j][k].st
                           \/ cells[j][k].st = "queued" /\ cs[k].st = "not_sent"
      OBVIOUS
    <3>1. CASE k < i
      BY <1>1, <1>3, <2>1, <2>3, <3>1
    <3>2. CASE k = i
      <4>1. cs[k] = mid[k]
        BY <1>1, <2>1, <2>3, <3>2
      <4> QED BY <1>2, <2>1, <3>2, <4>1
    <3>3. CASE k > i
      BY <1>1, <2>1, <2>3, <3>3
    <3> QED BY <1>1, <3>1, <3>2, <3>3
  <2> QED BY <2>2, <2>3, <2>4, EndJobIInv
<1> QED BY <1>4, <1>5, <1>6

\* A step of the pump inside its job that changes at most one record, the
\* one at hand, and leaves the job running.
AtHand(j, i, st) ==
  /\ cells'[j] \in [DOMAIN Targets[j] -> CellRecord]
  /\ cells'[j][i].st = st
  /\ \A k \in DOMAIN Targets[j] : k # i => cells'[j][k] = cells[j][k]

LEMMA AtHandIInv ==
  ASSUME IInv, pump.at \in InJob, pump'.at \in InJob \ {"entered"},
         pump' \in PumpType, pump'.job = pump.job, pump'.i = pump.i,
         pump.i \in DOMAIN Targets[pump.job],
         NEW st \in CellStates \ {"queued"}, AtHand(pump.job, pump.i, st),
         cells' = [j \in Jobs |-> cells'[j]],
         \A j \in Jobs \ {pump.job} : cells'[j] = cells[j],
         st = "sent" <=> pump'.at \in {"flight", "settled"},
         pump'.at = "flight" => pump'.got # Evidence,
         pump'.at = "settled" => (pump'.outcome = "completed" <=> pump'.got = Evidence),
         pump'.at = "returned" => IF pump'.outcome = "completed" THEN st \in Proven
                                  ELSE st \in {"unknown", "not_sent"},
         UNCHANGED <<state, bornIn, saw, cancelled, queue, kernelVars>>,
         area' \in Areas, UNCHANGED <<text, gone, closed, rtc>>
  PROVE  IInv'
<1>0. TypeOK
  BY DEF IInv
<1> DEFINE j == pump.job
           i == pump.i
<1>1. /\ j \in Jobs /\ state[j] = "running"
      /\ i \in DOMAIN Targets[j] /\ DOMAIN Targets[j] = 1..Len(Targets[j])
      /\ Len(Targets[j]) \in Nat /\ i \in 1..(Len(Targets[j]) + 1)
  BY AtJob
<1>2. \A k \in DOMAIN Targets[j] :
        /\ k < i => /\ cells[j][k].st \in Proven
                    /\ j \in StopOnError => cells[j][k].st = "succeeded"
        /\ k > i => cells[j][k].st \in {"queued", "not_sent"}
  BY DEF IInv, RunningInv
<1>3. /\ cells'[j] \in [DOMAIN Targets[j] -> CellRecord]
      /\ cells'[j][i].st = st
      /\ \A k \in DOMAIN Targets[j] : k # i => cells'[j][k] = cells[j][k]
  BY DEF AtHand
<1>4. TypeOK'
  <2>1. \A h \in Jobs : cells'[h] \in [DOMAIN Targets[h] -> CellRecord]
    BY <1>0, <1>3 DEF TypeOK
  <2>2. /\ state' \in [Jobs -> JobStates]
        /\ \A h \in Jobs : saw'[h] \in [DOMAIN Targets[h] -> 0..MaxEdits]
        /\ bornIn' \in [Jobs -> 0..MaxEpoch] /\ cancelled' \subseteq Jobs
        /\ queue' \in Seq(Jobs)
        /\ epoch' \in 0..MaxEpoch /\ channel' \in Channels
        /\ alive' \in BOOLEAN /\ disposed' \in BOOLEAN
        /\ text' \in [Cells -> 0..MaxEdits] /\ gone' \subseteq Cells
        /\ closed' \in BOOLEAN /\ rtc' \in BOOLEAN
    BY <1>0 DEF TypeOK, kernelVars
  <2> QED BY <2>1, <2>2 DEF TypeOK, PumpType, Areas
<1>5. TablesInv'
  BY DEF IInv, TablesInv
<1>6. PumpInv'
  BY <1>1 DEF PumpInv
<1>7. QueueInv'
  BY DEF IInv, QueueInv, InJob
<1>8. WaitingInv'
  <2> SUFFICES ASSUME NEW h \in Jobs, state[h] \in {"none", "queued"}
               PROVE  \A k \in DOMAIN Targets[h] : cells'[h][k].st = "queued" /\ cells'[h][k].why = ""
    BY DEF WaitingInv
  <2>1. cells'[h] = cells[h]
    BY <1>1
  <2>2. \A k \in DOMAIN Targets[h] : cells[h][k].st = "queued" /\ cells[h][k].why = ""
    BY DEF IInv, WaitingInv
  <2> QED BY <2>1, <2>2
<1>9. RunningInv'
  <2> SUFFICES ASSUME NEW k \in DOMAIN Targets[j]
               PROVE  /\ k < i => /\ cells'[j][k].st \in Proven
                                  /\ j \in StopOnError => cells'[j][k].st = "succeeded"
                      /\ k > i => cells'[j][k].st \in {"queued", "not_sent"}
                      /\ k = i /\ pump'.at = "returned" =>
                           IF pump'.outcome = "completed" THEN st \in Proven
                           ELSE st \in {"unknown", "not_sent"}
    BY <1>3 DEF RunningInv
  <2>1. CASE k = i
    BY <1>1, <2>1
  <2>2. CASE k # i
    BY <1>2, <1>3, <2>2
  <2> QED BY <2>1, <2>2
<1>10. SentIsInFlight'
  <2> SUFFICES ASSUME NEW h \in Jobs, NEW k \in DOMAIN Targets[h]
               PROVE  cells'[h][k].st = "sent"
                        <=> pump'.at \in {"flight", "settled"} /\ j = h /\ i = k
    BY DEF SentIsInFlight
  <2>1. CASE h = j /\ k = i
    BY <1>3, <2>1
  <2>2. CASE h # j
    BY <2>2 DEF IInv, SentIsInFlight
  <2>3. CASE h = j /\ k # i
    BY <1>3, <2>3 DEF IInv, SentIsInFlight
  <2> QED BY <2>1, <2>2, <2>3
<1>11. InOrder'
  <2> SUFFICES ASSUME NEW h \in Jobs, NEW k \in DOMAIN Targets[h], NEW n \in 1..(k - 1),
                      cells'[h][k].st \in {"sent"} \cup Finished
               PROVE  /\ cells'[h][n].st \in Proven
                      /\ h \in StopOnError => cells'[h][n].st = "succeeded"
    BY DEF InOrder
  <2>1. CASE h # j
    BY <2>1 DEF IInv, InOrder
  <2>2. CASE h = j
    <3>1. n \in DOMAIN Targets[j] /\ n < k /\ k \in DOMAIN Targets[j]
      BY <2>2, TargetsFacts
    <3>2. ~(k > i)
      BY <1>2, <1>3, <2>2, <3>1 DEF Finished, Proven
    <3>3. n < i
      BY <1>1, <3>1, <3>2
    <3>4. cells'[j][n] = cells[j][n]
      BY <1>1, <1>3, <3>1, <3>3
    <3> QED BY <1>2, <2>2, <3>1, <3>3, <3>4
  <2> QED BY <2>1, <2>2
<1>12. EndedIsDecided'
  <2> SUFFICES ASSUME NEW h \in Jobs, state[h] \in Terminal
               PROVE  /\ \A k \in DOMAIN Targets[h] : cells'[h][k].st \notin {"queued", "sent"}
                      /\ state[h] = FinalState(cells'[h])
    BY DEF EndedIsDecided
  <2>1. cells'[h] = cells[h]
    BY <1>1 DEF Terminal
  <2> QED BY <2>1 DEF IInv, EndedIsDecided
<1> QED BY <1>4, <1>5, <1>6, <1>7, <1>8, <1>9, <1>10, <1>11, <1>12 DEF IInv

\* The next cell of the job, or the first of the next one, is at hand.
LEMMA EnterIInv ==
  ASSUME IInv, NEW j \in Jobs, NEW i \in 1..(Len(Targets[j]) + 1),
         pump' = At("entered", j, i), pump.at \notin {"flight", "settled"},
         state' \in [Jobs -> JobStates], state'[j] = "running",
         \A h \in Jobs \ {j} : state'[h] = state[h],
         state[j] \in {"queued", "running"},
         queue' \in Seq(Jobs), QueueInv',
         \A k \in DOMAIN Targets[j] :
           /\ k < i => /\ cells[j][k].st \in Proven
                       /\ j \in StopOnError => cells[j][k].st = "succeeded"
           /\ k >= i => cells[j][k].st \in {"queued", "not_sent"},
         UNCHANGED <<cells, bornIn, saw, cancelled, kernelVars, docVars>>
  PROVE  IInv'
<1>0. TypeOK
  BY DEF IInv
<1>1. i \in Nat /\ DOMAIN Targets[j] = 1..Len(Targets[j]) /\ Len(Targets[j]) \in Nat
  BY TargetsFacts
<1>2. /\ pump' \in PumpType /\ pump'.at = "entered" /\ pump'.job = j /\ pump'.i = i
  BY <1>1 DEF At, Idle, PumpType, Outcomes, Statuses
<1>3. cells' = cells /\ saw' = saw
  OBVIOUS
<1>4. TypeOK'
  <2>1. /\ \A h \in Jobs : cells'[h] \in [DOMAIN Targets[h] -> CellRecord]
        /\ \A h \in Jobs : saw'[h] \in [DOMAIN Targets[h] -> 0..MaxEdits]
    BY <1>0, <1>3 DEF TypeOK
  <2>2. /\ bornIn' \in [Jobs -> 0..MaxEpoch] /\ cancelled' \subseteq Jobs
        /\ epoch' \in 0..MaxEpoch /\ channel' \in Channels
        /\ alive' \in BOOLEAN /\ disposed' \in BOOLEAN
        /\ text' \in [Cells -> 0..MaxEdits] /\ gone' \subseteq Cells /\ area' \in Areas
        /\ closed' \in BOOLEAN /\ rtc' \in BOOLEAN
    BY <1>0 DEF TypeOK, Areas, kernelVars, docVars
  <2> QED BY <1>2, <2>1, <2>2 DEF TypeOK, PumpType, Areas
<1>5. TablesInv'
  BY <1>3 DEF IInv, TablesInv
<1>6. PumpInv'
  BY <1>2 DEF PumpInv
<1>7. WaitingInv'
  <2> SUFFICES ASSUME NEW h \in Jobs, state'[h] \in {"none", "queued"}
               PROVE  \A k \in DOMAIN Targets[h] : cells'[h][k].st = "queued" /\ cells'[h][k].why = ""
    BY DEF WaitingInv
  <2>1. state[h] \in {"none", "queued"}
    OBVIOUS
  <2>2. \A k \in DOMAIN Targets[h] : cells[h][k].st = "queued" /\ cells[h][k].why = ""
    BY <2>1 DEF IInv, WaitingInv
  <2> QED BY <1>3, <2>2
<1>8. RunningInv'
  <2>1. \A k \in DOMAIN Targets[j] : k > i \/ k = i => k >= i
    BY <1>1
  <2>2. \A k \in DOMAIN Targets[j] : k > i \/ k = i => cells[j][k].st \in {"queued", "not_sent"}
    BY <2>1
  <2> QED BY <1>2, <1>3, <2>2 DEF RunningInv
<1>9. SentIsInFlight' /\ InOrder'
  <2>1. \A h \in Jobs : \A k \in DOMAIN Targets[h] : cells'[h][k].st # "sent"
    BY <1>3 DEF IInv, SentIsInFlight
  <2>2. InOrder'
    BY <1>3 DEF IInv, InOrder
  <2> QED BY <1>2, <2>1, <2>2 DEF SentIsInFlight
<1>10. EndedIsDecided'
  <2> SUFFICES ASSUME NEW h \in Jobs, state'[h] \in Terminal
               PROVE  /\ \A k \in DOMAIN Targets[h] : cells[h][k].st \notin {"queued", "sent"}
                      /\ state'[h] = FinalState(cells[h])
    BY <1>3 DEF EndedIsDecided
  <2>1. h # j
    BY DEF Terminal
  <2>2. state'[h] = state[h]
    BY <2>1
  <2> QED BY <2>2 DEF IInv, EndedIsDecided
<1> QED BY <1>4, <1>5, <1>6, <1>7, <1>8, <1>9, <1>10 DEF IInv

\* The cell at hand is handed to the kernel.
Sends ==
  /\ pump.job \in Jobs /\ state[pump.job] = "running"
  /\ pump.i \in DOMAIN Targets[pump.job]
  /\ ~StopsBefore(pump.job, pump.i) /\ ~Refuses
  /\ AtHand(pump.job, pump.i, "sent")
  /\ \A h \in Jobs \ {pump.job} : cells'[h] = cells[h]
  /\ UNCHANGED state

\* The cell at hand gets its verdict.
Judges ==
  /\ pump.at = "settled" /\ pump.job \in Jobs /\ pump.i \in DOMAIN Targets[pump.job]
  /\ AtHand(pump.job, pump.i, Verdict(pump.outcome, pump.status).st)
  /\ \A h \in Jobs \ {pump.job} : cells'[h] = cells[h]
  /\ UNCHANGED state

LEMMA IterateIInv ==
  ASSUME IInv, Iterate
  PROVE  IInv' /\ (Kept \/ Sends)
<1> DEFINE j == pump.job
           i == pump.i
<1>0. pump.at = "entered"
  BY DEF Iterate
<1>1. /\ j \in Jobs /\ state[j] = "running" /\ i \in 1..(Len(Targets[j]) + 1) /\ i \in Nat
      /\ cells[j] \in [DOMAIN Targets[j] -> CellRecord]
      /\ Targets[j] \in Seq(Cells)
      /\ DOMAIN Targets[j] = 1..Len(Targets[j]) /\ Len(Targets[j]) \in Nat
  BY <1>0, AtJob DEF InJob
<1>2. CASE i > Len(Targets[j]) /\ EndJob(j, cells[j]) /\ UNCHANGED docVars
  <2>1. \A k \in DOMAIN Targets[j] : k < i
    BY <1>1, <1>2
  <2>2. \A k \in DOMAIN Targets[j] : cells[j][k].st # "queued"
    BY <1>0, <2>1 DEF IInv, RunningInv, InJob, Proven
  <2> QED BY <1>0, <1>1, <1>2, <2>2, EndJobIInv
<1>3. CASE /\ i <= Len(Targets[j]) /\ StopsBefore(j, i)
           /\ EndJob(j, Stopped(j, i)) /\ UNCHANGED docVars
  BY <1>0, <1>3, StopIInv
<1>4. CASE /\ i <= Len(Targets[j]) /\ ~StopsBefore(j, i)
           /\ LET c == Targets[j][i]
                  opened == Opened(area[c])
              IN  /\ area' = [area EXCEPT ![c] = opened]
                  /\ cells' = [cells EXCEPT ![j][i] =
                       IF Refuses
                       THEN [st |-> "not_sent", why |-> "kernel_dead", gen |-> opened.gen]
                       ELSE [st |-> "sent", why |-> "", gen |-> opened.gen]]
           /\ pump' = IF Refuses
                      THEN [At("returned", j, i) EXCEPT !.outcome = "kernel_changed"]
                      ELSE At("flight", j, i)
           /\ UNCHANGED <<state, bornIn, saw, cancelled, queue, kernelVars,
                          text, gone, closed, rtc>>
  <2> DEFINE c == Targets[j][i]
             opened == Opened(area[c])
             rec == IF Refuses
                    THEN [st |-> "not_sent", why |-> "kernel_dead", gen |-> opened.gen]
                    ELSE [st |-> "sent", why |-> "", gen |-> opened.gen]
  <2>1. area' = [area EXCEPT ![c] = opened] /\ cells' = [cells EXCEPT ![j][i] = rec]
    BY <1>4
  <2>2. i \in DOMAIN Targets[j] /\ c \in Cells
    <3>0. i <= Len(Targets[j])
      BY <1>4
    <3>1. i \in 1..Len(Targets[j])
      BY <1>1, <3>0
    <3>2. Targets[j][i] \in Cells
      BY <1>1, <3>1
    <3> QED BY <1>1, <3>1, <3>2
  <2>3. area \in Areas
    BY DEF IInv, TypeOK, Areas
  <2>4. opened \in [gen : Nat, owner : Nat, prompt : {"idle", "running"}]
    <3>1. area[c] \in [gen : Nat, owner : Nat, prompt : {"idle", "running"}]
      BY <2>2, <2>3 DEF Areas
    <3> QED BY <3>1 DEF Opened
  <2>5. area' \in Areas
    <3> HIDE DEF opened
    <3> QED BY <2>1, <2>2, <2>3, <2>4 DEF Areas
  <2>6. rec \in CellRecord /\ rec.st = (IF Refuses THEN "not_sent" ELSE "sent")
    BY <2>4 DEF CellRecord, CellStates, Reasons
  <2> HIDE DEF rec
  <2>7. cells = [h \in Jobs |-> cells[h]]
    BY DEF IInv, TablesInv
  <2>8. /\ cells'[j] = [cells[j] EXCEPT ![i] = rec]
        /\ \A h \in Jobs \ {j} : cells'[h] = cells[h]
        /\ cells' = [h \in Jobs |-> cells'[h]]
    BY <1>1, <2>1, <2>7
  <2>9. AtHand(j, i, rec.st)
    BY <1>1, <2>2, <2>6, <2>8 DEF AtHand
  <2>10. CASE Refuses
    <3>1. /\ pump' \in PumpType /\ pump'.at = "returned" /\ pump'.job = j /\ pump'.i = i
          /\ pump'.outcome = "kernel_changed"
      BY <1>1, <1>4, <2>10 DEF At, Idle, PumpType, Outcomes, Statuses
    <3>2. rec.st = "not_sent" /\ rec.st \in CellStates \ {"queued"}
      BY <2>6, <2>10 DEF CellStates
    <3>3. IInv'
      BY <1>0, <1>4, <2>2, <2>5, <2>8, <2>9, <3>1, <3>2, AtHandIInv DEF InJob
    <3>4. cells[j][i].st \in {"queued", "not_sent"}
      BY <1>0, <2>2 DEF IInv, RunningInv, InJob
    <3>5. OnlyMarks(j)
      BY <2>9, <3>2, <3>4 DEF AtHand, OnlyMarks
    <3>6. Kept
      <4>1. \A h \in Jobs \ {j} : cells[h] \in [DOMAIN Targets[h] -> CellRecord]
        BY DEF IInv, TypeOK
      <4>2. \A h \in Jobs \ {j} : OnlyMarks(h)
        BY <2>8, <4>1 DEF OnlyMarks
      <4> QED BY <1>1, <1>4, <2>8, <3>5, <4>2 DEF Kept, Terminal
    <3> QED BY <3>3, <3>6
  <2>11. CASE ~Refuses
    <3>1. /\ pump' \in PumpType /\ pump'.at = "flight" /\ pump'.job = j /\ pump'.i = i
          /\ pump'.got = {}
      BY <1>1, <1>4, <2>11 DEF At, Idle, PumpType, Outcomes, Statuses
    <3>2. rec.st = "sent" /\ rec.st \in CellStates \ {"queued"}
      BY <2>6, <2>11 DEF CellStates
    <3>3. pump'.got # Evidence
      BY <3>1 DEF Evidence
    <3>4. IInv'
      BY <1>0, <1>4, <2>2, <2>5, <2>8, <2>9, <3>1, <3>2, <3>3, AtHandIInv DEF InJob
    <3>5. Sends
      BY <1>1, <1>4, <2>2, <2>8, <2>9, <2>11, <3>2 DEF Sends
    <3> QED BY <3>4, <3>5
  <2> QED BY <2>10, <2>11
<1> QED BY <1>2, <1>3, <1>4 DEF Iterate

LEMMA AbandonIInv ==
  ASSUME IInv, Abandon
  PROVE  IInv' /\ Kept
<1>1. /\ pump.at = "entered"
      /\ EndJob(pump.job, MarkRest(cells[pump.job], 1, "rtc_not_ready"))
      /\ UNCHANGED docVars
  BY DEF Abandon
<1>2. DOMAIN Targets[pump.job] = 1..Len(Targets[pump.job]) /\ Len(Targets[pump.job]) \in Nat
  BY <1>1, AtJob DEF InJob
<1>3. \A k \in DOMAIN Targets[pump.job] : k < 1 => cells[pump.job][k].st # "queued"
  BY <1>2
<1> QED BY <1>1, <1>3, MarkedEndIInv DEF Reasons

LEMMA ResumeIInv ==
  ASSUME IInv, Resume
  PROVE  IInv' /\ Judges
<1> DEFINE j == pump.job
           i == pump.i
           v == Verdict(pump.outcome, pump.status)
<1>0. /\ pump.at = "settled"
      /\ cells' = [cells EXCEPT ![j][i].st = v.st, ![j][i].why = v.why]
      /\ pump' = [pump EXCEPT !.at = "returned"]
      /\ UNCHANGED <<state, bornIn, saw, cancelled, queue, kernelVars, docVars>>
  BY DEF Resume
<1>1. /\ j \in Jobs /\ i \in DOMAIN Targets[j]
      /\ cells[j] \in [DOMAIN Targets[j] -> CellRecord]
  BY <1>0, AtJob DEF InJob
<1>2. /\ v.st \in CellStates \ {"queued", "sent"} /\ v.why \in Reasons
      /\ IF pump.outcome = "completed" THEN v.st \in Proven ELSE v.st = "unknown"
  BY DEF Verdict, CellStates, Reasons, Finished, Proven
<1> HIDE DEF v
<1>3. cells = [h \in Jobs |-> cells[h]]
  BY DEF IInv, TablesInv
<1>4. /\ cells'[j] = [cells[j] EXCEPT ![i].st = v.st, ![i].why = v.why]
      /\ \A h \in Jobs \ {j} : cells'[h] = cells[h]
      /\ cells' = [h \in Jobs |-> cells'[h]]
  BY <1>0, <1>1, <1>3
<1>5. AtHand(j, i, v.st)
  BY <1>1, <1>2, <1>4 DEF AtHand, CellRecord
<1>6. /\ pump' \in PumpType /\ pump'.at = "returned" /\ pump'.job = j /\ pump'.i = i
      /\ pump'.outcome = pump.outcome
  BY <1>0 DEF IInv, TypeOK, PumpType
<1>7. area' \in Areas /\ UNCHANGED <<text, gone, closed, rtc>>
  BY <1>0 DEF IInv, TypeOK, Areas, docVars
<1>8. IInv'
  BY <1>0, <1>1, <1>2, <1>4, <1>5, <1>6, <1>7, AtHandIInv DEF InJob
<1>9. Judges
  BY <1>0, <1>1, <1>4, <1>5 DEF Judges, v
<1> QED BY <1>8, <1>9

LEMMA ContinueIInv ==
  ASSUME IInv, Continue
  PROVE  IInv' /\ (LostEvidence \/ FailedHere => Kept)
<1> DEFINE j == pump.job
           i == pump.i
<1>0. pump.at = "returned" /\ UNCHANGED docVars
  BY DEF Continue
<1>1. /\ j \in Jobs /\ state[j] = "running" /\ i \in DOMAIN Targets[j] /\ i \in Nat
      /\ DOMAIN Targets[j] = 1..Len(Targets[j]) /\ Len(Targets[j]) \in Nat
  BY <1>0, AtJob DEF InJob
<1>2. \A k \in DOMAIN Targets[j] :
        /\ k < i => /\ cells[j][k].st \in Proven
                    /\ j \in StopOnError => cells[j][k].st = "succeeded"
        /\ k > i => cells[j][k].st \in {"queued", "not_sent"}
        /\ k = i => IF pump.outcome = "completed" THEN cells[j][k].st \in Proven
                    ELSE cells[j][k].st \in {"unknown", "not_sent"}
  BY <1>0 DEF IInv, RunningInv, InJob
<1>3. \A k \in DOMAIN Targets[j] : k < i + 1 => cells[j][k].st # "queued"
  <2>1. \A k \in DOMAIN Targets[j] : k < i + 1 => k < i \/ k = i
    BY <1>1
  <2> QED BY <1>2, <2>1 DEF Proven
<1>4. ASSUME NEW why \in Reasons, EndJob(j, MarkRest(cells[j], i + 1, why))
      PROVE  IInv' /\ Kept
  <2>1. i + 1 \in Nat
    BY <1>1
  <2> QED BY <1>0, <1>3, <1>4, <2>1, MarkedEndIInv
<1>5. CASE LostEvidence
  BY <1>4, <1>5 DEF Continue, Reasons
<1>6. CASE ~LostEvidence /\ FailedHere
  BY <1>4, <1>6 DEF Continue, Reasons
<1>7. CASE ~LostEvidence /\ ~FailedHere
  <2>1. pump' = At("entered", j, i + 1) /\ UNCHANGED <<jobVars, queue, kernelVars>>
    BY <1>7 DEF Continue
  <2>2. \A k \in DOMAIN Targets[j] :
          /\ k < i + 1 => /\ cells[j][k].st \in Proven
                          /\ j \in StopOnError => cells[j][k].st = "succeeded"
          /\ k >= i + 1 => cells[j][k].st \in {"queued", "not_sent"}
    <3> SUFFICES ASSUME NEW k \in DOMAIN Targets[j]
                 PROVE  /\ k < i + 1 => /\ cells[j][k].st \in Proven
                                        /\ j \in StopOnError => cells[j][k].st = "succeeded"
                        /\ k >= i + 1 => cells[j][k].st \in {"queued", "not_sent"}
      OBVIOUS
    <3>1. CASE k < i
      BY <1>1, <1>2, <3>1
    <3>2. CASE k = i
      <4>1. cells[j][i].st \in Proven
        BY <1>1, <1>2, <1>7 DEF LostEvidence
      <4>2. j \in StopOnError => cells[j][i].st = "succeeded"
        BY <1>7, <4>1 DEF FailedHere, Proven
      <4> QED BY <1>1, <3>2, <4>1, <4>2
    <3>3. CASE k > i
      BY <1>1, <1>2, <3>3
    <3> QED BY <1>1, <3>1, <3>2, <3>3
  <2>3. i + 1 \in 1..(Len(Targets[j]) + 1)
    BY <1>1
  <2>4. state' \in [Jobs -> JobStates] /\ queue' \in Seq(Jobs) /\ state' = state
        /\ UNCHANGED <<cells, bornIn, saw, cancelled, queue>>
    BY <2>1 DEF IInv, TypeOK, jobVars
  <2>5. QueueInv'
    <3>1. pump'.at = "entered"
      BY <2>1 DEF At, Idle
    <3> QED BY <2>4, <3>1 DEF IInv, QueueInv
  <2>6. IInv'
    BY <1>0, <1>1, <2>1, <2>2, <2>3, <2>4, <2>5, EnterIInv
  <2> QED BY <1>7, <2>6
<1> QED BY <1>5, <1>6, <1>7

LEMMA NextJobIInv ==
  ASSUME IInv, NextJob
  PROVE  IInv'
<1>0. /\ pump.at = "between" /\ TypeOK /\ queue \in Seq(Jobs)
      /\ UNCHANGED <<cells, bornIn, saw, cancelled, kernelVars, docVars>>
  BY DEF NextJob, IInv, TypeOK
<1>1. CASE queue = << >>
  <2>1. pump' = Idle /\ UNCHANGED <<state, queue>>
    BY <1>1 DEF NextJob
  <2>2. pump' \in PumpType /\ pump'.at = "idle"
    BY <2>1 DEF Idle, PumpType, Outcomes, Statuses
  <2>3. cells' = cells /\ saw' = saw /\ state' = state /\ queue' = queue
    BY <1>0, <2>1
  <2>4. TypeOK'
    <3>1. /\ bornIn' \in [Jobs -> 0..MaxEpoch] /\ cancelled' \subseteq Jobs
          /\ epoch' \in 0..MaxEpoch /\ channel' \in Channels
          /\ alive' \in BOOLEAN /\ disposed' \in BOOLEAN
          /\ text' \in [Cells -> 0..MaxEdits] /\ gone' \subseteq Cells /\ area' \in Areas
          /\ closed' \in BOOLEAN /\ rtc' \in BOOLEAN
      BY <1>0 DEF TypeOK, Areas, kernelVars, docVars
    <3>2. /\ state' \in [Jobs -> JobStates] /\ queue' \in Seq(Jobs)
          /\ \A h \in Jobs : cells'[h] \in [DOMAIN Targets[h] -> CellRecord]
          /\ \A h \in Jobs : saw'[h] \in [DOMAIN Targets[h] -> 0..MaxEdits]
      BY <1>0, <2>3 DEF TypeOK
    <3> QED BY <2>2, <3>1, <3>2 DEF TypeOK, PumpType, Areas
  <2>5. PumpInv' /\ RunningInv'
    BY <2>2 DEF PumpInv, RunningInv, InJob
  <2>6. TablesInv' /\ WaitingInv'
    BY <2>3 DEF IInv, TablesInv, WaitingInv
  <2>7. QueueInv'
    BY <1>1, <2>3 DEF IInv, QueueInv
  <2>8. InOrder' /\ EndedIsDecided'
    BY <2>3 DEF IInv, InOrder, EndedIsDecided
  <2>9. SentIsInFlight'
    BY <1>0, <2>2, <2>3 DEF IInv, SentIsInFlight
  <2> QED BY <2>4, <2>5, <2>6, <2>7, <2>8, <2>9 DEF IInv
<1>2. CASE queue # << >>
  <2> DEFINE j == Head(queue)
  <2>1. /\ pump' = At("entered", j, 1)
        /\ queue' = Tail(queue)
        /\ state' = [state EXCEPT ![j] = "running"]
    BY <1>2 DEF NextJob
  <2>2. /\ j \in Jobs /\ j = queue[1] /\ Len(queue) \in Nat /\ Len(queue) >= 1
        /\ queue' \in Seq(Jobs) /\ Len(queue') = Len(queue) - 1
        /\ \A n \in 1..Len(queue') : queue'[n] = queue[n + 1]
    BY <1>0, <1>2, <2>1
  <2> HIDE DEF j
  <2>3. state[j] = "queued"
    BY <2>2 DEF IInv, QueueInv
  <2>4. /\ state' \in [Jobs -> JobStates] /\ state'[j] = "running"
        /\ \A h \in Jobs \ {j} : state'[h] = state[h]
    BY <1>0, <2>1, <2>2 DEF TypeOK, JobStates
  <2>5. QueueInv'
    <3>1. \A n \in 1..Len(queue') : n + 1 \in 1..Len(queue) /\ n + 1 # 1 /\ 1 \in 1..Len(queue)
      BY <2>2
    <3>2. \A n \in 1..Len(queue') : queue'[n] \in Jobs \ {j} /\ state[queue'[n]] = "queued"
      BY <1>0, <2>2, <3>1 DEF IInv, QueueInv
    <3>3. \A n \in 1..Len(queue') : state'[queue'[n]] = "queued"
      BY <2>4, <3>2
    <3>4. \A m, n \in 1..Len(queue') : queue'[m] = queue'[n] => m = n
      <4> SUFFICES ASSUME NEW m \in 1..Len(queue'), NEW n \in 1..Len(queue'), queue'[m] = queue'[n]
                   PROVE  m = n
        OBVIOUS
      <4>1. queue[m + 1] = queue[n + 1]
        BY <2>2
      <4>2. m + 1 = n + 1
        BY <3>1, <4>1 DEF IInv, QueueInv
      <4> QED BY <4>2
    <3>5. \A h \in Jobs : state'[h] = "queued" => \E n \in 1..Len(queue') : queue'[n] = h
      <4> SUFFICES ASSUME NEW h \in Jobs, state'[h] = "queued"
                   PROVE  \E n \in 1..Len(queue') : queue'[n] = h
        OBVIOUS
      <4>1. h # j /\ state[h] = "queued"
        BY <2>4
      <4>2. PICK n \in 1..Len(queue) : queue[n] = h
        BY <4>1 DEF IInv, QueueInv
      <4>3. n # 1
        BY <2>2, <4>1, <4>2
      <4>4. n - 1 \in 1..Len(queue') /\ (n - 1) + 1 = n
        BY <2>2, <4>3
      <4>5. queue'[n - 1] = h
        BY <2>2, <4>2, <4>4
      <4> QED BY <4>4, <4>5
    <3>6. pump'.at = "entered"
      BY <2>1 DEF At, Idle
    <3> QED BY <3>3, <3>4, <3>5, <3>6 DEF QueueInv
  <2>6. \A k \in DOMAIN Targets[j] :
          /\ k < 1 => /\ cells[j][k].st \in Proven
                      /\ j \in StopOnError => cells[j][k].st = "succeeded"
          /\ k >= 1 => cells[j][k].st \in {"queued", "not_sent"}
    <3>1. \A k \in DOMAIN Targets[j] : ~(k < 1)
      BY <2>2, TargetsFacts
    <3>2. \A k \in DOMAIN Targets[j] : cells[j][k].st = "queued"
      BY <2>2, <2>3 DEF IInv, WaitingInv
    <3> QED BY <3>1, <3>2
  <2>7. 1 \in 1..(Len(Targets[j]) + 1)
    BY <2>2, TargetsFacts
  <2> QED BY <1>0, <2>1, <2>2, <2>3, <2>4, <2>5, <2>6, <2>7, EnterIInv
<1> QED BY <1>1, <1>2

-----------------------------------------------------------------------------
(* The invariant, and what it gives. *)

LEMMA StepIInv ==
  ASSUME IInv, [Next]_vars
  PROVE  IInv'
<1>1. CASE Pump
  BY <1>1, IterateIInv, AbandonIInv, ResumeIInv, ContinueIInv, NextJobIInv DEF Pump
<1>2. CASE Hear
  BY <1>2, HearIInv DEF Hear
<1>3. CASE \E j \in Jobs : Submit(j) \/ Cancel(j)
  BY <1>3, SubmitIInv, CancelIInv
<1>4. CASE \/ \E dies \in BOOLEAN : KernelChanged(dies)
           \/ \E to \in Channels : StatusChanged(to)
  BY <1>4, KernelIInv
<1>5. CASE \/ \E c \in Touched : Edit(c) \/ Delete(c) \/ TakeOver(c)
           \/ CloseNotebook \/ Room \/ WatchAny
  BY <1>5, NotebookIInv
<1>6. CASE Dispose
  BY <1>6, DisposeIInv
<1>7. CASE UNCHANGED vars
  <2>1. UNCHANGED <<jobVars, queue, pump>>
    BY <1>7 DEF vars
  <2>2. TypeOK'
    BY <1>7 DEF IInv, TypeOK, vars, jobVars, kernelVars, docVars
  <2> QED BY <2>1, <2>2, ElsewhereIInv
<1> QED BY <1>1, <1>2, <1>3, <1>4, <1>5, <1>6, <1>7 DEF Next

\* The inductive invariant: positions of the pump, the queue and the records.
THEOREM InductiveInvariant == Spec => []IInv
<1>1. IInv /\ [Next]_vars => IInv'
  BY StepIInv
<1> QED BY <1>1, InitIInv, PTL DEF Spec

\* Every variable keeps its type, for every set of jobs and every list of cells.
THEOREM Typing == Spec => []TypeOK
<1>1. IInv => TypeOK
  BY DEF IInv
<1> QED BY <1>1, InductiveInvariant, PTL

\* At most one cell is in flight, and it is the one the pump awaits.
THEOREM OneCellInFlight == Spec => []SentIsInFlight
<1>1. IInv => SentIsInFlight
  BY DEF IInv
<1> QED BY <1>1, InductiveInvariant, PTL

\* Cells are sent in the order of the list, never past doubt.
THEOREM CellsRunInOrder == Spec => []InOrder
<1>1. IInv => InOrder
  BY DEF IInv
<1> QED BY <1>1, InductiveInvariant, PTL

\* A job in a terminal state accounts for all of its cells.
THEOREM EndedAccountsForCells == Spec => []EndedIsDecided
<1>1. IInv => EndedIsDecided
  BY DEF IInv
<1> QED BY <1>1, InductiveInvariant, PTL

\* No lost wake-up, and no job queued twice: the queue holds exactly the queued
\* jobs, and an idle pump leaves it empty.
THEOREM NoLostWakeUp == Spec => []QueueIsServed
<1>1. IInv => QueueIsServed
  <2> SUFFICES ASSUME IInv PROVE QueueIsServed
    OBVIOUS
  <2> DEFINE waiting == {j \in Jobs : state[j] = "queued"}
             slots   == 1..Len(queue)
  <2>1. queue \in Seq(Jobs) /\ Len(queue) \in Nat /\ QueueInv
    BY DEF IInv, TypeOK
  <2>2. \A n \in slots : queue[n] \in waiting
    BY <2>1 DEF QueueInv
  <2>3. \A j \in waiting : \E n \in slots : queue[n] = j
    BY <2>1 DEF QueueInv
  <2>4. {queue[n] : n \in slots} = waiting
    BY <2>2, <2>3
  <2>5. Len(queue) = Cardinality(waiting)
    <3> DEFINE f == [n \in slots |-> queue[n]]
    <3>1. f \in [slots -> waiting]
      BY <2>2
    <3>2. \A m, n \in slots : f[m] = f[n] => m = n
      BY <2>1 DEF QueueInv
    <3>3. \A j \in waiting : \E n \in slots : f[n] = j
      BY <2>3
    <3> HIDE DEF f, waiting
    <3>4. f \in Bijection(slots, waiting)
      BY <3>1, <3>2, <3>3 DEF Bijection, Injection, Surjection, IsInjective
    <3>5. ExistsBijection(1..Len(queue), waiting)
      BY <3>4 DEF ExistsBijection
    <3> QED BY <2>1, <3>5, FS_CountingElements
  <2>6. queue # << >> => pump.at # "idle"
    BY <2>1 DEF QueueInv
  <2> QED BY <2>4, <2>5, <2>6 DEF QueueIsServed
<1> QED BY <1>1, InductiveInvariant, PTL

-----------------------------------------------------------------------------
(* What one step may do to the records. *)

LEMMA UnchangedIsKept ==
  ASSUME IInv, UNCHANGED cells,
         \A j \in Jobs : state[j] \in Terminal => state'[j] = state[j]
  PROVE  Kept
<1>1. \A j \in Jobs : cells[j] \in [DOMAIN Targets[j] -> CellRecord]
  BY DEF IInv, TypeOK
<1> QED BY <1>1 DEF Kept, OnlyMarks

LEMMA StepKinds ==
  ASSUME IInv, [Next]_vars
  PROVE  Kept \/ Sends \/ Judges
<1>0. state \in [Jobs -> JobStates]
  BY DEF IInv, TypeOK
<1>1. CASE UNCHANGED <<state, cells>>
  BY <1>1, UnchangedIsKept
<1>2. CASE Iterate \/ Abandon \/ Resume
  BY <1>2, IterateIInv, AbandonIInv, ResumeIInv
<1>3. CASE Continue
  <2>1. CASE LostEvidence
    BY <1>3, <2>1, ContinueIInv DEF Continue, Reasons
  <2>2. CASE ~LostEvidence /\ FailedHere
    BY <1>3, <2>2, ContinueIInv DEF Continue, Reasons
  <2>3. CASE ~LostEvidence /\ ~FailedHere
    <3>1. UNCHANGED <<state, cells>>
      BY <1>3, <2>3 DEF Continue, jobVars
    <3> QED BY <1>1, <3>1
  <2> QED BY <2>1, <2>2, <2>3
<1>4. CASE NextJob
  <2>1. cells' = cells /\ (state' = state \/ (queue # << >> /\ state' = [state EXCEPT ![Head(queue)] = "running"]))
    BY <1>4 DEF NextJob
  <2>2. queue # << >> => Head(queue) \in Jobs /\ state[Head(queue)] = "queued"
    <3>1. queue \in Seq(Jobs)
      BY DEF IInv, TypeOK
    <3>2. queue # << >> => Head(queue) = queue[1] /\ 1 \in 1..Len(queue) /\ queue[1] \in Jobs
      BY <3>1
    <3> QED BY <3>2 DEF IInv, QueueInv
  <2>3. \A j \in Jobs : state[j] \in Terminal => state'[j] = state[j]
    BY <1>0, <2>1, <2>2 DEF Terminal
  <2> QED BY <2>1, <2>3, UnchangedIsKept
<1>5. ASSUME NEW j \in Jobs, Submit(j) PROVE Kept
  <2>1. /\ state[j] = "none" /\ cells' = cells
        /\ \/ state' = [state EXCEPT ![j] = "running"]
           \/ state' = [state EXCEPT ![j] = "queued"]
    BY <1>5 DEF Submit
  <2>2. \A h \in Jobs : state[h] \in Terminal => state'[h] = state[h]
    BY <1>0, <2>1 DEF Terminal
  <2> QED BY <2>1, <2>2, UnchangedIsKept
<1>6. ASSUME NEW j \in Jobs, Cancel(j) PROVE Kept
  BY <1>6, CancelIInv
<1>7. CASE Dispose
  BY <1>7, DisposeIInv
<1>8. CASE Hear
  BY <1>1, <1>8 DEF Hear, Receive, jobVars
<1>9. CASE \/ \E dies \in BOOLEAN : KernelChanged(dies)
           \/ \E to \in Channels : StatusChanged(to)
  BY <1>1, <1>9 DEF KernelChanged, StatusChanged, jobVars
<1>10. CASE \/ \E c \in Touched : Edit(c) \/ Delete(c) \/ TakeOver(c)
            \/ CloseNotebook \/ Room
  BY <1>1, <1>10 DEF Edit, Delete, TakeOver, CloseNotebook, Room, jobVars
<1>11. CASE WatchAny
  <2>1. UNCHANGED jobVars
    BY <1>11 DEF WatchAny, Watch
  <2> QED BY <1>1, <2>1 DEF jobVars
<1>12. CASE UNCHANGED vars
  BY <1>1, <1>12 DEF vars, jobVars
<1> QED BY <1>2, <1>3, <1>4, <1>5, <1>6, <1>7, <1>8, <1>9, <1>10, <1>11, <1>12 DEF Next, Pump

\* A terminal state and the records under it never change again.
THEOREM EndedStaysEnded == Spec => EndedIsFinal
<1>1. IInv /\ [Next]_vars =>
        [\A j \in Jobs : state[j] \in Terminal =>
           state'[j] = state[j] /\ cells'[j] = cells[j]]_vars
  <2> SUFFICES ASSUME IInv, [Next]_vars, NEW j \in Jobs, state[j] \in Terminal
               PROVE  state'[j] = state[j] /\ cells'[j] = cells[j]
    OBVIOUS
  <2>1. CASE Kept
    BY <2>1 DEF Kept
  <2>2. CASE Sends
    BY <2>2 DEF Sends, Terminal
  <2>3. CASE Judges
    <3>1. state[pump.job] = "running"
      BY <2>3, AtJob DEF Judges, InJob
    <3> QED BY <2>3, <3>1 DEF Judges, Terminal
  <2> QED BY <2>1, <2>2, <2>3, StepKinds
<1> QED BY <1>1, InductiveInvariant, PTL DEF Spec, EndedIsFinal

\* What is sent was accepted for this kernel, is not cancelled, and is the text
\* the caller saw.
THEOREM SendsAccepted == Spec => SendsWhatWasAccepted
<1>1. IInv /\ [Next]_vars =>
        [\A j \in Jobs : \A k \in DOMAIN Targets[j] :
           cells[j][k].st # "sent" /\ cells'[j][k].st = "sent" =>
             /\ j \notin cancelled /\ bornIn[j] = epoch /\ ~disposed
             /\ text[Targets[j][k]] = saw[j][k] /\ Targets[j][k] \notin gone]_vars
  <2> SUFFICES ASSUME IInv, [Next]_vars, NEW j \in Jobs, NEW k \in DOMAIN Targets[j],
                      cells[j][k].st # "sent", cells'[j][k].st = "sent"
               PROVE  /\ j \notin cancelled /\ bornIn[j] = epoch /\ ~disposed
                      /\ text[Targets[j][k]] = saw[j][k] /\ Targets[j][k] \notin gone
    OBVIOUS
  <2>1. ~Kept
    BY DEF Kept, OnlyMarks
  <2>2. CASE Sends
    <3>1. j = pump.job /\ k = pump.i
      BY <2>2 DEF Sends, AtHand
    <3>2. ~StopsBefore(j, k) /\ ~Refuses
      BY <2>2, <3>1 DEF Sends
    <3> QED BY <3>2 DEF StopsBefore, TargetOk, Refuses
  <2>3. ~Judges
    <3> SUFFICES ASSUME Judges PROVE FALSE
      OBVIOUS
    <3>1. j = pump.job /\ k = pump.i
      BY DEF Judges, AtHand
    <3>2. cells'[j][k].st = Verdict(pump.outcome, pump.status).st
      BY <3>1 DEF Judges, AtHand
    <3>3. Verdict(pump.outcome, pump.status).st # "sent"
      BY DEF Verdict
    <3> QED BY <3>2, <3>3
  <2> QED BY <2>1, <2>2, <2>3, StepKinds
<1> QED BY <1>1, InductiveInvariant, PTL DEF Spec, SendsWhatWasAccepted

\* A verdict of the kernel is given exactly when reply and idle came first.
THEOREM VerdictNeedsEvidence == Spec => VerdictIsEvidence
<1>1. IInv /\ [Next]_vars =>
        [\A j \in Jobs : \A k \in DOMAIN Targets[j] :
           cells[j][k].st = "sent" /\ cells'[j][k].st # "sent" =>
             /\ cells'[j][k].st \in Finished
             /\ (cells'[j][k].st \in Proven <=> pump.got = {"reply", "idle"})]_vars
  <2> SUFFICES ASSUME IInv, [Next]_vars, NEW j \in Jobs, NEW k \in DOMAIN Targets[j],
                      cells[j][k].st = "sent", cells'[j][k].st # "sent"
               PROVE  /\ cells'[j][k].st \in Finished
                      /\ (cells'[j][k].st \in Proven <=> pump.got = {"reply", "idle"})
    OBVIOUS
  <2>1. ~Kept
    BY DEF Kept, OnlyMarks
  <2>2. ~Sends
    BY DEF Sends, AtHand
  <2>3. CASE Judges
    <3>1. j = pump.job /\ k = pump.i
      BY <2>3 DEF Judges, AtHand
    <3>2. cells'[j][k].st = Verdict(pump.outcome, pump.status).st
      BY <2>3, <3>1 DEF Judges, AtHand
    <3>3. pump.outcome = "completed" <=> pump.got = {"reply", "idle"}
      BY <2>3 DEF Judges, IInv, PumpInv, Evidence
    <3>4. IF pump.outcome = "completed" THEN cells'[j][k].st \in Proven
          ELSE cells'[j][k].st = "unknown"
      BY <3>2 DEF Verdict, Proven
    <3> QED BY <3>3, <3>4 DEF Finished, Proven
  <2> QED BY <2>1, <2>2, <2>3, StepKinds
<1> QED BY <1>1, InductiveInvariant, PTL DEF Spec, VerdictIsEvidence

\* The whole invariant of the registry between any two steps.
THEOREM RegistryIsSound == Spec => []RegistryInvariant
<1>1. TypeOK /\ SentIsInFlight /\ QueueIsServed /\ EndedIsDecided => RegistryInvariant
  BY DEF RegistryInvariant
<1> QED BY <1>1, Typing, OneCellInFlight, NoLostWakeUp, EndedAccountsForCells, PTL

-------------------------------------------------------------------------------
(* The views of an execution, and the snapshots of its outputs. *)

(* Sets of numbers have a least element, finite ones a greatest. *)
LEMMA Least ==
  ASSUME NEW T \in SUBSET Nat, T # {}
  PROVE  \E n \in T : \A m \in T : n <= m
<1>1. PICK n \in T : \A m \in T : ~ (<<m, n>> \in OpToRel(<, Nat))
  BY WFMin, NatLessThanWellFounded
<1>2. \A m \in T : ~(m < n)
  BY <1>1 DEF OpToRel
<1> QED BY <1>2

LEMMA Greatest ==
  ASSUME NEW T \in SUBSET Nat, IsFiniteSet(T), T # {}
  PROVE  \E n \in T : \A m \in T : m <= n
<1> DEFINE Bad == {S \in SUBSET T : S # {} /\ \A n \in S : \E m \in S : ~(m <= n)}
           Sizes == {n \in Nat : \E S \in Bad : Cardinality(S) = n}
<1>1. \A S \in SUBSET T : IsFiniteSet(S) /\ Cardinality(S) \in Nat
  BY FS_Subset, FS_CardinalityType
<1>2. Sizes = {}
  <2> SUFFICES ASSUME Sizes # {} PROVE FALSE
    OBVIOUS
  <2>1. PICK n \in Sizes : \A m \in Sizes : n <= m
    <3> HIDE DEF Bad
    <3> QED BY Least
  <2>2. PICK S \in Bad : Cardinality(S) = n
    OBVIOUS
  <2>3. PICK x \in S : TRUE
    OBVIOUS
  <2>4. /\ IsFiniteSet(S) /\ S \in SUBSET T
        /\ S \ {x} \in SUBSET T /\ Cardinality(S \ {x}) = n - 1
    BY <1>1, <2>2, <2>3, FS_RemoveElement
  <2>5. S \ {x} \notin Bad
    <3> HIDE DEF Bad
    <3> QED BY <1>1, <2>1, <2>4
  <2>6. x \in Nat /\ S \subseteq Nat
    BY <2>2, <2>3
  <2>7. CASE S \ {x} = {}
    <3>1. S = {x}
      BY <2>7, <2>3
    <3> QED BY <3>1, <2>2, <2>6
  <2>8. CASE S \ {x} # {}
    <3>1. PICK y \in S \ {x} : \A m \in S \ {x} : m <= y
      BY <2>4, <2>5, <2>8
    <3>2. \E z \in S : \A m \in S : m <= z
      <4>1. CASE x <= y
        BY <4>1, <3>1
      <4>2. CASE ~(x <= y)
        BY <4>2, <3>1, <2>6
      <4> QED BY <4>1, <4>2
    <3> QED BY <3>2, <2>2
  <2> QED BY <2>7, <2>8
<1>3. T \notin Bad
  <2>1. ASSUME T \in Bad PROVE FALSE
    <3>1. Cardinality(T) \in Sizes
      BY <1>1, <2>1
    <3> QED BY <3>1, <1>2
  <2> QED BY <2>1
<1> QED BY <1>3

LEMMA MaxIs ==
  ASSUME NEW T \in SUBSET Nat, IsFiniteSet(T), T # {}
  PROVE  Max(T) \in T /\ \A m \in T : m <= Max(T)
<1>1. \E n \in T : \A m \in T : n >= m
  <2>1. PICK n \in T : \A m \in T : m <= n
    BY Greatest
  <2> QED BY <2>1
<1>2. Max(T) \in T /\ \A m \in T : Max(T) >= m
  BY <1>1 DEF Max
<1> QED BY <1>2

LEMMA MinIs ==
  ASSUME NEW a \in Int, NEW b \in Int
  PROVE  Min({a, b}) = IF a <= b THEN a ELSE b
<1>1. \E x \in {a, b} : \A y \in {a, b} : x =< y
  OBVIOUS
<1>2. Min({a, b}) \in {a, b} /\ \A y \in {a, b} : Min({a, b}) =< y
  BY <1>1 DEF Min
<1> QED BY <1>2

LEMMA FiniteImages ==
  ASSUME NEW S, IsFiniteSet(S), NEW f, DOMAIN f = S
  PROVE  IsFiniteSet({f[x] : x \in S})
<1> DEFINE g == [x \in S |-> f[x]]
<1>1. g \in Surjection(S, {f[x] : x \in S})
  BY DEF Surjection
<1> QED BY <1>1, FS_Surjection

-------------------------------------------------------------------------------
(* The bytes of snapshots. *)

Keys == [cell : Positions, index : Nat \ {0}, token : Tokens]
Snapshots == [id : Nat \ {0}, key : Keys, alternate : Nat]

BytesOf(snapshots) == UNION {{s.id} \X (1..Retained(s)) : s \in snapshots}
Distinct(snapshots) == \A r, s \in snapshots : r.id = s.id => r = s

LEMMA BytesType ==
  ASSUME NEW t \in Tokens
  PROVE  /\ Bytes(t) \in Nat /\ Bytes(t) \in Boundaries[t]
         /\ \A b \in Boundaries[t] : b <= Bytes(t)
BY ViewsAssumption, MaxIs DEF Bytes

LEMMA RetainedType ==
  ASSUME NEW s \in Snapshots
  PROVE  Retained(s) \in Nat
BY BytesType DEF Retained, Snapshots, Keys

LEMMA TotalType ==
  ASSUME NEW S \in SUBSET Snapshots, IsFiniteSet(S)
  PROVE  IsFiniteSet(BytesOf(S)) /\ Total(S) \in Nat /\ Total(S) = Cardinality(BytesOf(S))
<1> DEFINE f == [s \in S |-> {s.id} \X (1..Retained(s))]
<1>1. \A s \in S : IsFiniteSet(f[s])
  <2> TAKE s \in S
  <2>1. Retained(s) \in Int
    BY RetainedType
  <2>2. IsFiniteSet(1..Retained(s))
    BY <2>1, FS_Interval
  <2>3. IsFiniteSet({s.id})
    BY FS_Singleton
  <2> QED BY <2>2, <2>3, FS_Product
<1>2. IsFiniteSet({f[s] : s \in S})
  BY FiniteImages
<1>3. BytesOf(S) = UNION {f[s] : s \in S}
  BY DEF BytesOf
<1>4. IsFiniteSet(BytesOf(S))
  <2> HIDE DEF f
  <2> QED BY <1>1, <1>2, <1>3, FS_UNION
<1>5. Total(S) = Cardinality(BytesOf(S))
  BY DEF Total, BytesOf
<1> QED BY <1>4, <1>5, FS_CardinalityType

LEMMA TotalGrows ==
  ASSUME NEW S \in SUBSET Snapshots, IsFiniteSet(S), NEW T \in SUBSET S
  PROVE  IsFiniteSet(T) /\ Total(T) \in Nat /\ Total(T) <= Total(S)
<1>1. IsFiniteSet(T)
  BY FS_Subset
<1>2. BytesOf(T) \subseteq BytesOf(S)
  BY DEF BytesOf
<1> QED BY <1>1, <1>2, TotalType, FS_Subset

LEMMA TotalSplits ==
  ASSUME NEW S \in SUBSET Snapshots, IsFiniteSet(S), Distinct(S),
         NEW A \in SUBSET S, NEW B \in SUBSET S, A \cup B = S, A \cap B = {}
  PROVE  Total(S) = Total(A) + Total(B)
<1>1. IsFiniteSet(A) /\ IsFiniteSet(B)
  BY FS_Subset
<1>2. BytesOf(S) = BytesOf(A) \cup BytesOf(B)
  BY DEF BytesOf
<1>3. BytesOf(A) \cap BytesOf(B) = {}
  <2>1. ASSUME NEW x \in BytesOf(A), x \in BytesOf(B) PROVE FALSE
    <3>1. PICK a \in A : x \in {a.id} \X (1..Retained(a))
      BY <2>1 DEF BytesOf
    <3>2. PICK b \in B : x \in {b.id} \X (1..Retained(b))
      BY <2>1 DEF BytesOf
    <3>3. a.id = b.id
      BY <3>1, <3>2
    <3> QED BY <3>3 DEF Distinct
  <2> QED BY <2>1
<1>4. Cardinality(BytesOf(A) \cap BytesOf(B)) = 0
  BY <1>3, FS_EmptySet
<1> QED BY <1>1, <1>2, <1>4, TotalType, FS_Union

-------------------------------------------------------------------------------
(* The store. *)

StoreInv(st) ==
  /\ st = [snapshots |-> st.snapshots, byKey |-> st.byKey, used |-> st.used, next |-> st.next]
  /\ st.snapshots \in SUBSET Snapshots /\ IsFiniteSet(st.snapshots) /\ Distinct(st.snapshots)
  /\ st.next \in Nat \ {0} /\ \A s \in st.snapshots : s.id < st.next
  /\ st.used = Total(st.snapshots) /\ st.used <= StoreBytes
  /\ \A k \in DOMAIN st.byKey :
       \E s \in st.snapshots : s.id = st.byKey[k] /\ s.key = k

\* What an answer mentions: each output of a cell once.
KeysOk(keys) ==
  /\ keys \in SUBSET Keys /\ IsFiniteSet(keys)
  /\ \A j, k \in keys : j.cell = k.cell /\ j.index = k.index => j = k

Place(keys, key) == Cardinality({k \in keys : Before(k, key)})

LEMMA BeforeOrders ==
  ASSUME NEW keys, KeysOk(keys), NEW j \in keys, NEW k \in keys
  PROVE  /\ ~Before(k, k)
         /\ j # k => Before(j, k) \/ Before(k, j)
         /\ \A i \in keys : Before(i, j) /\ Before(j, k) => Before(i, k)
<1>1. \A i \in keys : i.cell \in Int /\ i.index \in Int
  BY DEF KeysOk, Keys, Positions
<1> QED BY <1>1 DEF Before, KeysOk

LEMMA PlaceType ==
  ASSUME NEW keys, KeysOk(keys), NEW key \in keys
  PROVE  Place(keys, key) \in 0..Cardinality(keys) - 1
<1> DEFINE B == {k \in keys : Before(k, key)}
<1>1. IsFiniteSet(keys) /\ B \in SUBSET keys /\ key \notin B
  BY BeforeOrders DEF KeysOk
<1>2. IsFiniteSet(B) /\ Cardinality(B) <= Cardinality(keys) /\ Cardinality(B) # Cardinality(keys)
  BY <1>1, FS_Subset
<1> QED BY <1>1, <1>2, FS_CardinalityType DEF Place

LEMMA PlaceGrows ==
  ASSUME NEW keys, KeysOk(keys), NEW j \in keys, NEW k \in keys, Before(j, k)
  PROVE  Place(keys, j) < Place(keys, k)
<1> DEFINE A == {i \in keys : Before(i, j)}
           B == {i \in keys : Before(i, k)}
<1>1. A \in SUBSET B /\ j \in B /\ j \notin A
  BY BeforeOrders
<1>2. IsFiniteSet(B)
  BY FS_Subset DEF KeysOk
<1>3. IsFiniteSet(A) /\ Cardinality(A) <= Cardinality(B) /\ Cardinality(A) # Cardinality(B)
  BY <1>1, <1>2, FS_Subset
<1> QED BY <1>2, <1>3, FS_CardinalityType DEF Place

LEMMA PlacesDiffer ==
  ASSUME NEW keys, KeysOk(keys), NEW j \in keys, NEW k \in keys,
         Place(keys, j) = Place(keys, k)
  PROVE  j = k
<1>1. Place(keys, j) \in Nat /\ Place(keys, k) \in Nat
  BY PlaceType
<1> QED BY <1>1, BeforeOrders, PlaceGrows

LEMMA CandidateType ==
  ASSUME NEW st, StoreInv(st), NEW keys, KeysOk(keys), NEW key \in keys
  PROVE  /\ Candidate(st, keys, key) \in Snapshots
         /\ Candidate(st, keys, key).id = st.next + Place(keys, key)
         /\ Candidate(st, keys, key).key = key
<1>1. Alternate[key.token] \in Nat /\ key \in Keys
  BY ViewsAssumption DEF KeysOk, Keys
<1>2. st.next + Place(keys, key) \in Nat \ {0}
  BY PlaceType DEF StoreInv
<1> QED BY <1>1, <1>2 DEF Candidate, Snapshots, Place

\* The snapshots of an answer that is being built: one for each of its keys,
\* retained or new.
Pending(st, keys, S) ==
  /\ S \in SUBSET Snapshots /\ IsFiniteSet(S)
  /\ \A s \in S : s.key \in keys
  /\ \A s \in S : s \in st.snapshots \/ s.id = st.next + Place(keys, s.key)
  /\ \A r, s \in S : r.key = s.key => r = s

LEMMA NewIsYounger ==
  ASSUME NEW st, StoreInv(st), NEW keys, KeysOk(keys), NEW S, Pending(st, keys, S),
         NEW s \in S, s \notin st.snapshots
  PROVE  s.id = st.next + Place(keys, s.key) /\ s.id \in st.next..st.next + Cardinality(keys) - 1
<1>1. s.id = st.next + Place(keys, s.key) /\ s.key \in keys
  BY DEF Pending
<1>2. Place(keys, s.key) \in 0..Cardinality(keys) - 1 /\ Cardinality(keys) \in Nat
  BY <1>1, PlaceType, FS_CardinalityType DEF KeysOk
<1>3. st.next \in Nat
  BY DEF StoreInv
<1> QED BY <1>1, <1>2, <1>3

LEMMA PendingIsDistinct ==
  ASSUME NEW st, StoreInv(st), NEW keys, KeysOk(keys), NEW S, Pending(st, keys, S)
  PROVE  Distinct(S \cup st.snapshots)
<1> SUFFICES ASSUME NEW r \in S \cup st.snapshots, NEW s \in S \cup st.snapshots, r.id = s.id
             PROVE  r = s
  BY DEF Distinct
<1>1. \A x \in S \cup st.snapshots : x \in Snapshots /\ x.id \in Nat
  BY DEF Pending, StoreInv, Snapshots
<1>2. \A x \in st.snapshots : x.id < st.next
  BY DEF StoreInv
<1>3. st.next \in Nat /\ Cardinality(keys) \in Nat
  BY FS_CardinalityType DEF StoreInv, KeysOk
<1>4. \A x \in S \ st.snapshots :
        x.id = st.next + Place(keys, x.key) /\ st.next <= x.id /\ x.key \in keys
  BY <1>3, NewIsYounger DEF Pending
<1>5. CASE r \in st.snapshots /\ s \in st.snapshots
  BY <1>5 DEF StoreInv, Distinct
<1>6. CASE r \notin st.snapshots /\ s \notin st.snapshots
  <2>1. Place(keys, r.key) = Place(keys, s.key)
    <3>1. Place(keys, r.key) \in Int /\ Place(keys, s.key) \in Int
      BY <1>4, <1>6, PlaceType
    <3> QED BY <3>1, <1>3, <1>4, <1>6
  <2>2. r.key = s.key
    BY <2>1, <1>4, <1>6, PlacesDiffer
  <2> QED BY <2>2, <1>6 DEF Pending
<1>7. CASE (r \in st.snapshots) # (s \in st.snapshots)
  BY <1>1, <1>2, <1>3, <1>4, <1>7
<1> QED BY <1>5, <1>6, <1>7

\* Making some anew, or without their alternates, keeps them pending.
LEMMA PendingMaps ==
  ASSUME NEW st, StoreInv(st), NEW keys, KeysOk(keys), NEW S, Pending(st, keys, S),
         NEW f, DOMAIN f = S,
         \A s \in S : /\ f[s] \in Snapshots /\ f[s].key = s.key
                      /\ f[s] = s \/ f[s].id = st.next + Place(keys, s.key)
  PROVE  Pending(st, keys, {f[s] : s \in S})
<1>1. IsFiniteSet({f[s] : s \in S})
  BY FiniteImages DEF Pending
<1>2. \A s \in S : f[s].key \in keys /\ (f[s] \in st.snapshots \/ f[s].id = st.next + Place(keys, f[s].key))
  BY DEF Pending
<1>3. \A r, s \in S : f[r].key = f[s].key => f[r] = f[s]
  BY DEF Pending
<1> QED BY <1>1, <1>2, <1>3 DEF Pending

LEMMA GivenUpType ==
  ASSUME NEW s \in Snapshots
  PROVE  GivenUp(s) \in Snapshots /\ GivenUp(s).key = s.key /\ GivenUp(s).id = s.id
BY DEF GivenUp, Snapshots

LEMMA TrimKeeps ==
  ASSUME NEW st, StoreInv(st), NEW keys, KeysOk(keys), NEW S, Pending(st, keys, S)
  PROVE  Pending(st, keys, TrimNewAlternates(st, S))
<1> DEFINE new == S \ st.snapshots
           sofar(s) == {IF r \in new /\ Before(r.key, s.key) THEN GivenUp(r) ELSE r : r \in S}
           f == [s \in S |-> IF s \in new /\ Total(sofar(s)) > StoreBytes THEN GivenUp(s) ELSE s]
<1>1. TrimNewAlternates(st, S) = {f[s] : s \in S}
  BY DEF TrimNewAlternates
<1>2. \A s \in S : f[s] = s \/ (f[s] = GivenUp(s) /\ s \notin st.snapshots)
  OBVIOUS
<1>3. \A s \in S : /\ f[s] \in Snapshots /\ f[s].key = s.key
                   /\ f[s] = s \/ f[s].id = st.next + Place(keys, s.key)
  <2> HIDE DEF f
  <2> QED BY <1>2, GivenUpType DEF Pending
<1> QED
  <2>1. DOMAIN f = S
    OBVIOUS
  <2> HIDE DEF f
  <2> QED BY <2>1, <1>1, <1>3, PendingMaps

LEMMA FirstPending ==
  ASSUME NEW st, StoreInv(st), NEW keys, KeysOk(keys)
  PROVE  Pending(st, keys, {Interned(st, keys, k) : k \in keys})
<1> DEFINE f == [k \in keys |-> Interned(st, keys, k)]
<1>1. \A k \in keys : /\ f[k] \in Snapshots /\ f[k].key = k
                      /\ f[k] \in st.snapshots \/ f[k].id = st.next + Place(keys, k)
  <2> TAKE k \in keys
  <2>1. CASE k \in DOMAIN st.byKey
    <3>1. PICK s \in st.snapshots : s.id = st.byKey[k] /\ s.key = k
      BY <2>1 DEF StoreInv
    <3>2. SnapshotById(st, st.byKey[k]) = s
      BY <3>1 DEF SnapshotById, StoreInv, Distinct
    <3> QED BY <2>1, <3>1, <3>2 DEF Interned, StoreInv
  <2>2. CASE k \notin DOMAIN st.byKey
    BY <2>2, CandidateType DEF Interned
  <2> QED BY <2>1, <2>2
<1>2. DOMAIN f = keys /\ IsFiniteSet(keys)
  BY DEF KeysOk
<1>3. {Interned(st, keys, k) : k \in keys} = {f[k] : k \in keys}
  OBVIOUS
<1> HIDE DEF f
<1>4. IsFiniteSet({f[k] : k \in keys})
  BY <1>2, FiniteImages
<1>5. \A r, s \in {f[k] : k \in keys} : r.key = s.key => r = s
  BY <1>1
<1>6. {f[k] : k \in keys} \in SUBSET Snapshots
  BY <1>1
<1>7. \A s \in {f[k] : k \in keys} :
        s.key \in keys /\ (s \in st.snapshots \/ s.id = st.next + Place(keys, s.key))
  BY <1>1
<1> QED BY <1>3, <1>4, <1>5, <1>6, <1>7 DEF Pending

LEMMA ReplaceKeeps ==
  ASSUME NEW st, StoreInv(st), NEW keys, KeysOk(keys), NEW S, Pending(st, keys, S)
  PROVE  Pending(st, keys, ReplaceRetained(st, keys, S))
<1> DEFINE old     == {s \in S \cap st.snapshots : s.alternate > 0}
           anew(s) == Candidate(st, keys, s.key)
           some(s) == {IF r = s THEN anew(r)
                       ELSE IF r \in old /\ Before(r.key, s.key) THEN GivenUp(anew(r))
                       ELSE r : r \in S}
           upTo(s) == TrimNewAlternates(st, some(s))
           enough  == {s \in old : Total(upTo(s)) <= StoreBytes}
           chosen  == CHOOSE s \in enough : \A r \in enough : ~Before(r.key, s.key)
<1>1. ASSUME NEW s
      PROVE  Pending(st, keys, upTo(s))
  <2> DEFINE f == [r \in S |-> IF r = s THEN anew(r)
                               ELSE IF r \in old /\ Before(r.key, s.key) THEN GivenUp(anew(r))
                               ELSE r]
  <2>1. \A r \in S : f[r] = r \/ f[r] = anew(r) \/ f[r] = GivenUp(anew(r))
    OBVIOUS
  <2>2. \A r \in S : anew(r) \in Snapshots /\ anew(r).key = r.key
                     /\ anew(r).id = st.next + Place(keys, r.key)
    BY CandidateType DEF Pending
  <2>3. \A r \in S : GivenUp(anew(r)) \in Snapshots /\ GivenUp(anew(r)).key = r.key
                     /\ GivenUp(anew(r)).id = st.next + Place(keys, r.key)
    BY <2>2, GivenUpType
  <2>4. \A r \in S : /\ f[r] \in Snapshots /\ f[r].key = r.key
                     /\ f[r] = r \/ f[r].id = st.next + Place(keys, r.key)
    <3> HIDE DEF f, anew
    <3> QED BY <2>1, <2>2, <2>3 DEF Pending
  <2>5. some(s) = {f[r] : r \in S} /\ DOMAIN f = S
    OBVIOUS
  <2>6. Pending(st, keys, some(s))
    <3> HIDE DEF f, some
    <3> QED BY <2>4, <2>5, PendingMaps
  <2> HIDE DEF some
  <2> QED BY <2>6, TrimKeeps
<1>2. ReplaceRetained(st, keys, S) =
        IF Total(S) <= StoreBytes \/ enough = {} THEN S ELSE upTo(chosen)
  BY DEF ReplaceRetained
<1> HIDE DEF upTo, enough, chosen
<1> QED BY <1>1, <1>2

\* Evicting the oldest of the others makes room, if there is room without any
\* of them.
LEMMA EvictionMakesRoom ==
  ASSUME NEW st, StoreInv(st), NEW additional \in Nat,
         NEW others \in SUBSET st.snapshots,
         st.used - Total(others) + additional <= StoreBytes
  PROVE  st.used - Total(Evicted(st, additional, others)) + additional <= StoreBytes
<1> DEFINE older(s) == {r \in others : r.id < s.id}
           evicted  == Evicted(st, additional, others)
           left     == others \ evicted
           ids      == {s.id : s \in left}
<1>1. /\ others \in SUBSET Snapshots /\ IsFiniteSet(others) /\ Total(others) \in Nat
      /\ \A T \in SUBSET others : IsFiniteSet(T) /\ Total(T) \in Nat
      /\ st.used \in Nat /\ StoreBytes \in Nat
  <2>1. /\ others \in SUBSET Snapshots /\ IsFiniteSet(others) /\ Total(others) \in Nat
    BY TotalGrows DEF StoreInv
  <2>2. \A T \in SUBSET others : IsFiniteSet(T) /\ Total(T) \in Nat
    BY <2>1, TotalGrows
  <2>3. st.used \in Nat /\ StoreBytes \in Nat
    BY TotalType, ViewsAssumption DEF StoreInv
  <2> QED BY <2>1, <2>2, <2>3
<1>2. evicted = {s \in others : st.used - Total(older(s)) + additional > StoreBytes}
  BY DEF Evicted
<1>3. evicted \in SUBSET others
  BY <1>2
<1>4. CASE left = {}
  <2>1. Evicted(st, additional, others) = others
    BY <1>3, <1>4
  <2>2. Total(Evicted(st, additional, others)) = Total(others)
    BY <2>1
  <2> QED BY <1>1, <2>2
<1>5. CASE left # {}
  <2>1. ids \in SUBSET Nat /\ ids # {}
    BY <1>1, <1>5 DEF Snapshots
  <2>2. PICK s \in left : \A r \in left : s.id <= r.id
    <3>1. PICK n \in ids : \A m \in ids : n <= m
      BY <2>1, Least
    <3> QED BY <3>1
  <2>3. older(s) \in SUBSET evicted
    <3>1. \A r \in older(s) : r \in others /\ r.id < s.id
      OBVIOUS
    <3>2. \A r \in others : r.id \in Nat
      BY <1>1 DEF Snapshots
    <3> HIDE DEF older
    <3> QED BY <2>2, <3>1, <3>2
  <2>4. Total(older(s)) \in Nat /\ Total(older(s)) <= Total(evicted) /\ Total(evicted) \in Nat
    <3>1. evicted \in SUBSET Snapshots /\ IsFiniteSet(evicted)
      BY <1>1, <1>3
    <3> HIDE DEF evicted, older
    <3> QED BY <1>1, <1>3, <2>3, <3>1, TotalGrows
  <2>5. ~(st.used - Total(older(s)) + additional > StoreBytes)
    BY <1>2, <2>2
  <2>6. Evicted(st, additional, others) = evicted
    OBVIOUS
  <2> HIDE DEF older, evicted
  <2> QED BY <1>1, <2>4, <2>5, <2>6
<1> QED BY <1>4, <1>5

\* What a commit makes of the store.
LEMMA CommitKeeps ==
  ASSUME NEW st, StoreInv(st), NEW keys, KeysOk(keys)
  PROVE  LET commit == Commit(st, keys)
         IN  /\ StoreInv(commit.store)
             /\ commit.ids \subseteq Ids(commit.store)
             /\ st.next <= commit.store.next
             /\ \A s \in commit.store.snapshots : s \in st.snapshots \/ st.next <= s.id
<1> DEFINE first == {Interned(st, keys, k) : k \in keys}
           final == ReplaceRetained(st, keys, TrimNewAlternates(st, first))
           added == final \ st.snapshots
           kept  == final \cap st.snapshots
           others == st.snapshots \ kept
           evicted == Evicted(st, Total(added), others)
           left  == EvictFor(st, Total(added), kept)
           next  == Added(left, added)
           new   == [next EXCEPT !.next = @ + Cardinality(keys)]
<1>1. Commit(st, keys) =
        IF Total(final) > StoreBytes THEN [ok |-> FALSE, store |-> st, ids |-> {}]
        ELSE [ok |-> TRUE, store |-> new, ids |-> IdsOf(final)]
  BY DEF Commit
<1>2. Pending(st, keys, final)
  <2>1. Pending(st, keys, first)
    BY FirstPending
  <2> HIDE DEF first
  <2> QED BY <2>1, TrimKeeps, ReplaceKeeps
<1> HIDE DEF final
<1>3. /\ final \in SUBSET Snapshots /\ IsFiniteSet(final)
      /\ Distinct(final \cup st.snapshots) /\ Distinct(final)
      /\ \A s \in added : s.id \in st.next..st.next + Cardinality(keys) - 1
      /\ Cardinality(keys) \in Nat /\ st.next \in Nat \ {0}
  <2>1. Distinct(final \cup st.snapshots)
    BY <1>2, PendingIsDistinct
  <2>2. \A s \in added : s.id \in st.next..st.next + Cardinality(keys) - 1
    BY <1>2, NewIsYounger
  <2> QED BY <1>2, <2>1, <2>2, FS_CardinalityType DEF Pending, Distinct, StoreInv, KeysOk
<1>4. CASE Total(final) > StoreBytes
  <2>1. Commit(st, keys).store = st /\ Commit(st, keys).ids = {}
    BY <1>1, <1>4
  <2> QED BY <2>1 DEF StoreInv
<1>5. CASE ~(Total(final) > StoreBytes)
  <2>1. /\ Total(final) = Total(kept) + Total(added)
        /\ Total(final) \in Nat /\ Total(kept) \in Nat /\ Total(added) \in Nat
        /\ IsFiniteSet(added)
    <3>1. /\ kept \in SUBSET final /\ added \in SUBSET final
          /\ kept \cup added = final /\ kept \cap added = {}
      OBVIOUS
    <3> HIDE DEF kept, added
    <3>2. Total(final) = Total(kept) + Total(added)
      BY <1>3, <3>1, TotalSplits
    <3> QED BY <1>3, <3>1, <3>2, TotalType, TotalGrows
  <2>2. st.used = Total(kept) + Total(others) /\ Total(others) \in Nat /\ StoreBytes \in Nat
    <3>1. /\ kept \in SUBSET st.snapshots /\ others \in SUBSET st.snapshots
          /\ kept \cup others = st.snapshots /\ kept \cap others = {}
      OBVIOUS
    <3>2. st.snapshots \in SUBSET Snapshots /\ IsFiniteSet(st.snapshots) /\ Distinct(st.snapshots)
      BY DEF StoreInv
    <3> HIDE DEF kept, others
    <3>3. Total(st.snapshots) = Total(kept) + Total(others)
      BY <3>1, <3>2, TotalSplits
    <3> QED BY <3>1, <3>2, <3>3, TotalGrows, ViewsAssumption DEF StoreInv
  <2>3. st.used - Total(evicted) + Total(added) <= StoreBytes /\ evicted \in SUBSET others
    <3>1. st.used - Total(others) + Total(added) <= StoreBytes
      BY <1>5, <2>1, <2>2
    <3>2. others \in SUBSET st.snapshots /\ Total(added) \in Nat
      BY <2>1
    <3> HIDE DEF others, added
    <3>3. evicted \in SUBSET others
      BY DEF Evicted
    <3> QED BY <3>1, <3>2, <3>3, EvictionMakesRoom
  <2>4. left = [snapshots |-> st.snapshots \ evicted,
                byKey |-> [k \in {x \in DOMAIN st.byKey : st.byKey[x] \notin IdsOf(evicted)} |->
                             st.byKey[k]],
                used |-> st.used - Total(evicted), next |-> st.next]
    <3>1. left = Drop(st, evicted)
      BY DEF EvictFor
    <3> HIDE DEF evicted
    <3> QED BY <3>1 DEF Drop, StoreInv
  <2> DEFINE snapshots == (st.snapshots \ evicted) \cup added
             addedKeys == {s.key : s \in added}
             byKey == [k \in DOMAIN left.byKey \cup addedKeys |->
                         IF k \in addedKeys THEN (CHOOSE s \in added : s.key = k).id
                         ELSE left.byKey[k]]
  <2>5. new = [snapshots |-> snapshots, byKey |-> byKey,
               used |-> st.used - Total(evicted) + Total(added),
               next |-> st.next + Cardinality(keys)]
    <3>1. next = [left EXCEPT !.snapshots = left.snapshots \cup added,
                              !.byKey = byKey, !.used = left.used + Total(added)]
      BY DEF Added
    <3>2. st.snapshots \ evicted = left.snapshots /\ left.used = st.used - Total(evicted)
          /\ left.next = st.next
      <4> HIDE DEF evicted, left
      <4> QED BY <2>4
    <3>3. left = [snapshots |-> left.snapshots, byKey |-> left.byKey, used |-> left.used,
                  next |-> left.next]
      <4> HIDE DEF evicted, left
      <4> QED BY <2>4
    <3> HIDE DEF evicted, added, left, next, byKey
    <3>4. next = [snapshots |-> left.snapshots \cup added, byKey |-> byKey,
                  used |-> left.used + Total(added), next |-> left.next]
      BY <3>1, <3>3
    <3> QED BY <3>2, <3>4
  <2>6. snapshots \in SUBSET Snapshots /\ IsFiniteSet(snapshots) /\ Distinct(snapshots)
    <3>1. IsFiniteSet(st.snapshots \ evicted) /\ st.snapshots \in SUBSET Snapshots
      BY FS_Difference DEF StoreInv
    <3>2. IsFiniteSet(snapshots)
      BY <2>1, <3>1, FS_Union
    <3> QED BY <1>3, <3>1, <3>2 DEF Distinct
  <2>7. \A s \in snapshots : s.id < st.next + Cardinality(keys)
    <3>1. \A s \in st.snapshots : s.id < st.next /\ s.id \in Nat
      BY DEF StoreInv, Snapshots
    <3> HIDE DEF evicted, added
    <3> QED BY <1>3, <3>1
  <2>8. st.used - Total(evicted) + Total(added) = Total(snapshots)
    <3> DEFINE rest == st.snapshots \ evicted
    <3>1. /\ rest \in SUBSET snapshots /\ added \in SUBSET snapshots
          /\ rest \cup added = snapshots /\ rest \cap added = {}
      OBVIOUS
    <3>2. /\ rest \in SUBSET st.snapshots /\ evicted \in SUBSET st.snapshots
          /\ rest \cup evicted = st.snapshots /\ rest \cap evicted = {}
      BY <2>3
    <3>3. st.snapshots \in SUBSET Snapshots /\ IsFiniteSet(st.snapshots) /\ Distinct(st.snapshots)
          /\ st.used = Total(st.snapshots)
      BY DEF StoreInv
    <3> HIDE DEF rest, snapshots, evicted, added
    <3>4. Total(snapshots) = Total(rest) + Total(added)
      BY <2>6, <3>1, TotalSplits
    <3>5. Total(st.snapshots) = Total(rest) + Total(evicted)
      BY <3>2, <3>3, TotalSplits
    <3>6. Total(rest) \in Nat /\ Total(evicted) \in Nat
      BY <3>2, <3>3, TotalGrows
    <3> QED BY <2>1, <3>3, <3>4, <3>5, <3>6
  <2>9. \A k \in DOMAIN byKey : \E s \in snapshots : s.id = byKey[k] /\ s.key = k
    <3> SUFFICES ASSUME NEW k \in DOMAIN byKey
                 PROVE  \E s \in snapshots : s.id = byKey[k] /\ s.key = k
      OBVIOUS
    <3>1. CASE k \in addedKeys
      <4>1. (CHOOSE s \in added : s.key = k) \in added
            /\ (CHOOSE s \in added : s.key = k).key = k
        BY <3>1
      <4>2. byKey[k] = (CHOOSE s \in added : s.key = k).id
        BY <3>1
      <4> HIDE DEF added, byKey
      <4> QED BY <4>1, <4>2
    <3>2. CASE k \notin addedKeys
      <4>1. k \in DOMAIN left.byKey /\ byKey[k] = left.byKey[k]
        BY <3>2
      <4>2. k \in DOMAIN st.byKey /\ st.byKey[k] \notin IdsOf(evicted) /\ byKey[k] = st.byKey[k]
        <5> HIDE DEF left, evicted, byKey
        <5> QED BY <2>4, <4>1
      <4>3. PICK s \in st.snapshots : s.id = st.byKey[k] /\ s.key = k
        BY <4>2 DEF StoreInv
      <4>4. s \notin evicted
        BY <4>2, <4>3 DEF IdsOf
      <4> HIDE DEF evicted, byKey, added
      <4> QED BY <4>2, <4>3, <4>4
    <3> QED BY <3>1, <3>2
  <2>10. StoreInv(new)
    <3> HIDE DEF snapshots, byKey, evicted, added, new
    <3> QED BY <1>3, <2>3, <2>5, <2>6, <2>7, <2>8, <2>9 DEF StoreInv
  <2>11. IdsOf(final) \subseteq Ids(new)
    <3>1. final \subseteq snapshots
      BY <2>3
    <3> HIDE DEF snapshots, new
    <3> QED BY <2>5, <3>1 DEF Ids, IdsOf
  <2>12. \A s \in snapshots : s \in st.snapshots \/ st.next <= s.id
    BY <1>3
  <2>13. Commit(st, keys).store = new /\ Commit(st, keys).ids = IdsOf(final)
    <3> HIDE DEF new
    <3> QED BY <1>1, <1>5
  <2>14. st.next <= new.next /\ new.snapshots = snapshots
    <3> HIDE DEF new, snapshots
    <3> QED BY <1>3, <2>5
  <2> HIDE DEF new, snapshots
  <2> QED BY <2>10, <2>11, <2>12, <2>13, <2>14
<1> QED BY <1>4, <1>5

-------------------------------------------------------------------------------
(* The views. *)

JobOk ==
  /\ job = [cells |-> job.cells, changes |-> job.changes, used |-> job.used]
  /\ job.cells \in [Positions -> [outputs : Seq(Tokens), version : Nat]]

\* The agent has a beginning of what the cells had at the last answer.
Follows ==
  /\ agent = [have |-> agent.have, cursor |-> agent.cursor, reading |-> agent.reading]
  /\ agent.have \in [Positions -> Seq(Tokens)]
  /\ answer = [asOf |-> answer.asOf, truncated |-> answer.truncated, ids |-> answer.ids]
  /\ answer.asOf \in [Positions -> Seq(Tokens)]
  /\ \A p \in Positions :
       /\ Len(agent.have[p]) <= Len(answer.asOf[p])
       /\ ~answer.truncated[p] => Len(agent.have[p]) = Len(answer.asOf[p])
       /\ \A n \in 1..Len(agent.have[p]) : agent.have[p][n] = answer.asOf[p][n]

\* Where the cursor says the same version, the cells are what they were.
CursorInv ==
  agent.cursor # NoCursor =>
    \A p \in Positions :
      LET at == agent.cursor.positions[p]
      IN  /\ at.version \in Nat /\ at.version <= job.cells[p].version
          /\ at.delivered = Len(agent.have[p])
          /\ at.version = job.cells[p].version => job.cells[p].outputs = answer.asOf[p]

\* The parts are consecutive, and those of the snapshot that is being read.
ReadingInv ==
  LET reading == agent.reading
  IN  /\ reading = [id |-> reading.id, token |-> reading.token, parts |-> reading.parts]
      /\ reading.id \in Nat /\ reading.id < store.next
      /\ reading.parts \in Seq([from : Nat, to : Nat])
      /\ reading.parts # <<>> => reading.token \in Tokens
      /\ \A s \in store.snapshots : s.id = reading.id => s.key.token = reading.token
      /\ PartsReassemble

ViewsInv ==
  /\ JobOk /\ Follows /\ CursorInv
  /\ StoreInv(store) /\ answer.ids \subseteq Ids(store)
  /\ ReadingInv

LEMMA DeliveredType ==
  ASSUME NEW outputs \in Seq(Tokens), NEW from \in 0..Len(outputs), NEW budget
  PROVE  Delivered(outputs, from, budget) \in from..Len(outputs)
<1> DEFINE left == Left(outputs, from, budget)
           S    == {from} \cup {n \in from + 1..Len(outputs) : left[n - 1] > 0}
<1>1. S \in SUBSET Nat /\ S # {} /\ S \subseteq from..Len(outputs) /\ Len(outputs) \in Nat
  OBVIOUS
<1>2. IsFiniteSet(S)
  <2>1. \A s \in S : s <= Len(outputs)
    BY <1>1
  <2> HIDE DEF S
  <2> QED BY <1>1, <2>1, FS_BoundedSetOfNaturals
<1>3. Delivered(outputs, from, budget) = Max(S)
  BY DEF Delivered
<1> HIDE DEF S
<1> QED BY <1>1, <1>2, <1>3, MaxIs

LEMMA FromType ==
  ASSUME ViewsInv, NEW cursor \in {agent.cursor, NoCursor}, NEW p \in Positions
  PROVE  /\ From(cursor, p) \in 0..Len(job.cells[p].outputs)
         /\ cursor = NoCursor \/ cursor.positions[p].version # job.cells[p].version
              => From(cursor, p) = 0
         /\ ~(cursor = NoCursor \/ cursor.positions[p].version # job.cells[p].version)
              => /\ From(cursor, p) = Len(agent.have[p])
                 /\ job.cells[p].outputs = answer.asOf[p]
<1>1. job.cells[p].outputs \in Seq(Tokens) /\ agent.have[p] \in Seq(Tokens)
  BY DEF ViewsInv, JobOk, Follows
<1>2. Len(job.cells[p].outputs) \in Nat
  BY <1>1
<1>3. CASE cursor = NoCursor \/ cursor.positions[p].version # job.cells[p].version
  BY <1>2, <1>3 DEF From
<1>4. CASE ~(cursor = NoCursor \/ cursor.positions[p].version # job.cells[p].version)
  <2>1. cursor = agent.cursor /\ agent.cursor # NoCursor
    BY <1>4
  <2>2. /\ From(cursor, p) = Len(agent.have[p])
        /\ job.cells[p].outputs = answer.asOf[p]
    BY <1>4, <2>1 DEF From, ViewsInv, CursorInv
  <2>3. Len(agent.have[p]) <= Len(answer.asOf[p]) /\ Len(agent.have[p]) \in Nat
    BY <1>1 DEF ViewsInv, Follows
  <2> QED BY <1>2, <1>4, <2>2, <2>3
<1> QED BY <1>3, <1>4

\* The keys of outputs from their places in the cells.
KeysFrom(from, to) ==
  UNION {{[cell |-> p, index |-> n, token |-> job.cells[p].outputs[n]] :
            n \in from[p] + 1..to[p]} : p \in Positions}

LEMMA KeysFromOk ==
  ASSUME ViewsInv, NEW from \in [Positions -> Nat],
         NEW to \in [Positions -> Nat],
         \A p \in Positions : to[p] <= Len(job.cells[p].outputs)
  PROVE  KeysOk(KeysFrom(from, to))
<1> DEFINE key(p, n) == [cell |-> p, index |-> n, token |-> job.cells[p].outputs[n]]
           of(p) == {key(p, n) : n \in from[p] + 1..to[p]}
           f == [p \in Positions |-> of(p)]
<1>1. \A p \in Positions : \A n \in from[p] + 1..to[p] : key(p, n) \in Keys
  <2> TAKE p \in Positions
  <2> TAKE n \in from[p] + 1..to[p]
  <2>1. job.cells[p].outputs \in Seq(Tokens)
    BY DEF ViewsInv, JobOk
  <2>2. n \in 1..Len(job.cells[p].outputs) /\ n \in Nat \ {0}
    BY <2>1
  <2>3. job.cells[p].outputs[n] \in Tokens
    BY <2>1, <2>2
  <2> QED BY <2>2, <2>3 DEF Keys
<1>2. \A p \in Positions : IsFiniteSet(f[p])
  <2> TAKE p \in Positions
  <2> DEFINE g == [n \in from[p] + 1..to[p] |-> key(p, n)]
             I == from[p] + 1..to[p]
  <2>1. from[p] + 1 \in Int /\ to[p] \in Int
    OBVIOUS
  <2>2. IsFiniteSet(from[p] + 1..to[p])
    BY <2>1, FS_Interval
  <2>3. f[p] = {g[n] : n \in I} /\ DOMAIN g = I
    OBVIOUS
  <2> HIDE DEF g, f
  <2> QED BY <2>2, <2>3, FiniteImages
<1>3. IsFiniteSet({f[p] : p \in Positions})
  <2>1. IsFiniteSet(Positions)
    <3>1. 1 \in Int /\ JobCells \in Int
      BY ViewsAssumption
    <3>2. IsFiniteSet(1..JobCells)
      BY <3>1, FS_Interval
    <3> QED BY <3>2 DEF Positions
  <2>2. DOMAIN f = Positions
    OBVIOUS
  <2> HIDE DEF f
  <2> QED BY <2>1, <2>2, FiniteImages
<1>4. KeysFrom(from, to) = UNION {f[p] : p \in Positions}
  BY DEF KeysFrom
<1>5. IsFiniteSet(KeysFrom(from, to))
  <2> HIDE DEF f
  <2> QED BY <1>2, <1>3, <1>4, FS_UNION
<1>6. \A k \in KeysFrom(from, to) :
        \E p \in Positions : \E n \in from[p] + 1..to[p] : k = key(p, n)
  BY DEF KeysFrom
<1>7. \A j, k \in KeysFrom(from, to) : j.cell = k.cell /\ j.index = k.index => j = k
  <2> SUFFICES ASSUME NEW j \in KeysFrom(from, to), NEW k \in KeysFrom(from, to),
                      j.cell = k.cell, j.index = k.index
               PROVE  j = k
    OBVIOUS
  <2>1. PICK p \in Positions : \E n \in from[p] + 1..to[p] : j = key(p, n)
    BY <1>6
  <2>2. PICK n \in from[p] + 1..to[p] : j = key(p, n)
    BY <2>1
  <2>3. PICK q \in Positions : \E m \in from[q] + 1..to[q] : k = key(q, m)
    BY <1>6
  <2>4. PICK m \in from[q] + 1..to[q] : k = key(q, m)
    BY <2>3
  <2>5. p = q /\ n = m
    BY <2>2, <2>4
  <2> QED BY <2>2, <2>4, <2>5
<1>8. KeysFrom(from, to) \subseteq Keys
  <2> HIDE DEF key
  <2> QED BY <1>1, <1>6
<1> QED BY <1>5, <1>7, <1>8 DEF KeysOk

\* A view: where it begins and where it ends, in every cell.
IsView(view, cursor, to) ==
  /\ to \in [Positions -> Nat]
  /\ \A p \in Positions : to[p] \in From(cursor, p)..Len(job.cells[p].outputs)
  /\ view.entries = [p \in Positions |->
                       SubSeq(job.cells[p].outputs, From(cursor, p) + 1, to[p])]
  /\ view.truncated = [p \in Positions |-> to[p] < Len(job.cells[p].outputs)]
  /\ KeysOk(view.keys)
  /\ view.reset = [p \in Positions |->
                     \/ cursor = NoCursor
                     \/ cursor.positions[p].version # job.cells[p].version]
  /\ view.cursor.positions = [p \in Positions |->
                               [version |-> job.cells[p].version, delivered |-> to[p]]]

LEMMA ViewIs ==
  ASSUME ViewsInv, NEW cursor \in {agent.cursor, NoCursor}, NEW budget
  PROVE  \E to : IsView(BuildExecutionView(cursor, budget), cursor, to)
<1> DEFINE outputs(p) == job.cells[p].outputs
           from == [p \in Positions |-> From(cursor, p)]
           before[p \in Positions] ==
             IF p = 1 THEN budget
             ELSE Left(outputs(p - 1), From(cursor, p - 1), before[p - 1])[Len(outputs(p - 1))]
           to == [p \in Positions |-> Delivered(outputs(p), From(cursor, p), before[p])]
           view == BuildExecutionView(cursor, budget)
<1>1. \A p \in Positions : to[p] \in from[p]..Len(job.cells[p].outputs) /\ to[p] \in Nat /\ from[p] \in Nat
                           /\ to[p] <= Len(job.cells[p].outputs)
  <2> TAKE p \in Positions
  <2>1. outputs(p) \in Seq(Tokens) /\ From(cursor, p) \in 0..Len(outputs(p))
    BY FromType DEF ViewsInv, JobOk
  <2> HIDE DEF before
  <2>2. Delivered(outputs(p), From(cursor, p), before[p]) \in From(cursor, p)..Len(outputs(p))
    BY <2>1, DeliveredType
  <2> QED BY <2>1, <2>2
<1>2. /\ view.entries = [p \in Positions |-> SubSeq(job.cells[p].outputs, from[p] + 1, to[p])]
      /\ view.truncated = [p \in Positions |-> to[p] < Len(job.cells[p].outputs)]
      /\ view.keys = KeysFrom(from, to)
      /\ view.reset = [p \in Positions |->
                         \/ cursor = NoCursor
                         \/ cursor.positions[p].version # job.cells[p].version]
      /\ view.cursor.positions = [p \in Positions |->
           [version |-> job.cells[p].version, delivered |-> to[p]]]
  <2>1. view.entries = [p \in Positions |-> SubSeq(job.cells[p].outputs, from[p] + 1, to[p])]
    <3>1. view.entries = [p \in Positions |->
                            SubSeq(job.cells[p].outputs, From(cursor, p) + 1, to[p])]
      BY Zenon DEF BuildExecutionView
    <3> HIDE DEF view, to, before
    <3> QED BY <3>1
  <2>2. view.truncated = [p \in Positions |-> to[p] < Len(job.cells[p].outputs)]
    BY Zenon DEF BuildExecutionView
  <2>3. view.keys = KeysFrom(from, to)
    <3>1. view.keys = UNION {{[cell |-> p, index |-> n,
                                token |-> job.cells[p].outputs[n]] :
                                  n \in From(cursor, p) + 1..to[p]} : p \in Positions}
      BY Zenon DEF BuildExecutionView
    <3>2. \A p \in Positions : from[p] = From(cursor, p)
      OBVIOUS
    <3> HIDE DEF view, to, before, from
    <3> QED BY <3>1, <3>2 DEF KeysFrom
  <2>4. view.reset = [p \in Positions |->
                         \/ cursor = NoCursor
                         \/ cursor.positions[p].version # job.cells[p].version]
    BY Zenon DEF BuildExecutionView
  <2>5. view.cursor.positions = [p \in Positions |->
           [version |-> job.cells[p].version, delivered |-> to[p]]]
    BY Zenon DEF BuildExecutionView
  <2> QED BY <2>1, <2>2, <2>3, <2>4, <2>5
<1>3. to \in [Positions -> Nat] /\ from \in [Positions -> Nat]
  <2>1. DOMAIN to = Positions /\ to = [p \in Positions |-> to[p]] /\ from = [p \in Positions |-> from[p]]
    OBVIOUS
  <2> HIDE DEF to, from
  <2> QED BY <1>1, <2>1
<1> HIDE DEF to
<1>4. KeysOk(KeysFrom(from, to))
  <2> HIDE DEF from
  <2> QED BY <1>1, <1>3, KeysFromOk
<1>5. \A p \in Positions : from[p] = From(cursor, p)
  OBVIOUS
<1> HIDE DEF view, from
<1>6. /\ view.entries = [p \in Positions |->
                           SubSeq(job.cells[p].outputs, From(cursor, p) + 1, to[p])]
      /\ \A p \in Positions : to[p] \in From(cursor, p)..Len(job.cells[p].outputs)
  BY <1>1, <1>2, <1>5
<1>7. IsView(view, cursor, to)
  BY <1>2, <1>3, <1>4, <1>6 DEF IsView
<1> QED BY <1>7 DEF view

-------------------------------------------------------------------------------
(* The steps. *)

LEMMA InitViews == EInit => ViewsInv
<1> SUFFICES ASSUME EInit PROVE ViewsInv
  OBVIOUS
<1>1. JobOk
  BY DEF EInit, JobOk
<1>2. Follows
  BY DEF EInit, Follows
<1>3. CursorInv
  BY DEF EInit, CursorInv
<1>4. StoreInv(store)
  <2>1. IsFiniteSet({}) /\ Total({}) = 0
    BY FS_EmptySet DEF Total
  <2>2. DOMAIN (<<>>) = {}
    OBVIOUS
  <2>3. /\ store = [snapshots |-> {}, byKey |-> <<>>, used |-> 0, next |-> 1]
    BY DEF EInit, EmptyStore
  <2> QED BY <2>1, <2>2, <2>3, ViewsAssumption DEF StoreInv, Distinct
<1>5. answer.ids \subseteq Ids(store)
  BY DEF EInit
<1>6. ReadingInv
  <2>1. agent.reading = [id |-> 0, token |-> 0, parts |-> <<>>] /\ store.snapshots = {} /\ store.next = 1
    BY DEF EInit, EmptyStore, NotReading
  <2>2. PartsReassemble
    BY <2>1 DEF PartsReassemble
  <2> QED BY <2>1, <2>2 DEF ReadingInv
<1> QED BY <1>1, <1>2, <1>3, <1>4, <1>5, <1>6 DEF ViewsInv

\* The kernel: the version is a new one.
LEMMA ChangesStep ==
  ASSUME ViewsInv, NEW p \in Positions, NEW outputs \in Seq(Tokens), NEW new,
         Changes(p, outputs, new)
  PROVE  ViewsInv'
<1>1. /\ job.cells \in [Positions -> [outputs : Seq(Tokens), version : Nat]]
      /\ job' = [cells   |-> [job.cells EXCEPT ![p] = Changed(@, outputs)],
                 changes |-> job.changes + 1, used |-> job.used \cup new]
      /\ UNCHANGED <<store, agent, answer>>
  BY DEF ViewsInv, JobOk, Changes
<1>2. job'.cells = [q \in Positions |->
                      IF q = p THEN [outputs |-> outputs, version |-> job.cells[p].version + 1]
                      ELSE job.cells[q]]
  BY <1>1 DEF Changed
<1>3. JobOk'
  BY <1>1, <1>2 DEF JobOk
<1>4. CursorInv'
  <2> SUFFICES ASSUME agent.cursor # NoCursor, NEW q \in Positions
               PROVE  LET at == agent.cursor.positions[q]
                      IN  /\ at.version \in Nat /\ at.version <= job'.cells[q].version
                          /\ at.delivered = Len(agent.have[q])
                          /\ at.version = job'.cells[q].version =>
                               job'.cells[q].outputs = answer.asOf[q]
    BY <1>1 DEF CursorInv
  <2>1. LET at == agent.cursor.positions[q]
        IN  /\ at.version \in Nat /\ at.version <= job.cells[q].version
            /\ at.delivered = Len(agent.have[q])
            /\ at.version = job.cells[q].version => job.cells[q].outputs = answer.asOf[q]
    BY DEF ViewsInv, CursorInv
  <2>2. job.cells[q].version \in Nat
    BY <1>1
  <2> QED BY <1>2, <2>1, <2>2
<1>5. Follows' /\ StoreInv(store)' /\ (answer.ids \subseteq Ids(store))' /\ ReadingInv'
  BY <1>1 DEF ViewsInv, Follows, StoreInv, ReadingInv, PartsReassemble, Ids, IdsOf, Distinct
<1> QED BY <1>3, <1>4, <1>5 DEF ViewsInv

LEMMA KernelStep ==
  ASSUME ViewsInv, NEW p \in Positions, AppendOutput(p) \/ RewriteOutput(p) \/ ClearOutputs(p)
  PROVE  ViewsInv'
<1>0. job.cells[p].outputs \in Seq(Tokens)
  BY DEF ViewsInv, JobOk
<1>1. CASE AppendOutput(p)
  <2>1. PICK t \in Tokens \ job.used : Changes(p, Append(job.cells[p].outputs, t), {t})
    BY <1>1 DEF AppendOutput
  <2>2. Append(job.cells[p].outputs, t) \in Seq(Tokens)
    BY <1>0
  <2> QED BY <2>1, <2>2, ChangesStep
<1>2. CASE RewriteOutput(p)
  <2>1. PICK n \in DOMAIN job.cells[p].outputs, t \in Tokens \ job.used :
          Changes(p, [job.cells[p].outputs EXCEPT ![n] = t], {t})
    BY <1>2 DEF RewriteOutput
  <2>2. [job.cells[p].outputs EXCEPT ![n] = t] \in Seq(Tokens)
    BY <1>0
  <2> QED BY <2>1, <2>2, ChangesStep
<1>3. CASE ClearOutputs(p)
  <2>1. Changes(p, <<>>, {}) /\ <<>> \in Seq(Tokens)
    BY <1>3 DEF ClearOutputs
  <2> QED BY <2>1, ChangesStep
<1> QED BY <1>1, <1>2, <1>3

\* An answer is committed; the snapshot that is being read is not another.
LEMMA CommitStep ==
  ASSUME ViewsInv, NEW keys, KeysOk(keys), store' = Commit(store, keys).store,
         agent'.reading = agent.reading
  PROVE  /\ StoreInv(store') /\ Commit(store, keys).ids \subseteq Ids(store')
         /\ ReadingInv'
<1> DEFINE commit == Commit(store, keys)
<1>1. /\ StoreInv(commit.store)
      /\ commit.ids \subseteq Ids(commit.store)
      /\ store.next <= commit.store.next
      /\ \A s \in commit.store.snapshots : s \in store.snapshots \/ store.next <= s.id
  <2>1. StoreInv(store)
    BY DEF ViewsInv
  <2> QED BY <2>1, CommitKeeps
<1>2. store' = commit.store
  OBVIOUS
<1> HIDE DEF commit
<1>3. StoreInv(store') /\ commit.ids \subseteq Ids(store')
  BY <1>1, <1>2
<1>4. /\ store.next \in Nat /\ store'.next \in Nat /\ store.next <= store'.next
      /\ \A s \in store'.snapshots : s.id \in Nat /\ (s \in store.snapshots \/ store.next <= s.id)
  BY <1>1, <1>2, <1>3 DEF ViewsInv, StoreInv, Snapshots
<1>5. PartsReassemble'
  <2>1. PartsReassemble
    BY DEF ViewsInv, ReadingInv
  <2> QED BY <2>1 DEF PartsReassemble
<1>6. ReadingInv'
  <2>1. ReadingInv
    BY DEF ViewsInv
  <2> QED BY <1>4, <1>5, <2>1 DEF ReadingInv
<1> QED BY <1>3, <1>6 DEF commit

\* What arrives goes on where the agent was.
LEMMA Arrives ==
  ASSUME ViewsInv, NEW cursor \in {agent.cursor, NoCursor}, NEW view, NEW to,
         IsView(view, cursor, to), job' = job,
         agent' = [agent EXCEPT
                     !.have = [p \in Positions |->
                                 IF view.reset[p] THEN view.entries[p]
                                 ELSE @[p] \o view.entries[p]],
                     !.cursor = view.cursor],
         NEW ids, answer' = [asOf      |-> [p \in Positions |-> job.cells[p].outputs],
                             truncated |-> view.truncated,
                             ids       |-> ids]
  PROVE  Follows' /\ CursorInv' /\ agent'.reading = agent.reading
<1>1. /\ agent' = [have |-> [p \in Positions |->
                               IF view.reset[p] THEN view.entries[p]
                               ELSE agent.have[p] \o view.entries[p]],
                   cursor |-> view.cursor, reading |-> agent.reading]
      /\ agent'.have = [p \in Positions |->
                          IF view.reset[p] THEN view.entries[p]
                          ELSE agent.have[p] \o view.entries[p]]
      /\ agent'.cursor = view.cursor /\ agent'.reading = agent.reading
  <2>1. agent = [have |-> agent.have, cursor |-> agent.cursor, reading |-> agent.reading]
    BY DEF ViewsInv, Follows
  <2> QED BY <2>1
<1>2. ASSUME NEW p \in Positions
      PROVE  /\ agent'.have[p] \in Seq(Tokens) /\ Len(agent'.have[p]) = to[p]
             /\ \A n \in 1..to[p] : agent'.have[p][n] = job.cells[p].outputs[n]
             /\ job.cells[p].outputs \in Seq(Tokens) /\ Len(job.cells[p].outputs) \in Nat
             /\ job.cells[p].version \in Nat
             /\ to[p] \in Nat /\ to[p] <= Len(job.cells[p].outputs)
  <2> DEFINE outputs == job.cells[p].outputs
             have    == agent.have[p]
             from    == From(cursor, p)
             end     == to[p]
             entries == view.entries[p]
  <2>1. outputs \in Seq(Tokens) /\ have \in Seq(Tokens) /\ Len(outputs) \in Nat
        /\ Len(have) \in Nat /\ job.cells[p].version \in Nat
    BY DEF ViewsInv, JobOk, Follows
  <2>2. from \in 0..Len(outputs) /\ end \in from..Len(outputs) /\ end \in Nat
    BY FromType DEF IsView
  <2>3. entries = SubSeq(outputs, from + 1, end)
    BY DEF IsView
  <2>4. view.reset[p] <=> (cursor = NoCursor \/ cursor.positions[p].version # job.cells[p].version)
    BY DEF IsView
  <2>5. /\ view.reset[p] => from = 0
        /\ ~view.reset[p] => from = Len(have) /\ outputs = answer.asOf[p]
    BY <2>4, FromType
  <2>6. ~view.reset[p] => \A n \in 1..Len(have) : have[n] = outputs[n]
    BY <2>5 DEF ViewsInv, Follows
  <2>7. agent'.have[p] = IF view.reset[p] THEN entries ELSE have \o entries
    BY <1>1
  <2> HIDE DEF outputs, have, from, end, entries
  <2>8. /\ entries \in Seq(Tokens) /\ Len(entries) = end - from
        /\ \A n \in 1..end - from : entries[n] = outputs[from + n]
    BY <2>1, <2>2, <2>3
  <2>9. /\ agent'.have[p] \in Seq(Tokens) /\ Len(agent'.have[p]) = end
        /\ \A n \in 1..end : agent'.have[p][n] = outputs[n]
    <3>1. CASE view.reset[p]
      <4>1. from = 0 /\ agent'.have[p] = entries
        BY <2>5, <2>7, <3>1
      <4>2. end - from = end /\ \A n \in 1..end : from + n = n
        BY <2>2, <4>1
      <4>3. Len(entries) = end /\ \A n \in 1..end : entries[n] = outputs[from + n]
        BY <2>8, <4>2
      <4> QED BY <2>8, <4>1, <4>2, <4>3
    <3>2. CASE ~view.reset[p]
      <4>0. from = Len(have) /\ Len(have) + Len(entries) = end
        BY <2>1, <2>2, <2>5, <2>8, <3>2
      <4>1. have \o entries \in Seq(Tokens) /\ Len(have \o entries) = end
        BY <2>1, <2>8, <4>0, ConcatProperties
      <4>2. ASSUME NEW n \in 1..end
            PROVE  (have \o entries)[n] = outputs[n]
        <5>1. CASE n <= Len(have)
          <6>1. n \in 1..Len(have) /\ n \in 1..Len(have) + Len(entries)
            BY <2>1, <2>2, <2>5, <2>8, <3>2, <5>1
          <6>2. (have \o entries)[n] = have[n]
            BY <2>1, <2>8, <5>1, <6>1, ConcatProperties
          <6> QED BY <2>6, <3>2, <6>1, <6>2
        <5>2. CASE ~(n <= Len(have))
          <6>1. /\ n \in 1..Len(have) + Len(entries)
                /\ n - Len(have) \in 1..end - from /\ from + (n - Len(have)) = n
            BY <2>1, <2>2, <2>5, <2>8, <3>2, <5>2
          <6>2. (have \o entries)[n] = entries[n - Len(have)]
            BY <2>1, <2>8, <5>2, <6>1, ConcatProperties
          <6> QED BY <2>8, <6>1, <6>2
        <5> QED BY <5>1, <5>2
      <4> QED BY <2>7, <3>2, <4>1, <4>2
    <3> QED BY <3>1, <3>2
  <2>10. to[p] \in Nat /\ to[p] <= Len(job.cells[p].outputs)
    <3>1. end <= Len(outputs)
      BY <2>1, <2>2
    <3> QED BY <2>2, <3>1 DEF outputs, end
  <2>11. /\ agent'.have[p] \in Seq(Tokens) /\ Len(agent'.have[p]) = to[p]
         /\ \A n \in 1..to[p] : agent'.have[p][n] = job.cells[p].outputs[n]
    BY <2>9 DEF outputs, end
  <2>12. job.cells[p].outputs \in Seq(Tokens) /\ Len(job.cells[p].outputs) \in Nat
    BY <2>1 DEF outputs
  <2> QED BY <2>1, <2>10, <2>11, <2>12
<1>3. \A p \in Positions :
        /\ answer'.asOf[p] = job.cells[p].outputs
        /\ ~answer'.truncated[p] => ~(to[p] < Len(job.cells[p].outputs))
        /\ agent'.cursor.positions[p] = [version |-> job.cells[p].version, delivered |-> to[p]]
  <2>1. answer'.truncated = view.truncated /\ answer'.asOf = [p \in Positions |-> job.cells[p].outputs]
    OBVIOUS
  <2>2. /\ view.truncated = [p \in Positions |-> to[p] < Len(job.cells[p].outputs)]
        /\ view.cursor.positions = [p \in Positions |->
                                     [version |-> job.cells[p].version, delivered |-> to[p]]]
        /\ agent'.cursor = view.cursor
    BY <1>1 DEF IsView
  <2> TAKE p \in Positions
  <2>3. answer'.asOf[p] = job.cells[p].outputs
    BY <2>1
  <2>4. ~answer'.truncated[p] => ~(to[p] < Len(job.cells[p].outputs))
    BY <2>1, <2>2
  <2>5. agent'.cursor.positions[p] = [version |-> job.cells[p].version, delivered |-> to[p]]
    BY <2>2
  <2> QED BY <2>3, <2>4, <2>5
<1>4. Follows'
  <2>1. agent'.have \in [Positions -> Seq(Tokens)]
    BY <1>1, <1>2
  <2>2. answer'.asOf \in [Positions -> Seq(Tokens)]
    BY <1>2
  <2>3. \A p \in Positions :
          /\ Len(agent'.have[p]) <= Len(answer'.asOf[p])
          /\ ~answer'.truncated[p] => Len(agent'.have[p]) = Len(answer'.asOf[p])
          /\ \A n \in 1..Len(agent'.have[p]) : agent'.have[p][n] = answer'.asOf[p][n]
    <3> TAKE p \in Positions
    <3>1. answer'.asOf[p] = job.cells[p].outputs
          /\ (~answer'.truncated[p] => ~(to[p] < Len(job.cells[p].outputs)))
      BY <1>3
    <3>2. /\ Len(agent'.have[p]) = to[p]
          /\ Len(job.cells[p].outputs) \in Nat
          /\ to[p] \in Nat /\ to[p] <= Len(job.cells[p].outputs)
      BY <1>2
    <3>3. \A n \in 1..to[p] : agent'.have[p][n] = job.cells[p].outputs[n]
      BY <1>2
    <3> DEFINE have == agent'.have[p]
               outputs == job.cells[p].outputs
               asOf == answer'.asOf[p]
               truncated == answer'.truncated[p]
               end == to[p]
    <3>4. asOf = outputs /\ (~truncated => ~(end < Len(outputs))) /\ Len(have) = end
          /\ \A n \in 1..end : have[n] = outputs[n]
      BY <3>1, <3>2, <3>3
    <3>5. Len(outputs) \in Nat /\ end \in Nat /\ end <= Len(outputs)
      BY <3>2
    <3>6. /\ Len(have) <= Len(asOf)
          /\ ~truncated => Len(have) = Len(asOf)
          /\ \A n \in 1..Len(have) : have[n] = asOf[n]
      <4> HIDE DEF have, outputs, asOf, truncated, end
      <4> QED BY <3>4, <3>5
    <3> QED BY <3>6
  <2>4. /\ agent' = [have |-> agent'.have, cursor |-> agent'.cursor, reading |-> agent'.reading]
        /\ answer' = [asOf |-> answer'.asOf, truncated |-> answer'.truncated, ids |-> answer'.ids]
    <3>1. agent' = [have |-> agent'.have, cursor |-> agent'.cursor, reading |-> agent'.reading]
      BY <1>1
    <3> QED BY <3>1
  <2> QED BY <2>1, <2>2, <2>3, <2>4 DEF Follows
<1>5. CursorInv'
  <2>1. \A p \in Positions :
          LET at == agent'.cursor.positions[p]
          IN  /\ at.version \in Nat /\ at.version <= job'.cells[p].version
              /\ at.delivered = Len(agent'.have[p])
              /\ at.version = job'.cells[p].version => job'.cells[p].outputs = answer'.asOf[p]
    <3> TAKE p \in Positions
    <3>1. answer'.asOf[p] = job.cells[p].outputs
          /\ agent'.cursor.positions[p] = [version |-> job.cells[p].version, delivered |-> to[p]]
      BY <1>3
    <3>2. job.cells[p].version \in Nat /\ Len(agent'.have[p]) = to[p]
      BY <1>2
    <3> DEFINE at == agent'.cursor.positions[p]
               version == job.cells[p].version
               end == to[p]
    <3>3. at.version = version /\ at.delivered = end /\ version \in Nat
      <4>1. at = [version |-> version, delivered |-> end]
        BY <3>1
      <4> HIDE DEF at, version, end
      <4>2. at.version = version /\ at.delivered = end
        BY <4>1
      <4> QED BY <3>2, <4>2 DEF version
    <3>4. at.version <= job'.cells[p].version
      <4> HIDE DEF at
      <4> QED BY <3>3
    <3> QED BY <3>1, <3>2, <3>3, <3>4
  <2> QED BY <2>1 DEF CursorInv
<1> QED BY <1>1, <1>4, <1>5

\* execution_get.
LEMMA GetStep ==
  ASSUME ViewsInv, ExecutionGet
  PROVE  ViewsInv'
<1>1. PICK cursor \in {agent.cursor, NoCursor}, budget \in Budgets, arrives \in BOOLEAN :
      \E view \in {BuildExecutionView(cursor, budget)} :
      \E commit \in {Commit(store, view.keys)} :
        /\ store' = commit.store
        /\ IF commit.ok /\ arrives
           THEN /\ agent' = [agent EXCEPT
                     !.have = [p \in Positions |->
                                 IF view.reset[p] THEN view.entries[p]
                                 ELSE @[p] \o view.entries[p]],
                     !.cursor = view.cursor]
                /\ answer' = [asOf      |-> [p \in Positions |-> job.cells[p].outputs],
                              truncated |-> view.truncated,
                              ids       |-> commit.ids]
           ELSE /\ answer' = [answer EXCEPT !.ids = commit.ids]
                /\ UNCHANGED agent
  BY DEF ExecutionGet
<1>2. PICK view \in {BuildExecutionView(cursor, budget)} :
      \E commit \in {Commit(store, view.keys)} :
        /\ store' = commit.store
        /\ IF commit.ok /\ arrives
           THEN /\ agent' = [agent EXCEPT
                     !.have = [p \in Positions |->
                                 IF view.reset[p] THEN view.entries[p]
                                 ELSE @[p] \o view.entries[p]],
                     !.cursor = view.cursor]
                /\ answer' = [asOf      |-> [p \in Positions |-> job.cells[p].outputs],
                              truncated |-> view.truncated,
                              ids       |-> commit.ids]
           ELSE /\ answer' = [answer EXCEPT !.ids = commit.ids]
                /\ UNCHANGED agent
  BY <1>1
<1>3. PICK commit \in {Commit(store, view.keys)} :
        /\ store' = commit.store
        /\ IF commit.ok /\ arrives
           THEN /\ agent' = [agent EXCEPT
                     !.have = [p \in Positions |->
                                 IF view.reset[p] THEN view.entries[p]
                                 ELSE @[p] \o view.entries[p]],
                     !.cursor = view.cursor]
                /\ answer' = [asOf      |-> [p \in Positions |-> job.cells[p].outputs],
                              truncated |-> view.truncated,
                              ids       |-> commit.ids]
           ELSE /\ answer' = [answer EXCEPT !.ids = commit.ids]
                /\ UNCHANGED agent
  BY <1>2
<1>4. job' = job /\ JobOk'
  BY DEF ExecutionGet, ViewsInv, JobOk
<1>5. PICK to : IsView(view, cursor, to)
  <2>1. PICK to : IsView(BuildExecutionView(cursor, budget), cursor, to)
    BY ViewIs
  <2>2. view = BuildExecutionView(cursor, budget)
    BY <1>2
  <2> QED BY <2>1, <2>2
<1>6. KeysOk(view.keys) /\ store' = Commit(store, view.keys).store /\ commit = Commit(store, view.keys)
  BY <1>3, <1>5 DEF IsView
<1>7. agent'.reading = agent.reading /\ answer'.ids = commit.ids /\ Follows' /\ CursorInv'
  <2>1. CASE commit.ok /\ arrives
    <3>1. /\ agent' = [agent EXCEPT
                         !.have = [p \in Positions |->
                                     IF view.reset[p] THEN view.entries[p]
                                     ELSE @[p] \o view.entries[p]],
                         !.cursor = view.cursor]
          /\ answer' = [asOf      |-> [p \in Positions |-> job.cells[p].outputs],
                        truncated |-> view.truncated,
                        ids       |-> commit.ids]
      BY <1>3, <2>1
    <3>2. agent'.reading = agent.reading /\ Follows' /\ CursorInv'
      BY <1>4, <1>5, <3>1, Arrives
    <3>3. answer'.ids = commit.ids
      BY <3>1
    <3> QED BY <3>2, <3>3
  <2>2. CASE ~(commit.ok /\ arrives)
    <3>1. agent' = agent /\ answer' = [answer EXCEPT !.ids = commit.ids]
      BY <1>3, <2>2
    <3>2. answer' = [asOf |-> answer.asOf, truncated |-> answer.truncated, ids |-> commit.ids]
      BY <3>1 DEF ViewsInv, Follows
    <3> QED BY <1>4, <3>1, <3>2 DEF ViewsInv, Follows, CursorInv
  <2> QED BY <2>1, <2>2
<1>8. StoreInv(store') /\ answer'.ids \subseteq Ids(store') /\ ReadingInv'
  BY <1>6, <1>7, CommitStep
<1> QED BY <1>4, <1>7, <1>8 DEF ViewsInv

\* notebook_read: every output of the cells, in their order.
LEMMA ReadStep ==
  ASSUME ViewsInv, NotebookReadOutputs
  PROVE  ViewsInv'
<1>1. PICK read \in (SUBSET Positions) \ {{}} :
      \E commit \in {Commit(store, UNION {OutputEntries(p, CellOutputsRead(p)) : p \in read})} :
        /\ store' = commit.store
        /\ answer' = [answer EXCEPT !.ids = commit.ids]
  BY DEF NotebookReadOutputs
<1> DEFINE keys == UNION {OutputEntries(p, CellOutputsRead(p)) : p \in read}
           from == [p \in Positions |-> 0]
           to   == [p \in Positions |-> IF p \in read THEN Len(job.cells[p].outputs) ELSE 0]
<1>2. store' = Commit(store, keys).store /\ answer' = [answer EXCEPT !.ids = Commit(store, keys).ids]
  BY <1>1
<1>3. job' = job /\ agent' = agent
  BY DEF NotebookReadOutputs
<1>4. keys = KeysFrom(from, to)
  <2> DEFINE key(p, n) == [cell |-> p, index |-> n, token |-> job.cells[p].outputs[n]]
  <2>1. \A p \in Positions : job.cells[p].outputs \in Seq(Tokens)
    BY DEF ViewsInv, JobOk
  <2>2. ASSUME NEW p \in read
        PROVE  OutputEntries(p, CellOutputsRead(p)) = {key(p, n) : n \in 1..Len(job.cells[p].outputs)}
    <3>1. DOMAIN job.cells[p].outputs = 1..Len(job.cells[p].outputs)
      BY <2>1
    <3> DEFINE output(n) == [index |-> n, token |-> job.cells[p].outputs[n]]
               reads == {output(n) : n \in 1..Len(job.cells[p].outputs)}
               entry(r) == [cell |-> p, index |-> r.index, token |-> r.token]
    <3>2. OutputEntries(p, CellOutputsRead(p)) = {entry(r) : r \in reads}
      BY <3>1, Zenon DEF OutputEntries, CellOutputsRead
    <3>3. \A n : entry(output(n)) = key(p, n)
      OBVIOUS
    <3> HIDE DEF entry, key, output
    <3> QED BY <3>2, <3>3
  <2>3. keys = UNION {{key(p, n) : n \in 1..Len(job.cells[p].outputs)} : p \in read}
    <3> HIDE DEF key
    <3> QED BY <2>2
  <2>4. KeysFrom(from, to) = UNION {{key(p, n) : n \in from[p] + 1..to[p]} : p \in Positions}
    BY DEF KeysFrom
  <2>5. \A p \in Positions : from[p] + 1..to[p] = IF p \in read THEN 1..Len(job.cells[p].outputs) ELSE {}
    OBVIOUS
  <2> HIDE DEF key, keys, from, to
  <2>6. ASSUME NEW x \in keys
        PROVE  x \in KeysFrom(from, to)
    <3>1. PICK p \in read : x \in {key(p, n) : n \in 1..Len(job.cells[p].outputs)}
      BY <2>3
    <3>2. p \in Positions /\ x \in {key(p, n) : n \in from[p] + 1..to[p]}
      BY <2>5, <3>1
    <3> QED BY <2>4, <3>2
  <2>7. ASSUME NEW x \in KeysFrom(from, to)
        PROVE  x \in keys
    <3>1. PICK p \in Positions : x \in {key(p, n) : n \in from[p] + 1..to[p]}
      BY <2>4
    <3>2. p \in read /\ x \in {key(p, n) : n \in 1..Len(job.cells[p].outputs)}
      BY <2>5, <3>1
    <3> QED BY <2>3, <3>2
  <2> QED BY <2>6, <2>7
<1>5. KeysOk(keys)
  <2>1. \A p \in Positions : Len(job.cells[p].outputs) \in Nat
    BY DEF ViewsInv, JobOk
  <2>2. /\ from \in [Positions -> Nat] /\ to \in [Positions -> Nat]
        /\ \A p \in Positions : to[p] <= Len(job.cells[p].outputs)
    BY <2>1
  <2> HIDE DEF keys, from, to
  <2> QED BY <1>4, <2>2, KeysFromOk
<1> HIDE DEF keys
<1>6. answer' = [asOf |-> answer.asOf, truncated |-> answer.truncated, ids |-> Commit(store, keys).ids]
  BY <1>2 DEF ViewsInv, Follows
<1>7. StoreInv(store') /\ answer'.ids \subseteq Ids(store') /\ ReadingInv'
  BY <1>2, <1>3, <1>5, <1>6, CommitStep
<1>8. JobOk' /\ Follows' /\ CursorInv'
  BY <1>3, <1>6 DEF ViewsInv, JobOk, Follows, CursorInv
<1> QED BY <1>7, <1>8 DEF ViewsInv

-------------------------------------------------------------------------------
(* Reading snapshots. *)

\* A part of a snapshot goes on to a place where it may be cut.
LEMMA SliceType ==
  ASSUME NEW token \in Tokens, NEW offset \in Nat, NEW budget \in Nat,
         offset < Bytes(token)
  PROVE  LET end == SliceSnapshot(token, offset, budget)
         IN  /\ end \in Nat /\ end <= Bytes(token)
             /\ end < Bytes(token) =>
                  IF token \in Binary THEN (end - offset) % 3 = 0
                  ELSE end \in Boundaries[token]
<1> DEFINE bytes == Bytes(token)
           end   == Min({bytes, offset + budget})
           units == (end - offset) \div 3
           part  == Max({3, units * 3})
           cuts  == {b \in Boundaries[token] : b <= end}
<1>1. bytes \in Nat /\ bytes \in Boundaries[token] /\ offset < bytes
  BY BytesType
<1>2. end = IF bytes <= offset + budget THEN bytes ELSE offset + budget
  <2> HIDE DEF bytes
  <2> QED BY <1>1, MinIs
<1>3. end \in Nat /\ end - offset \in Nat
  <2> HIDE DEF bytes, end
  <2> QED BY <1>1, <1>2
<1>4. SliceSnapshot(token, offset, budget) =
        IF end >= bytes THEN bytes
        ELSE IF token \in Binary THEN Min({bytes, offset + part})
        ELSE Max(cuts)
  BY DEF SliceSnapshot
<1>5. CASE end >= bytes
  <2> HIDE DEF bytes, end, part, cuts
  <2>1. SliceSnapshot(token, offset, budget) = bytes
    BY <1>4, <1>5
  <2> QED BY <1>1, <2>1 DEF bytes
<1>6. CASE ~(end >= bytes) /\ token \in Binary
  <2>1. units \in Nat
    <3> HIDE DEF end
    <3> QED BY <1>3
  <2>2. units * 3 \in Nat /\ (units * 3) % 3 = 0 /\ 3 % 3 = 0
    <3> HIDE DEF units
    <3> QED BY <2>1
  <2>3. part \in {3, units * 3} /\ part \in Nat
    <3> HIDE DEF units
    <3>1. IsFiniteSet({3, units * 3})
      <4>1. IsFiniteSet({3}) /\ IsFiniteSet({units * 3})
        BY FS_Singleton
      <4>2. IsFiniteSet({3} \cup {units * 3})
        BY <4>1, FS_Union
      <4>3. {3, units * 3} = {3} \cup {units * 3}
        OBVIOUS
      <4> QED BY <4>2, <4>3
    <3>2. {3, units * 3} \in SUBSET Nat /\ {3, units * 3} # {}
      BY <2>2
    <3> QED BY <3>1, <3>2, MaxIs
  <2>4. part % 3 = 0
    <3> HIDE DEF units, part
    <3> QED BY <2>2, <2>3
  <2> DEFINE to == SliceSnapshot(token, offset, budget)
  <2>5. to = IF bytes <= offset + part THEN bytes ELSE offset + part
    <3>1. to = Min({bytes, offset + part})
      <4> HIDE DEF bytes, end, part, cuts, to
      <4> QED BY <1>4, <1>6 DEF to
    <3> HIDE DEF bytes, part, to
    <3> QED BY <1>1, <2>3, <3>1, MinIs
  <2>6. /\ to \in Nat /\ to <= bytes
        /\ to < bytes => (to - offset) % 3 = 0
    <3> HIDE DEF bytes, part, to
    <3>1. to < bytes => to - offset = part
      BY <1>1, <2>3, <2>5
    <3> QED BY <1>1, <2>3, <2>4, <2>5, <3>1
  <2> HIDE DEF to
  <2> QED BY <1>6, <2>6 DEF to
<1>7. CASE ~(end >= bytes) /\ token \notin Binary
  <2>1. cuts \in SUBSET Nat /\ cuts # {} /\ IsFiniteSet(cuts) /\ cuts \subseteq Boundaries[token]
    <3>1. /\ IsFiniteSet(Boundaries[token]) /\ Boundaries[token] \subseteq Nat
          /\ 0 \in Boundaries[token]
      BY ViewsAssumption
    <3>2. 0 \in cuts
      <4> HIDE DEF end
      <4> QED BY <1>3, <3>1
    <3>3. cuts \subseteq Boundaries[token]
      OBVIOUS
    <3> HIDE DEF cuts
    <3> QED BY <3>1, <3>2, <3>3, FS_Subset
  <2>2. Max(cuts) \in cuts
    <3> HIDE DEF cuts
    <3> QED BY <2>1, MaxIs
  <2>3. Max(cuts) \in Nat /\ Max(cuts) <= bytes /\ Max(cuts) \in Boundaries[token]
    <3>1. Max(cuts) <= end
      BY <2>2
    <3> DEFINE max == Max(cuts)
    <3>2. max \in Nat /\ max \in Boundaries[token] /\ max <= end
      <4> HIDE DEF cuts, end
      <4> QED BY <2>1, <2>2, <3>1
    <3>3. max <= bytes
      <4> HIDE DEF max, end, bytes
      <4> QED BY <1>1, <1>3, <1>7, <3>2
    <3> HIDE DEF max
    <3> QED BY <3>2, <3>3 DEF max
  <2>4. SliceSnapshot(token, offset, budget) = Max(cuts)
    <3> HIDE DEF bytes, end, part, cuts
    <3> QED BY <1>4, <1>7
  <2> HIDE DEF cuts
  <2> QED BY <1>7, <2>3, <2>4
<1> HIDE DEF end
<1> QED BY <1>5, <1>6, <1>7

LEMMA SnapshotIs ==
  ASSUME NEW st, StoreInv(st), NEW id \in Ids(st)
  PROVE  /\ SnapshotById(st, id) \in st.snapshots /\ SnapshotById(st, id).id = id
         /\ SnapshotById(st, id).key.token \in Tokens
         /\ \A s \in st.snapshots : s.id = id => s = SnapshotById(st, id)
         /\ id \in Nat \ {0} /\ id < st.next
<1>1. PICK s \in st.snapshots : s.id = id
  BY DEF Ids, IdsOf
<1>2. SnapshotById(st, id) \in st.snapshots /\ SnapshotById(st, id).id = id
  BY <1>1 DEF SnapshotById
<1>3. SnapshotById(st, id) \in Snapshots
  BY <1>2 DEF StoreInv
<1>4. SnapshotById(st, id).key.token \in Tokens /\ id \in Nat \ {0}
  BY <1>2, <1>3 DEF Snapshots, Keys
<1> QED BY <1>2, <1>4 DEF StoreInv, Distinct

\* What is being read is a snapshot from its beginning.
IsReading(r) ==
  /\ r = [id |-> r.id, token |-> r.token, parts |-> r.parts]
  /\ r.id \in Nat /\ r.id < store.next
  /\ r.parts \in Seq([from : Nat, to : Nat])
  /\ r.parts # <<>> => r.token \in Tokens
  /\ \A s \in store.snapshots : s.id = r.id => s.key.token = r.token
  /\ \A n \in DOMAIN r.parts :
       /\ r.parts[n].from = IF n = 1 THEN 0 ELSE r.parts[n - 1].to
       /\ r.parts[n].to <= Bytes(r.token)
       /\ r.parts[n].to < Bytes(r.token) =>
            IF r.token \in Binary THEN (r.parts[n].to - r.parts[n].from) % 3 = 0
            ELSE r.parts[n].to \in Boundaries[r.token]

LEMMA ReadingIs == ReadingInv <=> IsReading(agent.reading)
BY DEF ReadingInv, PartsReassemble, IsReading

LEMMA ReadsOn ==
  ASSUME ViewsInv, NEW r, IsReading(r), agent' = [agent EXCEPT !.reading = r],
         UNCHANGED <<job, store, answer>>
  PROVE  ViewsInv'
<1>1. agent' = [have |-> agent.have, cursor |-> agent.cursor, reading |-> r]
  BY DEF ViewsInv, Follows
<1>2. agent'.have = agent.have /\ agent'.cursor = agent.cursor /\ agent'.reading = r
  BY <1>1
<1>3. Follows'
  BY <1>1, <1>2 DEF ViewsInv, Follows
<1>4. CursorInv' /\ JobOk'
  BY <1>2 DEF ViewsInv, CursorInv, JobOk
<1>5. ReadingInv'
  BY <1>2 DEF ReadingInv, PartsReassemble, IsReading
<1>6. StoreInv(store') /\ answer'.ids \subseteq Ids(store')
  BY DEF ViewsInv
<1> QED BY <1>3, <1>4, <1>5, <1>6 DEF ViewsInv

LEMMA NotReadingIs ==
  ASSUME ViewsInv
  PROVE  IsReading(NotReading)
<1>1. store.next \in Nat \ {0} /\ \A s \in store.snapshots : s.id # 0
  BY DEF ViewsInv, StoreInv, Snapshots
<1> QED BY <1>1 DEF IsReading, NotReading

LEMMA OutputReadStep ==
  ASSUME ViewsInv, OutputRead
  PROVE  ViewsInv'
<1>1. PICK id \in answer.ids \cup {agent.reading.id}, budget \in Parts :
        LET reading == IF agent.reading.id = id THEN agent.reading
                       ELSE [id |-> id, parts |-> <<>>,
                             token |-> IF id \in Ids(store) THEN SnapshotById(store, id).key.token
                                       ELSE 0]
            offset  == IF reading.parts = <<>> THEN 0 ELSE Last(reading.parts).to
        IN  IF id \notin Ids(store)
            THEN /\ agent.reading # NotReading
                 /\ agent' = [agent EXCEPT !.reading = NotReading]
                 /\ UNCHANGED <<job, store, answer, views>>
            ELSE LET token == SnapshotById(store, id).key.token
                     end   == SliceSnapshot(token, offset, budget)
                 IN  /\ offset < Bytes(token) /\ end > offset
                     /\ agent' = [agent EXCEPT !.reading =
                          [reading EXCEPT !.parts = Append(@, [from |-> offset, to |-> end])]]
                     /\ UNCHANGED <<job, store, answer, views>>
  BY DEF OutputRead
<1>2. CASE id \notin Ids(store)
  <2>1. agent' = [agent EXCEPT !.reading = NotReading] /\ UNCHANGED <<job, store, answer>>
    BY <1>1, <1>2
  <2> QED BY <2>1, NotReadingIs, ReadsOn
<1>3. CASE id \in Ids(store)
  <2> DEFINE reading == IF agent.reading.id = id THEN agent.reading
                        ELSE [id |-> id, parts |-> <<>>,
                              token |-> IF id \in Ids(store) THEN SnapshotById(store, id).key.token
                                        ELSE 0]
             offset  == IF reading.parts = <<>> THEN 0 ELSE Last(reading.parts).to
             token   == SnapshotById(store, id).key.token
             end     == SliceSnapshot(token, offset, budget)
             part    == [from |-> offset, to |-> end]
             r       == [reading EXCEPT !.parts = Append(@, part)]
  <2>1. /\ offset < Bytes(token) /\ end > offset
        /\ agent' = [agent EXCEPT !.reading = r]
        /\ UNCHANGED <<job, store, answer>>
    BY <1>1, <1>3, Zenon
  <2>2. StoreInv(store) /\ IsReading(agent.reading) /\ budget \in Nat
    BY ReadingIs, ViewsAssumption DEF ViewsInv
  <2>3. IsReading(reading) /\ reading.token = token /\ reading.id = id
    <3>1. CASE agent.reading.id = id
      <4>1. reading = agent.reading
        BY <3>1
      <4>2. agent.reading.token = token
        BY <1>3, <2>2, <3>1, SnapshotIs DEF IsReading
      <4> QED BY <2>2, <3>1, <4>1, <4>2
    <3>2. CASE agent.reading.id # id
      <4>1. reading = [id |-> id, parts |-> <<>>, token |-> token]
        BY <1>3, <3>2
      <4>2. \A s \in store.snapshots : s.id = id => s.key.token = token
        BY <1>3, <2>2, SnapshotIs
      <4>3. id \in Nat /\ id < store.next
        BY <1>3, <2>2, SnapshotIs
      <4> HIDE DEF reading, token
      <4> QED BY <4>1, <4>2, <4>3 DEF IsReading
    <3> QED BY <3>1, <3>2
  <2>4. token \in Tokens
    BY <1>3, <2>2, SnapshotIs
  <2> HIDE DEF reading, token
  <2> DEFINE parts == reading.parts
  <2>5. parts \in Seq([from : Nat, to : Nat]) /\ Len(parts) \in Nat
    BY <2>3 DEF IsReading
  <2>6. offset \in Nat /\ offset = IF Len(parts) = 0 THEN 0 ELSE parts[Len(parts)].to
    <3>1. CASE parts = <<>>
      BY <3>1
    <3>2. CASE parts # <<>>
      <4>1. Len(parts) # 0 /\ Len(parts) \in 1..Len(parts) /\ offset = Last(parts).to
        BY <2>5, <3>2
      <4>2. Last(parts) = parts[Len(parts)]
        BY DEF Last
      <4>4. parts[Len(parts)] \in [from : Nat, to : Nat]
        <5> HIDE DEF parts
        <5> QED BY <2>5, <4>1, ElementOfSeq
      <4> HIDE DEF offset, parts
      <4> QED BY <4>1, <4>2, <4>4
    <3> QED BY <3>1, <3>2
  <2> HIDE DEF offset
  <2>7. /\ end \in Nat /\ end <= Bytes(token)
        /\ end < Bytes(token) =>
             IF token \in Binary THEN (end - offset) % 3 = 0 ELSE end \in Boundaries[token]
    BY <2>1, <2>2, <2>4, <2>6, SliceType
  <2> HIDE DEF end
  <2>8. /\ r = [id |-> id, token |-> token, parts |-> Append(parts, part)]
    <3>1. reading = [id |-> id, token |-> token, parts |-> parts]
      BY <2>3 DEF IsReading
    <3> HIDE DEF part
    <3> QED BY <3>1
  <2>9. r.id = id /\ r.token = token /\ r.parts = Append(parts, part)
    <3> HIDE DEF r, parts, part
    <3> QED BY <2>8
  <2>10. /\ Append(parts, part) \in Seq([from : Nat, to : Nat])
         /\ Len(Append(parts, part)) = Len(parts) + 1
         /\ DOMAIN Append(parts, part) = 1..Len(parts) + 1
         /\ \A n \in 1..Len(parts) : Append(parts, part)[n] = parts[n]
         /\ Append(parts, part)[Len(parts) + 1] = part
    <3>1. part \in [from : Nat, to : Nat]
      BY <2>6, <2>7
    <3> HIDE DEF parts, part
    <3> QED BY <2>5, <3>1
  <2>11. ASSUME NEW n \in 1..Len(parts) + 1
         PROVE  /\ r.parts[n].from = IF n = 1 THEN 0 ELSE r.parts[n - 1].to
                /\ r.parts[n].to <= Bytes(token)
                /\ r.parts[n].to < Bytes(token) =>
                     IF token \in Binary THEN (r.parts[n].to - r.parts[n].from) % 3 = 0
                     ELSE r.parts[n].to \in Boundaries[token]
    <3>1. CASE n \in 1..Len(parts)
      <4>1. r.parts[n] = parts[n] /\ (n # 1 => r.parts[n - 1] = parts[n - 1])
        <5> HIDE DEF r, parts, part
        <5> QED BY <2>5, <2>9, <2>10, <3>1
      <4>2. n \in DOMAIN parts
        BY <2>5, <3>1
      <4>3. /\ parts[n].from = IF n = 1 THEN 0 ELSE parts[n - 1].to
            /\ parts[n].to <= Bytes(token)
            /\ parts[n].to < Bytes(token) =>
                 IF token \in Binary THEN (parts[n].to - parts[n].from) % 3 = 0
                 ELSE parts[n].to \in Boundaries[token]
        BY <2>3, <4>2 DEF IsReading
      <4> HIDE DEF r, parts, part
      <4> QED BY <4>1, <4>3
    <3>2. CASE n = Len(parts) + 1
      <4>1. r.parts[n] = part /\ (n # 1 => n - 1 = Len(parts) /\ r.parts[n - 1] = parts[Len(parts)])
        <5> HIDE DEF r, parts, part
        <5> QED BY <2>5, <2>9, <2>10, <3>2
      <4>2. part.from = IF n = 1 THEN 0 ELSE parts[Len(parts)].to
        <5> HIDE DEF parts
        <5> QED BY <2>5, <2>6, <3>2
      <4>3. part.from = offset /\ part.to = end
        OBVIOUS
      <4> HIDE DEF r, parts, part
      <4> QED BY <2>7, <4>1, <4>2, <4>3
    <3> QED BY <2>5, <3>1, <3>2
  <2>12. IsReading(r)
    <3>1. /\ id \in Nat /\ id < store.next
          /\ \A s \in store.snapshots : s.id = id => s.key.token = token
      BY <2>3 DEF IsReading
    <3> HIDE DEF r, parts, part
    <3> QED BY <2>4, <2>8, <2>9, <2>10, <2>11, <3>1 DEF IsReading
  <2> HIDE DEF r
  <2> QED BY <2>1, <2>12, ReadsOn
<1> QED BY <1>2, <1>3

LEMMA ResourceStep ==
  ASSUME ViewsInv, ReadOutputResource
  PROVE  ViewsInv'
<1>1. PICK id \in (answer.ids \cup {agent.reading.id}) \cap Ids(store) :
        LET token == SnapshotById(store, id).key.token
            whole == [from |-> 0, to |-> Bytes(token)]
        IN  /\ agent' = [agent EXCEPT !.reading =
                 [id |-> id, token |-> token,
                  parts |-> IF Bytes(token) > ResourceBytes THEN <<>> ELSE <<whole>>]]
            /\ UNCHANGED <<job, store, answer, views>>
  BY DEF ReadOutputResource
<1> DEFINE token == SnapshotById(store, id).key.token
           whole == [from |-> 0, to |-> Bytes(token)]
           parts == IF Bytes(token) > ResourceBytes THEN <<>> ELSE <<whole>>
           r     == [id |-> id, token |-> token, parts |-> parts]
<1>2. agent' = [agent EXCEPT !.reading = r] /\ UNCHANGED <<job, store, answer>>
  BY <1>1
<1>3. /\ token \in Tokens /\ id \in Nat /\ id < store.next
      /\ \A s \in store.snapshots : s.id = id => s.key.token = token
  BY SnapshotIs DEF ViewsInv
<1> HIDE DEF token
<1>4. Bytes(token) \in Nat
  BY <1>3, BytesType
<1>5. /\ parts \in Seq([from : Nat, to : Nat])
      /\ \A n \in DOMAIN parts : n = 1 /\ parts[n].from = 0 /\ parts[n].to = Bytes(token)
  <2>1. whole \in [from : Nat, to : Nat] /\ whole.from = 0 /\ whole.to = Bytes(token)
    BY <1>4
  <2> HIDE DEF whole
  <2>2. CASE parts = <<>>
    <3> HIDE DEF parts
    <3>1. parts \in Seq([from : Nat, to : Nat]) /\ DOMAIN parts = {}
      BY <2>2
    <3> QED BY <3>1
  <2>3. CASE parts = <<whole>>
    <3> HIDE DEF parts
    <3>1. /\ parts \in Seq([from : Nat, to : Nat]) /\ DOMAIN parts = {1}
          /\ parts[1] = whole
      BY <2>1, <2>3
    <3> QED BY <2>1, <3>1
  <2> QED BY <2>2, <2>3
<1> HIDE DEF parts
<1>6. IsReading(r)
  BY <1>3, <1>4, <1>5 DEF IsReading
<1> HIDE DEF r
<1> QED BY <1>2, <1>6, ReadsOn

LEMMA ListStep ==
  ASSUME ViewsInv, ListOutputResources
  PROVE  ViewsInv'
<1>1. answer' = [answer EXCEPT !.ids = Ids(store)] /\ UNCHANGED <<job, store, agent>>
  BY DEF ListOutputResources
<1>2. answer' = [asOf |-> answer.asOf, truncated |-> answer.truncated, ids |-> Ids(store)]
  BY <1>1 DEF ViewsInv, Follows
<1>3. JobOk' /\ Follows' /\ CursorInv'
  BY <1>1, <1>2 DEF ViewsInv, JobOk, Follows, CursorInv
<1>4. ReadingInv'
  BY <1>1 DEF ViewsInv, ReadingInv, PartsReassemble
<1>5. StoreInv(store') /\ answer'.ids \subseteq Ids(store')
  BY <1>1, <1>2 DEF ViewsInv
<1> QED BY <1>3, <1>4, <1>5 DEF ViewsInv

LEMMA NextViews == ViewsInv /\ [ENext]_evars => ViewsInv'
<1> SUFFICES ASSUME ViewsInv, [ENext]_evars PROVE ViewsInv'
  OBVIOUS
<1>1. CASE UNCHANGED evars
  BY <1>1 DEF evars, ViewsInv, JobOk, Follows, CursorInv, StoreInv, ReadingInv, PartsReassemble,
              Ids, IdsOf, Distinct
<1>2. CASE \E p \in Positions : AppendOutput(p) \/ RewriteOutput(p) \/ ClearOutputs(p)
  BY <1>2, KernelStep
<1>3. CASE ExecutionGet
  BY <1>3, GetStep
<1>4. CASE NotebookReadOutputs
  BY <1>4, ReadStep
<1>5. CASE OutputRead
  BY <1>5, OutputReadStep
<1>6. CASE ListOutputResources
  BY <1>6, ListStep
<1>7. CASE ReadOutputResource
  BY <1>7, ResourceStep
<1> QED BY <1>1, <1>2, <1>3, <1>4, <1>5, <1>6, <1>7 DEF ENext

(* The invariant of the views: the store accounts for its snapshots, the   *)
(* agent has a beginning of what the cells had, its cursor says what it    *)
(* has, and what it reads it reads from the beginning.                     *)
THEOREM ViewsHold == ESpec => []ViewsInv
<1>1. EInit => ViewsInv
  BY InitViews
<1>2. ViewsInv /\ [ENext]_evars => ViewsInv'
  BY NextViews
<1> QED BY <1>1, <1>2, PTL DEF ESpec

(* An agent that polls an execution has exactly the outputs that the last  *)
(* answer was built from, or a beginning of them where it was cut short.   *)
(* (execution.ts, buildExecutionView)                                      *)
THEOREM FollowersAreCurrent == ESpec => []FollowerIsCurrent
<1>1. ViewsInv => FollowerIsCurrent
  <2> SUFFICES ASSUME ViewsInv, NEW p \in Positions
               PROVE  IF answer.truncated[p] THEN IsPrefix(agent.have[p], answer.asOf[p])
                      ELSE agent.have[p] = answer.asOf[p]
    BY DEF FollowerIsCurrent
  <2> DEFINE have == agent.have[p]
             asOf == answer.asOf[p]
  <2>1. /\ have \in Seq(Tokens) /\ asOf \in Seq(Tokens) /\ Len(have) <= Len(asOf)
        /\ ~answer.truncated[p] => Len(have) = Len(asOf)
        /\ \A n \in 1..Len(have) : have[n] = asOf[n]
    BY DEF ViewsInv, Follows
  <2> HIDE DEF have, asOf
  <2>2. IsPrefix(have, asOf)
    <3>1. SubSeq(asOf, 1, Len(have)) \in Seq(Tokens) /\ Len(SubSeq(asOf, 1, Len(have))) = Len(have)
          /\ \A n \in 1..Len(have) : SubSeq(asOf, 1, Len(have))[n] = asOf[n]
      BY <2>1
    <3>2. SubSeq(asOf, 1, Len(have)) = have
      BY <2>1, <3>1, SeqEqual
    <3> QED BY <2>1, <3>2 DEF IsPrefix
  <2>3. ~answer.truncated[p] => have = asOf
    BY <2>1, SeqEqual
  <2> QED BY <2>2, <2>3 DEF have, asOf
<1> QED BY <1>1, ViewsHold, PTL

(* Every snapshot that an answer named is retained when it is given, the   *)
(* store holds what it accounts for, within its budget, and the parts of a *)
(* snapshot can be put together.  (outputs.ts, #commit, #evictFor;         *)
(* service.ts, sliceSnapshot)                                              *)
THEOREM SnapshotsCanBeRead == ESpec => []SnapshotsAreReadable
<1>1. ViewsInv => SnapshotsAreRetained
  <2> SUFFICES ASSUME ViewsInv PROVE SnapshotsAreRetained
    OBVIOUS
  <2>1. StoreInv(store) /\ answer.ids \subseteq Ids(store)
    BY DEF ViewsInv
  <2>2. store.used = Total(store.snapshots) /\ store.used <= StoreBytes
    BY <2>1 DEF StoreInv
  <2>3. Cardinality(Ids(store)) = Cardinality(store.snapshots)
    <3> DEFINE f == [s \in store.snapshots |-> s.id]
    <3>1. f \in Bijection(store.snapshots, Ids(store))
      <4>1. f \in [store.snapshots -> Ids(store)]
        BY DEF Ids, IdsOf
      <4>2. \A r, s \in store.snapshots : f[r] = f[s] => r = s
        BY <2>1 DEF StoreInv, Distinct
      <4>3. \A i \in Ids(store) : \E s \in store.snapshots : f[s] = i
        BY DEF Ids, IdsOf
      <4> HIDE DEF f
      <4> QED BY <4>1, <4>2, <4>3 DEF Bijection, Injection, Surjection, IsInjective
    <3>2. IsFiniteSet(store.snapshots)
      BY <2>1 DEF StoreInv
    <3> HIDE DEF f
    <3> QED BY <3>1, <3>2, FS_Bijection DEF ExistsBijection
  <2>4. ASSUME NEW k \in DOMAIN store.byKey
        PROVE  /\ store.byKey[k] \in Ids(store)
               /\ SnapshotById(store, store.byKey[k]).key = k
    <3>1. PICK s \in store.snapshots : s.id = store.byKey[k] /\ s.key = k
      BY <2>1 DEF StoreInv
    <3>2. store.byKey[k] \in Ids(store)
      BY <3>1 DEF Ids, IdsOf
    <3>3. s = SnapshotById(store, store.byKey[k])
      BY <2>1, <3>1, <3>2, SnapshotIs
    <3> QED BY <3>1, <3>2, <3>3
  <2> QED BY <2>1, <2>2, <2>3, <2>4 DEF SnapshotsAreRetained
<1>2. ViewsInv => PartsReassemble
  BY DEF ViewsInv, ReadingInv
<1>3. ViewsInv => SnapshotsAreReadable
  BY <1>1, <1>2 DEF SnapshotsAreReadable
<1> QED BY <1>3, ViewsHold, PTL
===============================================================================
