---------------------------- MODULE OutputReducer ----------------------------
(***************************************************************************)
(* The reducer of one execute_request (kernel/output-reducer.ts) and the   *)
(* display table its kernel's executions share (kernel/display-registry.ts).*)
(*                                                                         *)
(* Pure operators: FeedReducer takes a reducer, the table and one routed   *)
(* message to the next reducer, the next table and the effects for the     *)
(* output areas.  An output is its type and its size; a stream grows by    *)
(* one with every chunk, and an update of a display changes its size.      *)
(***************************************************************************)
EXTENDS Integers, Sequences, SequencesExt

CONSTANTS
  MaxOutputBytes,  \* the output budget of one execution
  MaxDisplayIds,   \* display ids the table keeps
  MaxTargetsPerId, \* targets it keeps for one id
  DisplayIds,
  Sizes,           \* sizes of a display when it is first shown
  UpdateSizes      \* and when it is updated

ASSUME ReducerAssumption ==
  /\ MaxOutputBytes \in Nat /\ MaxDisplayIds \in Nat \ {0} /\ MaxTargetsPerId \in Nat \ {0}
  /\ Sizes \union UpdateSizes \subseteq Nat \ {0}

NoId == "no display id"

\* Array.filter: the elements that are in a set, in their order.
Keep(seq, S) ==
  LET kept[n \in 0..Len(seq)] ==
        IF n = 0 THEN << >>
        ELSE IF seq[n] \in S THEN Append(kept[n - 1], seq[n]) ELSE kept[n - 1]
  IN  kept[Len(seq)]

\* What a kernel sends in answer to one request.
Outputs ==
       {[type |-> "stream"], [type |-> "error"]}
  \union {[type |-> "clear_output", wait |-> w] : w \in BOOLEAN}
  \union {[type |-> "display_data", id |-> d, size |-> n] : d \in DisplayIds, n \in Sizes}
  \union {[type |-> "update_display_data", id |-> d, size |-> n] : d \in DisplayIds, n \in UpdateSizes}
Evidence ==
       {[type |-> "execute_input"], [type |-> "idle"]}
  \union {[type |-> "execute_reply", status |-> s] : s \in {"ok", "error", "aborted"}}

Output(type, size) == [type |-> type, size |-> size]

NewReducer(area) ==
  [area |-> area, outputs |-> << >>, bytes |-> 0, count |-> 0, reply |-> FALSE, idle |-> FALSE,
   completed |-> FALSE, status |-> "running", error |-> FALSE, clearPending |-> FALSE,
   incomplete |-> FALSE]

------------------------------------------------------------------------------
(* The display table: display ids in the order they were first shown, each *)
(* with the outputs that show it.                                          *)

Resolve(table, id) ==
  IF \E i \in DOMAIN table : table[i].id = id
  THEN table[CHOOSE i \in DOMAIN table : table[i].id = id].targets
  ELSE << >>

Register(table, id, target) ==
  LET known  == \E i \in DOMAIN table : table[i].id = id
      kept   == IF ~known /\ Len(table) >= MaxDisplayIds THEN Tail(table) ELSE table
      rows   == IF known THEN kept ELSE Append(kept, [id |-> id, targets |-> << >>])
      old    == Resolve(rows, id)
      space  == IF Len(old) >= MaxTargetsPerId THEN Tail(old) ELSE old
      listed == IF target \in ToSet(old) THEN old ELSE Append(space, target)
  IN  [i \in DOMAIN rows |-> IF rows[i].id = id THEN [rows[i] EXCEPT !.targets = listed] ELSE rows[i]]

\* A cleared area: the indices it registered mean nothing any more.
ForgetGeneration(table, area) ==
  LET stripped == [i \in DOMAIN table |->
                     [table[i] EXCEPT !.targets = Keep(@, {t \in ToSet(@) : t.area # area})]]
  IN  Keep(stripped, {row \in ToSet(stripped) : row.targets # << >>})

------------------------------------------------------------------------------
(* One message: [red, table, effects] to [red, table, effects].            *)

Effect(kind, area, index, outputs) ==
  [kind |-> kind, area |-> area, index |-> index, outputs |-> outputs]

Emit(s, e) == [s EXCEPT !.effects = Append(@, e)]

Exceeds(red, extra) == red.bytes + extra > MaxOutputBytes

Emptied(s) ==
  [s EXCEPT !.red.outputs = << >>, !.red.bytes = 0, !.red.clearPending = FALSE,
            !.table = ForgetGeneration(@, s.red.area)]

\* Mutant of AddOutput: a deferred clear is forgotten by an output beyond the budget.
AddOutput_LosesClear(s0, output, id) ==
  LET cleared == s0.red.clearPending
      s       == IF cleared THEN Emptied(s0) ELSE s0
      area    == s.red.area
      kept    == [s EXCEPT !.red.outputs = Append(@, output), !.red.bytes = @ + output.size]
      target  == [area |-> area, index |-> Len(kept.red.outputs)]
      shown   == IF id = NoId THEN kept ELSE [kept EXCEPT !.table = Register(@, id, target)]
  IN  IF Exceeds(s.red, output.size) THEN [s EXCEPT !.red.incomplete = TRUE]
      ELSE Emit(shown, IF cleared THEN Effect("replace", area, 0, shown.red.outputs)
                       ELSE Effect("append", area, 0, <<output>>))

\* addOutput: a deferred clear takes effect with the output that follows it, also when
\* that output is beyond the budget.
AddOutput(s0, output, id) ==
  LET cleared == s0.red.clearPending
      s       == IF cleared THEN Emptied(s0) ELSE s0
      area    == s.red.area
      over    == [s EXCEPT !.red.incomplete = TRUE]
      kept    == [s EXCEPT !.red.outputs = Append(@, output), !.red.bytes = @ + output.size]
      target  == [area |-> area, index |-> Len(kept.red.outputs)]
      shown   == IF id = NoId THEN kept ELSE [kept EXCEPT !.table = Register(@, id, target)]
  IN  IF Exceeds(s.red, output.size)
      THEN IF cleared THEN Emit(over, Effect("clear", area, 0, << >>)) ELSE over
      ELSE Emit(shown, IF cleared THEN Effect("replace", area, 0, shown.red.outputs)
                       ELSE Effect("append", area, 0, <<output>>))

\* Consecutive chunks are one output, unless a clear lies between them.
HandleStream(s) ==
  LET n == Len(s.red.outputs)
  IN  IF ~s.red.clearPending /\ n > 0 /\ s.red.outputs[n].type = "stream"
      THEN IF Exceeds(s.red, 1) THEN [s EXCEPT !.red.incomplete = TRUE]
           ELSE Emit([s EXCEPT !.red.outputs[n].size = @ + 1, !.red.bytes = @ + 1],
                     Effect("appendStream", s.red.area, n, << >>))
      ELSE AddOutput(s, Output("stream", 1), NoId)

\* One place that shows the display; an own output is subject to the budget.
UpdateTarget(s, target, output) ==
  LET own   == target.area = s.red.area
      known == target.index \in DOMAIN s.red.outputs
      delta == output.size - s.red.outputs[target.index].size
      e     == Effect("update", target.area, target.index, <<output>>)
  IN  IF ~own THEN Emit(s, e)
      ELSE IF ~known THEN s
      ELSE IF Exceeds(s.red, delta) THEN [s EXCEPT !.red.incomplete = TRUE]
      ELSE Emit([s EXCEPT !.red.outputs[target.index] = output, !.red.bytes = @ + delta], e)

HandleUpdateDisplay(s, msg) ==
  LET targets == Resolve(s.table, msg.id)
      after[n \in 0..Len(targets)] ==
        IF n = 0 THEN s ELSE UpdateTarget(after[n - 1], targets[n], Output("display", msg.size))
  IN  after[Len(targets)]

\* The traceback is stored once, whichever of IOPub and the reply brings it first.
HandleError(s) ==
  IF s.red.error THEN [s EXCEPT !.red.status = "error"]
  ELSE AddOutput([s EXCEPT !.red.status = "error", !.red.error = TRUE], Output("error", 1), NoId)

HandleClear(s, msg) ==
  IF msg.wait THEN [s EXCEPT !.red.clearPending = TRUE]
  ELSE Emit([Emptied(s) EXCEPT !.red.incomplete = FALSE], Effect("clear", s.red.area, 0, << >>))

\* Complete when the reply and the idle status have both been seen, in either order.
MaybeComplete(s) ==
  IF s.red.completed \/ ~s.red.reply \/ ~s.red.idle THEN s
  ELSE LET done == [s EXCEPT !.red.completed = TRUE,
                             !.red.status = IF @ = "running" THEN "ok" ELSE @]
       IN  Emit(Emit(done, Effect("setCount", s.red.area, s.red.count, << >>)),
                Effect("setState", s.red.area, 0, << >>))

HandleReply(s, msg, count) ==
  LET seen == [s EXCEPT !.red.reply = TRUE, !.red.count = IF @ = 0 THEN count ELSE @]
  IN  MaybeComplete(CASE msg.status = "aborted" -> [seen EXCEPT !.red.status = "aborted"]
                      [] msg.status = "error"   -> HandleError(seen)
                      [] msg.status = "ok"      -> [seen EXCEPT !.red.status =
                                                      IF @ = "running" THEN "ok" ELSE @])

\* feed: the kernel's execution count is the caller's `count`; 0 stands for null.
FeedReducer(red, table, msg, count) ==
  LET s == [red |-> red, table |-> table, effects |-> << >>]
  IN  CASE msg.type = "execute_input"       -> [s EXCEPT !.red.count = count]
        [] msg.type = "stream"              -> HandleStream(s)
        [] msg.type = "display_data"        -> AddOutput(s, Output("display", msg.size), msg.id)
        [] msg.type = "update_display_data" -> HandleUpdateDisplay(s, msg)
        [] msg.type = "error"               -> HandleError(s)
        [] msg.type = "clear_output"        -> HandleClear(s, msg)
        [] msg.type = "idle"                -> MaybeComplete([s EXCEPT !.red.idle = TRUE])
        [] msg.type = "execute_reply"       -> HandleReply(s, msg, count)

\* replaceOutput: another execution's update keeps the owner's outputs aligned.
ReplaceOutput(red, index, output) ==
  IF index \notin DOMAIN red.outputs THEN red
  ELSE [red EXCEPT !.outputs[index] = output, !.bytes = @ + output.size - red.outputs[index].size]
==============================================================================
