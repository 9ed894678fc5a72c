---------------------------- MODULE RequestLedger ----------------------------
(***************************************************************************)
(* The deduplicated mutations of one working session: the request ledger   *)
(* (service/ledger.ts), the FIFO lock its tool calls queue on               *)
(* (service/mutex.ts), and the way the five mutating tools use them         *)
(* (service/service.ts).                                                    *)
(*                                                                         *)
(* A payload stands for what payloadDigest hashes (tool, target, arguments) *)
(* and two payloads have equal digests iff they are equal.  Numbers are     *)
(* accepted as H+1 only, so the insertion order of the Map of receipts is   *)
(* the order of the numbers, and a function on the retained numbers is all  *)
(* of its state.                                                            *)
(***************************************************************************)
EXTENDS Naturals, Sequences, FiniteSets

CONSTANTS
  Callers,       \* tool calls that may be outstanding together
  RequestIds,    \* the numbers clients send, legal or not
  Payloads,      \* [tool, body] records
  Oversized,     \* the payloads over the input or the receipt budget
  MaxReceipts,   \* limits.maxReceipts
  MaxRequestId   \* 2^63-1 in the code

Tools == {"create", "apply", "execute", "kernel_control", "server_start"}

\* The tools that await something between preflight and begin.
Suspending == {"execute", "kernel_control", "server_start"}

\* The tools that look again, once they hold the lock, whether the session (the
\* service) is still open.
Rechecking == {"create", "server_start"}

\* The tool that then awaits the selection of its server, before preflight.
Selecting == {"server_start"}

ASSUME LedgerAssumption ==
  /\ RequestIds \subseteq Nat
  /\ Payloads # {}
  /\ \A p \in Payloads : p.tool \in Tools
  /\ Oversized \subseteq Payloads
  /\ MaxReceipts \in Nat \ {0}
  /\ MaxRequestId \in Nat

VARIABLES
  high,       \* H, the highest accepted number
  receipts,   \* retained number -> [payload, state, outcome]
  jobs,       \* the numbers whose execution record the session still holds
  open,       \* the notebook handle the calls name is open
  closed,     \* the working session was torn down
  queue,      \* the Mutex chain: its head is the call that runs
  pc,         \* where each call is
  asked,      \* <<number, payload>> of each call's latest request
  told,       \* the answer to it
  log         \* history: every effect begun, [id, payload, outcome]

vars == <<high, receipts, jobs, open, closed, queue, pc, asked, told, log>>

Spec_AMO == INSTANCE AtMostOnce
              WITH Callers <- Callers, Payloads <- Payloads, MaxRequestId <- MaxRequestId,
                   log <- log, asked <- asked, told <- told
NotTold == Spec_AMO!NotTold
Say(kind, outcome) == Spec_AMO!Say(kind, outcome)

Num(c) == asked[c][1]
Payload(c) == asked[c][2]
Retained == DOMAIN receipts
-----------------------------------------------------------------------------
Init ==
  /\ high = 0
  /\ receipts = [n \in {} |-> {}]
  /\ jobs = {}
  /\ open = TRUE
  /\ closed = FALSE
  /\ queue = <<>>
  /\ pc = [c \in Callers |-> "idle"]
  /\ asked = [c \in Callers |-> <<0, CHOOSE p \in Payloads : TRUE>>]
  /\ told = [c \in Callers |-> NotTold]
  /\ log = <<>>

\* Mutant of Decision: a known number replays whatever its payload.
Decision_AnyPayload(n, p) ==
  IF n \notin 1..MaxRequestId THEN "invalid"
  ELSE IF n \in Retained THEN "replay"
  ELSE IF n <= high THEN "expired"
  ELSE IF n > high + 1 THEN "out_of_order"
  ELSE "new"

\* preflight(): every outcome of a number that precedes mutable preconditions.
Decision(n, p) ==
  IF n \notin 1..MaxRequestId THEN "invalid"
  ELSE IF n \in Retained
       THEN IF receipts[n].payload = p THEN "replay" ELSE "conflict"
  ELSE IF n <= high THEN "expired"
  ELSE IF n > high + 1 THEN "out_of_order"
  ELSE "new"

\* The registry can take one more receipt, evicting if it must.
Completed == {n \in Retained : receipts[n].state = "completed"}
Full == Cardinality(Retained) >= MaxReceipts
HasSlot == ~Full \/ Completed # {}

\* #reserveSlot(): when full, the oldest completed receipt goes.
Oldest(S) == CHOOSE n \in S : \A m \in S : n <= m
AfterEviction == IF Full THEN Retained \ {Oldest(Completed)} ELSE Retained

\* Mutant of Holder: calls run without waiting for each other.
Holder_Unserialised(c) == \E i \in 1..Len(queue) : queue[i] = c

\* Mutex.run: the call runs once every earlier one has settled; a rejection
\* releases the lock as a result does.
Holder(c) == queue # <<>> /\ Head(queue) = c
Release == queue' = Tail(queue)

\* Mutant of Reply: a call that fails poisons the chain behind it.
Reply_Poisoned(c, answer) ==
  /\ IF answer.kind = "refused" THEN UNCHANGED queue ELSE Release
  /\ pc' = [pc EXCEPT ![c] = "idle"]
  /\ told' = [told EXCEPT ![c] = answer]

Reply(c, answer) ==
  /\ Release
  /\ pc' = [pc EXCEPT ![c] = "idle"]
  /\ told' = [told EXCEPT ![c] = answer]

\* A tool call arrives, finds its session (or notebook) and queues.
Issue(c, n, p) ==
  /\ pc[c] = "idle"
  /\ ~closed
  /\ p.tool \in {"apply", "execute", "kernel_control"} => open
  /\ queue' = Append(queue, c)
  /\ pc' = [pc EXCEPT ![c] = "queued"]
  /\ asked' = [asked EXCEPT ![c] = <<n, p>>]
  /\ told' = [told EXCEPT ![c] = NotTold]
  /\ UNCHANGED <<high, receipts, jobs, open, closed, log>>

\* begin(), past its own preflight: reserve a slot, write the receipt, move H
\* and start the effect.  notebook_execute's effect records its job at once.
Begin(c) ==
  /\ Payload(c) \notin Oversized
  /\ HasSlot
  /\ receipts' = [n \in AfterEviction \cup {Num(c)} |->
                    IF n = Num(c)
                    THEN [payload |-> Payload(c), state |-> "active", outcome |-> "pending"]
                    ELSE receipts[n]]
  /\ high' = Num(c)
  /\ jobs' = IF Payload(c).tool = "execute" THEN jobs \cup {Num(c)} ELSE jobs
  /\ log' = Append(log, [id |-> Num(c), payload |-> Payload(c), outcome |-> "pending"])
  /\ pc' = [pc EXCEPT ![c] = "running"]
  /\ UNCHANGED <<open, closed, queue, asked, told>>

\* A precondition fails, or begin() throws RESOURCE_LIMIT: nothing is spent.
Refuse(c) ==
  /\ Reply(c, Say("refused", "none"))
  /\ UNCHANGED <<high, receipts, jobs, open, closed, asked, log>>

\* replayValue and replayExecution: what a known receipt answers.  A receipt
\* that holds neither a result nor a failure, or whose job is gone, is EXPIRED.
Replayed(c) ==
  LET r == receipts[Num(c)]
  IN  IF \/ r.state = "active"
         \/ r.payload.tool = "execute" /\ r.outcome = "ok" /\ Num(c) \notin jobs
      THEN Say("expired", "none")
      ELSE Say("replayed", r.outcome)

AnswerKnown(c) ==
  /\ LET d == Decision(Num(c), Payload(c))
     IN  Reply(c, IF d = "replay" THEN Replayed(c) ELSE Say(d, "none"))
  /\ UNCHANGED <<high, receipts, jobs, open, closed, asked, log>>

IsNew(c) == Decision(Num(c), Payload(c)) = "new"

\* handle.assertWritable() refuses a handle closed while the call queued.
Writable(c) == Payload(c).tool \in {"apply", "execute"} => open

Await(c, what) ==
  /\ pc' = [pc EXCEPT ![c] = what]
  /\ UNCHANGED <<high, receipts, jobs, open, closed, queue, asked, told, log>>

\* The call fails before the ledger is asked.
Unavailable(c) ==
  /\ Reply(c, Say("unavailable", "none"))
  /\ UNCHANGED <<high, receipts, jobs, open, closed, asked, log>>

\* Preflight and what follows in the same turn: a tool that awaits before
\* begin() yields, the others go on.
Look(c) ==
  \/ ~IsNew(c) /\ AnswerKnown(c)
  \/ IsNew(c) /\ Refuse(c)
  \/ IsNew(c) /\ Writable(c) /\ Payload(c).tool \notin Suspending /\ Begin(c)
  \/ IsNew(c) /\ Writable(c) /\ Payload(c).tool \in Suspending /\ Await(c, "fresh")

\* The call gets the lock.
Enter(c) ==
  /\ Holder(c)
  /\ pc[c] = "queued"
  /\ IF closed /\ Payload(c).tool \in Rechecking THEN Unavailable(c)
     ELSE \/ Payload(c).tool \in Selecting /\ Await(c, "selecting")
          \/ Payload(c).tool \notin Selecting /\ Look(c)

\* The server was found, or not.
Selected(c) ==
  /\ Holder(c)
  /\ pc[c] = "selecting"
  /\ Look(c) \/ Unavailable(c)

\* The awaited check is back: it refused, or begin() decides again.
Resume(c) ==
  /\ Holder(c)
  /\ pc[c] = "fresh"
  /\ \/ Refuse(c)
     \/ ~IsNew(c) /\ AnswerKnown(c)
     \/ IsNew(c) /\ Begin(c)

\* runAccepted: the effect settles; complete() or fail() marks the receipt,
\* which clear() may have dropped from the registry meanwhile.
Finish(c, o) ==
  /\ Holder(c)
  /\ pc[c] = "running"
  /\ receipts' = [n \in Retained |->
                    IF n = Num(c)
                    THEN [receipts[n] EXCEPT !.state = "completed", !.outcome = o]
                    ELSE receipts[n]]
  /\ log' = [i \in 1..Len(log) |->
               IF log[i].id = Num(c) THEN [log[i] EXCEPT !.outcome = o] ELSE log[i]]
  /\ Reply(c, Say("fresh", o))
  /\ UNCHANGED <<high, jobs, open, closed, asked>>

\* #closeNotebook drops the execution records of the notebook.
CloseNotebook ==
  /\ open
  /\ open' = FALSE
  /\ jobs' = {}
  /\ UNCHANGED <<high, receipts, closed, queue, pc, asked, told, log>>

\* #teardownSession: closes the notebooks and clears the ledger; H stays.
Teardown ==
  /\ ~closed
  /\ closed' = TRUE
  /\ open' = FALSE
  /\ jobs' = {}
  /\ receipts' = [n \in {} |-> {}]
  /\ UNCHANGED <<high, queue, pc, asked, told, log>>

Step(c) == Enter(c) \/ Selected(c) \/ Resume(c) \/ \E o \in {"ok", "failed"} : Finish(c, o)

Next ==
  \/ \E c \in Callers, n \in RequestIds, p \in Payloads : Issue(c, n, p)
  \/ \E c \in Callers : Step(c)
  \/ CloseNotebook
  \/ Teardown

Spec == Init /\ [][Next]_vars

\* A queued promise continuation always runs, and every effect the tools await
\* is a request with a time limit; clients owe nothing.
FairSpec == Spec /\ \A c \in Callers : WF_vars(Step(c))
-----------------------------------------------------------------------------
Answers ==
       {NotTold}
  \cup {Say(k, "none") : k \in {"unavailable", "conflict", "expired", "out_of_order",
                                "refused", "invalid"}}
  \cup {Say(k, o) : k \in {"fresh", "replayed"}, o \in {"ok", "failed"}}

Receipts == [payload : Payloads, state : {"active", "completed"},
             outcome : {"pending", "ok", "failed"}]

LogEntries == [id : Nat, payload : Payloads, outcome : {"pending", "ok", "failed"}]

TypeOK ==
  /\ high \in 0..MaxRequestId
  /\ Retained \subseteq 1..MaxRequestId
  /\ receipts \in [Retained -> Receipts]
  /\ jobs \subseteq 1..MaxRequestId
  /\ open \in BOOLEAN
  /\ closed \in BOOLEAN
  /\ queue \in Seq(Callers)
  /\ pc \in [Callers -> {"idle", "queued", "selecting", "fresh", "running"}]
  /\ asked \in [Callers -> (RequestIds \cup {0}) \X Payloads]
  /\ told \in [Callers -> Answers]
  /\ log \in Seq(LogEntries)

\* SPEC.md section 9: a number takes effect at most once, whatever is evicted,
\* cleared, closed or resent in between.
EffectAtMostOnce ==
  \A i, j \in 1..Len(log) : log[i].id = log[j].id => i = j

\* A receipt is active only while the call that wrote it holds the lock, so
\* preflight never meets one: the registry cannot be full of active receipts,
\* eviction never touches a running operation and no replay comes too early.
ActiveIsTheHolders ==
  \A n \in Retained :
    receipts[n].state = "active" =>
      \E c \in Callers : Holder(c) /\ pc[c] = "running" /\ Num(c) = n

\* What is retained is a run of the newest numbers, as many as the limit
\* allows, unless the session was torn down: eviction takes the oldest first,
\* only at the limit, and never for a request that is then refused.
RetainsTheNewest ==
  \E lo \in 0..high :
    /\ Retained = (lo + 1)..high
    /\ ~closed => lo = IF high > MaxReceipts THEN high - MaxReceipts ELSE 0

\* What the ledger is between any two steps: effects, and receipts.
LedgerInvariant ==
  /\ TypeOK
  /\ EffectAtMostOnce
  /\ ActiveIsTheHolders
  /\ RetainsTheNewest

\* SPEC.md section 9 rules 1 and 2: an exact resend is answered EXPIRED only
\* when its receipt was evicted or cleared, or its execution was dropped.
ExpiredOnlyIfGone ==
  [][\A c \in Callers :
       told[c] = NotTold /\ told'[c].kind = "expired" =>
         \/ Num(c) \notin Retained
         \/ Payload(c).tool = "execute" /\ Num(c) \notin jobs]_vars

\* A refused request leaves the next number as it was and evicts nothing.
RefusalSpendsNothing ==
  [][\A c \in Callers :
       told[c] = NotTold /\ told'[c].kind \in {"refused", "conflict", "out_of_order", "expired"} =>
         /\ high' = high
         /\ receipts' = receipts]_vars

\* The promise of AtMostOnce: in order, serialised, and truthfully answered.
Promise == Spec_AMO!Spec

\* Every queued call is answered: the FIFO lock is passed on by failures too.
EveryCallAnswered == \A c \in Callers : (pc[c] = "queued") ~> (told[c] # NotTold)
=============================================================================
