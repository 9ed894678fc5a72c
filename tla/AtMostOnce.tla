----------------------------- MODULE AtMostOnce -----------------------------
(***************************************************************************)
(* What the request ledger of one working session promises its callers     *)
(* (SPEC.md section 9, "Under the session lock"): numbered requests are     *)
(* accepted in order, one at a time, each one takes effect at most once,    *)
(* and an answer never contradicts what happened to its number.  How long   *)
(* outcomes are remembered is left open here: an accepted number may be     *)
(* answered "expired" at any time, and it still never runs again.           *)
(***************************************************************************)
EXTENDS Naturals, Sequences

CONSTANTS
  Callers,       \* the tool calls that may be outstanding together
  Payloads,      \* what a request asks for: tool, target and arguments
  MaxRequestId   \* the largest request number the service accepts

VARIABLES
  log,     \* the accepted requests in order: [id, payload, outcome]
  asked,   \* asked[c] = the number and payload of c's latest request
  told     \* told[c] = the answer c got to it, or NotTold

avars == <<log, asked, told>>

NotTold == [kind |-> "none", outcome |-> "none"]
Say(kind, outcome) == [kind |-> kind, outcome |-> outcome]

Known(n) == n \in 1..Len(log)
Pending == \E i \in 1..Len(log) : log[i].outcome = "pending"

Init ==
  /\ log = <<>>
  /\ asked \in [Callers -> Nat \X Payloads]
  /\ told = [c \in Callers |-> NotTold]

\* c sends request number n with payload p.
Ask(c) ==
  /\ asked' \in [Callers -> Nat \X Payloads]
  /\ \A d \in Callers \ {c} : asked'[d] = asked[d]
  /\ told' = [told EXCEPT ![c] = NotTold]
  /\ UNCHANGED log

\* The next number, asked for by c, is accepted and its effect begins.
Accept(c) ==
  /\ ~Pending
  /\ told[c] = NotTold
  /\ asked[c][1] = Len(log) + 1
  /\ Len(log) < MaxRequestId
  /\ log' = Append(log, [id |-> asked[c][1], payload |-> asked[c][2],
                         outcome |-> "pending"])
  /\ UNCHANGED <<asked, told>>

\* The running effect ends, and the call that began it learns how.
Finish(c) ==
  /\ Pending
  /\ asked[c] = <<Len(log), log[Len(log)].payload>>
  /\ \E o \in {"ok", "failed"} :
       /\ log' = [log EXCEPT ![Len(log)].outcome = o]
       /\ told' = [told EXCEPT ![c] = Say("fresh", o)]
  /\ UNCHANGED asked

\* The answers that do not contradict the log.  "unavailable" tells nothing of
\* the number: the context was closed, or its server not found.
Truthful(n, p) ==
       {Say("unavailable", "none")}
  \cup {Say("replayed", log[i].outcome) : i \in
          {i \in 1..Len(log) : /\ i = n
                               /\ log[i].payload = p
                               /\ log[i].outcome # "pending"}}
  \cup {Say("conflict", "none") : i \in {i \in 1..Len(log) : i = n /\ log[i].payload # p}}
  \cup {Say("expired", "none") : i \in {i \in 1..Len(log) : i = n}}
  \cup (IF n > Len(log) + 1 THEN {Say("out_of_order", "none")} ELSE {})
  \cup (IF n = Len(log) + 1 THEN {Say("refused", "none")} ELSE {})
  \cup (IF n \notin 1..MaxRequestId THEN {Say("invalid", "none")} ELSE {})

Answer(c) ==
  /\ told[c] = NotTold
  /\ \E a \in Truthful(asked[c][1], asked[c][2]) : told' = [told EXCEPT ![c] = a]
  /\ UNCHANGED <<log, asked>>

Next == \E c \in Callers : Ask(c) \/ Accept(c) \/ Finish(c) \/ Answer(c)

Spec == Init /\ [][Next]_avars
=============================================================================
