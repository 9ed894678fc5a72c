--------------------------- MODULE Connection_proofs ---------------------------
(***************************************************************************)
(* Proofs about one MCP connection: the bindings of servers and the starts *)
(* of a Hub server, for every set of callers and of options; and the       *)
(* references its calls hand out and the errors they answer, for every     *)
(* number of calls and cells and every size of the table.                  *)
(***************************************************************************)
EXTENDS McpAdapter, ServerBindings, FiniteSetTheorems, SequenceTheorems, TLAPS

----------------------------------------------------------------------------
(* Servers: bindings and starts *)

HubStates == {"stopped", "starting", "ready", "stopping", "failed"}
AnyOptions == Options \cup {NoOptions}

\* Where a start may stand, and where it may stand only before an effect.
StartPcs == {"queued", "polling"} \cup Critical
Effectless == {"queued", "current", "status", "post", "refused", "lost", "reread"}

PlainCalls == [pc : {"free", "waiting", "document"}]
RoomCalls  == [pc : {"room"}, with : Nat, known : {"fresh", "rejected"}]
StartCalls == [pc : StartPcs, options : AnyOptions, begun : BOOLEAN]

HubInv ==
  /\ hub \in [state : HubStates, options : AnyOptions, process : Nat]
  /\ cached \in Nat
  /\ requests \in 0..MaxRequests /\ peers \in 0..MaxPeers

\* A start that has begun nothing says so.
CallsInv ==
  /\ wire \in [Callers -> PlainCalls \cup RoomCalls \cup StartCalls]
  /\ \A i \in Callers : Pc(i) \in Effectless => ~wire[i].begun

\* Who waits, waits for the attempt under way, which has not failed.
BindingInv ==
  /\ binding \in [state : {"none", "hub", "server", "bound"}, attempt : Nat]
  /\ attempts \in [made : Nat, failed : SUBSET Nat]
  /\ binding.attempt <= attempts.made
  /\ \A n \in attempts.failed : n <= attempts.made
  /\ binding.state \in {"hub", "server"} => binding.attempt \notin attempts.failed
  /\ \A i \in Callers : Pc(i) = "waiting" => binding.state \in {"hub", "server"}

\* The only implicit session is that of the binding.
SessionsInv ==
  /\ sessions \subseteq {"implicit", "library"} \X Nat
  /\ IsFiniteSet(sessions) /\ Cardinality(sessions) <= MaxSessions
  /\ \A s \in sessions : s[1] = "implicit" =>
       binding.state = "bound" /\ s = <<"implicit", binding.attempt>>
  /\ binding.state = "bound" => <<"implicit", binding.attempt>> \in sessions

FaultsInv ==
  /\ "answered with an old failure" \notin faults
  /\ "an effect was denied" \notin faults
  /\ "joined with other options" \notin faults

IInv == HubInv /\ CallsInv /\ BindingInv /\ SessionsInv /\ FaultsInv

Bounds == MaxSessions \in Nat /\ MaxRequests \in Nat /\ MaxPeers \in Nat

-----------------------------------------------------------------------------
(* Calls.                                                                  *)

\* Free is a call without an effect to deny.
LEMMA FreeIsPlain == Free \in PlainCalls /\ Free.pc = "free"
BY DEF Free, PlainCalls

\* A call that goes on keeps the invariant of the calls when where it goes is
\* well-formed and nothing is said to have happened too early.
LEMMA GoKeepsCalls ==
  ASSUME CallsInv, NEW i \in Callers, NEW next,
         next \in PlainCalls \cup RoomCalls \cup StartCalls,
         next.pc \in Effectless => ~next.begun,
         Go(i, next)
  PROVE  /\ CallsInv'
         /\ wire'[i] = next
         /\ \A k \in Callers : k # i => wire'[k] = wire[k]
<1>1. /\ wire'[i] = next
      /\ \A k \in Callers : k # i => wire'[k] = wire[k]
      /\ wire' \in [Callers -> PlainCalls \cup RoomCalls \cup StartCalls]
  BY DEF CallsInv, Go
<1>2. \A k \in Callers : (Pc(k) \in Effectless => ~wire[k].begun)'
  BY <1>1 DEF CallsInv, Pc
<1> QED BY <1>1, <1>2 DEF CallsInv

\* ... and that of the binding, unless it begins to wait for no attempt.
LEMMA GoKeepsBinding ==
  ASSUME BindingInv, NEW i \in Callers, NEW next,
         next.pc = "waiting" => binding.state \in {"hub", "server"},
         wire'[i] = next, \A k \in Callers : k # i => wire'[k] = wire[k],
         UNCHANGED <<binding, attempts>>
  PROVE  BindingInv'
<1>1. \A k \in Callers : Pc(k)' = "waiting" => binding.state \in {"hub", "server"}
  BY DEF BindingInv, Pc
<1> QED BY <1>1 DEF BindingInv

\* A step of one call that touches neither binding nor session.
LEMMA StartStep ==
  ASSUME IInv, NEW i \in Callers, NEW next,
         next \in PlainCalls \cup RoomCalls \cup StartCalls,
         next.pc \in Effectless => ~next.begun,
         next.pc = "waiting" => binding.state \in {"hub", "server"},
         Go(i, next), FaultsInv', HubInv',
         UNCHANGED <<binding, attempts, sessions>>
  PROVE  IInv'
<1>1. /\ CallsInv'
      /\ wire'[i] = next
      /\ \A k \in Callers : k # i => wire'[k] = wire[k]
  BY GoKeepsCalls DEF IInv
<1>2. BindingInv'
  BY <1>1, GoKeepsBinding DEF IInv
<1>3. SessionsInv'
  BY DEF IInv, SessionsInv
<1> QED BY <1>1, <1>2, <1>3 DEF IInv

\* A call that ends.
LEMMA CallEnds ==
  ASSUME IInv, NEW i \in Callers, Go(i, Free), FaultsInv', HubInv',
         UNCHANGED <<binding, attempts, sessions>>
  PROVE  IInv'
<1>1. Free.pc \notin Effectless
  BY FreeIsPlain DEF Effectless
<1> QED BY <1>1, StartStep, FreeIsPlain

\* Where a start may go.
LEMMA StartMoves ==
  ASSUME NEW call \in StartCalls, NEW pc \in StartPcs, NEW begun \in BOOLEAN
  PROVE  /\ [call EXCEPT !.pc = pc] \in StartCalls
         /\ [call EXCEPT !.pc = pc].pc = pc
         /\ [call EXCEPT !.pc = pc].begun = call.begun
         /\ [call EXCEPT !.pc = pc, !.begun = begun] \in StartCalls
         /\ [call EXCEPT !.pc = pc, !.begun = begun].pc = pc
         /\ [call EXCEPT !.pc = pc, !.begun = begun].begun = begun
BY DEF StartCalls

\* Only a call that starts a server stands where a start does.
LEMMA StartFields ==
  ASSUME CallsInv, NEW i \in Callers, Pc(i) \in StartPcs
  PROVE  wire[i] \in StartCalls
<1>1. StartPcs \cap {"free", "waiting", "document", "room"} = {}
  BY DEF StartPcs, Critical, InFlight
<1> QED BY <1>1 DEF CallsInv, Pc, PlainCalls, RoomCalls

\* A start that goes on.
LEMMA StartGoesOn ==
  ASSUME IInv, NEW i \in Callers, Pc(i) \in StartPcs,
         NEW pc \in StartPcs, pc \in Effectless => ~wire[i].begun,
         Go(i, [wire[i] EXCEPT !.pc = pc]), FaultsInv', HubInv',
         UNCHANGED <<binding, attempts, sessions>>
  PROVE  IInv'
<1> DEFINE next == [wire[i] EXCEPT !.pc = pc]
<1>1. wire[i] \in StartCalls
  BY StartFields DEF IInv
<1>2. next \in StartCalls /\ next.pc = pc /\ next.begun = wire[i].begun
  BY <1>1, StartMoves DEF StartCalls
<1>3. pc # "waiting"
  BY DEF StartPcs, Critical, InFlight
<1>4. Go(i, next)
  OBVIOUS
<1> HIDE DEF next
<1> QED BY <1>2, <1>3, <1>4, StartStep

\* The ways in which the receipt of a start ends it.
LEMMA EndsWithoutEffectKeeps ==
  ASSUME IInv, NEW i \in Callers, Pc(i) \in Effectless, EndsWithoutEffect(i),
         UnchangedByStatus
  PROVE  IInv'
<1>1. FaultsInv'
  BY DEF IInv, CallsInv, FaultsInv, EndsWithoutEffect, Fault
<1>2. HubInv'
  BY DEF IInv, HubInv, UnchangedByStatus
<1> QED BY <1>1, <1>2, CallEnds DEF EndsWithoutEffect, UnchangedByStatus

LEMMA EndsUncertainKeeps ==
  ASSUME IInv, NEW i \in Callers, EndsUncertain(i), UnchangedByStatus
  PROVE  IInv'
<1>1. FaultsInv' /\ HubInv'
  BY DEF IInv, FaultsInv, HubInv, EndsUncertain, UnchangedByStatus
<1> QED BY <1>1, CallEnds DEF EndsUncertain, UnchangedByStatus

LEMMA EndsWithKeeps ==
  ASSUME IInv, NEW i \in Callers, Pc(i) \in StartPcs, NEW reading,
         EndsWith(i, reading), UnchangedByStatus,
         Up(reading.state) => OptionsMatch(reading.options, wire[i].options)
  PROVE  IInv'
<1>1. FaultsInv'
  BY DEF IInv, FaultsInv, EndsWith, Fault
<1>2. HubInv' /\ UNCHANGED <<binding, attempts, sessions>>
  BY DEF IInv, HubInv, UnchangedByStatus
<1>3. CASE reading.state = "starting"
  <2>1. "polling" \in StartPcs /\ "polling" \notin Effectless
    BY DEF StartPcs, Effectless
  <2>2. Go(i, [wire[i] EXCEPT !.pc = "polling"])
    BY <1>3 DEF EndsWith
  <2> QED BY <1>1, <1>2, <2>1, <2>2, StartGoesOn
<1>4. CASE reading.state # "starting"
  BY <1>1, <1>2, <1>4, CallEnds DEF EndsWith
<1> QED BY <1>3, <1>4

-----------------------------------------------------------------------------
(* The steps of a start.                                                   *)

\* Where each step begins.
LEMMA Places ==
  /\ {"current", "status", "post", "reread", "refused", "lost"} \subseteq Effectless
  /\ Effectless \subseteq StartPcs /\ Critical \subseteq StartPcs
  /\ {"current", "status", "post", "verify", "reread", "taken", "refused", "lost",
      "queued", "polling"} \subseteq StartPcs
  /\ "verify" \notin Effectless /\ "taken" \notin Effectless
BY DEF Effectless, StartPcs, Critical, InFlight

\* A request is counted.
LEMMA Requested ==
  ASSUME Bounds, IInv, NEW i \in Callers, NEW next, Request(i, next),
         UNCHANGED <<hub, cached, peers>>
  PROVE  HubInv' /\ Go(i, next)
BY DEF Bounds, IInv, HubInv, Request

LEMMA StartKeeps ==
  ASSUME Bounds, IInv, NEW i \in Callers, Start(i)
  PROVE  IInv'
<1>1. PICK options \in Options \cup {NoOptions} :
        Request(i, [pc |-> "queued", options |-> options, begun |-> FALSE])
  BY DEF Start
<1> DEFINE next == [pc |-> "queued", options |-> options, begun |-> FALSE]
<1>2. next \in StartCalls /\ ~next.begun /\ next.pc # "waiting"
  BY Places DEF StartCalls, AnyOptions
<1>3. UNCHANGED <<hub, binding, attempts, sessions, cached, faults, peers>>
  BY DEF Start
<1>4. Request(i, next)
  BY <1>1
<1> HIDE DEF next
<1>5. HubInv' /\ Go(i, next)
  BY <1>3, <1>4, Requested
<1>6. FaultsInv'
  BY <1>3 DEF IInv, FaultsInv
<1> QED BY <1>2, <1>3, <1>5, <1>6, StartStep

LEMMA EnterStartKeeps ==
  ASSUME IInv, NEW i \in Callers, EnterStart(i)
  PROVE  IInv'
<1>1. /\ FaultsInv' /\ HubInv' /\ UNCHANGED <<binding, attempts, sessions>>
      /\ Pc(i) = "queued"
  BY DEF IInv, FaultsInv, HubInv, EnterStart
<1>2. "queued" \in Effectless /\ "queued" \in StartPcs /\ "current" \in StartPcs
  BY Places DEF Effectless
<1>3. CASE running
  <2>1. Go(i, [wire[i] EXCEPT !.pc = "current"])
    BY <1>3 DEF EnterStart, Go
  <2>2. ~wire[i].begun
    BY <1>1, <1>2 DEF IInv, CallsInv
  <2> QED BY <1>1, <1>2, <2>1, <2>2, StartGoesOn
<1>4. CASE ~running
  <2>1. Go(i, Free)
    BY <1>4 DEF EnterStart, Go
  <2> QED BY <1>1, <2>1, CallEnds
<1> QED BY <1>3, <1>4

LEMMA StartCurrentKeeps ==
  ASSUME IInv, NEW i \in Callers, StartCurrent(i)
  PROVE  IInv'
<1>1. /\ UnchangedByStatus /\ Pc(i) \in Effectless /\ Pc(i) \in StartPcs
      /\ \/ EndsWithoutEffect(i)
         \/ Go(i, [wire[i] EXCEPT !.pc = "status"]) /\ UNCHANGED faults
  BY Places DEF StartCurrent
<1>2. CASE EndsWithoutEffect(i)
  BY <1>1, <1>2, EndsWithoutEffectKeeps
<1>3. CASE Go(i, [wire[i] EXCEPT !.pc = "status"]) /\ UNCHANGED faults
  <2>1. ~wire[i].begun /\ FaultsInv' /\ HubInv' /\ UNCHANGED <<binding, attempts, sessions>>
    BY <1>1, <1>3 DEF IInv, CallsInv, FaultsInv, HubInv, UnchangedByStatus
  <2> QED BY <1>1, <1>3, <2>1, Places, StartGoesOn
<1> QED BY <1>1, <1>2, <1>3

LEMMA StartStatusKeeps ==
  ASSUME IInv, NEW i \in Callers, StartStatus(i)
  PROVE  IInv'
<1>1. UnchangedByStatus /\ Pc(i) \in Effectless /\ Pc(i) \in StartPcs
  BY Places DEF StartStatus
<1>2. PICK reading \in Readings :
        \/ /\ Up(reading.state) => OptionsMatch(reading.options, wire[i].options)
           /\ EndsWith(i, reading)
        \/ EndsWithoutEffect(i)
        \/ Go(i, [wire[i] EXCEPT !.pc = "post"]) /\ UNCHANGED faults
  <2>1. PICK reading \in Readings :
          CASE Up(reading.state) /\ OptionsMatch(reading.options, wire[i].options) ->
                 EndsWith(i, reading)
            [] Up(reading.state) /\ ~OptionsMatch(reading.options, wire[i].options) ->
                 EndsWithoutEffect(i)
            [] reading.state \in {"lost", "stopping"} -> EndsWithoutEffect(i)
            [] OTHER -> Go(i, [wire[i] EXCEPT !.pc = "post"]) /\ UNCHANGED faults
    BY DEF StartStatus
  <2>2. Up(reading.state) => reading.state \notin {"lost", "stopping"}
    BY DEF Up
  <2> QED BY <2>1, <2>2
<1>3. CASE /\ Up(reading.state) => OptionsMatch(reading.options, wire[i].options)
           /\ EndsWith(i, reading)
  BY <1>1, <1>3, EndsWithKeeps
<1>4. CASE EndsWithoutEffect(i)
  BY <1>1, <1>4, EndsWithoutEffectKeeps
<1>5. CASE Go(i, [wire[i] EXCEPT !.pc = "post"]) /\ UNCHANGED faults
  <2>1. ~wire[i].begun /\ FaultsInv' /\ HubInv' /\ UNCHANGED <<binding, attempts, sessions>>
    BY <1>1, <1>5 DEF IInv, CallsInv, FaultsInv, HubInv, UnchangedByStatus
  <2> QED BY <1>1, <1>5, <2>1, Places, StartGoesOn
<1> QED BY <1>2, <1>3, <1>4, <1>5

\* The Hub keeps its type whatever happens to the request.
LEMMA PostKeeps ==
  ASSUME IInv, NEW i \in Callers, Post(i)
  PROVE  IInv'
<1>1. wire[i] \in StartCalls
  BY StartFields, Places DEF Post, IInv
<1>2. PICK fate \in {"lost", "taken", "refused"} :
        \E begun \in {fate = "taken"} :
          Go(i, [wire[i] EXCEPT !.pc = fate, !.begun = begun])
  BY DEF Post
<1> DEFINE next == [wire[i] EXCEPT !.pc = fate, !.begun = (fate = "taken")]
<1>3. next \in StartCalls /\ next.pc = fate /\ next.begun = (fate = "taken")
  BY <1>1, Places DEF StartCalls
<1>4. Go(i, next)
  BY <1>2
<1>5. wire[i].options \in AnyOptions
  BY <1>1 DEF StartCalls
<1>6. HubInv'
  <2>1. CASE UNCHANGED hub
    BY <2>1 DEF Post, IInv, HubInv
  <2>2. CASE hub' = [hub EXCEPT !.state = "starting",
                               !.options = IF wire[i].options = NoOptions THEN @
                                           ELSE wire[i].options]
    BY <1>5, <2>2 DEF Post, IInv, HubInv, HubStates
  <2> QED BY <2>1, <2>2 DEF Post
<1>7. FaultsInv' /\ UNCHANGED <<binding, attempts, sessions>>
  BY DEF Post, IInv, FaultsInv
<1>8. fate # "waiting" /\ (fate \in Effectless => ~next.begun)
  BY <1>3, Places
<1> HIDE DEF next
<1> QED BY <1>3, <1>4, <1>6, <1>7, <1>8, StartStep

LEMMA PostAnsweredKeeps ==
  ASSUME IInv, NEW i \in Callers, PostAnswered(i)
  PROVE  IInv'
<1>1. UnchangedByStatus /\ Pc(i) \in InFlight
  BY DEF PostAnswered
<1>2. CASE PostUnanswered(i)
  BY <1>1, <1>2, EndsUncertainKeeps DEF PostUnanswered
<1>3. CASE ~PostUnanswered(i)
  <2> DEFINE pc == IF Pc(i) = "taken" THEN "verify" ELSE "reread"
  <2>1. Go(i, [wire[i] EXCEPT !.pc = pc]) /\ UNCHANGED faults /\ Pc(i) # "lost"
    BY <1>3 DEF PostAnswered
  <2>2. FaultsInv' /\ HubInv' /\ UNCHANGED <<binding, attempts, sessions>>
    BY <1>1, <2>1 DEF IInv, FaultsInv, HubInv, UnchangedByStatus
  <2>3. Pc(i) \in StartPcs /\ pc \in StartPcs
    BY <1>1, Places DEF InFlight
  <2>4. pc \in Effectless => ~wire[i].begun
    BY <1>1, <2>1, Places DEF IInv, CallsInv, InFlight
  <2> HIDE DEF pc
  <2> QED BY <2>1, <2>2, <2>3, <2>4, StartGoesOn
<1> QED BY <1>2, <1>3

LEMMA StartVerifyKeeps ==
  ASSUME IInv, NEW i \in Callers, StartVerify(i)
  PROVE  IInv'
<1>1. UnchangedByStatus /\ Pc(i) \in StartPcs
  BY Places DEF StartVerify
<1>2. PICK reading \in Readings :
        \/ EndsUncertain(i)
        \/ /\ Up(reading.state) => OptionsMatch(reading.options, wire[i].options)
           /\ EndsWith(i, reading)
  BY DEF StartVerify
<1> QED BY <1>1, <1>2, EndsUncertainKeeps, EndsWithKeeps

LEMMA StartRereadKeeps ==
  ASSUME IInv, NEW i \in Callers, StartReread(i)
  PROVE  IInv'
<1>1. UnchangedByStatus /\ Pc(i) \in StartPcs /\ Pc(i) \in Effectless
  BY Places DEF StartReread
<1>2. PICK reading \in Readings :
        \/ EndsWithoutEffect(i)
        \/ /\ Up(reading.state) => OptionsMatch(reading.options, wire[i].options)
           /\ EndsWith(i, reading)
  BY DEF StartReread
<1> QED BY <1>1, <1>2, EndsWithoutEffectKeeps, EndsWithKeeps

LEMMA StartPollsKeeps ==
  ASSUME IInv, NEW i \in Callers, StartPolls(i)
  PROVE  IInv'
BY EndsUncertainKeeps DEF StartPolls, EndsUncertain

-----------------------------------------------------------------------------
(* The steps of the binding, of the sessions and of the rooms.             *)

LEMMA BindKeeps ==
  ASSUME Bounds, IInv, NEW i \in Callers, Bind(i)
  PROVE  IInv'
<1>1. UNCHANGED <<hub, sessions, cached, peers>>
  BY DEF Bind
<1>2. [pc |-> "waiting"] \in PlainCalls /\ [pc |-> "document"] \in PlainCalls
  BY DEF PlainCalls
<1>3. "waiting" \notin Effectless /\ "document" \notin Effectless
  BY DEF Effectless
<1>4. CASE /\ binding = Unbound
           /\ binding' = [state |-> "hub", attempt |-> attempts.made + 1]
           /\ attempts' = [attempts EXCEPT !.made = @ + 1]
           /\ Request(i, [pc |-> "waiting"])
           /\ UNCHANGED faults
  <2>1. HubInv' /\ Go(i, [pc |-> "waiting"])
    BY <1>1, <1>4, Requested
  <2>2. CallsInv'
    BY <1>2, <1>3, <2>1, GoKeepsCalls DEF IInv
  <2>3. BindingInv'
    <3>1. binding'.state = "hub" /\ binding'.attempt = attempts.made + 1
      BY <1>4
    <3>2. /\ attempts.made \in Nat /\ attempts.failed \in SUBSET Nat
          /\ attempts' = [made |-> attempts.made + 1, failed |-> attempts.failed]
          /\ \A n \in attempts.failed : n <= attempts.made
      BY <1>4 DEF IInv, BindingInv
    <3>3. binding'.attempt \notin attempts'.failed
      BY <3>1, <3>2
    <3>4. binding' \in [state : {"none", "hub", "server", "bound"}, attempt : Nat]
      BY <1>4, <3>2
    <3>5. attempts' \in [made : Nat, failed : SUBSET Nat]
      BY <3>2
    <3>6. /\ binding'.attempt <= attempts'.made
          /\ \A n \in attempts'.failed : n <= attempts'.made
      BY <3>1, <3>2
    <3> QED BY <3>1, <3>3, <3>4, <3>5, <3>6 DEF BindingInv
  <2>4. SessionsInv'
    BY <1>1, <1>4 DEF IInv, SessionsInv, Unbound
  <2>5. FaultsInv'
    BY <1>4 DEF IInv, FaultsInv
  <2> QED BY <2>1, <2>2, <2>3, <2>4, <2>5 DEF IInv
<1>5. CASE /\ binding.state \in {"hub", "server"}
           /\ UNCHANGED <<binding, attempts>>
           /\ Request(i, [pc |-> "waiting"]) /\ UNCHANGED faults
  <2>1. HubInv' /\ Go(i, [pc |-> "waiting"])
    BY <1>1, <1>5, Requested
  <2>2. FaultsInv'
    BY <1>5 DEF IInv, FaultsInv
  <2> QED BY <1>1, <1>2, <1>3, <1>5, <2>1, <2>2, StartStep
<1>6. CASE /\ UNCHANGED <<binding, attempts>>
           /\ Request(i, [pc |-> "document"]) /\ UNCHANGED faults
  <2>1. HubInv' /\ Go(i, [pc |-> "document"])
    BY <1>1, <1>6, Requested
  <2>2. FaultsInv'
    BY <1>6 DEF IInv, FaultsInv
  <2> QED BY <1>1, <1>2, <1>3, <1>6, <2>1, <2>2, StartStep
<1> QED BY <1>4, <1>5, <1>6 DEF Bind, IInv, BindingInv

\* An attempt that fails takes everyone who waits with it.
LEMMA BindingFailsKeeps ==
  ASSUME IInv, binding.state \in {"hub", "server"}, BindingFails,
         UNCHANGED <<hub, sessions, cached, faults, requests, peers>>
  PROVE  IInv'
<1>1. wire' = [k \in Callers |-> IF Pc(k) = "waiting" THEN Free ELSE wire[k]]
  BY DEF BindingFails, FailWaiting
<1>2. CallsInv'
  <2>1. Free \in PlainCalls /\ Free.pc \notin Effectless
    BY FreeIsPlain DEF Effectless
  <2> QED BY <1>1, <2>1 DEF IInv, CallsInv, Pc
<1>3. \A k \in Callers : Pc(k)' # "waiting"
  BY <1>1, FreeIsPlain DEF Pc
<1>4. BindingInv'
  BY <1>3 DEF IInv, BindingInv, BindingFails, WithoutBinding, Unbound
<1>5. SessionsInv'
  BY DEF IInv, SessionsInv, BindingFails, WithoutBinding, Unbound
<1>6. HubInv' /\ FaultsInv'
  BY DEF IInv, HubInv, FaultsInv
<1> QED BY <1>2, <1>4, <1>5, <1>6 DEF IInv

LEMMA PrepareHubKeeps ==
  ASSUME IInv, PrepareHub
  PROVE  IInv'
<1>1. /\ binding.state = "hub" /\ binding.attempt \notin attempts.failed
      /\ UNCHANGED <<hub, sessions, cached, faults, requests, peers>>
  BY DEF PrepareHub, InProgress
<1>2. CASE BindingFails
  BY <1>1, <1>2, BindingFailsKeeps
<1>3. CASE /\ binding' = [binding EXCEPT !.state = "server"]
           /\ UNCHANGED <<attempts, wire>>
  <2>1. HubInv' /\ CallsInv' /\ FaultsInv'
    BY <1>1, <1>3 DEF IInv, HubInv, CallsInv, FaultsInv, Pc
  <2>2. BindingInv'
    BY <1>1, <1>3 DEF IInv, BindingInv, Pc
  <2>3. SessionsInv'
    BY <1>1, <1>3 DEF IInv, SessionsInv, BindingInv
  <2> QED BY <2>1, <2>2, <2>3 DEF IInv
<1> QED BY <1>2, <1>3 DEF PrepareHub

LEMMA PrepareServerKeeps ==
  ASSUME Bounds, IInv, PrepareServer
  PROVE  IInv'
<1>1. /\ binding.state = "server" /\ binding.attempt \notin attempts.failed
      /\ UNCHANGED <<hub, cached, faults, requests, peers>>
  BY DEF PrepareServer, InProgress
<1>2. CASE BindingFails /\ UNCHANGED sessions
  BY <1>1, <1>2, BindingFailsKeeps
<1>3. CASE /\ Cardinality(sessions) < MaxSessions
           /\ binding' = [binding EXCEPT !.state = "bound"]
           /\ sessions' = sessions \cup {<<"implicit", binding.attempt>>}
           /\ wire' = [k \in Callers |-> IF Pc(k) = "waiting" THEN [pc |-> "document"]
                                                              ELSE wire[k]]
           /\ UNCHANGED attempts
  <2>1. HubInv' /\ FaultsInv'
    BY <1>1, <1>3 DEF IInv, HubInv, FaultsInv
  <2>2. CallsInv'
    <3>1. [pc |-> "document"] \in PlainCalls /\ "document" \notin Effectless
      BY DEF PlainCalls, Effectless
    <3> QED BY <1>3, <3>1 DEF IInv, CallsInv, Pc
  <2>3. \A k \in Callers : Pc(k)' # "waiting"
    BY <1>3 DEF Pc
  <2>4. /\ binding \in [state : {"none", "hub", "server", "bound"}, attempt : Nat]
        /\ binding'.state = "bound" /\ binding'.attempt = binding.attempt
    BY <1>3 DEF IInv, BindingInv
  <2>5. BindingInv'
    BY <1>3, <2>3, <2>4 DEF IInv, BindingInv
  <2>6. SessionsInv'
    <3> DEFINE mine == <<"implicit", binding.attempt>>
    <3>1. mine \in {"implicit", "library"} \X Nat
      BY <2>4
    <3>2. IsFiniteSet(sessions') /\ Cardinality(sessions') <= MaxSessions
      <4>1. IsFiniteSet(sessions) /\ Cardinality(sessions) \in Nat
        BY FS_CardinalityType DEF IInv, SessionsInv
      <4>2. /\ IsFiniteSet(sessions')
            /\ Cardinality(sessions') = IF mine \in sessions THEN Cardinality(sessions)
                                        ELSE Cardinality(sessions) + 1
        BY <1>3, <4>1, FS_AddElement
      <4> QED BY <1>3, <4>1, <4>2 DEF Bounds
    <3>3. \A s \in sessions : s[1] # "implicit"
      BY <1>1 DEF IInv, SessionsInv
    <3> QED BY <1>3, <2>4, <3>1, <3>2, <3>3 DEF IInv, SessionsInv
  <2> QED BY <2>1, <2>2, <2>5, <2>6 DEF IInv
<1> QED BY <1>2, <1>3 DEF PrepareServer

LEMMA SessionOpenKeeps ==
  ASSUME Bounds, IInv, NEW i \in Callers, SessionOpen(i)
  PROVE  IInv'
<1>1. /\ UNCHANGED <<hub, binding, attempts, cached, faults, peers>>
      /\ Request(i, Free)
      /\ Cardinality(sessions) < MaxSessions
      /\ sessions' = sessions \cup {<<"library", requests>>}
  BY DEF SessionOpen
<1>2. HubInv' /\ Go(i, Free)
  BY <1>1, Requested
<1>3. /\ CallsInv'
      /\ wire'[i] = Free
      /\ \A k \in Callers : k # i => wire'[k] = wire[k]
  BY <1>2, FreeIsPlain, GoKeepsCalls DEF IInv, Effectless
<1>4. BindingInv'
  BY <1>1, <1>3, FreeIsPlain, GoKeepsBinding DEF IInv
<1>5. FaultsInv'
  BY <1>1 DEF IInv, FaultsInv
<1>6. SessionsInv'
  <2> DEFINE new == <<"library", requests>>
  <2>1. new \in {"implicit", "library"} \X Nat /\ new[1] # "implicit"
    BY DEF Bounds, IInv, HubInv
  <2>2. IsFiniteSet(sessions') /\ Cardinality(sessions') <= MaxSessions
    <3>1. IsFiniteSet(sessions) /\ Cardinality(sessions) \in Nat
      BY FS_CardinalityType DEF IInv, SessionsInv
    <3>2. /\ IsFiniteSet(sessions')
          /\ Cardinality(sessions') = IF new \in sessions THEN Cardinality(sessions)
                                      ELSE Cardinality(sessions) + 1
      BY <1>1, <3>1, FS_AddElement
    <3> QED BY <1>1, <3>1, <3>2 DEF Bounds
  <2> HIDE DEF new
  <2> QED BY <1>1, <2>1, <2>2 DEF IInv, SessionsInv, new
<1> QED BY <1>2, <1>3, <1>4, <1>5, <1>6 DEF IInv

\* Fewer sessions, of which the implicit one is none.
LEMMA SessionCloseKeeps ==
  ASSUME Bounds, IInv, SessionClose
  PROVE  IInv'
<1>1. PICK s \in sessions : s[1] = "library" /\ sessions' = sessions \ {s}
  BY DEF SessionClose
<1>2. UNCHANGED <<hub, binding, attempts, cached, wire, faults, requests, peers>>
  BY DEF SessionClose
<1>3. HubInv' /\ CallsInv' /\ BindingInv' /\ FaultsInv'
  BY <1>2 DEF IInv, HubInv, CallsInv, BindingInv, FaultsInv, Pc
<1>4. IsFiniteSet(sessions') /\ Cardinality(sessions') <= MaxSessions
  <2>1. IsFiniteSet(sessions) /\ sessions' \subseteq sessions
    BY <1>1 DEF IInv, SessionsInv
  <2>2. /\ IsFiniteSet(sessions') /\ Cardinality(sessions') <= Cardinality(sessions)
        /\ Cardinality(sessions) \in Nat /\ Cardinality(sessions') \in Nat
    BY <2>1, FS_Subset, FS_CardinalityType
  <2> QED BY <2>2 DEF IInv, SessionsInv, Bounds
<1>5. <<"implicit", binding.attempt>> # s
  BY <1>1
<1>6. SessionsInv'
  BY <1>1, <1>2, <1>4, <1>5 DEF IInv, SessionsInv
<1> QED BY <1>3, <1>6 DEF IInv

LEMMA CollaborationSessionKeeps ==
  ASSUME IInv, NEW i \in Callers, CollaborationSession(i)
  PROVE  IInv'
<1>1. FaultsInv' /\ UNCHANGED <<binding, attempts, sessions>>
  BY DEF CollaborationSession, IInv, FaultsInv
<1>2. cached' \in Nat
  BY DEF CollaborationSession, IInv, HubInv
<1>3. HubInv'
  BY <1>2 DEF CollaborationSession, IInv, HubInv
<1>4. CASE Go(i, Free)
  BY <1>1, <1>3, <1>4, CallEnds
<1>5. CASE Go(i, [pc |-> "room", with |-> cached',
                  known |-> IF cached' \in rejected THEN "rejected" ELSE "fresh"])
  <2>1. PICK next \in RoomCalls : Go(i, next)
    BY <1>2, <1>5 DEF RoomCalls
  <2>2. next.pc = "room" /\ "room" \notin Effectless
    BY DEF RoomCalls, Effectless
  <2> QED BY <1>1, <1>3, <2>1, <2>2, StartStep
<1> QED BY <1>4, <1>5 DEF CollaborationSession

LEMMA OpenRoomKeeps ==
  ASSUME IInv, NEW i \in Callers, OpenRoom(i)
  PROVE  IInv'
<1>1. FaultsInv' /\ HubInv' /\ UNCHANGED <<binding, attempts, sessions>> /\ Go(i, Free)
  BY DEF OpenRoom, IInv, FaultsInv, HubInv
<1> QED BY <1>1, CallEnds

\* The Hub and shutdown.
LEMMA SurroundingsKeep ==
  ASSUME Bounds, IInv, HubProgress \/ PeerActs \/ Shutdown
  PROVE  IInv'
<1>1. UNCHANGED <<binding, attempts, sessions, cached, wire, faults, requests>>
  BY DEF HubProgress, PeerActs, Shutdown
<1>2. CallsInv' /\ BindingInv' /\ SessionsInv' /\ FaultsInv'
  BY <1>1 DEF IInv, CallsInv, BindingInv, SessionsInv, FaultsInv, Pc
<1>3. HubInv'
  <2>1. CASE HubProgress
    <3>1. hub' \in [state : HubStates, options : AnyOptions, process : Nat]
      <4>1. hub \in [state : HubStates, options : AnyOptions, process : Nat]
        BY DEF IInv, HubInv
      <4>2. /\ hub.options \in AnyOptions
            /\ hub.process \in Nat /\ hub.process + 1 \in Nat
        BY <4>1
      <4>3. CASE hub' = [hub EXCEPT !.state = "ready", !.process = @ + 1]
        <5>1. hub' = [state |-> "ready", options |-> hub.options, process |-> hub.process + 1]
          BY <4>1, <4>3
        <5> QED BY <4>2, <5>1 DEF HubStates
      <4>4. CASE \/ hub' = [hub EXCEPT !.state = "failed"]
                 \/ hub' = [hub EXCEPT !.state = "stopped"]
        BY <4>1, <4>4 DEF HubStates
      <4> QED BY <2>1, <4>3, <4>4 DEF HubProgress
    <3>2. UNCHANGED <<cached, requests, peers>>
      BY <2>1 DEF HubProgress
    <3> QED BY <3>1, <3>2 DEF IInv, HubInv
  <2>2. CASE PeerActs
    <3>1. hub' \in [state : HubStates, options : AnyOptions, process : Nat]
      BY <2>2 DEF PeerActs, IInv, HubInv, HubStates, AnyOptions
    <3>2. UNCHANGED <<cached, requests>> /\ peers < MaxPeers /\ peers' = peers + 1
      BY <2>2 DEF PeerActs
    <3>3. cached \in Nat /\ requests \in 0..MaxRequests /\ peers \in 0..MaxPeers
      BY DEF IInv, HubInv
    <3>4. peers' \in 0..MaxPeers
      BY <3>2, <3>3 DEF Bounds
    <3> QED BY <3>1, <3>2, <3>3, <3>4 DEF HubInv
  <2>3. CASE Shutdown
    BY <2>3 DEF Shutdown, IInv, HubInv
  <2> QED BY <2>1, <2>2, <2>3
<1> QED BY <1>2, <1>3 DEF IInv

LEMMA SessionsEndKeeps ==
  ASSUME Bounds, IInv, SessionsEnd
  PROVE  IInv'
<1>1. /\ sessions' = {}
      /\ binding' = IF binding.state = "bound" THEN Unbound ELSE binding
      /\ UNCHANGED <<hub, attempts, cached, wire, faults, requests, peers>>
  BY DEF SessionsEnd
<1>2. HubInv' /\ CallsInv' /\ FaultsInv'
  BY <1>1 DEF IInv, HubInv, CallsInv, FaultsInv, Pc
<1>3. BindingInv'
  <2>1. CASE binding.state = "bound"
    BY <1>1, <2>1 DEF IInv, BindingInv, Unbound, Pc
  <2>2. CASE binding.state # "bound"
    BY <1>1, <2>2 DEF IInv, BindingInv, Pc
  <2> QED BY <2>1, <2>2
<1>4. SessionsInv'
  <2>1. IsFiniteSet({}) /\ Cardinality({}) = 0
    BY FS_EmptySet
  <2>2. binding'.state # "bound"
    BY <1>1 DEF Unbound
  <2> QED BY <1>1, <2>1, <2>2 DEF SessionsInv, Bounds
<1> QED BY <1>2, <1>3, <1>4 DEF IInv

-----------------------------------------------------------------------------
(* The invariant.                                                          *)

LEMMA InitIInv ==
  ASSUME Bounds, SInit
  PROVE  IInv
<1>1. HubInv /\ FaultsInv
  BY DEF Bounds, SInit, HubInv, FaultsInv, HubStates, AnyOptions
<1>2. CallsInv
  BY FreeIsPlain DEF SInit, CallsInv, Pc, Effectless
<1>3. BindingInv
  BY FreeIsPlain DEF SInit, BindingInv, Unbound, Pc
<1>4. SessionsInv
  BY FS_EmptySet DEF Bounds, SInit, SessionsInv, Unbound
<1> QED BY <1>1, <1>2, <1>3, <1>4 DEF IInv

LEMMA NextIInv ==
  ASSUME Bounds, IInv, [SNext]_svars
  PROVE  IInv'
<1>1. ASSUME NEW i \in Callers,
             Bind(i) \/ SessionOpen(i) \/ CollaborationSession(i) \/ OpenRoom(i)
      PROVE  IInv'
  BY <1>1, BindKeeps, SessionOpenKeeps, CollaborationSessionKeeps, OpenRoomKeeps
<1>2. ASSUME NEW i \in Callers,
             Start(i) \/ EnterStart(i) \/ StartCurrent(i) \/ StartStatus(i) \/ Post(i)
      PROVE  IInv'
  BY <1>2, StartKeeps, EnterStartKeeps, StartCurrentKeeps, StartStatusKeeps, PostKeeps
<1>3. ASSUME NEW i \in Callers,
             PostAnswered(i) \/ StartVerify(i) \/ StartReread(i) \/ StartPolls(i)
      PROVE  IInv'
  BY <1>3, PostAnsweredKeeps, StartVerifyKeeps, StartRereadKeeps, StartPollsKeeps
<1>4. CASE PrepareHub \/ PrepareServer \/ SessionClose
  BY <1>4, PrepareHubKeeps, PrepareServerKeeps, SessionCloseKeeps
<1>5. CASE HubProgress \/ PeerActs \/ Shutdown \/ SessionsEnd
  BY <1>5, SurroundingsKeep, SessionsEndKeeps
<1>6. CASE UNCHANGED svars
  BY <1>6 DEF svars, IInv, HubInv, CallsInv, BindingInv, SessionsInv, FaultsInv, Pc
<1> QED BY <1>1, <1>2, <1>3, <1>4, <1>5, <1>6 DEF SNext

\* What the invariant says of the properties that are checked.
LEMMA InvariantsFollow ==
  ASSUME Bounds, IInv
  PROVE  ServersInvariant
<1>1. STypeOK
  <2>1. binding.attempt \in 0..attempts.made
    BY DEF IInv, BindingInv
  <2> QED BY <2>1 DEF IInv, HubInv, BindingInv, STypeOK, HubStates
<1>2. OneBinding
  <2> DEFINE implicit == {s \in sessions : s[1] = "implicit"}
  <2>1. Cardinality(implicit) <= 1
    <3>1. implicit \subseteq {<<"implicit", binding.attempt>>}
      BY DEF IInv, SessionsInv
    <3>2. /\ IsFiniteSet({<<"implicit", binding.attempt>>})
          /\ Cardinality({<<"implicit", binding.attempt>>}) = 1
      BY FS_Singleton
    <3> HIDE DEF implicit
    <3> QED BY <3>1, <3>2, FS_Subset
  <2>2. \A i \in Callers : Pc(i) = "waiting" => InProgress("hub") \/ InProgress("server")
    BY DEF IInv, BindingInv, InProgress
  <2>3. /\ binding.state = "bound" => <<"implicit", binding.attempt>> \in sessions
        /\ "answered with an old failure" \notin faults
        /\ Cardinality(sessions) <= MaxSessions
    BY DEF IInv, SessionsInv, FaultsInv
  <2> QED BY <2>1, <2>2, <2>3 DEF OneBinding
<1>3. StartsAreTold
  BY DEF IInv, FaultsInv, StartsAreTold
<1> QED BY <1>1, <1>2, <1>3 DEF ServersInvariant

(* For any number of calls, of options and of other clients of the Hub: the  *)
(* calls of a connection share one working session, nobody waits for an      *)
(* attempt that has failed or is answered with an old failure, an error of   *)
(* server_start that tells of no effect is true, and a server is joined only *)
(* with the options that were asked for.  (service.ts, #sessionFor,          *)
(* serverStart; hub-client.ts, start)                                        *)
THEOREM ServersAreSound ==
  ASSUME Bounds
  PROVE  SSpec => []ServersInvariant
<1>1. SInit => IInv
  BY InitIInv
<1>2. IInv /\ [SNext]_svars => IInv'
  BY NextIInv
<1>3. IInv => ServersInvariant
  BY InvariantsFollow
<1> QED BY <1>1, <1>2, <1>3, PTL DEF SSpec

----------------------------------------------------------------------------
(* Calls: references and errors *)

ConnectionBounds ==
  /\ IsFiniteSet(Cells)
  /\ "execution" \in AliasKinds
  /\ MaxEntries \in Nat /\ MaxOpens \in Nat \ {0} /\ MaxEdits \in Nat /\ MaxBatch \in Nat

\* An execution has one alias whoever asks; executions are counted from 1.
Entries == [full : Nat \ {0}, owner : {"none"}]

\* A table: its shape, and its two directions agree.
IsTable(t) ==
  /\ t = [alias |-> t.alias, byRef |-> t.byRef, byValue |-> t.byValue, observed |-> t.observed]
  /\ t.alias \in [AliasKinds -> Seq(Entries)]
  /\ t.observed \in Nat \ {0}

Agrees(t) ==
  /\ DOMAIN t.byRef \subseteq 1..t.observed - 1
  /\ \A r \in DOMAIN t.byRef : t.byRef[r] \in DOMAIN t.byValue /\ t.byValue[t.byRef[r]] = r
  /\ \A v \in DOMAIN t.byValue : t.byValue[v] \in DOMAIN t.byRef /\ t.byRef[t.byValue[v]] = v

TableOk(t) == IsTable(t) /\ Agrees(t)

\* What a later table keeps of an earlier one.
AliasesStay(t, u) ==
  \A n \in DOMAIN t.alias["execution"] :
    /\ n \in DOMAIN u.alias["execution"]
    /\ u.alias["execution"][n] = t.alias["execution"][n]

Grows(t, u) ==
  /\ AliasesStay(t, u)
  /\ t.observed <= u.observed
  /\ \A r \in DOMAIN t.byRef : r \in DOMAIN u.byRef /\ u.byRef[r] = t.byRef[r]

-----------------------------------------------------------------------------
(* The operations of the table.                                            *)

\* A table from its parts.
LEMMA TableOf ==
  ASSUME NEW aliases \in [AliasKinds -> Seq(Entries)], NEW f, NEW g, NEW n \in Nat \ {0},
         NEW u, u = [alias |-> aliases, byRef |-> f, byValue |-> g, observed |-> n]
  PROVE  /\ IsTable(u)
         /\ u.alias = aliases /\ u.byRef = f /\ u.byValue = g /\ u.observed = n
<1>1. u.alias = aliases /\ u.byRef = f /\ u.byValue = g /\ u.observed = n
  OBVIOUS
<1> QED BY <1>1 DEF IsTable

\* A finite set can be numbered.
LEMMA Numbering ==
  ASSUME NEW t, IsTable(t), NEW news, IsFiniteSet(news)
  PROVE  /\ Cardinality(news) \in Nat
         /\ PresentObserved(t, news) \in
              Bijection(news, t.observed..t.observed + Cardinality(news) - 1)
<1> DEFINE next == t.observed..t.observed + Cardinality(news) - 1
<1>1. Cardinality(news) \in Nat
  BY FS_CardinalityType
<1>2. IsFiniteSet(next) /\ Cardinality(next) = Cardinality(news)
  BY <1>1, FS_Interval DEF IsTable
<1>3. Bijection(news, next) # {}
  BY <1>2, FS_SameCardinalityBij DEF ExistsBijection
<1> QED BY <1>1, <1>3 DEF PresentObserved

\* An execution presented has an alias, that stands for it.
LEMMA PresentIsAliased ==
  ASSUME ConnectionBounds, NEW t, TableOk(t), NEW job \in Nat \ {0},
         NEW u, u = Present(t, "execution", job, "none")
  PROVE  /\ TableOk(u) /\ AliasesStay(t, u)
         /\ u.byRef = t.byRef /\ u.byValue = t.byValue /\ u.observed = t.observed
         /\ AliasOf(u, "execution", job, "none") \in DOMAIN u.alias["execution"]
         /\ u.alias["execution"][AliasOf(u, "execution", job, "none")].full = job
<1> DEFINE entry == [full |-> job, owner |-> "none"]
           old == t.alias["execution"]
<1>1. entry \in Entries /\ old \in Seq(Entries) /\ "execution" \in AliasKinds
  BY DEF Entries, TableOk, IsTable, ConnectionBounds
<1>2. /\ TableOk(u) /\ AliasesStay(t, u)
      /\ u.byRef = t.byRef /\ u.byValue = t.byValue /\ u.observed = t.observed
      /\ \E n \in DOMAIN u.alias["execution"] : u.alias["execution"][n] = entry
  <2>1. CASE entry \in Range(old)
    <3>1. u = t
      BY <2>1 DEF Present
    <3> QED BY <3>1, <2>1 DEF Range, AliasesStay
  <2>2. CASE entry \notin Range(old)
    <3>1. u = [t EXCEPT !.alias["execution"] = Append(@, entry)]
      BY <2>2 DEF Present
    <3>2. u = [alias |-> [t.alias EXCEPT !["execution"] = Append(old, entry)],
               byRef |-> t.byRef, byValue |-> t.byValue, observed |-> t.observed]
      BY <3>1 DEF TableOk, IsTable
    <3>3. u.alias["execution"] = Append(old, entry)
      BY <3>2, <1>1 DEF TableOk, IsTable
    <3>4. /\ Append(old, entry) \in Seq(Entries)
          /\ DOMAIN Append(old, entry) = 1..Len(old) + 1 /\ DOMAIN old = 1..Len(old)
          /\ Append(old, entry)[Len(old) + 1] = entry
          /\ \A n \in 1..Len(old) : Append(old, entry)[n] = old[n]
          /\ Len(old) \in Nat
      BY <1>1
    <3>5. IsTable(u)
      <4>1. [t.alias EXCEPT !["execution"] = Append(old, entry)] \in [AliasKinds -> Seq(Entries)]
        BY <1>1, <3>4 DEF TableOk, IsTable
      <4>2. t.observed \in Nat \ {0}
        BY DEF TableOk, IsTable
      <4> DEFINE aliases == [t.alias EXCEPT !["execution"] = Append(old, entry)]
      <4> HIDE DEF aliases
      <4>3. u = [alias |-> aliases, byRef |-> t.byRef, byValue |-> t.byValue, observed |-> t.observed]
        BY <3>2 DEF aliases
      <4>4. aliases \in [AliasKinds -> Seq(Entries)]
        BY <4>1 DEF aliases
      <4> QED BY ONLY <4>3, <4>4, <4>2, TableOf
    <3>6. Agrees(u)
      BY <3>2 DEF TableOk, Agrees
    <3>7. AliasesStay(t, u)
      BY <3>3, <3>4 DEF AliasesStay
    <3>8. Len(old) + 1 \in DOMAIN u.alias["execution"]
      BY <3>3, <3>4
    <3> QED BY <3>2, <3>3, <3>4, <3>5, <3>6, <3>7, <3>8 DEF TableOk
  <2> QED BY <2>1, <2>2
<1>3. /\ AliasOf(u, "execution", job, "none") \in DOMAIN u.alias["execution"]
      /\ u.alias["execution"][AliasOf(u, "execution", job, "none")] = entry
  BY <1>2 DEF AliasOf
<1> QED BY <1>2, <1>3

\* Nothing is named for no execution.
LEMMA AliasedTable ==
  ASSUME ConnectionBounds, TableOk(table), NEW job \in Nat
  PROVE  /\ TableOk(Aliased(job)) /\ AliasesStay(table, Aliased(job))
         /\ Aliased(job).byRef = table.byRef /\ Aliased(job).byValue = table.byValue
         /\ Aliased(job).observed = table.observed
         /\ job # 0 =>
              LET n == AliasOf(Aliased(job), "execution", job, "none")
              IN  /\ n \in DOMAIN Aliased(job).alias["execution"]
                  /\ Aliased(job).alias["execution"][n].full = job
<1>1. CASE job = 0
  BY <1>1 DEF Aliased, AliasesStay
<1>2. CASE job # 0
  <2>1. Aliased(job) = Present(table, "execution", job, "none")
    BY <1>2 DEF Aliased
  <2> QED BY <2>1, <1>2, PresentIsAliased
<1> QED BY <1>1, <1>2

\* What is staged is in the table, under numbers nobody has seen.
LEMMA StageGrows ==
  ASSUME NEW t, TableOk(t), NEW observations, IsFiniteSet(observations),
         NEW u, u = Stage(t, observations)
  PROVE  /\ TableOk(u) /\ u.alias = t.alias
         /\ t.observed <= u.observed
         /\ \A r \in DOMAIN t.byRef : r \in DOMAIN u.byRef /\ u.byRef[r] = t.byRef[r]
         /\ \A r \in DOMAIN u.byRef : r \in DOMAIN t.byRef \/ r >= t.observed
         /\ observations \subseteq DOMAIN u.byValue
<1> DEFINE news == observations \ DOMAIN t.byValue
           new  == PresentObserved(t, news)
           last == t.observed + Cardinality(news) - 1
<1>1. IsFiniteSet(news)
  BY FS_Subset
<1>2. Cardinality(news) \in Nat /\ new \in Bijection(news, t.observed..last)
  BY <1>1, Numbering DEF TableOk
<1>3. /\ new \in [news -> t.observed..last]
      /\ \A v, w \in news : new[v] = new[w] => v = w
      /\ \A r \in t.observed..last : \E v \in news : new[v] = r
  <2> HIDE DEF new, news, last
  <2> QED BY <1>2 DEF Bijection, Injection, Surjection, IsInjective
<1>4. Range(new) = t.observed..last
  <2> HIDE DEF new, news, last
  <2> QED BY <1>3 DEF Range
<1> DEFINE byRef == [r \in DOMAIN t.byRef \cup t.observed..last |->
                       IF r \in DOMAIN t.byRef THEN t.byRef[r] ELSE CHOOSE v \in news : new[v] = r]
           byValue == [v \in DOMAIN t.byValue \cup news |->
                         IF v \in DOMAIN t.byValue THEN t.byValue[v] ELSE new[v]]
<1>5. u = [alias |-> t.alias, byRef |-> byRef, byValue |-> byValue,
           observed |-> t.observed + Cardinality(news)]
  BY <1>4 DEF Stage, TableOk, IsTable
<1>6. /\ t.observed \in Nat \ {0} /\ DOMAIN t.byRef \subseteq 1..t.observed - 1
      /\ \A r \in DOMAIN t.byRef : t.byRef[r] \in DOMAIN t.byValue /\ t.byValue[t.byRef[r]] = r
      /\ \A v \in DOMAIN t.byValue : t.byValue[v] \in DOMAIN t.byRef /\ t.byRef[t.byValue[v]] = v
  BY DEF TableOk, IsTable, Agrees
<1>7. \A r \in DOMAIN t.byRef : byRef[r] = t.byRef[r]
  OBVIOUS
<1>8. \A r \in t.observed..last : r \notin DOMAIN t.byRef /\ byRef[r] \in news /\ new[byRef[r]] = r
  <2> SUFFICES ASSUME NEW r \in t.observed..last
               PROVE  r \notin DOMAIN t.byRef /\ byRef[r] \in news /\ new[byRef[r]] = r
    OBVIOUS
  <2>1. r \notin DOMAIN t.byRef
    <3> HIDE DEF new, news
    <3> QED BY <1>2, <1>6
  <2>2. byRef[r] = CHOOSE v \in news : new[v] = r
    BY <2>1
  <2>3. \E v \in news : new[v] = r
    BY <1>3
  <2> HIDE DEF new, news, byRef
  <2> QED BY <2>1, <2>2, <2>3
<1>9. \A v \in DOMAIN t.byValue : byValue[v] = t.byValue[v]
  OBVIOUS
<1>10. \A v \in news : byValue[v] = new[v]
  OBVIOUS
<1>11. DOMAIN byRef = DOMAIN t.byRef \cup t.observed..last
  OBVIOUS
<1>12. DOMAIN byValue = DOMAIN t.byValue \cup news /\ observations \subseteq DOMAIN byValue
  OBVIOUS
<1>13. news \cap DOMAIN t.byValue = {}
  OBVIOUS
<1> HIDE DEF byRef, byValue, new, news
<1>14. IsTable(u)
  BY <1>2, <1>5, <1>6 DEF TableOk, IsTable
<1>15. Agrees(u)
  <2>1. DOMAIN byRef \subseteq 1..t.observed + Cardinality(news) - 1
    BY <1>2, <1>6, <1>11
  <2>2. \A r \in DOMAIN byRef : byRef[r] \in DOMAIN byValue /\ byValue[byRef[r]] = r
    BY <1>6, <1>7, <1>8, <1>9, <1>10, <1>11, <1>12
  <2>3. \A v \in DOMAIN byValue : byValue[v] \in DOMAIN byRef /\ byRef[byValue[v]] = v
    <3> SUFFICES ASSUME NEW v \in DOMAIN byValue
                 PROVE  byValue[v] \in DOMAIN byRef /\ byRef[byValue[v]] = v
      OBVIOUS
    <3>1. CASE v \in DOMAIN t.byValue
      BY <3>1, <1>6, <1>7, <1>9, <1>11
    <3>2. CASE v \in news
      <4>1. byValue[v] = new[v] /\ new[v] \in t.observed..last
        BY <3>2, <1>3, <1>10
      <4>2. byRef[new[v]] \in news /\ new[byRef[new[v]]] = new[v]
        BY <4>1, <1>8
      <4> QED BY <4>1, <4>2, <1>3, <1>11, <3>2
    <3> QED BY <3>1, <3>2, <1>12
  <2>4. u.byRef = byRef /\ u.byValue = byValue /\ u.observed = t.observed + Cardinality(news)
    BY <1>5
  <2>5. DOMAIN u.byRef \subseteq 1..u.observed - 1
    BY <1>2, <1>6, <2>1, <2>4
  <2>6. \A r \in DOMAIN u.byRef : u.byRef[r] \in DOMAIN u.byValue /\ u.byValue[u.byRef[r]] = r
    BY <2>2, <2>4
  <2>7. \A v \in DOMAIN u.byValue : u.byValue[v] \in DOMAIN u.byRef /\ u.byRef[u.byValue[v]] = v
    BY <2>3, <2>4
  <2> QED BY <2>5, <2>6, <2>7 DEF Agrees
<1> QED
  <2>1. \A r \in DOMAIN byRef : r \in DOMAIN t.byRef \/ r >= t.observed
    BY <1>2, <1>6, <1>11
  <2> QED BY <1>2, <1>5, <1>6, <1>7, <1>11, <1>12, <1>14, <1>15, <2>1 DEF TableOk

\* What is published is what was there and what the payload holds.
LEMMA CommitKeeps ==
  ASSUME ConnectionBounds, NEW s, TableOk(s), NEW checkpoint, NEW published,
         NEW c, c = CommitPublished(s, checkpoint, published), c.ok
  PROVE  /\ TableOk(c.table) /\ c.table.alias = s.alias /\ c.table.observed = s.observed
         /\ DOMAIN c.table.byRef
              = {r \in DOMAIN s.byRef : r \in DOMAIN checkpoint.byRef \cup published}
         /\ \A r \in DOMAIN c.table.byRef : c.table.byRef[r] = s.byRef[r]
         /\ Cardinality(DOMAIN c.table.byRef) <= MaxEntries
<1> DEFINE kept == {r \in DOMAIN s.byRef : r \in DOMAIN checkpoint.byRef \cup published}
           values == {v \in DOMAIN s.byValue : s.byValue[v] \in kept}
           byRef == [r \in kept |-> s.byRef[r]]
           byValue == [v \in values |-> s.byValue[v]]
           pruned == PruneUnpublished(s, checkpoint, published)
<1>1. pruned = [alias |-> s.alias, byRef |-> byRef, byValue |-> byValue, observed |-> s.observed]
  <2>1. pruned = [s EXCEPT !.byRef = byRef, !.byValue = byValue]
    BY DEF PruneUnpublished, Restrict
  <2>2. s = [alias |-> s.alias, byRef |-> s.byRef, byValue |-> s.byValue, observed |-> s.observed]
    BY DEF TableOk, IsTable
  <2> HIDE DEF byRef, byValue, pruned
  <2> QED BY <2>1, <2>2
<1>2. c.table = pruned /\ ~(Cardinality(DOMAIN pruned.byRef) > MaxEntries)
  <2>1. CASE Cardinality(DOMAIN pruned.byRef) > MaxEntries
    BY <2>1 DEF CommitPublished
  <2>2. CASE ~(Cardinality(DOMAIN pruned.byRef) > MaxEntries)
    BY <2>2 DEF CommitPublished
  <2> QED BY <2>1, <2>2
<1>3. /\ s.alias \in [AliasKinds -> Seq(Entries)] /\ s.observed \in Nat \ {0}
      /\ DOMAIN s.byRef \subseteq 1..s.observed - 1
      /\ \A r \in DOMAIN s.byRef : s.byRef[r] \in DOMAIN s.byValue /\ s.byValue[s.byRef[r]] = r
      /\ \A v \in DOMAIN s.byValue : s.byValue[v] \in DOMAIN s.byRef /\ s.byRef[s.byValue[v]] = v
  BY DEF TableOk, IsTable, Agrees
<1>4. DOMAIN byRef = kept /\ \A r \in kept : byRef[r] = s.byRef[r]
  OBVIOUS
<1>5. DOMAIN byValue = values /\ \A v \in values : byValue[v] = s.byValue[v]
  OBVIOUS
<1>6. /\ kept \subseteq DOMAIN s.byRef
      /\ \A v : v \in values <=> v \in DOMAIN s.byValue /\ s.byValue[v] \in kept
  OBVIOUS
<1> HIDE DEF byRef, byValue, values
<1>7. /\ IsTable(pruned) /\ pruned.alias = s.alias /\ pruned.byRef = byRef
      /\ pruned.byValue = byValue /\ pruned.observed = s.observed
  <2> HIDE DEF pruned
  <2>1. s.alias \in [AliasKinds -> Seq(Entries)] /\ s.observed \in Nat \ {0}
    BY <1>3
  <2>2. /\ pruned.alias = s.alias /\ pruned.byRef = byRef
        /\ pruned.byValue = byValue /\ pruned.observed = s.observed
    BY <1>1
  <2>3. pruned = [alias |-> pruned.alias, byRef |-> pruned.byRef,
                  byValue |-> pruned.byValue, observed |-> pruned.observed]
    BY <1>1, <2>2
  <2> QED BY <2>1, <2>2, <2>3 DEF IsTable
<1>8. Agrees(pruned)
  <2> HIDE DEF pruned, kept
  <2>1. DOMAIN pruned.byRef \subseteq 1..pruned.observed - 1
    BY <1>3, <1>4, <1>6, <1>7
  <2>2. \A r \in kept : s.byRef[r] \in values /\ byValue[s.byRef[r]] = r
    BY <1>3, <1>5, <1>6
  <2>3. \A r \in DOMAIN pruned.byRef :
          pruned.byRef[r] \in DOMAIN pruned.byValue /\ pruned.byValue[pruned.byRef[r]] = r
    BY <2>2, <1>4, <1>5, <1>7
  <2>4. \A v \in values : s.byValue[v] \in kept /\ byRef[s.byValue[v]] = v
    BY <1>3, <1>4, <1>6
  <2>5. \A v \in DOMAIN pruned.byValue :
          pruned.byValue[v] \in DOMAIN pruned.byRef /\ pruned.byRef[pruned.byValue[v]] = v
    BY <2>4, <1>4, <1>5, <1>7
  <2> QED BY <2>1, <2>3, <2>5 DEF Agrees
<1>9. Cardinality(DOMAIN pruned.byRef) <= MaxEntries
  <2>1. IsFiniteSet(1..s.observed - 1)
    BY <1>3, FS_Interval
  <2>2. IsFiniteSet(DOMAIN pruned.byRef)
    <3> HIDE DEF pruned
    <3> QED BY <2>1, <1>7, <1>8, FS_Subset DEF Agrees
  <2>3. Cardinality(DOMAIN pruned.byRef) \in Nat
    BY <2>2, FS_CardinalityType
  <2> QED BY <2>3, <1>2 DEF ConnectionBounds
<1> HIDE DEF pruned
<1> QED BY <1>2, <1>4, <1>7, <1>8, <1>9 DEF TableOk

-----------------------------------------------------------------------------
(* What the agent was shown.                                               *)

NamesExecution(s) == s.field = "execution_id"

\* A response shows observations, and each stays in the table unless it is
\* what a cell was when it was sent.
RowsOk(rows) ==
  IsFiniteSet(rows) /\ \A r \in rows : r.field \in ObservedFields \cup {"sent_cell_ref"}

AliasOk(t, s) ==
  s.ref \in DOMAIN t.alias["execution"] /\ t.alias["execution"][s.ref].full = s.means

RefOk(t, s) ==
  /\ s.ref \in 1..t.observed - 1
  /\ s.ref \in DOMAIN t.byRef => t.byRef[s.ref] = s.means
  /\ s.field # "sent_cell_ref" => s.ref \in DOMAIN t.byRef

SeenOk(t, shown) ==
  /\ \A s \in shown : IF NamesExecution(s) THEN AliasOk(t, s) ELSE RefOk(t, s)
  /\ \A s, r \in shown :
       ~NamesExecution(s) /\ ~NamesExecution(r) /\ s.ref = r.ref => s.means = r.means
  /\ \A r \in DOMAIN t.byRef : \E s \in shown : ~NamesExecution(s) /\ s.ref = r

Connected ==
  TableOk(table) /\ SeenOk(table, seen) /\ Cardinality(DOMAIN table.byRef) <= MaxEntries

\* Fields of observations are not those of executions.
LEMMA RowsAreObservations ==
  ASSUME NEW rows, RowsOk(rows), NEW r \in rows
  PROVE  r.field # "execution_id" /\ (r.field # "sent_cell_ref" => r.field \in ObservedFields)
BY DEF RowsOk, ObservedFields

\* The observations of finitely many rows are finitely many.
LEMMA FiniteObservations ==
  ASSUME NEW rows, RowsOk(rows)
  PROVE  IsFiniteSet(ObservationsOf(rows))
<1> DEFINE f == [r \in rows |-> r.obs]
<1>1. f \in Surjection(rows, ObservationsOf(rows))
  BY DEF Surjection, ObservationsOf
<1> QED BY <1>1, FS_Surjection DEF RowsOk

\* A published response leaves a table that knows all the agent was shown.
LEMMA PublishedIsKnown ==
  ASSUME ConnectionBounds, Connected, NEW all, RowsOk(all), NEW rows \in SUBSET all,
         NEW job \in Nat,
         NEW s, s = Stage(Aliased(job), ObservationsOf(all)),
         NEW c, c = CommitPublished(s, table, CollectPublishedObservedRefs(s, rows)), c.ok
  PROVE  /\ TableOk(c.table) /\ Cardinality(DOMAIN c.table.byRef) <= MaxEntries
         /\ SeenOk(c.table, seen \cup Shown(s, rows, job))
         /\ Grows(table, c.table)
<1> DEFINE t == Aliased(job)
           u == c.table
           n == AliasOf(s, "execution", job, "none")
           new == Shown(s, rows, job)
<1>1. /\ TableOk(t) /\ AliasesStay(table, t)
      /\ t.byRef = table.byRef /\ t.byValue = table.byValue /\ t.observed = table.observed
  BY AliasedTable DEF Connected
<1>2. /\ TableOk(s) /\ s.alias = t.alias /\ t.observed <= s.observed
      /\ \A r \in DOMAIN t.byRef : r \in DOMAIN s.byRef /\ s.byRef[r] = t.byRef[r]
      /\ \A r \in DOMAIN s.byRef : r \in DOMAIN t.byRef \/ r >= t.observed
      /\ ObservationsOf(all) \subseteq DOMAIN s.byValue
  <2> HIDE DEF t
  <2>1. s = Stage(t, ObservationsOf(all))
    BY DEF t
  <2> QED BY <1>1, <2>1, StageGrows, FiniteObservations
<1>3. job # 0 => n \in DOMAIN s.alias["execution"] /\ s.alias["execution"][n].full = job
  <2>1. n = AliasOf(t, "execution", job, "none")
    BY <1>2 DEF AliasOf
  <2> QED BY <2>1, <1>2, AliasedTable DEF Connected
<1> DEFINE published == CollectPublishedObservedRefs(s, rows)
<1>4. /\ TableOk(u) /\ u.alias = s.alias /\ u.observed = s.observed
      /\ DOMAIN u.byRef = {r \in DOMAIN s.byRef : r \in DOMAIN table.byRef \cup published}
      /\ \A r \in DOMAIN u.byRef : u.byRef[r] = s.byRef[r]
      /\ Cardinality(DOMAIN u.byRef) <= MaxEntries
  BY <1>2, CommitKeeps
<1> HIDE DEF t, u, n, published
<1>5. table.observed \in Nat /\ u.observed \in Nat /\ table.observed <= u.observed
  BY <1>1, <1>2, <1>4 DEF TableOk, IsTable
<1>6. Grows(table, u)
  <2>1. AliasesStay(table, u)
    BY <1>1, <1>2, <1>4 DEF AliasesStay
  <2>2. \A r \in DOMAIN table.byRef : r \in DOMAIN u.byRef /\ u.byRef[r] = table.byRef[r]
    BY <1>1, <1>2, <1>4
  <2> QED BY <2>1, <2>2, <1>5 DEF Grows
<1>7. \A r \in DOMAIN u.byRef : r \in DOMAIN table.byRef \/ r >= table.observed
  BY <1>1, <1>2, <1>4
\* A row that is shown: its reference stands for it.
<1>8. \A r \in rows :
        LET ref == s.byValue[r.obs]
        IN  /\ ref \in 1..u.observed - 1
            /\ s.byRef[ref] = r.obs
            /\ ref \in DOMAIN table.byRef \/ ref >= table.observed
            /\ ref \in DOMAIN table.byRef => table.byRef[ref] = r.obs
            /\ r.field # "sent_cell_ref" => ref \in published
            /\ ref \in DOMAIN s.byRef
  <2> SUFFICES ASSUME NEW r \in rows
               PROVE  LET ref == s.byValue[r.obs]
                      IN  /\ ref \in 1..u.observed - 1
                          /\ s.byRef[ref] = r.obs
                          /\ ref \in DOMAIN table.byRef \/ ref >= table.observed
                          /\ ref \in DOMAIN table.byRef => table.byRef[ref] = r.obs
                          /\ r.field # "sent_cell_ref" => ref \in published
                          /\ ref \in DOMAIN s.byRef
    OBVIOUS
  <2> DEFINE ref == s.byValue[r.obs]
  <2>1. r.obs \in DOMAIN s.byValue
    BY <1>2 DEF ObservationsOf
  <2>2. ref \in DOMAIN s.byRef /\ s.byRef[ref] = r.obs
    BY <2>1, <1>2 DEF TableOk, Agrees
  <2>3. DOMAIN s.byRef \subseteq 1..s.observed - 1
    BY <1>2 DEF TableOk, Agrees
  <2>4. r.field # "sent_cell_ref" => ref \in published
    BY RowsAreObservations DEF published, CollectPublishedObservedRefs
  <2> QED BY <2>2, <2>3, <2>4, <1>1, <1>2, <1>4
<1>9. \A x \in new :
        IF NamesExecution(x) THEN job # 0 /\ x.ref = n /\ x.means = job
        ELSE \E r \in rows : x.field = r.field /\ x.ref = s.byValue[r.obs] /\ x.means = r.obs
  <2> SUFFICES ASSUME NEW x \in new
               PROVE  IF NamesExecution(x) THEN job # 0 /\ x.ref = n /\ x.means = job
                      ELSE \E r \in rows :
                             x.field = r.field /\ x.ref = s.byValue[r.obs] /\ x.means = r.obs
    OBVIOUS
  <2>1. CASE \E r \in rows :
               x = [field |-> r.field, ref |-> s.byValue[r.obs], means |-> r.obs]
    <3> PICK r \in rows : x = [field |-> r.field, ref |-> s.byValue[r.obs], means |-> r.obs]
      BY <2>1
    <3> QED BY RowsAreObservations DEF NamesExecution
  <2>2. CASE job # 0 /\ x = [field |-> "execution_id", means |-> job, ref |-> n]
    BY <2>2 DEF NamesExecution
  <2> QED BY <2>1, <2>2 DEF Shown, n
<1>10. \A r \in rows : \E x \in new : ~NamesExecution(x) /\ x.ref = s.byValue[r.obs]
  <2> SUFFICES ASSUME NEW r \in rows
               PROVE  \E x \in new : ~NamesExecution(x) /\ x.ref = s.byValue[r.obs]
    OBVIOUS
  <2> DEFINE x == [field |-> r.field, ref |-> s.byValue[r.obs], means |-> r.obs]
  <2>1. x \in new
    BY DEF Shown
  <2>2. ~NamesExecution(x) /\ x.ref = s.byValue[r.obs]
    BY RowsAreObservations DEF NamesExecution
  <2> QED BY <2>1, <2>2
<1> HIDE DEF new
<1>11. SeenOk(table, seen)
  BY DEF Connected
<1>12. ASSUME NEW x \in seen \cup new
       PROVE  IF NamesExecution(x) THEN AliasOk(u, x) ELSE RefOk(u, x)
  <2>1. CASE x \in seen /\ NamesExecution(x)
    BY <2>1, <1>6, <1>11 DEF SeenOk, AliasOk, Grows, AliasesStay
  <2>2. CASE x \in seen /\ ~NamesExecution(x)
    <3>1. RefOk(table, x)
      BY <2>2, <1>11 DEF SeenOk
    <3>2. x.ref \in DOMAIN u.byRef => x.ref \in DOMAIN table.byRef
      BY <3>1, <1>5, <1>7 DEF RefOk
    <3> QED BY <2>2, <3>1, <3>2, <1>5, <1>6 DEF RefOk, Grows
  <2>3. CASE x \in new /\ NamesExecution(x)
    BY <2>3, <1>3, <1>4, <1>9 DEF AliasOk
  <2>4. CASE x \in new /\ ~NamesExecution(x)
    <3>1. PICK r \in rows : x.field = r.field /\ x.ref = s.byValue[r.obs] /\ x.means = r.obs
      BY <2>4, <1>9
    <3>2. x.field # "sent_cell_ref" => x.ref \in DOMAIN u.byRef
      BY <3>1, <1>4, <1>8
    <3> QED BY <2>4, <3>1, <3>2, <1>4, <1>8 DEF RefOk
  <2> QED BY <2>1, <2>2, <2>3, <2>4
<1>13. ASSUME NEW x \in seen \cup new, NEW y \in seen \cup new,
              ~NamesExecution(x), ~NamesExecution(y), x.ref = y.ref
       PROVE  x.means = y.means
  \* Of two that are shown, one of them now.
  <2>1. ASSUME NEW a \in seen, NEW b \in new, ~NamesExecution(a), ~NamesExecution(b),
               a.ref = b.ref
        PROVE  a.means = b.means
    <3>1. RefOk(table, a)
      BY <2>1, <1>11 DEF SeenOk
    <3>2. PICK r \in rows : b.ref = s.byValue[r.obs] /\ b.means = r.obs
      BY <2>1, <1>9
    <3>3. a.ref \in DOMAIN table.byRef
      BY <3>1, <3>2, <2>1, <1>5, <1>8 DEF RefOk
    <3> QED BY <3>1, <3>2, <3>3, <2>1, <1>8 DEF RefOk
  <2>2. CASE x \in seen /\ y \in seen
    BY <2>2, <1>11, <1>13 DEF SeenOk
  <2>3. CASE x \in new /\ y \in new
    <3>1. PICK r \in rows : x.ref = s.byValue[r.obs] /\ x.means = r.obs
      BY <2>3, <1>9, <1>13
    <3>2. PICK q \in rows : y.ref = s.byValue[q.obs] /\ y.means = q.obs
      BY <2>3, <1>9, <1>13
    <3> QED BY <3>1, <3>2, <1>8, <1>13
  <2> QED BY <2>1, <2>2, <2>3, <1>13
<1>14. ASSUME NEW r \in DOMAIN u.byRef
       PROVE  \E x \in seen \cup new : ~NamesExecution(x) /\ x.ref = r
  <2>1. CASE r \in DOMAIN table.byRef
    BY <2>1, <1>11 DEF SeenOk
  <2>2. CASE r \in published
    <3>1. PICK q \in rows : r = s.byValue[q.obs]
      BY <2>2 DEF published, CollectPublishedObservedRefs
    <3> QED BY <3>1, <1>10
  <2> QED BY <2>1, <2>2, <1>4
<1>15. SeenOk(u, seen \cup new)
  BY <1>12, <1>13, <1>14 DEF SeenOk
<1> QED BY <1>4, <1>6, <1>15 DEF u, new

-----------------------------------------------------------------------------
(* The outcome of a call.                                                  *)

OutcomeOk(o, effects, accepted, job) ==
  /\ TableOk(o.table) /\ Cardinality(DOMAIN o.table.byRef) <= MaxEntries
  /\ SeenOk(o.table, seen \cup o.shown)
  /\ Grows(table, o.table)
  /\ o.answer.state = "answered" /\ o.answer.accepted = accepted /\ o.answer.job = job
  /\ o.answer.effects = IF o.answer.code = "ok" THEN "none" ELSE effects
  /\ job # 0 => \E s \in o.shown : NamesExecution(s) /\ s.means = job
  /\ \A s \in o.shown : NamesExecution(s) => job # 0 /\ s.means = job

\* The execution of a response is shown, and no other.
LEMMA ExecutionShown ==
  ASSUME NEW s, NEW rows, RowsOk(rows), NEW job \in Nat
  PROVE  /\ job # 0 => \E x \in Shown(s, rows, job) : NamesExecution(x) /\ x.means = job
         /\ \A x \in Shown(s, rows, job) : NamesExecution(x) => job # 0 /\ x.means = job
<1> DEFINE named == [field |-> "execution_id", means |-> job,
                     ref |-> AliasOf(s, "execution", job, "none")]
<1>1. NamesExecution(named) /\ named.means = job
  BY DEF NamesExecution
<1>2. job # 0 => named \in Shown(s, rows, job)
  BY DEF Shown
<1>3. ASSUME NEW x \in Shown(s, rows, job), NamesExecution(x)
      PROVE  job # 0 /\ x.means = job
  <2>1. CASE \E r \in rows :
               x = [field |-> r.field, ref |-> s.byValue[r.obs], means |-> r.obs]
    <3> PICK r \in rows : x = [field |-> r.field, ref |-> s.byValue[r.obs], means |-> r.obs]
      BY <2>1
    <3> QED BY <1>3, RowsAreObservations DEF NamesExecution
  <2>2. CASE job # 0 /\ x = named
    BY <2>2
  <2> QED BY <1>3, <2>1, <2>2 DEF Shown
<1> QED BY <1>1, <1>2, <1>3

LEMMA NoRows == RowsOk({})
BY FS_EmptySet DEF RowsOk

\* An error that shows nothing but the execution it is about.
LEMMA AliasedIsKnown ==
  ASSUME ConnectionBounds, Connected, NEW job \in Nat
  PROVE  LET t == Aliased(job) IN
         /\ TableOk(t) /\ Cardinality(DOMAIN t.byRef) <= MaxEntries
         /\ SeenOk(t, seen \cup Shown(t, {}, job))
         /\ Grows(table, t)
<1> DEFINE t == Aliased(job)
           n == AliasOf(t, "execution", job, "none")
           new == Shown(t, {}, job)
<1>1. /\ TableOk(t) /\ AliasesStay(table, t)
      /\ t.byRef = table.byRef /\ t.byValue = table.byValue /\ t.observed = table.observed
      /\ job # 0 => n \in DOMAIN t.alias["execution"] /\ t.alias["execution"][n].full = job
  BY AliasedTable DEF Connected
<1>2. \A x \in new : NamesExecution(x) /\ job # 0 /\ x.ref = n /\ x.means = job
  BY DEF Shown, NamesExecution
<1>3. /\ SeenOk(table, seen) /\ Cardinality(DOMAIN table.byRef) <= MaxEntries
      /\ table.observed \in Nat
  BY DEF Connected, TableOk, IsTable
<1> HIDE DEF t, n, new
<1>4. Grows(table, t)
  BY <1>1, <1>3 DEF Grows
<1>5. ASSUME NEW x \in seen \cup new
      PROVE  IF NamesExecution(x) THEN AliasOk(t, x) ELSE RefOk(t, x)
  <2>1. CASE x \in seen /\ NamesExecution(x)
    BY <2>1, <1>1, <1>3 DEF SeenOk, AliasOk, AliasesStay
  <2>2. CASE x \in seen /\ ~NamesExecution(x)
    <3>1. RefOk(table, x)
      BY <2>2, <1>3 DEF SeenOk
    <3> QED BY <2>2, <3>1, <1>1 DEF RefOk
  <2>3. CASE x \in new
    BY <2>3, <1>1, <1>2 DEF AliasOk
  <2> QED BY <2>1, <2>2, <2>3
<1>6. \A x, y \in seen \cup new :
        ~NamesExecution(x) /\ ~NamesExecution(y) /\ x.ref = y.ref => x.means = y.means
  BY <1>2, <1>3 DEF SeenOk
<1>7. \A r \in DOMAIN t.byRef : \E x \in seen \cup new : ~NamesExecution(x) /\ x.ref = r
  BY <1>1, <1>3 DEF SeenOk
<1>8. SeenOk(t, seen \cup new)
  BY <1>5, <1>6, <1>7 DEF SeenOk
<1> QED BY <1>1, <1>3, <1>4, <1>8 DEF t, new

\* Every error tells what it is told of the effects of its call.
LEMMA ErrorOutcome ==
  ASSUME ConnectionBounds, Connected, NEW e, RowsOk(e.rows), e.job \in Nat, e.code # "ok"
  PROVE  OutcomeOk(ErrorResult(e), e.effects, e.accepted, e.job) /\ ErrorResult(e).answer.code # "ok"
<1> DEFINE staged == Stage(Aliased(e.job), ObservationsOf(e.rows))
           commit == CommitPublished(staged, table, CollectPublishedObservedRefs(staged, e.rows))
           o == ErrorResult(e)
<1>1. CASE commit.ok
  <2>1. /\ o.table = commit.table /\ o.shown = Shown(staged, e.rows, e.job)
        /\ o.answer = Answered(e.code, e.effects, e.accepted, e.job)
    BY <1>1 DEF ErrorResult
  <2>2. /\ TableOk(commit.table) /\ Cardinality(DOMAIN commit.table.byRef) <= MaxEntries
        /\ SeenOk(commit.table, seen \cup Shown(staged, e.rows, e.job))
        /\ Grows(table, commit.table)
    <3> HIDE DEF commit, staged
    <3>1. e.rows \in SUBSET e.rows
      OBVIOUS
    <3> QED BY <1>1, <3>1, PublishedIsKnown DEF commit, staged
  <2> HIDE DEF o, commit, staged
  <2> QED BY <2>1, <2>2, ExecutionShown DEF OutcomeOk, Answered, o
<1>2. CASE ~commit.ok
  <2>1. /\ o.table = Aliased(e.job) /\ o.shown = Shown(Aliased(e.job), {}, e.job)
        /\ o.answer = Answered("RESOURCE_LIMIT", e.effects, e.accepted, e.job)
    BY <1>2 DEF ErrorResult
  <2> HIDE DEF o, commit, staged
  <2> QED BY <2>1, AliasedIsKnown, ExecutionShown, NoRows DEF OutcomeOk, Answered, o
<1> QED BY <1>1, <1>2

\* A page that is cut is a part of the page.
LEMMA CutPage ==
  ASSUME NEW page, page \in Seq(Range(page)), NEW continued,
         NEW cut \in Cuts(Len(page), continued), cut # OverBudget
  PROVE  Range(SubSeq(page, 1, cut)) \subseteq Range(page)
<1>1. Len(page) \in Nat
  OBVIOUS
<1>2. cut \in 0..Len(page)
  BY <1>1 DEF Cuts
<1>3. SubSeq(page, 1, cut) \in Seq(Range(page))
  BY <1>1, <1>2
<1> QED BY <1>3 DEF Range

\* Every result keeps what it tells of the effects of its call.
LEMMA BuiltOutcome ==
  ASSUME ConnectionBounds, Connected, NEW tool, NEW continued,
         NEW page, page \in Seq(Range(page)), NEW rest, RowsOk(Range(page) \cup rest),
         NEW accepted, NEW job \in Nat, NEW cut \in Cuts(Len(page), continued),
         NEW result, result = Result(page, rest, accepted, job)
  PROVE  OutcomeOk(BuildResult(tool, result, cut), SideEffects(tool, result), accepted, job)
<1> DEFINE all == Range(page) \cup rest
           rows == Range(SubSeq(page, 1, cut)) \cup rest
           staged == Stage(Aliased(job), ObservationsOf(all))
           commit == CommitPublished(staged, table, CollectPublishedObservedRefs(staged, rows))
           o == BuildResult(tool, result, cut)
           e == Failure("RESOURCE_LIMIT", SideEffects(tool, result), {}, accepted, job)
<1>1. result.page = page /\ result.rest = rest /\ result.accepted = accepted /\ result.job = job
  BY DEF Result
<1>2. CASE cut = OverBudget \/ ~commit.ok
  <2>1. o = ErrorResult(e)
    BY <1>1, <1>2 DEF BuildResult
  <2>2. /\ e.rows = {} /\ e.job = job /\ e.code # "ok" /\ e.accepted = accepted
        /\ e.effects = SideEffects(tool, result)
    BY DEF Failure
  <2> HIDE DEF o, e
  <2> QED BY <2>1, <2>2, NoRows, ErrorOutcome DEF o
<1>3. CASE cut # OverBudget /\ commit.ok
  <2>1. /\ o.table = commit.table /\ o.shown = Shown(staged, rows, job)
        /\ o.answer = Answered("ok", "none", accepted, job)
    BY <1>1, <1>3 DEF BuildResult
  <2>2. rows \in SUBSET all
    BY <1>3, CutPage
  <2>3. /\ TableOk(commit.table) /\ Cardinality(DOMAIN commit.table.byRef) <= MaxEntries
        /\ SeenOk(commit.table, seen \cup Shown(staged, rows, job))
        /\ Grows(table, commit.table)
    <3> HIDE DEF all, rows
    <3> QED BY <1>3, <2>2, PublishedIsKnown DEF all
  <2>4. RowsOk(rows)
    <3> HIDE DEF all, rows
    <3> QED BY <2>2, FS_Subset DEF RowsOk, all
  <2> HIDE DEF o, commit, staged, rows, all
  <2> QED BY <2>1, <2>3, <2>4, ExecutionShown DEF OutcomeOk, Answered, o
<1> QED BY <1>2, <1>3

-----------------------------------------------------------------------------
(* The calls.                                                              *)

\* Executions: what is sent to the kernel, and what was submitted, is finite.
JobOk(x) ==
  /\ x = [handle |-> x.handle, sent |-> x.sent, done |-> x.done, cancelled |-> x.cancelled,
          submitted |-> x.submitted]
  /\ IsFiniteSet(DOMAIN x.submitted) /\ IsFiniteSet(x.sent)

JobsOk == jobs \in Seq(Range(jobs)) /\ \A j \in DOMAIN jobs : JobOk(jobs[j])

JobsShown == \A s \in seen : NamesExecution(s) => s.means \in DOMAIN jobs

\* What a call asks for: an execution that was shown, or references that
\* still stand for what they stood for when it began; but for the metadata of
\* the notebook, for cells.
OfMetadata(tool, batch) ==
  tool = "notebook_apply" /\ batch[1].op = "set_notebook_metadata"

Known(call, n) ==
  /\ call.batch[n].ref \in DOMAIN table.byRef
  /\ table.byRef[call.batch[n].ref] = call.targets[n]
  /\ call.targets[n].notebook = call.notebook
  /\ ~OfMetadata(call.tool, call.batch) => call.targets[n].what = "cell"

Asked(call) ==
  \/ call.tool \in {"execution_get", "execution_cancel"} /\ call.job \in DOMAIN jobs
  \/ /\ call.tool \in {"notebook_read", "notebook_apply", "notebook_execute"}
     /\ IsFiniteSet(Range(call.targets))
     /\ \A n \in DOMAIN call.batch : Known(call, n)

\* An answer is true of what the call has done.
Told(i) ==
  IF effect[i] = Nothing
  THEN /\ calls[i].effects # "applied"
       /\ calls[i].accepted => calls[i].code # "ok" /\ calls[i].effects = "none"
  ELSE /\ calls[i].accepted
       /\ calls[i].code # "ok" => calls[i].effects = "applied"
       /\ effect[i] # AnEdit =>
            /\ calls[i].job = effect[i]
            /\ \E s \in seen : s.field = "execution_id" /\ s.means = effect[i]

CallOk(i) ==
  /\ effect[i] \in {Nothing, AnEdit} \cup DOMAIN jobs
  /\ \/ calls[i] = Idle /\ effect[i] = Nothing
     \/ calls[i].state = "called" /\ effect[i] = Nothing /\ Asked(calls[i])
     \/ /\ calls[i].state = "waiting" /\ calls[i].tool = "notebook_execute"
        /\ calls[i].job = effect[i] /\ effect[i] \in DOMAIN jobs
     \/ calls[i].state = "answered" /\ Told(i)

CallsOk ==
  /\ DOMAIN calls = Calls /\ effect = [i \in Calls |-> effect[i]]
  /\ \A i \in Calls : CallOk(i)

AdapterInv ==
  /\ Connected
  /\ JobsOk /\ JobsShown /\ CallsOk
  /\ BlameIsDeserved
  /\ handle \in 1..MaxOpens /\ edits \in 0..MaxEdits

\* Executions are numbered from 1.
LEMMA JobNumbers ==
  ASSUME JobsOk
  PROVE  /\ DOMAIN jobs \subseteq Nat \ {0} /\ Len(jobs) \in Nat
         /\ DOMAIN jobs = 1..Len(jobs)
BY DEF JobsOk

\* Steps that answer nothing and ask nothing.
LEMMA QuietStep ==
  ASSUME ConnectionBounds, AdapterInv, UNCHANGED <<table, calls, seen, effect, wrongs>>,
         DOMAIN jobs \subseteq DOMAIN jobs', JobsOk',
         handle' \in 1..MaxOpens, edits' \in 0..MaxEdits
  PROVE  AdapterInv'
<1>1. Connected' /\ BlameIsDeserved' /\ JobsShown'
  BY DEF AdapterInv, Connected, BlameIsDeserved, JobsShown
<1>2. ASSUME NEW i \in Calls
      PROVE  CallOk(i)'
  BY <1>2 DEF AdapterInv, CallsOk, CallOk, Asked, Known, OfMetadata, Told
<1>3. CallsOk'
  BY <1>2 DEF AdapterInv, CallsOk
<1> QED BY <1>1, <1>3 DEF AdapterInv

\* What another call was waiting for is as it was.
LEMMA OthersStay ==
  ASSUME AdapterInv, NEW k \in Calls, calls'[k] = calls[k], effect'[k] = effect[k],
         DOMAIN jobs \subseteq DOMAIN jobs', Grows(table, table'), seen \subseteq seen'
  PROVE  CallOk(k)'
<1>1. CallOk(k)
  BY DEF AdapterInv, CallsOk
<1>2. Asked(calls[k]) => Asked(calls[k])'
  BY DEF Asked, Known, OfMetadata, Grows
<1>3. effect[k] \in {Nothing, AnEdit} \cup DOMAIN jobs'
  BY <1>1 DEF CallOk
<1>4. calls[k].state = "answered" /\ Told(k) => Told(k)'
  BY DEF Told
<1> QED BY <1>1, <1>2, <1>3, <1>4 DEF CallOk, Asked

\* A call is answered: what it is told of its effects is true.
LEMMA AnswerStep ==
  ASSUME ConnectionBounds, AdapterInv, NEW i \in Calls,
         NEW effects, NEW accepted, NEW job \in {0} \cup DOMAIN jobs,
         NEW o, OutcomeOk(o, effects, accepted, job), Answer(i, o),
         DOMAIN jobs' = DOMAIN jobs, JobsOk', NEW x \in {Nothing, AnEdit} \cup DOMAIN jobs,
         effect' = [effect EXCEPT ![i] = x],
         x = Nothing => /\ effects # "applied"
                        /\ accepted => o.answer.code # "ok" /\ effects = "none",
         x # Nothing => accepted /\ effects = "applied",
         x \notin {Nothing, AnEdit} => x = job,
         handle' \in 1..MaxOpens, edits' \in 0..MaxEdits, wrongs' = wrongs
  PROVE  AdapterInv'
<1>1. table' = o.table /\ seen' = seen \cup o.shown /\ calls' = [calls EXCEPT ![i] = o.answer]
  BY DEF Answer
<1>2. Connected' /\ Grows(table, table')
  BY <1>1 DEF OutcomeOk, Connected
<1>3. JobsShown'
  BY <1>1 DEF OutcomeOk, JobsShown, AdapterInv
<1>4. BlameIsDeserved'
  BY DEF AdapterInv, BlameIsDeserved
<1>5. DOMAIN calls = Calls /\ DOMAIN effect = Calls
  BY DEF AdapterInv, CallsOk
<1>6. calls'[i] = o.answer /\ effect'[i] = x
  BY <1>1, <1>5
<1>7. CallOk(i)'
  <2>1. Told(i)'
    <3>1. CASE x = Nothing
      BY <3>1, <1>6 DEF Told, OutcomeOk
    <3>2. CASE x = AnEdit
      BY <3>2, <1>6 DEF Told, OutcomeOk, Nothing, AnEdit
    <3>3. CASE x \notin {Nothing, AnEdit}
      <4>1. x = job /\ job # 0
        BY <3>3 DEF AnEdit
      <4>2. \E s \in o.shown : s.field = "execution_id" /\ s.means = job
        BY <4>1 DEF OutcomeOk, NamesExecution
      <4> QED BY <4>1, <4>2, <3>3, <1>1, <1>6 DEF Told, OutcomeOk
    <3> QED BY <3>1, <3>2, <3>3
  <2>2. calls'[i].state = "answered"
    BY <1>6 DEF OutcomeOk
  <2> QED BY <2>1, <2>2, <1>6 DEF CallOk
<1>8. ASSUME NEW k \in Calls
      PROVE  CallOk(k)'
  <2>1. CASE k = i
    BY <2>1, <1>7
  <2>2. CASE k # i
    <3>1. calls'[k] = calls[k] /\ effect'[k] = effect[k] /\ seen \subseteq seen'
      BY <2>2, <1>1, <1>5
    <3> QED BY <3>1, <1>2, OthersStay
  <2> QED BY <2>1, <2>2
<1>9. CallsOk'
  BY <1>1, <1>5, <1>8 DEF CallsOk
<1> QED BY <1>2, <1>3, <1>4, <1>9 DEF AdapterInv

\* A call goes on, without an answer.
LEMMA CallStep ==
  ASSUME ConnectionBounds, AdapterInv, NEW i \in Calls,
         UNCHANGED <<table, seen, handle, edits, wrongs>>,
         NEW call, calls' = [calls EXCEPT ![i] = call],
         DOMAIN jobs \subseteq DOMAIN jobs', JobsOk',
         NEW x, effect' = [effect EXCEPT ![i] = x], x \in {Nothing} \cup DOMAIN jobs',
         \/ call.state = "called" /\ x = Nothing /\ Asked(call)
         \/ /\ call.state = "waiting" /\ call.tool = "notebook_execute"
            /\ call.job = x /\ x \in DOMAIN jobs'
  PROVE  AdapterInv'
<1>1. Connected' /\ BlameIsDeserved' /\ JobsShown' /\ handle' \in 1..MaxOpens /\ edits' \in 0..MaxEdits
  BY DEF AdapterInv, Connected, BlameIsDeserved, JobsShown
<1>2. DOMAIN calls = Calls /\ DOMAIN effect = Calls
  BY DEF AdapterInv, CallsOk
<1>3. calls'[i] = call /\ effect'[i] = x
  BY <1>2
<1>4. Asked(call) => Asked(call)'
  BY DEF Asked, Known, OfMetadata
<1>5. CallOk(i)'
  BY <1>3, <1>4 DEF CallOk, Asked
<1>6. ASSUME NEW k \in Calls
      PROVE  CallOk(k)'
  <2>1. CASE k = i
    BY <2>1, <1>5
  <2>2. CASE k # i
    <3>1. calls'[k] = calls[k] /\ effect'[k] = effect[k]
      BY <2>2, <1>2
    <3>2. Grows(table, table')
      BY DEF Grows, AliasesStay, AdapterInv, Connected, TableOk, IsTable
    <3> QED BY <3>1, <3>2, OthersStay
  <2> QED BY <2>1, <2>2
<1>7. CallsOk'
  BY <1>2, <1>6 DEF CallsOk
<1> QED BY <1>1, <1>7 DEF AdapterInv

\* An error about a cell is so of the reference it names.
LEMMA BlameStep ==
  ASSUME AdapterInv, NEW i \in Calls, calls[i].state = "called",
         calls[i].tool \in {"notebook_apply", "notebook_execute"},
         NEW n \in DOMAIN calls[i].batch, ~OfMetadata(calls[i].tool, calls[i].batch),
         NEW claim, IsSo(claim, calls[i].batch[n].op, calls[i].targets[n]),
         Blame(i, n, claim)
  PROVE  wrongs' = wrongs
<1> DEFINE refs == {o.ref : o \in Range(calls[i].batch)}
           t == calls[i].targets[n]
           r == calls[i].batch[n].ref
           naming == {q \in refs : /\ q \in DOMAIN table.byRef
                                   /\ table.byRef[q].notebook = calls[i].notebook
                                   /\ table.byRef[q].what = "cell"
                                   /\ table.byRef[q].cell = t.cell}
           ref == SubmittedCellReference(table, refs, calls[i].notebook, t.cell)
<1>1. Asked(calls[i])
  BY DEF AdapterInv, CallsOk, CallOk, Idle, Told
<1>2. /\ r \in DOMAIN table.byRef /\ table.byRef[r] = t
      /\ t.notebook = calls[i].notebook /\ t.what = "cell"
  BY <1>1 DEF Asked, Known
<1>3. r \in naming
  <2>1. r \in refs
    BY DEF Range
  <2> QED BY <1>2, <2>1
<1>4. ref # 0 => ref = r
  <2> SUFFICES ASSUME ref # 0
               PROVE  ref = r
    OBVIOUS
  <2>1. Cardinality(naming) = 1 /\ ref = CHOOSE q \in naming : TRUE
    BY DEF SubmittedCellReference
  <2>2. IsFiniteSet(naming)
    <3>1. naming \subseteq DOMAIN table.byRef
      OBVIOUS
    <3>2. IsFiniteSet(DOMAIN table.byRef)
      <4>1. DOMAIN table.byRef \subseteq 1..table.observed - 1 /\ table.observed \in Nat
        BY DEF AdapterInv, Connected, TableOk, IsTable, Agrees
      <4>2. IsFiniteSet(1..table.observed - 1)
        BY <4>1, FS_Interval
      <4> QED BY <4>1, <4>2, FS_Subset
    <3> HIDE DEF naming
    <3> QED BY <3>1, <3>2, FS_Subset
  <2>3. PICK q : naming = {q}
    <3> HIDE DEF naming
    <3> QED BY <2>1, <2>2, FS_Singleton
  <2> HIDE DEF naming, ref
  <2> QED BY <1>3, <2>1, <2>3
<1>5. ref = 0 \/ (table.byRef[ref] = t /\ IsSo(claim, calls[i].batch[n].op, table.byRef[ref]))
  <2> HIDE DEF ref
  <2> QED BY <1>2, <1>4
<1> HIDE DEF ref
<1>6. wrongs' = wrongs \cup {}
  BY <1>5 DEF Blame, ref
<1> QED BY <1>6

-----------------------------------------------------------------------------
(* Answers of a call that waits.                                           *)

LEMMA FiniteImage ==
  ASSUME NEW S, IsFiniteSet(S), NEW f, DOMAIN f = S
  PROVE  IsFiniteSet(Range(f))
<1> DEFINE g == [x \in S |-> f[x]]
<1>1. g \in Surjection(S, Range(f))
  BY DEF Surjection, Range
<1> QED BY <1>1, FS_Surjection

\* Nothing was done by a call that is refused.
LEMMA RefusedStep ==
  ASSUME ConnectionBounds, AdapterInv, NEW i \in Calls, effect[i] = Nothing,
         NEW code, code # "ok", NEW rows, RowsOk(rows), NEW accepted \in BOOLEAN,
         Refused(i, code, rows, accepted), UNCHANGED <<handle, edits, jobs, effect, wrongs>>
  PROVE  AdapterInv'
<1> DEFINE e == Failure(code, "none", rows, accepted, 0)
           o == ErrorResult(e)
<1>1. e.rows = rows /\ e.job = 0 /\ e.code = code /\ e.effects = "none" /\ e.accepted = accepted
  BY DEF Failure
<1>2. OutcomeOk(o, "none", accepted, 0) /\ o.answer.code # "ok" /\ Answer(i, o)
  <2>1. Answer(i, ErrorResult(e))
    BY DEF Refused
  <2> HIDE DEF e
  <2>2. OutcomeOk(ErrorResult(e), e.effects, e.accepted, e.job) /\ ErrorResult(e).answer.code # "ok"
    BY <1>1, ErrorOutcome DEF AdapterInv
  <2> QED BY <2>1, <2>2, <1>1
<1>3. effect' = [effect EXCEPT ![i] = Nothing]
  BY DEF AdapterInv, CallsOk
<1>4. JobsOk' /\ handle' \in 1..MaxOpens /\ edits' \in 0..MaxEdits
  BY DEF AdapterInv, JobsOk
<1> HIDE DEF e, o
<1>5. /\ 0 \in {0} \cup DOMAIN jobs /\ DOMAIN jobs' = DOMAIN jobs /\ wrongs' = wrongs
      /\ Nothing \in {Nothing, AnEdit} \cup DOMAIN jobs
  OBVIOUS
<1>6. CASE accepted
  <2>1. OutcomeOk(o, "none", TRUE, 0)
    BY <1>2, <1>6
  <2>2. Nothing = Nothing => /\ "none" # "applied"
                             /\ TRUE => o.answer.code # "ok" /\ "none" = "none"
    BY <1>2
  <2>3. /\ Nothing # Nothing => TRUE /\ "none" = "applied"
        /\ Nothing \notin {Nothing, AnEdit} => Nothing = 0
    OBVIOUS
  <2> QED BY ONLY <1>2, <1>3, <1>4, <1>5, <2>1, <2>2, <2>3, AnswerStep, ConnectionBounds,
                  AdapterInv, i \in Calls
<1>7. CASE ~accepted
  <2>1. OutcomeOk(o, "none", FALSE, 0)
    BY <1>2, <1>7
  <2> QED BY <1>2, <1>3, <1>4, <1>5, <2>1, AnswerStep
<1> QED BY <1>6, <1>7

LEMMA FailsStep ==
  ASSUME ConnectionBounds, AdapterInv, NEW i \in Calls, effect[i] = Nothing,
         NEW code, code # "ok", NEW rows, RowsOk(rows), Fails(i, code, rows),
         UNCHANGED <<handle, edits, jobs, effect, wrongs>>
  PROVE  AdapterInv'
BY RefusedStep DEF Fails

\* An error about an execution, of a call that is done with it.
LEMMA FailsWithJob ==
  ASSUME ConnectionBounds, AdapterInv, NEW i \in Calls, NEW code, code # "ok",
         NEW effects, NEW accepted \in BOOLEAN, NEW j \in DOMAIN jobs,
         Answer(i, ErrorResult(Failure(code, effects, {}, accepted, j))),
         UNCHANGED <<handle, edits, jobs, effect, wrongs>>,
         \/ effect[i] = Nothing /\ ~accepted /\ effects = "none"
         \/ effect[i] = j /\ accepted /\ effects = "applied"
  PROVE  AdapterInv'
<1> DEFINE e == Failure(code, effects, {}, accepted, j)
<1>1. e.rows = {} /\ e.job = j /\ e.code = code /\ e.effects = effects /\ e.accepted = accepted
  BY DEF Failure
<1>2. j \in Nat \ {0}
  BY JobNumbers DEF AdapterInv
<1>3. OutcomeOk(ErrorResult(e), effects, accepted, j) /\ Answer(i, ErrorResult(e))
  <2>1. Answer(i, ErrorResult(e))
    OBVIOUS
  <2> HIDE DEF e
  <2>2. OutcomeOk(ErrorResult(e), e.effects, e.accepted, e.job)
    BY <1>1, <1>2, NoRows, ErrorOutcome DEF AdapterInv
  <2> QED BY <2>1, <2>2, <1>1
<1>4. effect' = [effect EXCEPT ![i] = effect[i]]
  BY DEF AdapterInv, CallsOk
<1>5. JobsOk' /\ handle' \in 1..MaxOpens /\ edits' \in 0..MaxEdits
  BY DEF AdapterInv, JobsOk
<1> HIDE DEF e
<1>6. effect[i] \in {Nothing, AnEdit} \cup DOMAIN jobs
  BY DEF AdapterInv, CallsOk, CallOk
<1>7. j # Nothing /\ j # AnEdit
  BY <1>2 DEF Nothing, AnEdit
<1> DEFINE o == ErrorResult(e)
<1>8. OutcomeOk(o, effects, accepted, j) /\ Answer(i, o)
  BY <1>3
<1>9. /\ j \in {0} \cup DOMAIN jobs /\ DOMAIN jobs' = DOMAIN jobs /\ wrongs' = wrongs
      /\ JobsOk' /\ handle' \in 1..MaxOpens /\ edits' \in 0..MaxEdits
  BY <1>5
<1> HIDE DEF o
<1>10. CASE effect[i] = Nothing /\ ~accepted /\ effects = "none"
  <2>1. OutcomeOk(o, "none", FALSE, j) /\ effect' = [effect EXCEPT ![i] = Nothing]
    BY <1>4, <1>8, <1>10
  <2>2. "none" # "applied" /\ Nothing \in {Nothing, AnEdit} \cup DOMAIN jobs
    OBVIOUS
  <2> QED BY <1>8, <1>9, <2>1, <2>2, AnswerStep
<1>11. CASE effect[i] = j /\ accepted /\ effects = "applied"
  <2>1. OutcomeOk(o, "applied", TRUE, j) /\ effect' = [effect EXCEPT ![i] = j]
    BY <1>4, <1>8, <1>11
  <2>2. j = Nothing => /\ "applied" # "applied"
                       /\ TRUE => o.answer.code # "ok" /\ "applied" = "none"
    BY <1>7
  <2>3. /\ j # Nothing => TRUE /\ "applied" = "applied"
        /\ j \notin {Nothing, AnEdit} => j = j
        /\ j \in {Nothing, AnEdit} \cup DOMAIN jobs
    OBVIOUS
  <2> QED BY <1>8, <1>9, <2>1, <2>2, <2>3, AnswerStep
<1> QED BY <1>10, <1>11

\* A result, of a call that changes the document, begins an execution or
\* does neither.
LEMMA AnswersStep ==
  ASSUME ConnectionBounds, AdapterInv, NEW i \in Calls, NEW continued,
         NEW page, page \in Seq(Range(page)), NEW rest, RowsOk(Range(page) \cup rest),
         NEW accepted \in BOOLEAN, NEW job \in {0} \cup DOMAIN jobs,
         Answers(i, Result(page, rest, accepted, job), continued),
         DOMAIN jobs' = DOMAIN jobs, JobsOk', NEW x \in {Nothing, AnEdit} \cup DOMAIN jobs,
         effect' = [effect EXCEPT ![i] = x],
         accepted <=> x # Nothing,
         accepted => calls[i].tool \notin ReadOnly,
         x \notin {Nothing, AnEdit} => x = job,
         UNCHANGED <<handle, edits, wrongs>>
  PROVE  AdapterInv'
<1> DEFINE result == Result(page, rest, accepted, job)
           effects == SideEffects(calls[i].tool, result)
<1>1. result.page = page /\ result.accepted = accepted
  BY DEF Result
<1>2. PICK cut \in Cuts(Len(page), continued) :
        Answer(i, BuildResult(calls[i].tool, result, cut))
  BY <1>1 DEF Answers
<1>3. job \in Nat
  BY JobNumbers DEF AdapterInv
<1>4. OutcomeOk(BuildResult(calls[i].tool, result, cut), effects, accepted, job)
  BY <1>3, BuiltOutcome DEF AdapterInv
<1>5. effects = IF accepted THEN "applied" ELSE IF calls[i].tool \in ReadOnly THEN "none" ELSE "unknown"
  <2> HIDE DEF result
  <2> QED BY <1>1 DEF SideEffects
<1>6. handle' \in 1..MaxOpens /\ edits' \in 0..MaxEdits
  BY DEF AdapterInv
<1> HIDE DEF result, effects
<1>7. x = Nothing => ~accepted /\ effects # "applied"
  BY <1>5
<1>8. x # Nothing => accepted /\ effects = "applied"
  BY <1>5
<1> QED BY <1>2, <1>4, <1>6, <1>7, <1>8, AnswerStep

\* The fields of rows.
LEMMA RowIs ==
  ASSUME NEW field, NEW obs
  PROVE  Row(field, obs).field = field /\ Row(field, obs).obs = obs
BY DEF Row

LEMMA OneRow ==
  ASSUME NEW obs, NEW field \in ObservedFields
  PROVE  RowsOk({Row(field, obs)})
<1> DEFINE r == Row(field, obs)
<1>1. r.field = field
  BY RowIs
<1> HIDE DEF r
<1>2. RowsOk({r})
  BY <1>1, FS_Singleton DEF RowsOk
<1> QED BY <1>2 DEF r

\* A row for each of finitely many cells.
LEMMA RowsOfCells ==
  ASSUME NEW S, IsFiniteSet(S), NEW f, DOMAIN f = S,
         \A c \in S : f[c].field \in ObservedFields \cup {"sent_cell_ref"}
  PROVE  RowsOk({f[c] : c \in S})
<1>1. {f[c] : c \in S} = Range(f)
  BY DEF Range
<1>2. IsFiniteSet(Range(f))
  BY FiniteImage
<1> QED BY <1>1, <1>2 DEF RowsOk

LEMMA NoPage ==
  ASSUME NEW rest
  PROVE  <<>> \in Seq(Range(<<>>)) /\ Range(<<>>) \cup rest = rest
<1>1. Range(<<>>) = {}
  BY DEF Range
<1> QED BY <1>1

\* Rows of two kinds.
LEMMA RowsTogether ==
  ASSUME NEW rows, RowsOk(rows), NEW more, RowsOk(more)
  PROVE  RowsOk(rows \cup more)
BY FS_Union DEF RowsOk

-----------------------------------------------------------------------------
(* The steps.                                                              *)

LEMMA InitAdapter ==
  ASSUME ConnectionBounds, Init
  PROVE  AdapterInv
<1> DEFINE none == [k \in AliasKinds |-> <<>>]
<1>1. table = [alias |-> none, byRef |-> <<>>, byValue |-> <<>>, observed |-> 1]
  BY DEF Init, EmptyTable
<1>2. none \in [AliasKinds -> Seq(Entries)]
  OBVIOUS
<1> HIDE DEF none
<1>3. IsTable(table) /\ table.byRef = <<>> /\ table.byValue = <<>>
  BY <1>1, <1>2 DEF IsTable
<1>4. DOMAIN table.byRef = {} /\ DOMAIN table.byValue = {}
  BY <1>3
<1>5. TableOk(table)
  BY <1>3, <1>4 DEF TableOk, Agrees
<1>6. Cardinality(DOMAIN table.byRef) <= MaxEntries
  BY <1>4, FS_EmptySet DEF ConnectionBounds
<1>7. SeenOk(table, seen) /\ JobsShown
  BY <1>4 DEF Init, SeenOk, JobsShown
<1>8. JobsOk
  BY DEF Init, JobsOk
<1>9. CallsOk
  BY DEF Init, CallsOk, CallOk
<1>10. BlameIsDeserved /\ handle \in 1..MaxOpens /\ edits \in 0..MaxEdits
  BY DEF Init, BlameIsDeserved, ConnectionBounds
<1> QED BY <1>5, <1>6, <1>7, <1>8, <1>9, <1>10 DEF AdapterInv, Connected

LEMMA IdleIsUndone ==
  ASSUME AdapterInv, NEW i \in Calls, calls[i] = Idle \/ calls[i].state = "called"
  PROVE  /\ effect[i] = Nothing /\ effect = [effect EXCEPT ![i] = Nothing]
         /\ calls[i].state = "called" => Asked(calls[i])
BY DEF AdapterInv, CallsOk, CallOk, Idle

LEMMA BeginStep ==
  ASSUME ConnectionBounds, AdapterInv, NEW i \in Calls,
         NEW tool \in {"notebook_read", "notebook_apply", "notebook_execute"},
         NEW what, NEW batch, IsFiniteSet(DOMAIN batch), NEW notebook,
         what = "cell" \/ OfMetadata(tool, batch),
         Begin(i, tool, what, batch, notebook)
  PROVE  AdapterInv'
<1> DEFINE targets == [n \in DOMAIN batch |-> Observed(table, what, batch[n].ref, notebook)]
           call == [state |-> "called", tool |-> tool, batch |-> batch,
                    targets |-> targets, notebook |-> notebook]
<1>1. calls[i] = Idle /\ UNCHANGED <<handle, edits, jobs, effect, wrongs>>
  BY DEF Begin, IsNext
<1>2. effect[i] = Nothing /\ effect' = [effect EXCEPT ![i] = Nothing]
  BY <1>1, IdleIsUndone
<1>3. CASE Expired \in Range(targets)
  <2>1. Fails(i, "HANDLE_EXPIRED", {})
    BY <1>3 DEF Begin
  <2> QED BY <1>1, <1>2, <2>1, NoRows, FailsStep
<1>4. CASE Expired \notin Range(targets)
  <2>1. calls' = [calls EXCEPT ![i] = call] /\ UNCHANGED <<table, seen>>
    BY <1>4 DEF Begin
  <2>2. IsFiniteSet(Range(targets))
    <3>1. DOMAIN targets = DOMAIN batch
      OBVIOUS
    <3> HIDE DEF targets
    <3> QED BY <3>1, FiniteImage
  <2>3. ASSUME NEW n \in DOMAIN batch
        PROVE  /\ batch[n].ref \in DOMAIN table.byRef
               /\ table.byRef[batch[n].ref] = targets[n]
               /\ targets[n].notebook = notebook
               /\ ~OfMetadata(tool, batch) => targets[n].what = "cell"
    <3>1. targets[n] = Observed(table, what, batch[n].ref, notebook)
      OBVIOUS
    <3>2. targets[n] # Expired
      BY <1>4 DEF Range
    <3> HIDE DEF targets
    <3> QED BY <3>1, <3>2 DEF Observed
  <2> HIDE DEF targets
  <2>4. /\ call.state = "called" /\ call.tool = tool /\ call.batch = batch
        /\ call.targets = targets /\ call.notebook = notebook
    OBVIOUS
  <2> HIDE DEF call
  <2>5. Asked(call)
    BY <2>2, <2>3, <2>4 DEF Asked, Known
  <2>6. JobsOk' /\ DOMAIN jobs \subseteq DOMAIN jobs'
    BY <1>1 DEF AdapterInv, JobsOk
  <2> QED BY <1>1, <1>2, <2>1, <2>4, <2>5, <2>6, CallStep
<1> QED BY <1>3, <1>4

LEMMA AskStep ==
  ASSUME ConnectionBounds, AdapterInv, NEW i \in Calls,
         Read(i) \/ Apply(i) \/ Execute(i) \/ AskExecution(i)
  PROVE  AdapterInv'
<1>1. ASSUME NEW ops, NEW size \in Nat, NEW batch \in Batches(ops, size)
      PROVE  IsFiniteSet(DOMAIN batch)
  <2> PICK n \in 1..size : batch \in [1..n -> ops]
    BY DEF Batches
  <2>1. IsFiniteSet(1..n)
    BY FS_Interval
  <2> QED BY <2>1
<1>2. CASE Read(i)
  <2>1. DOMAIN <<>> = {}
    OBVIOUS
  <2> QED BY <1>2, <2>1, BeginStep, FS_EmptySet DEF Read
<1>3. CASE Apply(i)
  <2>1. PICK notebook \in 1..handle : ApplyCells(i, notebook) \/ ApplyMetadata(i, notebook)
    BY <1>3 DEF Apply
  <2>2. CASE ApplyCells(i, notebook)
    <3> DEFINE ops == {Operation(op, ref) : op \in Ops, ref \in KnownCells}
    <3>1. PICK batch \in Batches(ops, BatchBound(i)) :
            Begin(i, "notebook_apply", "cell", batch, notebook)
      BY <2>2 DEF ApplyCells
    <3>2. BatchBound(i) \in Nat
      BY DEF BatchBound, ConnectionBounds
    <3>3. IsFiniteSet(DOMAIN batch)
      <4> HIDE DEF ops
      <4> QED BY <1>1, <3>1, <3>2
    <3> QED BY <3>1, <3>3, BeginStep
  <2>3. CASE ApplyMetadata(i, notebook)
    <3> DEFINE one(ref) == <<Operation("set_notebook_metadata", ref)>>
    <3>1. PICK ref \in KnownBooks :
            Begin(i, "notebook_apply", "notebook", one(ref), notebook)
      BY <2>3 DEF ApplyMetadata
    <3>2. DOMAIN one(ref) = {1} /\ one(ref)[1].op = "set_notebook_metadata"
      BY DEF Operation
    <3> HIDE DEF one
    <3>3. IsFiniteSet(DOMAIN one(ref)) /\ OfMetadata("notebook_apply", one(ref))
      BY <3>2, FS_Singleton DEF OfMetadata
    <3>4. ASSUME NEW batch, IsFiniteSet(DOMAIN batch), OfMetadata("notebook_apply", batch),
                 Begin(i, "notebook_apply", "notebook", batch, notebook)
          PROVE  AdapterInv'
      BY <3>4, BeginStep
    <3> QED BY <3>1, <3>3, <3>4
  <2> QED BY <2>1, <2>2, <2>3
<1>4. CASE Execute(i)
  <2>1. PICK batch \in Batches({Operation("execute", ref) : ref \in KnownCells}, MaxBatch) :
          Begin(i, "notebook_execute", "cell", batch, handle)
    BY <1>4 DEF Execute
  <2>2. IsFiniteSet(DOMAIN batch)
    BY <1>1 DEF ConnectionBounds
  <2> QED BY <2>1, <2>2, BeginStep
<1>5. CASE AskExecution(i)
  <2> DEFINE job(alias) == Resolve(table, "execution", alias, "none")
             call(alias, tool) == [state |-> "called", tool |-> tool, job |-> job(alias)]
  <2>1. PICK alias \in KnownJobs, tool \in {"execution_get", "execution_cancel"} :
          /\ IsNext(i) /\ calls' = [calls EXCEPT ![i] = call(alias, tool)]
          /\ UNCHANGED <<table, handle, doc, metadata, edits, jobs, seen, effect, wrongs>>
    BY <1>5 DEF AskExecution
  <2>2. PICK s \in seen : NamesExecution(s) /\ s.ref = alias
    BY DEF KnownJobs, NamesExecution
  <2>3. AliasOk(table, s) /\ s.means \in DOMAIN jobs
    BY <2>2 DEF AdapterInv, Connected, SeenOk, JobsShown
  <2>4. job(alias) = s.means
    <3>1. table.alias["execution"] \in Seq(Entries) /\ alias \in DOMAIN table.alias["execution"]
      BY <2>2, <2>3 DEF AliasOk, AdapterInv, Connected, TableOk, IsTable, ConnectionBounds
    <3>2. table.alias["execution"][alias] \in Entries
      BY <3>1
    <3>3. table.alias["execution"][alias].owner = "none"
      BY <3>2 DEF Entries
    <3> QED BY <2>2, <2>3, <3>1, <3>3 DEF Resolve, AliasOk
  <2>5. Asked(call(alias, tool)) /\ call(alias, tool).state = "called"
    BY <2>3, <2>4 DEF Asked
  <2>6. effect' = [effect EXCEPT ![i] = Nothing]
    BY <2>1, IdleIsUndone DEF IsNext
  <2>7. JobsOk' /\ DOMAIN jobs \subseteq DOMAIN jobs'
    BY <2>1 DEF AdapterInv, JobsOk
  <2> HIDE DEF call
  <2> QED BY <2>1, <2>5, <2>6, <2>7, CallStep
<1> QED BY <1>2, <1>3, <1>4, <1>5

\* Nothing about executions changes.
LEMMA JobsStay ==
  ASSUME AdapterInv, UNCHANGED jobs
  PROVE  JobsOk' /\ DOMAIN jobs' = DOMAIN jobs
BY DEF AdapterInv, JobsOk

\* The page of a read: a row for each cell there is.
LEMMA PageOfCells ==
  ASSUME ConnectionBounds, NEW page, page = Page
  PROVE  page \in Seq(Range(page)) /\ RowsOk(Range(page))
<1> DEFINE cells == {c \in Cells : Live(c)}
           order == SetToSeq(cells)
           size == Cardinality(cells)
<1>1. order \in [1..size -> cells] /\ size \in Nat
  <2>1. IsFiniteSet(cells)
    BY FS_Subset DEF ConnectionBounds
  <2> HIDE DEF cells
  <2>2. size \in Nat /\ Bijection(1..size, cells) # {}
    BY <2>1, FS_CardinalityType DEF ExistsBijection
  <2>3. \E f \in [1..size -> cells] : IsInjective(f)
    BY <2>2 DEF Bijection, Injection
  <2> QED BY <2>2, <2>3 DEF SetToSeq
<1>2. page = [n \in DOMAIN order |-> Row("cell_ref", CellObservation(order[n]))]
  BY DEF Page
<1> HIDE DEF cells, order, size
<1>3. DOMAIN order = 1..size /\ DOMAIN page = 1..size
  BY <1>1, <1>2
<1>4. \A n \in DOMAIN page : page[n].field = "cell_ref"
  <2> TAKE n \in DOMAIN page
  <2>1. page[n] = Row("cell_ref", CellObservation(order[n]))
    BY <1>2
  <2> QED BY <2>1, RowIs
<1>5. IsFiniteSet(1..size)
  BY <1>1, FS_Interval
<1>6. IsFiniteSet(Range(page))
  BY <1>3, <1>5, FiniteImage
<1>7. page \in [1..size -> Range(page)]
  BY <1>2, <1>3 DEF Range
<1>8. RowsOk(Range(page))
  BY <1>4, <1>6 DEF RowsOk, Range, ObservedFields
<1> QED BY <1>1, <1>7, <1>8

LEMMA ReadStep ==
  ASSUME ConnectionBounds, AdapterInv, NEW i \in Calls, ServeRead(i)
  PROVE  AdapterInv'
<1> DEFINE page == Page
           rest == {Row("notebook_ref", NotebookObservation)}
<1>1. /\ calls[i].state = "called" /\ calls[i].tool = "notebook_read"
      /\ UNCHANGED <<handle, edits, jobs, effect, wrongs>>
  BY DEF ServeRead, Waiting
<1>2. effect[i] = Nothing /\ effect' = [effect EXCEPT ![i] = Nothing]
  BY <1>1, IdleIsUndone
<1>3. CASE Gone(i)
  <2>1. Fails(i, "HANDLE_EXPIRED", {})
    BY <1>3 DEF ServeRead
  <2> QED BY <1>1, <1>2, <2>1, NoRows, FailsStep
<1>4. CASE ~Gone(i)
  <2>1. PICK continued \in BOOLEAN : Answers(i, Result(page, rest, FALSE, 0), continued)
    BY <1>4 DEF ServeRead
  <2>2. page \in Seq(Range(page)) /\ RowsOk(Range(page)) /\ RowsOk(rest)
    <3>1. RowsOk(rest)
      BY OneRow DEF ObservedFields
    <3> HIDE DEF rest
    <3> QED BY <3>1, PageOfCells
  <2> HIDE DEF page, rest
  <2>3. RowsOk(Range(page) \cup rest)
    BY <2>2, RowsTogether
  <2> QED BY <1>1, <1>2, <2>1, <2>2, <2>3, JobsStay, AnswersStep
<1> QED BY <1>3, <1>4

\* A batch is refused for one of its operations.
LEMMA RefuseStep ==
  ASSUME ConnectionBounds, AdapterInv, NEW i \in Calls, calls[i].state = "called",
         calls[i].tool \in {"notebook_apply", "notebook_execute"},
         ~OfMetadata(calls[i].tool, calls[i].batch), Refuse(i),
         UNCHANGED <<handle, edits, jobs, effect>>
  PROVE  AdapterInv'
<1> DEFINE op(n) == calls[i].batch[n].op
           t(n) == calls[i].targets[n]
<1>1. effect[i] = Nothing
  BY IdleIsUndone
<1>2. PICK n \in DOMAIN calls[i].batch :
        RefuseMissing(i, n) \/ RefuseType(i, n) \/ RefuseStale(i, n) \/ RefuseOverlap(i, n)
  BY DEF Refuse
<1>3. RowsOk({CurrentRow(t(n))})
  BY OneRow DEF CurrentRow, ObservedFields
<1>4. CASE RefuseMissing(i, n)
  <2>1. PICK code \in {"CELL_REPLACED", "CELL_NOT_FOUND"} : Fails(i, code, {})
    BY <1>4 DEF RefuseMissing
  <2>2. wrongs' = wrongs
    <3>1. CASE After(calls[i], n, {"delete_cell"})
      BY <1>4, <3>1 DEF RefuseMissing
    <3>2. CASE ~After(calls[i], n, {"delete_cell"})
      <4>1. Replaced(t(n)) /\ Blame(i, n, "no live cell")
        BY <1>4, <3>2 DEF RefuseMissing, Finds
      <4>2. IsSo("no live cell", op(n), t(n))
        BY <4>1 DEF IsSo
      <4> QED BY <4>1, <4>2, BlameStep
    <3> QED BY <3>1, <3>2
  <2> QED BY <1>1, <2>1, <2>2, NoRows, FailsStep
<1>5. CASE RefuseType(i, n)
  <2>1. Fails(i, "INVALID_ARGUMENT", {})
    BY <1>5 DEF RefuseType
  <2>2. wrongs' = wrongs
    <3>1. IsSo("not a code cell", op(n), t(n))
      BY <1>5 DEF RefuseType, Finds, Fits, IsSo
    <3>2. wrongs' = wrongs \/ Blame(i, n, "not a code cell")
      BY <1>5 DEF RefuseType
    <3> QED BY <3>1, <3>2, BlameStep
  <2> QED BY <1>1, <2>1, <2>2, NoRows, FailsStep
<1>6. CASE RefuseStale(i, n)
  <2>1. /\ Stale(op(n), t(n)) /\ Blame(i, n, "changed")
        /\ \E accepted \in {FALSE, op(n) = "replace_source"} :
             Refused(i, "REVISION_CONFLICT", {CurrentRow(t(n))}, accepted)
    BY <1>6 DEF RefuseStale
  <2>2. IsSo("changed", op(n), t(n))
    BY <2>1 DEF IsSo
  <2>3. wrongs' = wrongs
    BY <2>1, <2>2, BlameStep
  <2>4. PICK accepted \in BOOLEAN : Refused(i, "REVISION_CONFLICT", {CurrentRow(t(n))}, accepted)
    BY <2>1
  <2> QED BY <1>1, <1>3, <2>3, <2>4, RefusedStep
<1>7. CASE RefuseOverlap(i, n)
  <2>1. Fails(i, "REVISION_CONFLICT", {CurrentRow(t(n))}) /\ Blame(i, n, "overlaps")
    BY <1>7 DEF RefuseOverlap
  <2>2. IsSo("overlaps", op(n), t(n))
    BY DEF IsSo
  <2>3. wrongs' = wrongs
    BY <2>1, <2>2, BlameStep
  <2> QED BY <1>1, <1>3, <2>1, <2>3, FailsStep
<1> QED BY <1>2, <1>4, <1>5, <1>6, <1>7

\* The cells of the targets of a call are finitely many.
LEMMA FiniteCells ==
  ASSUME NEW call, IsFiniteSet(Range(call.targets))
  PROVE  IsFiniteSet(CellsOf(call))
<1> DEFINE f == [t \in Range(call.targets) |-> t.cell]
<1>1. Range(f) = CellsOf(call) /\ DOMAIN f = Range(call.targets)
  BY DEF Range, CellsOf
<1> HIDE DEF f
<1> QED BY <1>1, FiniteImage

\* An edit was applied: its answer says so, or tells of it with an error.
LEMMA AppliedStep ==
  ASSUME ConnectionBounds, AdapterInv, NEW i \in Calls, calls[i].tool = "notebook_apply",
         NEW rows, RowsOk(rows), Answers(i, Result(<<>>, rows, TRUE, 0), FALSE),
         effect' = [effect EXCEPT ![i] = AnEdit], UNCHANGED <<handle, edits, jobs, wrongs>>
  PROVE  AdapterInv'
<1>1. <<>> \in Seq(Range(<<>>)) /\ RowsOk(Range(<<>>) \cup rows)
  BY NoPage
<1>2. calls[i].tool \notin ReadOnly /\ AnEdit # Nothing
  BY DEF ReadOnly, AnEdit, Nothing
<1>3. JobsOk' /\ DOMAIN jobs' = DOMAIN jobs
  BY JobsStay
<1> QED BY <1>1, <1>2, <1>3, AnswersStep

LEMMA EditedRowsOk ==
  ASSUME NEW call, IsFiniteSet(Range(call.targets))
  PROVE  RowsOk(EditedRows(call))
<1> DEFINE obs(c) == [CellObservation(c) EXCEPT !.source  = Edited(call)[c].source,
                                                !.outputs = Edited(call)[c].outputs]
           left == {c \in CellsOf(call) : Edited(call)[c].token # NoCell}
           f == [c \in left |-> Row("cell_ref", obs(c))]
<1>1. EditedRows(call) = {f[c] : c \in left}
  BY DEF EditedRows
<1>2. IsFiniteSet(left)
  BY FiniteCells, FS_Subset
<1>3. DOMAIN f = left
  OBVIOUS
<1>4. \A c \in left : f[c].field = "cell_ref"
  <2> HIDE DEF obs, left
  <2> QED BY RowIs
<1> HIDE DEF f, left
<1> QED BY <1>1, <1>2, <1>3, <1>4, RowsOfCells DEF ObservedFields

LEMMA ApplyStep ==
  ASSUME ConnectionBounds, AdapterInv, NEW i \in Calls, ServeApply(i)
  PROVE  AdapterInv'
<1> DEFINE call == calls[i]
           book == call.batch[1].op = "set_notebook_metadata"
           now == {Row("notebook_ref", NotebookObservation)}
           next == {Row("notebook_ref", [NotebookObservation EXCEPT !.metadata = metadata + 1])}
<1>1. /\ calls[i].state = "called" /\ calls[i].tool = "notebook_apply"
      /\ UNCHANGED <<handle, edits, jobs>>
  BY DEF ServeApply, Waiting
<1>2. effect[i] = Nothing /\ Asked(call)
  BY <1>1, IdleIsUndone
<1>3. RowsOk(EditedRows(call)) /\ RowsOk(now) /\ RowsOk(next)
  BY <1>1, <1>2, EditedRowsOk, OneRow DEF Asked, ObservedFields
<1>4. \/ Fails(i, "HANDLE_EXPIRED", {}) /\ UNCHANGED <<effect, wrongs>>
      \/ Fails(i, "REVISION_CONFLICT", now) /\ UNCHANGED <<effect, wrongs>>
      \/ ~book /\ Refuse(i) /\ UNCHANGED effect
      \/ /\ \E rows \in {next, EditedRows(call)} :
              Answers(i, Result(<<>>, rows, TRUE, 0), FALSE)
         /\ effect' = [effect EXCEPT ![i] = AnEdit] /\ wrongs' = wrongs
  BY DEF ServeApply
<1>5. CASE Fails(i, "HANDLE_EXPIRED", {}) /\ UNCHANGED <<effect, wrongs>>
  BY <1>1, <1>2, <1>5, NoRows, FailsStep
<1>6. CASE Fails(i, "REVISION_CONFLICT", now) /\ UNCHANGED <<effect, wrongs>>
  <2> HIDE DEF now
  <2> QED BY <1>1, <1>2, <1>3, <1>6, FailsStep
<1>7. CASE ~book /\ Refuse(i) /\ UNCHANGED effect
  BY <1>1, <1>7, RefuseStep DEF OfMetadata
<1>8. CASE /\ \E rows \in {next, EditedRows(call)} :
                Answers(i, Result(<<>>, rows, TRUE, 0), FALSE)
           /\ effect' = [effect EXCEPT ![i] = AnEdit] /\ wrongs' = wrongs
  <2> HIDE DEF next
  <2> QED BY <1>1, <1>3, <1>8, AppliedStep
<1> QED BY <1>4, <1>5, <1>6, <1>7, <1>8

\* The rows of the view of an execution.
LEMMA ViewRows ==
  ASSUME AdapterInv, NEW j \in DOMAIN jobs
  PROVE  RowsOk(ExecutionView(j))
<1> DEFINE job == jobs[j]
           same == {c \in DOMAIN job.submitted : doc[c].token = job.submitted[c].token}
           f == [c \in job.sent |-> Row("sent_cell_ref", job.submitted[c])]
           g == [c \in same |-> Row("cell_ref", CellObservation(c))]
<1>1. IsFiniteSet(job.sent) /\ IsFiniteSet(same)
  <2>1. IsFiniteSet(job.sent) /\ IsFiniteSet(DOMAIN job.submitted)
    BY DEF AdapterInv, JobsOk, JobOk
  <2> QED BY <2>1, FS_Subset
<1>2. \A c \in job.sent : f[c].field = "sent_cell_ref"
  BY RowIs
<1>3. \A c \in same : g[c].field = "cell_ref"
  BY RowIs
<1>4. ExecutionView(j) = {f[c] : c \in job.sent} \cup {g[c] : c \in same}
  BY DEF ExecutionView
<1>5. DOMAIN f = job.sent /\ DOMAIN g = same
  OBVIOUS
<1> HIDE DEF f, g, same, job
<1>6. RowsOk({f[c] : c \in job.sent})
  BY <1>1, <1>2, <1>5, RowsOfCells
<1>7. RowsOk({g[c] : c \in same})
  BY <1>1, <1>3, <1>5, RowsOfCells DEF ObservedFields
<1> QED BY <1>4, <1>6, <1>7, RowsTogether

\* A call that asks for an execution begins nothing.
LEMMA ViewedStep ==
  ASSUME ConnectionBounds, AdapterInv, NEW i \in Calls, effect[i] = Nothing,
         NEW j \in DOMAIN jobs, NEW rows, RowsOk(rows),
         Answers(i, Result(<<>>, rows, FALSE, j), FALSE),
         JobsOk', DOMAIN jobs' = DOMAIN jobs, UNCHANGED <<handle, edits, effect, wrongs>>
  PROVE  AdapterInv'
<1>1. <<>> \in Seq(Range(<<>>)) /\ RowsOk(Range(<<>>) \cup rows)
  BY NoPage
<1>2. effect' = [effect EXCEPT ![i] = Nothing]
  BY DEF AdapterInv, CallsOk
<1> QED BY <1>1, <1>2, AnswersStep

LEMMA GetStep ==
  ASSUME ConnectionBounds, AdapterInv, NEW i \in Calls, ServeGet(i)
  PROVE  AdapterInv'
<1> DEFINE j == calls[i].job
<1>1. /\ calls[i].state = "called" /\ calls[i].tool = "execution_get"
      /\ UNCHANGED <<handle, edits, jobs, effect, wrongs>>
  BY DEF ServeGet, Waiting
<1>2. effect[i] = Nothing /\ j \in DOMAIN jobs
  BY <1>1, IdleIsUndone DEF Asked
<1>3. CASE Answer(i, ErrorResult(Failure("HANDLE_EXPIRED", "none", {}, FALSE, j)))
  BY <1>1, <1>2, <1>3, FailsWithJob
<1>4. CASE Answers(i, Result(<<>>, ExecutionView(j), FALSE, j), FALSE)
  BY <1>1, <1>2, <1>4, ViewRows, JobsStay, ViewedStep
<1> QED BY <1>3, <1>4 DEF ServeGet

LEMMA ViewStep ==
  ASSUME ConnectionBounds, AdapterInv, NEW i \in Calls, ViewExecution(i)
  PROVE  AdapterInv'
<1> DEFINE j == calls[i].job
           rows == ExecutionView(j)
<1>1. calls[i].state = "waiting" /\ UNCHANGED <<handle, edits, jobs, effect, wrongs>>
  BY DEF ViewExecution
<1>2. j = effect[i] /\ j \in DOMAIN jobs /\ calls[i].tool = "notebook_execute"
  BY <1>1 DEF AdapterInv, CallsOk, CallOk, Idle
<1>3. effect' = [effect EXCEPT ![i] = j]
  BY <1>1, <1>2 DEF AdapterInv, CallsOk
<1>4. CASE Answer(i, ErrorResult(Failure("HANDLE_EXPIRED", "applied", {}, TRUE, j)))
  BY <1>1, <1>2, <1>4, FailsWithJob
<1>5. CASE Answers(i, Result(<<>>, rows, TRUE, j), FALSE)
  <2>1. RowsOk(rows)
    BY <1>2, ViewRows
  <2>2. <<>> \in Seq(Range(<<>>)) /\ RowsOk(Range(<<>>) \cup rows)
    BY <2>1, NoPage
  <2>3. j # Nothing /\ calls[i].tool \notin ReadOnly
    BY <1>2, JobNumbers DEF AdapterInv, Nothing, ReadOnly
  <2>4. JobsOk' /\ DOMAIN jobs' = DOMAIN jobs
    BY <1>1, JobsStay
  <2>5. j \in {0} \cup DOMAIN jobs /\ j \in {Nothing, AnEdit} \cup DOMAIN jobs
    BY <1>2
  <2>6. TRUE \in BOOLEAN /\ (TRUE <=> j # Nothing)
    BY <2>3
  <2> HIDE DEF rows, j
  <2> QED BY <1>1, <1>3, <1>5, <2>2, <2>3, <2>4, <2>5, <2>6, AnswersStep
<1> QED BY <1>4, <1>5 DEF ViewExecution

\* Executions with one more: the others are as they were.
LEMMA JobsGrow ==
  ASSUME JobsOk, NEW x, JobOk(x), jobs' = Append(jobs, x)
  PROVE  /\ JobsOk' /\ DOMAIN jobs \subseteq DOMAIN jobs'
         /\ Len(jobs) + 1 \in DOMAIN jobs'
<1> DEFINE all == Range(jobs) \cup {x}
<1>1. jobs \in Seq(all)
  BY DEF JobsOk
<1>2. jobs' \in Seq(all) /\ Len(jobs') = Len(jobs) + 1 /\ Len(jobs) \in Nat
  BY <1>1
<1>3. /\ DOMAIN jobs = 1..Len(jobs) /\ DOMAIN jobs' = 1..Len(jobs) + 1
      /\ jobs'[Len(jobs) + 1] = x /\ \A j \in DOMAIN jobs : jobs'[j] = jobs[j]
  BY <1>1
<1>4. jobs' \in Seq(Range(jobs'))
  <2> HIDE DEF all
  <2> QED BY <1>2, SeqOfRange
<1>5. \A j \in DOMAIN jobs' : JobOk(jobs'[j])
  BY <1>2, <1>3 DEF JobsOk
<1> QED BY <1>2, <1>3, <1>4, <1>5 DEF JobsOk

\* Executions of which some go on.
LEMMA JobsGoOn ==
  ASSUME JobsOk, DOMAIN jobs' = DOMAIN jobs, jobs' = [j \in DOMAIN jobs |-> jobs'[j]],
         \A j \in DOMAIN jobs : JobOk(jobs'[j])
  PROVE  JobsOk'
<1>1. DOMAIN jobs = 1..Len(jobs) /\ Len(jobs) \in Nat
  BY DEF JobsOk
<1>2. jobs' \in [1..Len(jobs) -> Range(jobs')]
  BY <1>1 DEF Range
<1>3. jobs' \in Seq(Range(jobs'))
  BY <1>1, <1>2
<1> QED BY <1>3 DEF JobsOk

LEMMA ExecuteStep ==
  ASSUME ConnectionBounds, AdapterInv, NEW i \in Calls, ServeExecute(i)
  PROVE  AdapterInv'
<1> DEFINE call == calls[i]
           job == [handle |-> handle, sent |-> {}, done |-> FALSE, cancelled |-> FALSE,
                   submitted |-> [c \in CellsOf(call) |-> CellObservation(c)]]
           next == [state |-> "waiting", tool |-> call.tool, job |-> Len(jobs) + 1]
<1>1. /\ calls[i].state = "called" /\ calls[i].tool = "notebook_execute"
      /\ UNCHANGED <<handle, edits>>
  BY DEF ServeExecute, Waiting
<1>2. effect[i] = Nothing /\ Asked(call) /\ effect = [effect EXCEPT ![i] = Nothing]
  BY <1>1, IdleIsUndone
<1>3. \/ Fails(i, "HANDLE_EXPIRED", {}) /\ UNCHANGED <<jobs, effect, wrongs>>
      \/ Refuse(i) /\ UNCHANGED <<jobs, effect>>
      \/ /\ \E j \in Active :
              Answer(i, ErrorResult(Failure("EXECUTION_ACTIVE", "none", {}, FALSE, j)))
         /\ UNCHANGED <<jobs, effect, wrongs>>
      \/ /\ jobs' = Append(jobs, job) /\ calls' = [calls EXCEPT ![i] = next]
         /\ effect' = [effect EXCEPT ![i] = Len(jobs) + 1]
         /\ UNCHANGED <<table, seen, wrongs>>
  BY DEF ServeExecute
<1>4. CASE Fails(i, "HANDLE_EXPIRED", {}) /\ UNCHANGED <<jobs, effect, wrongs>>
  BY <1>1, <1>2, <1>4, NoRows, FailsStep
<1>5. CASE Refuse(i) /\ UNCHANGED <<jobs, effect>>
  BY <1>1, <1>5, RefuseStep DEF OfMetadata
<1>6. CASE /\ \E j \in Active :
                 Answer(i, ErrorResult(Failure("EXECUTION_ACTIVE", "none", {}, FALSE, j)))
           /\ UNCHANGED <<jobs, effect, wrongs>>
  <2> PICK j \in Active :
         Answer(i, ErrorResult(Failure("EXECUTION_ACTIVE", "none", {}, FALSE, j)))
    BY <1>6
  <2>1. j \in DOMAIN jobs
    BY DEF Active
  <2> QED BY <1>1, <1>2, <1>6, <2>1, FailsWithJob
<1>7. CASE /\ jobs' = Append(jobs, job) /\ calls' = [calls EXCEPT ![i] = next]
           /\ effect' = [effect EXCEPT ![i] = Len(jobs) + 1]
           /\ UNCHANGED <<table, seen, wrongs>>
  <2>1. JobOk(job)
    <3>1. IsFiniteSet(CellsOf(call)) /\ IsFiniteSet({})
      BY <1>1, <1>2, FiniteCells, FS_EmptySet DEF Asked
    <3>2. job.sent = {} /\ DOMAIN job.submitted = CellsOf(call)
      OBVIOUS
    <3>3. job = [handle |-> job.handle, sent |-> job.sent, done |-> job.done,
                 cancelled |-> job.cancelled, submitted |-> job.submitted]
      OBVIOUS
    <3> HIDE DEF job
    <3> QED BY <3>1, <3>2, <3>3 DEF JobOk
  <2> HIDE DEF job
  <2>2. /\ JobsOk' /\ DOMAIN jobs \subseteq DOMAIN jobs'
        /\ Len(jobs) + 1 \in DOMAIN jobs'
    BY <1>7, <2>1, JobsGrow DEF AdapterInv
  <2>3. next.state = "waiting" /\ next.tool = "notebook_execute" /\ next.job = Len(jobs) + 1
    BY <1>1
  <2> DEFINE x == Len(jobs) + 1
  <2>4. /\ x \in {Nothing} \cup DOMAIN jobs' /\ x \in DOMAIN jobs'
        /\ next.job = x /\ effect' = [effect EXCEPT ![i] = x]
    BY <1>7, <2>2, <2>3
  <2>5. UNCHANGED <<table, seen, handle, edits, wrongs>> /\ calls' = [calls EXCEPT ![i] = next]
    BY <1>1, <1>7
  <2> HIDE DEF next, x
  <2> QED BY <2>2, <2>3, <2>4, <2>5, CallStep
<1> QED BY <1>3, <1>4, <1>5, <1>6, <1>7

LEMMA CancelStep ==
  ASSUME ConnectionBounds, AdapterInv, NEW i \in Calls, ServeCancel(i)
  PROVE  AdapterInv'
<1> DEFINE j == calls[i].job
           live == {c \in DOMAIN jobs[j].submitted :
                      /\ jobs[j].handle = handle
                      /\ doc[c].token = jobs[j].submitted[c].token}
           f == [c \in live |-> Row(IF c \in jobs[j].sent THEN "already_sent_cell_refs"
                                                          ELSE "cancelled_cell_refs",
                                    CellObservation(c))]
           rows == {f[c] : c \in live}
<1>1. /\ calls[i].state = "called" /\ calls[i].tool = "execution_cancel"
      /\ UNCHANGED <<handle, edits, effect, wrongs>>
  BY DEF ServeCancel, Waiting
<1>2. effect[i] = Nothing /\ j \in DOMAIN jobs
  BY <1>1, IdleIsUndone DEF Asked
<1>3. /\ jobs' = [jobs EXCEPT ![j].cancelled = TRUE, ![j].done = @ \/ jobs[j].sent = {}]
      /\ Answers(i, Result(<<>>, rows, FALSE, j), FALSE)
  <2>1. rows = {Row(IF c \in jobs[j].sent THEN "already_sent_cell_refs"
                                          ELSE "cancelled_cell_refs",
                    CellObservation(c)) : c \in live}
    OBVIOUS
  <2> HIDE DEF rows
  <2> QED BY <2>1 DEF ServeCancel
<1>4. RowsOk(rows)
  <2>1. IsFiniteSet(live)
    <3>1. IsFiniteSet(DOMAIN jobs[j].submitted)
      BY <1>2 DEF AdapterInv, JobsOk, JobOk
    <3> QED BY <3>1, FS_Subset
  <2>2. DOMAIN f = live
    OBVIOUS
  <2>3. ASSUME NEW c \in live
        PROVE  f[c].field \in ObservedFields
    <3> DEFINE field == IF c \in jobs[j].sent THEN "already_sent_cell_refs"
                                             ELSE "cancelled_cell_refs"
    <3>1. f[c] = Row(field, CellObservation(c))
      OBVIOUS
    <3>2. field \in ObservedFields
      BY DEF ObservedFields
    <3> HIDE DEF field, f, live
    <3> QED BY ONLY <3>1, <3>2, RowIs
  <2> HIDE DEF f, live
  <2> QED BY <2>1, <2>2, <2>3, RowsOfCells
<1>5. JobsOk' /\ DOMAIN jobs' = DOMAIN jobs
  <2>1. jobs \in Seq(Range(jobs)) /\ \A k \in DOMAIN jobs : JobOk(jobs[k])
    BY DEF AdapterInv, JobsOk
  <2> HIDE DEF j
  <2>2. DOMAIN jobs' = DOMAIN jobs /\ jobs' = [k \in DOMAIN jobs |-> jobs'[k]]
    BY <1>3, <2>1
  <2>3. \A k \in DOMAIN jobs : k # j => jobs'[k] = jobs[k]
    BY <1>3, <2>1
  <2>4. jobs'[j] = [jobs[j] EXCEPT !.cancelled = TRUE, !.done = @ \/ jobs[j].sent = {}]
    BY <1>2, <1>3, <2>1
  <2>5. JobOk(jobs'[j])
    BY <1>2, <2>1, <2>4 DEF JobOk
  <2>6. \A k \in DOMAIN jobs : JobOk(jobs'[k])
    BY <2>1, <2>3, <2>5
  <2> QED BY <2>2, <2>6, JobsGoOn DEF AdapterInv
<1> HIDE DEF j, rows
<1> QED BY <1>1, <1>2, <1>3, <1>4, <1>5, ViewedStep

\* Everyone else: the kernel, other clients, and the agent that opens the
\* notebook again.
LEMMA OtherSteps ==
  ASSUME ConnectionBounds, AdapterInv,
         \/ \E c \in Cells : PeerEdits(c)
         \/ \E j \in DOMAIN jobs : KernelRuns(j) \/ KernelEnds(j)
         \/ Reopen
  PROVE  AdapterInv'
<1>1. /\ jobs \in Seq(Range(jobs)) /\ \A k \in DOMAIN jobs : JobOk(jobs[k])
      /\ handle \in 1..MaxOpens /\ edits \in 0..MaxEdits
  BY DEF AdapterInv, JobsOk
<1>2. CASE \E c \in Cells : PeerEdits(c)
  <2> PICK c \in Cells : PeerEdits(c)
    BY <1>2
  <2>1. UNCHANGED <<table, calls, seen, effect, wrongs, jobs, handle>>
    BY DEF PeerEdits
  <2>2. edits' \in 0..MaxEdits
    BY <1>1 DEF PeerEdits, ConnectionBounds
  <2> QED BY <1>1, <2>1, <2>2, JobsStay, QuietStep
<1>3. ASSUME NEW j \in DOMAIN jobs, KernelRuns(j)
      PROVE  AdapterInv'
  <2>1. PICK c \in DOMAIN jobs[j].submitted :
          /\ jobs' = [jobs EXCEPT ![j].sent = @ \cup {c}]
          /\ UNCHANGED <<table, handle, edits, calls, seen, effect, wrongs>>
    BY <1>3 DEF KernelRuns
  <2>2. DOMAIN jobs' = DOMAIN jobs /\ jobs' = [k \in DOMAIN jobs |-> jobs'[k]]
    BY <1>1, <2>1
  <2>3. \A k \in DOMAIN jobs : k # j => jobs'[k] = jobs[k]
    BY <1>1, <2>1
  <2>4. jobs'[j] = [jobs[j] EXCEPT !.sent = jobs[j].sent \cup {c}]
    BY <1>1, <2>1
  <2>5. JobOk(jobs[j]) /\ IsFiniteSet(jobs[j].sent \cup {c})
    BY <1>1, FS_AddElement DEF JobOk
  <2>6. JobOk(jobs'[j])
    BY <2>4, <2>5 DEF JobOk
  <2>7. \A k \in DOMAIN jobs : JobOk(jobs'[k])
    BY <1>1, <2>3, <2>6
  <2>8. JobsOk'
    BY <2>2, <2>7, JobsGoOn DEF AdapterInv
  <2> QED BY <1>1, <2>1, <2>2, <2>8, QuietStep
<1>4. ASSUME NEW j \in DOMAIN jobs, KernelEnds(j)
      PROVE  AdapterInv'
  <2>1. /\ jobs' = [jobs EXCEPT ![j].done = TRUE]
        /\ UNCHANGED <<table, handle, edits, calls, seen, effect, wrongs>>
    BY <1>4 DEF KernelEnds
  <2>2. DOMAIN jobs' = DOMAIN jobs /\ jobs' = [k \in DOMAIN jobs |-> jobs'[k]]
    BY <1>1, <2>1
  <2>3. \A k \in DOMAIN jobs : k # j => jobs'[k] = jobs[k]
    BY <1>1, <2>1
  <2>4. jobs'[j] = [jobs[j] EXCEPT !.done = TRUE]
    BY <1>1, <2>1
  <2>5. JobOk(jobs'[j])
    BY <1>1, <2>4 DEF JobOk
  <2>6. \A k \in DOMAIN jobs : JobOk(jobs'[k])
    BY <1>1, <2>3, <2>5
  <2>7. JobsOk'
    BY <2>2, <2>6, JobsGoOn DEF AdapterInv
  <2> QED BY <1>1, <2>1, <2>2, <2>7, QuietStep
<1>5. CASE Reopen
  <2>1. /\ jobs' = [j \in DOMAIN jobs |->
                       IF jobs[j].handle = handle THEN [jobs[j] EXCEPT !.done = TRUE] ELSE jobs[j]]
        /\ UNCHANGED <<table, edits, calls, seen, effect, wrongs>>
        /\ handle' \in 1..MaxOpens
    BY <1>1, <1>5 DEF Reopen, ConnectionBounds
  <2>2. DOMAIN jobs' = DOMAIN jobs /\ jobs' = [k \in DOMAIN jobs |-> jobs'[k]]
    BY <2>1
  <2>3. ASSUME NEW k \in DOMAIN jobs
        PROVE  JobOk(jobs'[k])
    <3>1. jobs'[k] = jobs[k] \/ jobs'[k] = [jobs[k] EXCEPT !.done = TRUE]
      BY <2>1
    <3> QED BY <1>1, <3>1 DEF JobOk
  <2>4. JobsOk'
    BY <2>2, <2>3, JobsGoOn DEF AdapterInv
  <2> QED BY <1>1, <2>1, <2>2, <2>4, QuietStep
<1> QED BY <1>2, <1>3, <1>4, <1>5

LEMMA NextAdapter ==
  ASSUME ConnectionBounds, AdapterInv, [Next]_vars
  PROVE  AdapterInv'
<1>1. CASE UNCHANGED vars
  <2>1. UNCHANGED <<table, calls, seen, effect, wrongs>> /\ UNCHANGED <<jobs, handle, edits>>
    BY <1>1 DEF vars
  <2> QED BY <2>1, JobsStay, QuietStep DEF AdapterInv
<1>2. ASSUME NEW i \in Calls,
             \/ Read(i) \/ Apply(i) \/ Execute(i) \/ AskExecution(i)
             \/ ServeRead(i) \/ ServeApply(i) \/ ServeExecute(i) \/ ViewExecution(i)
             \/ ServeGet(i) \/ ServeCancel(i)
      PROVE  AdapterInv'
  BY <1>2, AskStep, ReadStep, ApplyStep, ExecuteStep, ViewStep, GetStep, CancelStep
<1>3. CASE \/ \E c \in Cells : PeerEdits(c)
           \/ \E j \in DOMAIN jobs : KernelRuns(j) \/ KernelEnds(j)
           \/ Reopen
  BY <1>3, OtherSteps
<1> QED BY <1>1, <1>2, <1>3 DEF Next

-----------------------------------------------------------------------------
(* What follows.                                                           *)

LEMMA TableFollows ==
  ASSUME ConnectionBounds, AdapterInv
  PROVE  TableInvariant
<1>1. /\ TableOk(table) /\ SeenOk(table, seen) /\ Cardinality(DOMAIN table.byRef) <= MaxEntries
      /\ table.alias["execution"] \in Seq(Entries)
  BY DEF AdapterInv, Connected, TableOk, IsTable, ConnectionBounds
<1>2. TypeOK
  <2>1. ASSUME NEW i \in Calls
        PROVE  /\ calls[i].state \in {"idle", "called", "waiting", "answered"}
               /\ effect[i] \in {Nothing, AnEdit} \cup DOMAIN jobs
    BY DEF AdapterInv, CallsOk, CallOk, Idle
  <2>2. ASSUME NEW s \in seen
        PROVE  s.ref \in Nat
    <3>1. CASE NamesExecution(s)
      BY <1>1, <3>1 DEF SeenOk, AliasOk
    <3>2. CASE ~NamesExecution(s)
      BY <1>1, <3>2 DEF SeenOk, RefOk
    <3> QED BY <3>1, <3>2
  <2> QED BY <1>1, <2>1, <2>2 DEF TypeOK, AdapterInv, TableOk, Agrees
<1>3. RefsKeepTheirMeaning
  <2>1. ASSUME NEW s \in seen, s.field \notin {"execution_id", "sent_cell_ref"}
        PROVE  StandsFor(s)
    BY <1>1, <2>1 DEF SeenOk, RefOk, NamesExecution, StandsFor
  <2>2. ASSUME NEW s \in seen, NEW r \in seen, s.ref = r.ref,
               s.field = "execution_id" <=> r.field = "execution_id"
        PROVE  s.means = r.means
    <3>1. CASE NamesExecution(s)
      BY <1>1, <2>2, <3>1 DEF SeenOk, AliasOk, NamesExecution
    <3>2. CASE ~NamesExecution(s)
      BY <1>1, <2>2, <3>2 DEF SeenOk, NamesExecution
    <3> QED BY <3>1, <3>2
  <2> QED BY <2>1, <2>2 DEF RefsKeepTheirMeaning
<1>4. NothingLeaks
  <2>1. DOMAIN table.byRef \subseteq {s.ref : s \in {x \in seen : x.field # "execution_id"}}
    BY <1>1 DEF SeenOk, NamesExecution
  <2>2. {<<v, table.byValue[v]>> : v \in DOMAIN table.byValue}
          = {<<table.byRef[r], r>> : r \in DOMAIN table.byRef}
    BY <1>1 DEF TableOk, Agrees
  <2> QED BY <1>1, <2>1, <2>2 DEF NothingLeaks
<1> QED BY <1>2, <1>3, <1>4 DEF TableInvariant

LEMMA ErrorsFollow ==
  ASSUME AdapterInv
  PROVE  ErrorsAreTrue
<1>1. ASSUME NEW i \in Calls, calls[i].state = "answered"
      PROVE  Told(i)
  BY <1>1 DEF AdapterInv, CallsOk, CallOk, Idle
<1>2. EffectsAreTold
  BY <1>1 DEF EffectsAreTold, Told
<1> QED BY <1>2 DEF ErrorsAreTrue, AdapterInv

(* For any number of calls and of cells, and a table of any size: a          *)
(* reference the agent was shown keeps its meaning for as long as the        *)
(* connection lives, no number is shown with two meanings, and the table     *)
(* never holds more than its budget or anything the agent was not shown.     *)
(* (references.ts, stageValue, commitPublished, #pruneUnpublished, #restore) *)
THEOREM ReferencesKeepTheirMeaning ==
  ASSUME ConnectionBounds
  PROVE  Spec => []TableInvariant
<1>1. Init => AdapterInv
  BY InitAdapter
<1>2. AdapterInv /\ [Next]_vars => AdapterInv'
  BY NextAdapter
<1>3. AdapterInv => TableInvariant
  BY TableFollows
<1> QED BY <1>1, <1>2, <1>3, PTL DEF Spec

(* For any number of calls and of cells, and a table of any size: an error   *)
(* never denies what its call has done, nor claims what it has not, names    *)
(* the execution the call began, and what it says of the one reference of    *)
(* the request that it names is so of the cell it stands for, the one the    *)
(* call failed for; but for an operation on a cell that its own batch has    *)
(* deleted before.                                                           *)
(* (server.ts, buildResult, errorResult, projectSubmittedCellError;          *)
(* references.ts, submittedCellReference)                                    *)
THEOREM ErrorsTellTheTruth ==
  ASSUME ConnectionBounds
  PROVE  Spec => []ErrorsAreTrue
<1>1. Init => AdapterInv
  BY InitAdapter
<1>2. AdapterInv /\ [Next]_vars => AdapterInv'
  BY NextAdapter
<1>3. AdapterInv => ErrorsAreTrue
  BY ErrorsFollow
<1> QED BY <1>1, <1>2, <1>3, PTL DEF Spec

================================================================================
