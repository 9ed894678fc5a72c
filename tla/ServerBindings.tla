--------------------------- MODULE ServerBindings ---------------------------
(***************************************************************************)
(* How calls reach a server: the binding of an MCP connection to it, made  *)
(* by the first call that needs one and shared by those that come in the   *)
(* meantime (service.ts, #sessionFor), the start of a JupyterHub server    *)
(* (service.ts, serverStart; jupyter/hub-client.ts) and the collaboration  *)
(* session of the server that every room is opened with (service/          *)
(* server-registry.ts).                                                    *)
(*                                                                         *)
(* One server of one user, whose credential stays that user's.  A call is  *)
(* a process; what it does between two awaits is one action.  The request  *)
(* numbers of server_start are the business of RequestLedger.              *)
(***************************************************************************)
EXTENDS Integers, FiniteSets

CONSTANTS Callers,     \* calls under way at once
          Options,     \* the start options a call or another client may ask for
          MaxSessions, \* working sessions of the process
          MaxRequests, \* bound: calls ever made
          MaxPeers     \* bound: starts and stops by other clients of the Hub

VARIABLES hub,       \* the Hub's server: its state, its options, its process
          binding,   \* the implicit session: none, an attempt under way, or bound
          attempts,  \* attempts to bind ever made, and those that failed
          sessions,  \* working sessions that are open
          cached,    \* the collaboration session of the server, 0 for none
          wire,      \* each call
          running,   \* the service is not shutting down
          rejected,  \* collaboration sessions a room has rejected
          faults,    \* what should never happen
          requests, peers
svars == <<hub, binding, attempts, sessions, cached, wire, running, rejected, faults,
           requests, peers>>

NoOptions == "none"   \* user_options were left out
Free      == [pc |-> "free"]
Unbound   == [state |-> "none", attempt |-> 0]

SInit ==
  /\ hub = [state |-> "stopped", options |-> NoOptions, process |-> 0]
  /\ binding = Unbound
  /\ attempts = [made |-> 0, failed |-> {}]
  /\ sessions = {}
  /\ cached = 0
  /\ wire = [i \in Callers |-> Free]
  /\ running = TRUE
  /\ rejected = {}
  /\ faults = {}
  /\ requests = 0 /\ peers = 0

Pc(i) == wire[i].pc
Go(i, next) == wire' = [wire EXCEPT ![i] = next]

\* Every call that waits for the attempt fails with it.
FailWaiting == wire' = [i \in Callers |-> IF Pc(i) = "waiting" THEN Free ELSE wire[i]]

Fault(name, condition) == faults' = IF condition THEN faults \cup {name} ELSE faults

\* What a status call reads: nothing when it fails, and "unknown" is as
\* "stopping" to every caller.  A failed spawn is told
\* from a stopped server only if its progress can be read.
Lost == [state |-> "lost", options |-> NoOptions]
Readings ==
  {Lost, [state |-> hub.state, options |-> hub.options]} \cup
  IF hub.state = "failed" THEN {[state |-> "stopped", options |-> hub.options]} ELSE {}

Up(state) == state \in {"ready", "starting"}
OptionsMatch(actual, requested) == requested \in {NoOptions, actual}

-------------------------------------------------------------------------------
(* The binding. *)

Request(i, next) ==
  /\ running /\ Pc(i) = "free" /\ requests < MaxRequests
  /\ requests' = requests + 1
  /\ Go(i, next)

\* An attempt that failed is forgotten before anyone hears of it.
WithoutBinding == Unbound

\* The first call begins the attempt, the others share it; a call that finds
\* the server bound goes on at once.
Bind(i) ==
  /\ \/ /\ binding = Unbound
        /\ binding' = [state |-> "hub", attempt |-> attempts.made + 1]
        /\ attempts' = [attempts EXCEPT !.made = @ + 1]
        /\ Request(i, [pc |-> "waiting"])
        /\ UNCHANGED faults
     \/ /\ binding.state \in {"hub", "server"}
        /\ IF binding.attempt \in attempts.failed
           THEN /\ Request(i, Free)
                /\ Fault("answered with an old failure", TRUE)
           ELSE /\ Request(i, [pc |-> "waiting"])
                /\ UNCHANGED faults
        /\ UNCHANGED <<binding, attempts>>
     \/ /\ binding.state = "bound"
        /\ Request(i, [pc |-> "document"])
        /\ UNCHANGED <<binding, attempts, faults>>
  /\ UNCHANGED <<hub, sessions, cached, running, rejected, peers>>

BindingFails ==
  /\ binding' = WithoutBinding
  /\ attempts' = [attempts EXCEPT !.failed = @ \cup {binding.attempt}]
  /\ FailWaiting

InProgress(state) == binding.state = state /\ binding.attempt \notin attempts.failed

\* prepare: the Hub says whether the server is ready; nothing starts it.
PrepareHub ==
  /\ InProgress("hub")
  /\ \E reading \in Readings :
       IF reading.state = "ready"
       THEN /\ binding' = [binding EXCEPT !.state = "server"]
            /\ UNCHANGED <<attempts, wire>>
       ELSE BindingFails
  /\ UNCHANGED <<hub, sessions, cached, running, rejected, faults, requests, peers>>

\* The server itself answers or not; then the session is opened, within the
\* limit, unless the service shuts down meanwhile.
PrepareServer ==
  /\ InProgress("server")
  /\ \E answered \in {FALSE, hub.state = "ready"} :
       IF answered /\ running /\ Cardinality(sessions) < MaxSessions
       THEN /\ binding' = [binding EXCEPT !.state = "bound"]
            /\ sessions' = sessions \cup {<<"implicit", binding.attempt>>}
            /\ wire' = [i \in Callers |-> IF Pc(i) = "waiting" THEN [pc |-> "document"]
                                                               ELSE wire[i]]
            /\ UNCHANGED attempts
       ELSE BindingFails /\ UNCHANGED sessions
  /\ UNCHANGED <<hub, cached, running, rejected, faults, requests, peers>>

\* A library session has an attempt of its own, and is closed by its id.
SessionOpen(i) ==
  /\ hub.state = "ready" /\ Cardinality(sessions) < MaxSessions
  /\ Request(i, Free)
  /\ sessions' = sessions \cup {<<"library", requests>>}
  /\ UNCHANGED <<hub, binding, attempts, cached, running, rejected, faults, peers>>

SessionClose ==
  /\ \E s \in sessions : s[1] = "library" /\ sessions' = sessions \ {s}
  /\ UNCHANGED <<hub, binding, attempts, cached, wire, running, rejected, faults,
                 requests, peers>>

-------------------------------------------------------------------------------
(* A notebook is opened: the file and the server's collaboration session,    *)
(* then the room.                                                            *)

\* The server answers with its own session, and the one seen first is used;
\* the working session may have ended in the meantime.
CollaborationSession(i) ==
  /\ Pc(i) = "document"
  /\ IF hub.state = "ready"
     THEN /\ cached' = IF cached = 0 THEN hub.process ELSE cached
          /\ Go(i, IF binding.state # "bound" THEN Free
                   ELSE [pc |-> "room", with |-> cached',
                         known |-> IF cached' \in rejected THEN "rejected" ELSE "fresh"])
     ELSE Go(i, Free) /\ UNCHANGED cached
  /\ UNCHANGED <<hub, binding, attempts, sessions, running, rejected, faults, requests, peers>>

\* A restarted server may know the session of its predecessor, or reject it.
OpenRoom(i) ==
  /\ Pc(i) = "room"
  /\ rejected' \in {rejected} \cup
       IF hub.state = "ready" /\ wire[i].with # hub.process
       THEN {rejected \cup {wire[i].with}} ELSE {}
  /\ Go(i, Free)
  /\ UNCHANGED <<hub, binding, attempts, sessions, cached, running, faults, requests, peers>>

-------------------------------------------------------------------------------
(* server_start. *)

InFlight == {"taken", "refused", "lost"}
Critical == {"current", "status", "post", "verify", "reread"} \cup InFlight

Start(i) ==
  /\ \E options \in Options \cup {NoOptions} :
       Request(i, [pc |-> "queued", options |-> options, begun |-> FALSE])
  /\ UNCHANGED <<hub, binding, attempts, sessions, cached, running, rejected, faults, peers>>

\* The lock of the connection.
EnterStart(i) ==
  /\ Pc(i) = "queued" /\ \A k \in Callers : Pc(k) \notin Critical
  /\ wire' = [wire EXCEPT ![i] = IF running THEN [@ EXCEPT !.pc = "current"] ELSE Free]
  /\ UNCHANGED <<hub, binding, attempts, sessions, cached, running, rejected, faults,
                 requests, peers>>

\* The call ends with an error whose receipt tells of no effect.
EndsWithoutEffect(i) ==
  /\ Go(i, Free)
  /\ Fault("an effect was denied", wire[i].begun)

EndsUncertain(i) == Go(i, Free) /\ UNCHANGED faults

\* The answer tells the state of a server; it has the options of the call if
\* it is up.  A server that is still starting is waited for.
EndsWith(i, reading) ==
  /\ Go(i, IF reading.state = "starting" THEN [wire[i] EXCEPT !.pc = "polling"] ELSE Free)
  /\ Fault("joined with other options",
           Up(reading.state) /\ ~OptionsMatch(reading.options, wire[i].options))

UnchangedByStatus == UNCHANGED <<hub, binding, attempts, sessions, cached, running, rejected,
                                 requests, peers>>

\* The receipt is begun only when the Hub could be asked.
StartCurrent(i) ==
  /\ Pc(i) = "current"
  /\ \E reading \in Readings :
       IF reading = Lost THEN EndsWithoutEffect(i)
       ELSE Go(i, [wire[i] EXCEPT !.pc = "status"]) /\ UNCHANGED faults
  /\ UnchangedByStatus

\* HubClient.start: join what is up, refuse what is neither up nor down.
StartStatus(i) ==
  /\ Pc(i) = "status"
  /\ \E reading \in Readings :
       CASE Up(reading.state) /\ OptionsMatch(reading.options, wire[i].options) ->
              EndsWith(i, reading)
         [] Up(reading.state) /\ ~OptionsMatch(reading.options, wire[i].options) ->
              EndsWithoutEffect(i)
         [] reading.state \in {"lost", "stopping"} -> EndsWithoutEffect(i)
         [] OTHER -> Go(i, [wire[i] EXCEPT !.pc = "post"]) /\ UNCHANGED faults
  /\ UnchangedByStatus

\* Mutant: a request that got no answer is an ordinary network error.
PostUnanswered_Safe(i) == EndsWithoutEffect(i)

\* A request that got no answer may have been taken.
PostUnanswered(i) == EndsUncertain(i)

\* The request is lost on the way, or the Hub starts a server that is down
\* and refuses otherwise.
Post(i) ==
  /\ Pc(i) = "post"
  /\ LET Sent(fate, begun) == Go(i, [wire[i] EXCEPT !.pc = fate, !.begun = begun])
     IN \/ Sent("lost", FALSE) /\ UNCHANGED hub
        \/ /\ hub.state \in {"stopped", "failed"}
           /\ hub' = [hub EXCEPT !.state = "starting",
                                 !.options = IF wire[i].options = NoOptions THEN @
                                             ELSE wire[i].options]
           /\ Sent("taken", TRUE)
        \/ /\ hub.state \notin {"stopped", "failed"}
           /\ Sent("refused", FALSE) /\ UNCHANGED hub
  /\ UNCHANGED <<binding, attempts, sessions, cached, running, rejected, faults, requests,
                 peers>>

\* The answer may be lost too; whatever the Hub says, its server is looked at.
PostAnswered(i) ==
  /\ Pc(i) \in InFlight
  /\ \/ PostUnanswered(i)
     \/ /\ Pc(i) # "lost"
        /\ Go(i, [wire[i] EXCEPT !.pc = IF Pc(i) = "taken" THEN "verify" ELSE "reread"])
        /\ UNCHANGED faults
  /\ UnchangedByStatus

\* The Hub took the request: what is there now may be someone else's.
StartVerify(i) ==
  /\ Pc(i) = "verify"
  /\ \E reading \in Readings :
       IF reading = Lost \/ (Up(reading.state) /\ ~OptionsMatch(reading.options, wire[i].options))
       THEN EndsUncertain(i)
       ELSE EndsWith(i, reading)
  /\ UnchangedByStatus

\* The Hub refused it: someone else may have started what was asked for.
StartReread(i) ==
  /\ Pc(i) = "reread"
  /\ \E reading \in Readings :
       IF Up(reading.state) /\ OptionsMatch(reading.options, wire[i].options)
       THEN EndsWith(i, reading)
       ELSE EndsWithoutEffect(i)
  /\ UnchangedByStatus

\* The wait comes after the receipt and only looks; it ends when the server
\* does not start any more, at the deadline, on an error and at shutdown.
StartPolls(i) ==
  /\ Pc(i) = "polling"
  /\ Go(i, Free)
  /\ UNCHANGED faults
  /\ UnchangedByStatus

-------------------------------------------------------------------------------
(* The Hub, its other clients, and shutdown. *)

HubProgress ==
  /\ \/ hub.state = "starting" /\ hub' = [hub EXCEPT !.state = "ready", !.process = @ + 1]
     \/ hub.state = "starting" /\ hub' = [hub EXCEPT !.state = "failed"]
     \/ hub.state = "stopping" /\ hub' = [hub EXCEPT !.state = "stopped"]
  /\ UNCHANGED <<binding, attempts, sessions, cached, wire, running, rejected, faults,
                 requests, peers>>

PeerActs ==
  /\ peers < MaxPeers
  /\ peers' = peers + 1
  /\ \/ /\ hub.state \in {"stopped", "failed"}
        /\ \E options \in Options : hub' = [hub EXCEPT !.state = "starting", !.options = options]
     \/ /\ Up(hub.state)
        /\ hub' = [hub EXCEPT !.state = "stopping"]
  /\ UNCHANGED <<binding, attempts, sessions, cached, wire, running, rejected, faults, requests>>

\* No call is accepted any more; what has been edited is delivered, then the
\* sessions end.  An attempt to bind that is under way fails by itself.
Shutdown ==
  /\ running
  /\ running' = FALSE
  /\ UNCHANGED <<hub, binding, attempts, sessions, cached, wire, rejected, faults, requests,
                 peers>>

SessionsEnd ==
  /\ ~running /\ sessions # {}
  /\ sessions' = {}
  /\ binding' = IF binding.state = "bound" THEN Unbound ELSE binding
  /\ UNCHANGED <<hub, attempts, cached, wire, running, rejected, faults, requests, peers>>

SNext ==
  \/ \E i \in Callers :
       \/ Bind(i) \/ SessionOpen(i) \/ CollaborationSession(i) \/ OpenRoom(i)
       \/ Start(i) \/ EnterStart(i) \/ StartCurrent(i) \/ StartStatus(i)
       \/ Post(i) \/ PostAnswered(i) \/ StartVerify(i) \/ StartReread(i) \/ StartPolls(i)
  \/ PrepareHub \/ PrepareServer \/ SessionClose
  \/ HubProgress \/ PeerActs \/ Shutdown \/ SessionsEnd

SSpec == SInit /\ [][SNext]_svars

-------------------------------------------------------------------------------
STypeOK ==
  /\ hub.state \in {"stopped", "starting", "ready", "stopping", "failed"}
  /\ binding.state \in {"none", "hub", "server", "bound"}
  /\ binding.attempt \in 0..attempts.made
  /\ requests \in 0..MaxRequests /\ peers \in 0..MaxPeers

(* The calls of a connection share one session, however many of them found *)
(* no binding at once; a call that waits for a binding has an attempt to   *)
(* wait for, and none is answered with the failure of an attempt that had  *)
(* ended before it came.  (service.ts, #sessionFor)                        *)
OneBinding ==
  /\ Cardinality({s \in sessions : s[1] = "implicit"}) <= 1
  /\ binding.state = "bound" => <<"implicit", binding.attempt>> \in sessions
  /\ \A i \in Callers : Pc(i) = "waiting" => InProgress("hub") \/ InProgress("server")
  /\ "answered with an old failure" \notin faults
  /\ Cardinality(sessions) <= MaxSessions

(* An error of server_start whose receipt says that nothing happened is    *)
(* true, whatever was lost and whoever else uses the Hub; and a server the *)
(* call joins, or starts, has the options it asked for.  (hub-client.ts,   *)
(* start, #request)                                                        *)
StartsAreTold ==
  /\ "an effect was denied" \notin faults
  /\ "joined with other options" \notin faults

(* The three: who is bound, and what a start has done. *)
ServersInvariant == STypeOK /\ OneBinding /\ StartsAreTold

(* A collaboration session that a room has rejected is not sent again: it  *)
(* is fetched anew, as the comments of the cache say.                      *)
(* (server-registry.ts, collaborationSession, invalidateSessionId)         *)
RejectedIsRefetched ==
  \A i \in Callers : Pc(i) = "room" => wire[i].known = "fresh"
=============================================================================
