--------------------------- MODULE AccessSessions ---------------------------
(***************************************************************************)
(* Transport sessions of the gateway (gateway/access-sessions.ts) on top   *)
(* of its worker registry: each session is a worker key of its own, opened *)
(* by an initialize request, and ended by a DELETE, by its lifetime, by    *)
(* idleness or by the shutdown, while requests of it are anywhere between  *)
(* the resolution of their identity and the release of their worker.       *)
(*                                                                         *)
(* A fetch is one more await outside the registry's task of the same       *)
(* request.  Deadlines are events: Lapse of WorkerRegistry is the end of a *)
(* session's lifetime, GoesIdle its idle deadline.                         *)
(***************************************************************************)
EXTENDS WorkerRegistry

VARIABLES
  sessions, \* keys of the sessions in the handler's map
  made,     \* keys of the sessions created so far; an id is never reused
  late,     \* sessions whose idle deadline has passed
  fetch,    \* what each request's fetch awaits
  prunes    \* prunes[r]: the expired sessions whose removal request r awaits

registry == <<slotAt, slot, pc, on, ready, live, aborted, revoked, closed, failed>>
asVars == <<registry, sessions, made, late, fetch, prunes>>

ASInit ==
  /\ Init
  /\ sessions = {} /\ made = {} /\ late = {}
  /\ fetch = [r \in Requests |-> "none"]
  /\ prunes = [r \in Requests |-> {}]

-----------------------------------------------------------------------------
Awaiting(r, where) == ready = << >> /\ fetch[r] = where
Go(r, where) == fetch' = [fetch EXCEPT ![r] = where]

\* Requests that hold their session in use, whatever they are doing.
InFlight(s) ==
  {r \in Requests : KeyOf[r] = s /\ fetch[r] \in {"initializing", "calling", "called"}}

\* The lifetime counts always, the idle deadline only between requests.
Expired_IdleOnly(s) == InFlight(s) = {} /\ s \in late
Expired(s) == s \in revoked \/ (InFlight(s) = {} /\ s \in late)

\* The slots of some sessions: the id of a session is the key of its worker.
SlotsOf(some) == {n \in Mapped : slot[n].key \in some}

\* remove: out of the map, closed for the registry, its worker retired.  A
\* session no longer in the map is left alone.
Remove(some) ==
  LET present == some \cap sessions
  IN  /\ sessions' = sessions \ present
      /\ revoked' = revoked \cup present
      /\ RetireAll("revoke", SlotsOf(present))
      /\ UNCHANGED <<closed, failed>>

SessionsOf(k) == {s \in sessions : Of(s) = Of(k)}
Full(k) == \/ Cardinality(sessions) >= MaxWorkers
           \/ Cardinality(SessionsOf(k)) >= MaxPerPrincipal

\* createSession refuses when the registry is closed, whatever the handler
\* found before it resolved the identity.
Shut_Never == FALSE
Shut == closed

-----------------------------------------------------------------------------
(***************************************************************************)
(* One fetch.                                                              *)
(***************************************************************************)
\* A request initializes a session of its own, or knows the id that the answer
\* to an earlier one gave.
Known(r) ==
  \A o \in Requests \ {r} : KeyOf[o] = KeyOf[r] /\ fetch[o] # "none" =>
    KeyOf[r] \in made /\ fetch[o] \notin {"connecting", "initializing"}

\* Accepted by an open handler; its identity is being resolved.
Fetch(r) ==
  /\ Awaiting(r, "none") /\ ~closed /\ Known(r)
  /\ Go(r, "resolving")
  /\ UNCHANGED <<registry, sessions, made, late, prunes>>

\* A request of a session: unknown or expired ones are answered 404.
Find(r) ==
  LET s == KeyOf[r]
  IN  /\ Awaiting(r, "resolving") /\ s \in made
      /\ \/ s \notin sessions /\ Go(r, "none") /\ UNCHANGED <<registry, sessions>>
         \/ s \in sessions /\ Expired(s) /\ Go(r, "none") /\ Remove({s})
         \/ s \in sessions /\ ~Expired(s) /\ Go(r, "calling")
            /\ UNCHANGED <<registry, sessions>>
      /\ UNCHANGED <<made, late, prunes>>

\* An initialize request first removes what has expired, and waits for these
\* removals: of what another request or a timer removes it knows nothing.
Prune(r) ==
  /\ Awaiting(r, "resolving") /\ KeyOf[r] \notin made
  /\ LET expired == {s \in sessions : Expired(s)}
     IN  Remove(expired) /\ prunes' = [prunes EXCEPT ![r] = expired]
  /\ Go(r, "pruning")
  /\ UNCHANGED <<made, late>>

\* Whether the removals that r started are over.  A session is removed once,
\* and its key is that of no other.
Pruned(r) ==
  \A n \in SlotIds : slot[n].key \in prunes[r] => pc[<<"revoke", n>>] = "idle"

\* Then, at one go, the capacity is checked and the session registered.
Open(r) ==
  LET s == KeyOf[r]
  IN  /\ Awaiting(r, "pruning") /\ Pruned(r)
      /\ prunes' = [prunes EXCEPT ![r] = {}]
      /\ IF Full(s) \/ Shut
         THEN Go(r, "none") /\ UNCHANGED <<sessions, made>>
         ELSE /\ Go(r, "connecting")
              /\ sessions' = sessions \cup {s} /\ made' = made \cup {s}
      /\ UNCHANGED <<registry, late>>

\* The server connects to the transport of its session, or is removed again.
Connected(r) ==
  /\ Awaiting(r, "connecting")
  /\ \/ Go(r, "initializing") /\ UNCHANGED <<registry, sessions, late>>
     \/ /\ Go(r, "none") /\ Remove({KeyOf[r]}) /\ UNCHANGED late
  /\ UNCHANGED <<made, prunes>>

\* The proxy server answers initialize itself; one that is not valid opens
\* nothing.  The idle deadline moves when the request is over.
Initialized(r) ==
  /\ Awaiting(r, "initializing")
  /\ \/ UNCHANGED <<registry, sessions>>
     \/ Remove({KeyOf[r]})
  /\ Go(r, "none")
  /\ late' = late \ {KeyOf[r]}
  /\ UNCHANGED <<made, prunes>>

\* Any other request is a call to the worker of its session; the registry
\* refuses it at once, or takes it over.
Call(r) ==
  /\ Awaiting(r, "calling")
  /\ \/ Arrive(r)
     \/ /\ Barred(KeyOf[r])
           \/ /\ slotAt[KeyOf[r]] # None
              /\ slot[slotAt[KeyOf[r]]].retiring /\ slot[slotAt[KeyOf[r]]].refs > 0
        /\ UNCHANGED registry
  /\ Go(r, "called")
  /\ UNCHANGED <<sessions, made, late, prunes>>

\* A DELETE ends the session from within its own request.
Delete(r) ==
  /\ Awaiting(r, "calling")
  /\ Remove({KeyOf[r]})
  /\ Go(r, "called")
  /\ UNCHANGED <<made, late, prunes>>

Answered(r) ==
  /\ Awaiting(r, "called") /\ pc[r] = "idle"
  /\ Go(r, "none")
  /\ late' = late \ {KeyOf[r]}
  /\ UNCHANGED <<registry, sessions, made, prunes>>

-----------------------------------------------------------------------------
(***************************************************************************)
(* Timers, shutdown and the registry's own steps.                          *)
(***************************************************************************)
GoesIdle(s) ==
  /\ ready = << >> /\ s \in sessions \ late
  /\ late' = late \cup {s}
  /\ UNCHANGED <<registry, sessions, made, fetch, prunes>>

\* The timer of a session removes it, or is set again.
TimerFires(s) ==
  /\ ready = << >> /\ s \in sessions /\ Expired(s)
  /\ Remove({s})
  /\ UNCHANGED <<made, late, fetch, prunes>>

\* The retirements of a slot that a shutdown starts, in the order in which
\* they ask for its lock.
Ending(n) == IF slot[n].key \in sessions THEN << <<"revoke", n>>, <<"close", n>> >>
             ELSE << <<"close", n>> >>

\* The gateway closes: the handler removes every session and the registry
\* retires every slot, both before anything else runs.
Shutdown ==
  /\ ready = << >> /\ ~closed
  /\ closed' = TRUE
  /\ sessions' = {}
  /\ revoked' = revoked \cup sessions
  /\ LET both == ({"revoke"} \X SlotsOf(sessions)) \cup ({"close"} \X Mapped)
         free == {n \in Mapped : ~slot[n].held}
     IN  /\ pc' = [t \in Tasks |-> IF t \in both THEN "retiring" ELSE pc[t]]
         /\ on' = [t \in Tasks |-> IF t \in both THEN t[2] ELSE on[t]]
         /\ slot' = [n \in SlotIds |->
              IF n \notin Mapped THEN slot[n]
              ELSE [slot[n] EXCEPT !.retiring = TRUE, !.held = TRUE,
                      !.waiters = @ \o IF slot[n].held THEN Ending(n) ELSE Tail(Ending(n))]]
         /\ ready' \in {q \in [1..Cardinality(free) -> {Head(Ending(n)) : n \in free}] :
              /\ \A i, j \in DOMAIN q : q[i] = q[j] => i = j
              /\ \A i, j \in DOMAIN q : q[i][1] = "revoke" /\ q[j][1] = "close" => i < j}
  /\ UNCHANGED <<slotAt, live, aborted, failed, made, late, fetch, prunes>>

\* The end of a lifetime; the worker's key is the session's.
Lapses(s) == s \in sessions /\ Lapse(s)

Registry ==
  /\ \/ Continuation
     \/ \E r \in Requests : Abort(r) \/ Answer(r)
     \/ \E t \in Tasks : WorkerClosed(t)
     \/ \E s \in Keys : Lapses(s)
     \/ Expire
  /\ UNCHANGED <<sessions, made, late, fetch, prunes>>

Fetches(r) == \/ Fetch(r) \/ Find(r) \/ Prune(r) \/ Open(r) \/ Connected(r)
              \/ Initialized(r) \/ Call(r) \/ Delete(r) \/ Answered(r)

ASNext ==
  \/ \E r \in Requests : Fetches(r)
  \/ \E s \in Keys : GoesIdle(s) \/ TimerFires(s)
  \/ Shutdown \/ Registry

ASSpec == ASInit /\ [][ASNext]_asVars

\* The timers of sessions fire, continuations run and I/O on a worker ends, as
\* in WorkerRegistry.
ASFairness ==
  /\ WF_asVars(Continuation /\ UNCHANGED <<sessions, made, late, fetch, prunes>>)
  /\ \A s \in Keys : SF_asVars(TimerFires(s))
  /\ \A n \in SlotIds :
       SF_asVars(EndsOn(n) /\ UNCHANGED <<sessions, made, late, fetch, prunes>>)

ASFairSpec == ASSpec /\ ASFairness

-----------------------------------------------------------------------------
(***************************************************************************)
(* Properties.                                                             *)
(***************************************************************************)
\* The worker processes of sessions.
Workers == {n \in live : slot[n].key \in made}

\* Sessions, and the worker processes behind them, stay within the limits of
\* the gateway and of each principal, though several requests wait to open
\* one at once, and a session may open while the worker of one that a timer, a
\* DELETE or another request removed is still closing.
SessionsWithinLimits ==
  /\ Cardinality(sessions) <= MaxWorkers /\ Cardinality(Workers) <= MaxWorkers
  /\ \A k \in Keys :
       /\ Cardinality(SessionsOf(k)) <= MaxPerPrincipal
       /\ Cardinality({n \in Workers : Of(slot[n].key) = Of(k)}) <= MaxPerPrincipal

\* A worker is found under the key of its session: by the next request, the
\* sweep and the shutdown.  It outlives the session only in the hands of a
\* task that will close it: one that starts while its session ends is closed
\* by its own request.
NoWorkerWithoutSession ==
  \A n \in Workers :
    /\ slotAt[slot[n].key] = n /\ slot[n].worker
    /\ slot[n].key \notin sessions => \E t \in Tasks : on[t] = n

\* The shutdown is final: a request whose identity was being resolved, or
\* that was waiting for a retirement, opens no session after it; and once its
\* retirements are over, a worker is left only to a request that closes it.
NothingAfterShutdown ==
  closed =>
    /\ sessions = {}
    /\ (\A n \in SlotIds : pc[<<"close", n>>] = "idle")
         => \A n \in Workers : \E r \in Requests : on[r] = n

\* What the sessions say of the workers behind them, at any time.
SessionsInvariant ==
  /\ SessionsWithinLimits
  /\ NoWorkerWithoutSession
  /\ NothingAfterShutdown

\* A session that a request is using ends only by its lifetime, by a DELETE
\* or by the shutdown; its idle deadline does not count meanwhile.
InUseIsNotIdle ==
  [][\A r \in Requests :
       LET s == KeyOf[r]
       IN  pc[r] # "idle" /\ s \in sessions \ sessions' =>
             closed' \/ s \in revoked \/ \E d \in Requests : Awaiting(d, "calling")]_asVars

\* A session whose lifetime is over goes, and its worker process with it, even
\* while requests of the session go on arriving.
LapsedSessionEnds ==
  \A s \in Keys :
    s \in sessions /\ s \in revoked
      ~> s \notin sessions /\ \A n \in live : slot[n].key # s

\* Both: a session ends when it is over, and not before.
SessionsEndInTime == InUseIsNotIdle /\ LapsedSessionEnds
=============================================================================
