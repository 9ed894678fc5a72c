--------------------------- MODULE WorkerRegistry ---------------------------
(***************************************************************************)
(* The gateway's registry of Jupyter worker processes                      *)
(* (gateway/worker-registry.ts): one slot per login, a lock per slot that  *)
(* serialises its requests, and the retirements that close its worker.     *)
(*                                                                         *)
(* Every asynchronous function is a task: a request that acquires a lease, *)
(* or a background retirement of one slot.  What a task does between two   *)
(* awaits is one action.  Continuations of settled promises run first in,  *)
(* first out from ready; I/O, timers and new requests come only when it is *)
(* empty, as in the event loop.                                            *)
(***************************************************************************)
EXTENDS Integers, Sequences, FiniteSets

CONSTANTS
  Requests,       \* concurrent requests; each makes calls one after another
  Keys,           \* worker keys: one login grant or session each
  KeyOf,          \* KeyOf[r]: the key of request r's identity
  PrincipalOf,    \* PrincipalOf[k]: who owns key k
  MaxWorkers,     \* maxWorkers
  MaxPerPrincipal,\* maxWorkersPerPrincipal
  MaxSlots,       \* bound: slot objects at once; a call beyond it is refused
  ClosingMayFail  \* whether closing a worker process may fail

ASSUME ConstantsAssumption ==
  /\ IsFiniteSet(Requests) /\ Keys # {}
  /\ KeyOf \in [Requests -> Keys]
  /\ DOMAIN PrincipalOf = Keys
  /\ MaxWorkers \in Nat /\ MaxPerPrincipal \in Nat /\ MaxSlots \in Nat \ {0}
  /\ ClosingMayFail \in BOOLEAN

SlotIds == 1..MaxSlots
None == 0

\* Background retirements: by the expiry sweep, a revocation, a shutdown.
Retirements == {"expire", "revoke", "close"} \X SlotIds
Tasks == Requests \cup Retirements

ASSUME TasksAssumption == Requests \cap Retirements = {}

VARIABLES
  slotAt,  \* slotAt[k]: the slot registered under key k
  slot,    \* the slot objects, with their locks
  pc,      \* what each task awaits
  on,      \* the slot each task works on
  ready,   \* tasks whose continuation is queued
  live,    \* slots whose worker process is running
  aborted, \* requests whose signal is aborted
  revoked, \* keys whose grant is retired, or whose deadline has passed
  closed,  \* the registry was closed
  failed   \* a retirement of the shutdown failed

vars == <<slotAt, slot, pc, on, ready, live, aborted, revoked, closed, failed>>

NewSlot(k) == [key |-> k, refs |-> 0, retiring |-> FALSE, worker |-> FALSE,
               held |-> FALSE, waiters |-> << >>]

Init ==
  /\ slotAt = [k \in Keys |-> None]
  /\ slot \in [SlotIds -> {NewSlot(CHOOSE k \in Keys : TRUE)}]
  /\ pc = [t \in Tasks |-> "idle"]
  /\ on = [t \in Tasks |-> None]
  /\ ready = << >>
  /\ live = {} /\ aborted = {} /\ revoked = {} /\ closed = FALSE /\ failed = FALSE

-----------------------------------------------------------------------------
(***************************************************************************)
(* The lock, references and registration.                                  *)
(***************************************************************************)
\* The next waiter in line is handed the lock.
Released_Open(s) == [s EXCEPT !.held = FALSE,
                             !.waiters = IF @ = << >> THEN @ ELSE Tail(@)]
Released(s) == IF s.waiters = << >> THEN [s EXCEPT !.held = FALSE]
               ELSE [s EXCEPT !.waiters = Tail(@)]
Woken_Nobody(s) == << >>
Woken(s) == IF s.waiters = << >> THEN << >> ELSE << Head(s.waiters) >>

\* A waiter that gives up is spliced out of the line.
Without(line, w) ==
  LET places == {i \in 1..Len(line) : line[i] = w}
      i == CHOOSE i \in places : TRUE
  IN  IF places = {} THEN line
      ELSE SubSeq(line, 1, i - 1) \o SubSeq(line, i + 1, Len(line))

\* Continuations queued after the current one.
Rest == IF ready = << >> THEN << >> ELSE Tail(ready)

\* An unused slot drops out of the map by its key.
Unregistered(s) ==
  IF s.refs = 0 /\ ~s.worker THEN [slotAt EXCEPT ![s.key] = None] ELSE slotAt

Dropped(s) == [s EXCEPT !.refs = @ - 1]

\* A task at the head of the queue, or, when that is empty, one whose I/O ends.
Runs(t, where) == ready # << >> /\ Head(ready) = t /\ pc[t] = where
Ends(t, where) == ready = << >> /\ pc[t] = where

Goto(t, where) == pc' = [pc EXCEPT ![t] = where]

\* A request leaves: its lock is passed on and its reference dropped.
Leave(r, s) ==
  LET left == Dropped(Released(s))
  IN  /\ slot' = [slot EXCEPT ![on[r]] = left]
      /\ slotAt' = Unregistered(left)
      /\ ready' = Rest \o Woken(s)
      /\ Goto(r, "idle")
      /\ on' = [on EXCEPT ![r] = None]
      /\ aborted' = aborted \ {r}

\* The identity is not acceptable, or the registry is closing.
Barred(k) == k \in revoked \/ closed

Of(k) == PrincipalOf[k]
Registered == {k \in Keys : slotAt[k] # None}
AtCapacity(k) ==
  \/ Cardinality(Registered) >= MaxWorkers
  \/ Cardinality({o \in Registered : Of(o) = Of(k)}) >= MaxPerPrincipal

\* Slot objects nothing refers to any more.
Unused == {n \in SlotIds : n \notin live /\ (\A t \in Tasks : on[t] # n)
                            /\ (\A k \in Keys : slotAt[k] # n)}
Fresh == CHOOSE n \in Unused : TRUE

\* Take a reference on slot n, whose object is s, and ask for its lock.
Join(r, n, s) ==
  LET counted == [s EXCEPT !.refs = @ + 1]
  IN  /\ on' = [on EXCEPT ![r] = n]
      /\ IF r \in aborted
         THEN /\ slot' = [slot EXCEPT ![n] = counted]
              /\ Goto(r, "rejected") /\ ready' = Append(Rest, r)
         ELSE /\ Goto(r, "locking")
              /\ IF s.held
                 THEN /\ slot' = [slot EXCEPT ![n] = [counted EXCEPT !.waiters = Append(@, r)]]
                      /\ ready' = Rest
                 ELSE /\ slot' = [slot EXCEPT ![n] = [counted EXCEPT !.held = TRUE]]
                      /\ ready' = Append(Rest, r)

Refuse(r) ==
  /\ Goto(r, "idle") /\ on' = [on EXCEPT ![r] = None]
  /\ aborted' = aborted \ {r}
  /\ ready' = Rest
  /\ UNCHANGED <<slotAt, slot>>

\* The slot under the key, or a new one while the limits allow it.
FindOrCreate(r) ==
  LET k == KeyOf[r]
      n == slotAt[k]
  IN  IF n # None THEN Join(r, n, slot[n]) /\ UNCHANGED <<slotAt, aborted>>
      ELSE IF AtCapacity(k) \/ Unused = {} THEN Refuse(r)
      ELSE /\ Join(r, Fresh, NewSlot(k))
           /\ slotAt' = [slotAt EXCEPT ![k] = Fresh]
           /\ UNCHANGED aborted

\* #retire starts: it asks for the lock of slot n.
AskToRetire(t, n) ==
  /\ pc' = [pc EXCEPT ![t] = "retiring"]
  /\ on' = [on EXCEPT ![t] = n]
  /\ IF slot[n].held
     THEN /\ slot' = [slot EXCEPT ![n].waiters = Append(@, t)]
          /\ ready' = Rest
     ELSE /\ slot' = [slot EXCEPT ![n].held = TRUE]
          /\ ready' = Append(Rest, t)
  /\ UNCHANGED slotAt

-----------------------------------------------------------------------------
(***************************************************************************)
(* acquire and release.                                                    *)
(***************************************************************************)
\* The synchronous part of acquire: reject, wait for a retirement, or join.
Arrive(r) ==
  /\ Ends(r, "idle")
  /\ ~Barred(KeyOf[r])
  /\ LET n == slotAt[KeyOf[r]]
     IN  IF n # None /\ slot[n].retiring
         THEN slot[n].refs = 0 /\ AskToRetire(r, n) /\ UNCHANGED aborted
         ELSE FindOrCreate(r)
  /\ UNCHANGED <<live, revoked, closed, failed>>

\* The awaited retirement is over: whatever is under the key now is used.
Retired(r) ==
  /\ Runs(r, "retired")
  /\ LET n == slotAt[KeyOf[r]]
     IN  IF n # None /\ slot[n].retiring THEN Refuse(r) ELSE FindOrCreate(r)
  /\ UNCHANGED <<live, revoked, closed, failed>>

\* The request's timeout or its client gives up: a waiter leaves the line.
Abort(r) ==
  /\ ready = << >> /\ pc[r] # "idle" /\ r \notin aborted
  /\ aborted' = aborted \cup {r}
  /\ IF pc[r] = "locking"
     THEN /\ slot' = [slot EXCEPT ![on[r]].waiters = Without(@, r)]
          /\ Goto(r, "rejected")
          /\ ready' = << r >>
     ELSE UNCHANGED <<slot, pc, ready>>
  /\ UNCHANGED <<slotAt, on, live, revoked, closed, failed>>

\* An aborted request never had the lock; only its reference is dropped.
Rejected(r) ==
  /\ Runs(r, "rejected")
  /\ LET left == Dropped(slot[on[r]])
     IN  /\ slot' = [slot EXCEPT ![on[r]] = left]
         /\ slotAt' = Unregistered(left)
  /\ ready' = Rest
  /\ Goto(r, "idle") /\ on' = [on EXCEPT ![r] = None]
  /\ aborted' = aborted \ {r}
  /\ UNCHANGED <<live, revoked, closed, failed>>

Unfit_AfterRetirement(r) == r \in aborted \/ Barred(KeyOf[r])
Unfit(r) == r \in aborted \/ Barred(KeyOf[r]) \/ slot[on[r]].retiring

\* The lock is ours: start a worker, renew its credential, or hand it out.
Locked(r) ==
  /\ Runs(r, "locking")
  /\ \/ /\ Unfit(r)
        /\ Leave(r, slot[on[r]])
        /\ aborted' = aborted \ {r}
     \/ /\ ~Unfit(r)
        /\ \/ ~slot[on[r]].worker /\ Goto(r, "starting")
           \/ slot[on[r]].worker /\ \E next \in {"leased", "renewing"} : Goto(r, next)
        /\ ready' = Rest
        /\ UNCHANGED <<slot, slotAt, on, aborted>>
  /\ UNCHANGED <<live, revoked, closed, failed>>

\* A credential that cannot be renewed ends the request, not the worker.
Renewed(r, ok) ==
  /\ Ends(r, "renewing")
  /\ IF ok /\ r \notin aborted /\ KeyOf[r] \notin revoked
     THEN Goto(r, "leased") /\ UNCHANGED <<slot, slotAt, on, ready, aborted>>
     ELSE Leave(r, slot[on[r]])
  /\ UNCHANGED <<live, revoked, closed, failed>>

\* A worker that became unusable while it started is closed at once.
Started(r) ==
  /\ Ends(r, "starting")
  /\ live' = live \cup {on[r]}
  /\ slot' = [slot EXCEPT ![on[r]].worker = TRUE,
                          ![on[r]].retiring = @ \/ Unfit(r)]
  /\ Goto(r, IF Unfit(r) THEN "cleanup" ELSE "leased")
  /\ UNCHANGED <<slotAt, on, ready, aborted, revoked, closed, failed>>

StartFails(r) ==
  /\ Ends(r, "starting")
  /\ Leave(r, slot[on[r]])
  /\ UNCHANGED <<live, revoked, closed, failed>>

\* Failed cleanup leaves the worker in the slot, registered for a retry.
CleanedUp(r, ok) ==
  /\ Ends(r, "cleanup") /\ (ok \/ ClosingMayFail)
  /\ Leave(r, [slot[on[r]] EXCEPT !.worker = ~ok])
  /\ live' = IF ok THEN live \ {on[r]} ELSE live
  /\ UNCHANGED <<revoked, closed, failed>>

Release(r) ==
  /\ Ends(r, "leased")
  /\ Leave(r, slot[on[r]])
  /\ UNCHANGED <<live, revoked, closed, failed>>

-----------------------------------------------------------------------------
(***************************************************************************)
(* Retirement.                                                             *)
(***************************************************************************)
\* #retire is over: the lock is passed on, then the slot unregistered.
EndRetire(t, s) ==
  /\ slot' = [slot EXCEPT ![on[t]] = Released(s)]
  /\ slotAt' = Unregistered(s)
  /\ IF t \in Requests
     THEN ready' = (Rest \o Woken(s)) \o << t >> /\ Goto(t, "retired")
     ELSE ready' = Rest \o Woken(s) /\ Goto(t, "idle")
  /\ on' = [on EXCEPT ![t] = None]

RetireLocked(t) ==
  /\ Runs(t, "retiring")
  /\ IF slot[on[t]].worker
     THEN /\ Goto(t, "closing") /\ ready' = Rest
          /\ UNCHANGED <<slot, slotAt, on>>
     ELSE EndRetire(t, slot[on[t]])
  /\ UNCHANGED <<live, aborted, revoked, closed, failed>>

WorkerClosed(t) ==
  /\ Ends(t, "closing")
  /\ live' = live \ {on[t]}
  /\ EndRetire(t, [slot[on[t]] EXCEPT !.worker = FALSE])
  /\ UNCHANGED <<aborted, revoked, closed, failed>>

\* close() rejects: the worker stays, the lock does not.
CloseFails(t) ==
  /\ Ends(t, "closing") /\ ClosingMayFail
  /\ slot' = [slot EXCEPT ![on[t]] = Released(@)]
  /\ ready' = Woken(slot[on[t]])
  /\ Goto(t, "idle") /\ on' = [on EXCEPT ![t] = None]
  /\ aborted' = aborted \ {t}
  /\ failed' = (failed \/ t \in {"close"} \X SlotIds)
  /\ UNCHANGED <<slotAt, live, revoked, closed>>

\* Mark the given slots and retire them at the same time.
RetireAll(why, some) ==
  LET joins == {n \in some : slot[n].held}
      takes == some \ joins
  IN  /\ \A n \in some : pc[<<why, n>>] = "idle"
      /\ pc' = [t \in Tasks |-> IF t \in {why} \X some THEN "retiring" ELSE pc[t]]
      /\ on' = [t \in Tasks |-> IF t \in {why} \X some THEN t[2] ELSE on[t]]
      /\ slot' = [n \in SlotIds |->
           IF n \notin some THEN slot[n]
           ELSE [slot[n] EXCEPT !.retiring = TRUE, !.held = TRUE,
                   !.waiters = IF n \in joins THEN Append(@, <<why, n>>) ELSE @]]
      /\ ready' \in {q \in [1..Cardinality(takes) -> {why} \X takes] :
                       \A a, b \in DOMAIN q : q[a] = q[b] => a = b}
      /\ UNCHANGED <<slotAt, live, aborted>>

Mapped == {slotAt[k] : k \in Registered}

\* The sweep: idle workers whose deadline has passed or whose retirement failed.
Expire ==
  /\ ready = << >>
  /\ LET idle == {n \in Mapped : slot[n].refs = 0 /\ slot[n].worker}
         due == {n \in idle : slot[n].retiring \/ slot[n].key \in revoked}
     IN  due # {} /\ RetireAll("expire", due)
  /\ UNCHANGED <<revoked, closed, failed>>

\* A grant is revoked or a session ended: its key is barred from now on.
RetireGrant(k) ==
  /\ ready = << >>
  /\ revoked' = revoked \cup {k}
  /\ RetireAll("revoke", {n \in Mapped : slot[n].key = k})
  /\ UNCHANGED <<closed, failed>>

\* A deadline passes; nothing is retired until the sweep comes by.
Lapse(k) ==
  /\ ready = << >> /\ k \notin revoked
  /\ revoked' = revoked \cup {k}
  /\ UNCHANGED <<slotAt, slot, pc, on, ready, live, aborted, closed, failed>>

Close ==
  /\ ready = << >> /\ ~closed
  /\ closed' = TRUE
  /\ RetireAll("close", Mapped)
  /\ UNCHANGED <<revoked, failed>>

Continuation ==
  \/ \E r \in Requests : Retired(r) \/ Rejected(r) \/ Locked(r)
  \/ \E t \in Tasks : RetireLocked(t)

Answer(r) == \/ Started(r) \/ StartFails(r) \/ Release(r)
             \/ \E ok \in BOOLEAN : CleanedUp(r, ok) \/ Renewed(r, ok)

\* The I/O that the holder of slot n awaits ends.
EndsOn(n) == \/ \E r \in Requests : on[r] = n /\ Answer(r)
             \/ \E t \in Tasks : on[t] = n /\ (WorkerClosed(t) \/ CloseFails(t))

Next ==
  \/ Continuation
  \/ \E r \in Requests : Arrive(r) \/ Abort(r) \/ Answer(r)
  \/ \E t \in Tasks : WorkerClosed(t) \/ CloseFails(t)
  \/ \E k \in Keys : RetireGrant(k) \/ Lapse(k)
  \/ Expire \/ Close

Spec == Init /\ [][Next]_vars

\* Continuations run; starting, renewing and closing a worker are bounded in
\* time and a lease is released when its request is answered.  The end of an
\* I/O operation waits for the continuations of other events, but it is not
\* passed over for ever: hence strong fairness.
FairSpec ==
  /\ Spec
  /\ WF_vars(Continuation)
  /\ \A n \in SlotIds : SF_vars(EndsOn(n))

-----------------------------------------------------------------------------
(***************************************************************************)
(* Properties.                                                             *)
(***************************************************************************)
Awaits == {"idle", "retiring", "closing", "retired", "locking", "rejected",
           "starting", "renewing", "leased", "cleanup"}

\* Types: no negative reference count, no task queued twice.
TypeOK ==
  /\ slotAt \in [Keys -> SlotIds \cup {None}]
  /\ \A n \in SlotIds :
       /\ slot[n].key \in Keys /\ slot[n].refs \in 0..Cardinality(Requests)
       /\ slot[n].retiring \in BOOLEAN /\ slot[n].worker \in BOOLEAN
       /\ slot[n].held \in BOOLEAN /\ slot[n].waiters \in Seq(Tasks)
  /\ pc \in [Tasks -> Awaits]
  /\ on \in [Tasks -> SlotIds \cup {None}]
  /\ ready \in Seq(Tasks)
  /\ live \subseteq SlotIds /\ aborted \subseteq Requests
  /\ revoked \subseteq Keys /\ closed \in BOOLEAN /\ failed \in BOOLEAN

Waiting(n) == {slot[n].waiters[i] : i \in 1..Len(slot[n].waiters)}
Working == {"retiring", "closing", "locking", "starting", "renewing", "leased", "cleanup"}

\* A lock is neither lost nor shared: it is held exactly while one task that
\* is not in the line works on the slot, be it a request or a retirement.
OneHolder ==
  \A n \in SlotIds :
    Cardinality({t \in Tasks : on[t] = n /\ pc[t] \in Working} \ Waiting(n))
      = IF slot[n].held THEN 1 ELSE 0

\* References count the requests on the slot, so that an idle worker can be
\* told from one a request is about to use.
ReferencesCount ==
  \A n \in SlotIds : slot[n].refs =
    Cardinality({r \in Requests : on[r] = n /\ pc[r] \notin {"retiring", "closing"}})

\* What the slots say of the tasks that work on them, at any time.
SlotsInvariant == TypeOK /\ OneHolder /\ ReferencesCount

\* A worker is handed out only for a grant in force, by a registry that is
\* open or was when the request passed its checks, on a slot not retiring.
LeaseIsPermitted ==
  [][\A r \in Requests : pc[r] # "leased" /\ pc'[r] = "leased" =>
       /\ KeyOf[r] \notin revoked /\ r \notin aborted
       /\ pc[r] # "renewing" => ~closed /\ ~slot'[on[r]].retiring]_vars

\* Every request is answered: no retirement, abort or failure loses the lock.
EveryRequestEnds == \A r \in Requests : pc[r] # "idle" ~> pc[r] = "idle"

\* gateway/DESIGN.md: "One persistent Node subprocess belongs to one
\* server-issued login grant".
OneWorkerPerLogin ==
  \A m, n \in live : slot[m].key = slot[n].key => m = n
=============================================================================
