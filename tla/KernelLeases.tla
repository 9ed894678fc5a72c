---------------------------- MODULE KernelLeases ----------------------------
(***************************************************************************)
(* Kernel bindings of the open notebooks and the shared kernel connections *)
(* behind them (service/kernel-hub.ts and the kernel calls of              *)
(* service/service.ts): leases, reference counts, invalidation when a      *)
(* kernel restarts, goes or is replaced, and closes that overtake calls.   *)
(*                                                                         *)
(* What a call does between two awaits is one action.  The browser starts  *)
(* and stops kernels meanwhile.  Deduplication is RequestLedger, and what  *)
(* a job does in its kernel is ExecutionRegistry.                          *)
(***************************************************************************)
EXTENDS Integers, Sequences, FiniteSets

CONSTANTS
  Callers,    \* concurrent tool calls; each makes one after another
  Notebooks,  \* notebook handles, all open at the start
  SessionOf,  \* SessionOf[n]: the working session of handle n
  PathOf,     \* PathOf[n]: its contents path
  MaxKernels, \* bound: kernels ever started
  MaxClients  \* bound: kernel connections ever made; none is made beyond it

ASSUME ConstantsAssumption ==
  /\ IsFiniteSet(Notebooks) /\ Notebooks # {}
  /\ DOMAIN SessionOf = Notebooks /\ DOMAIN PathOf = Notebooks
  /\ MaxKernels \in Nat \ {0} /\ MaxClients \in Nat

Sessions == {SessionOf[n] : n \in Notebooks}
Paths    == {PathOf[n] : n \in Notebooks}
Kernels  == 1..MaxKernels
Tools    == {"execute", "start", "restart", "shutdown", "switch", "close", "force_close"}
None     == 0

VARIABLES
  pc,       \* what each call awaits
  arg,      \* the handle and the tool of each call
  saw,      \* the kernel a call found bound to its path
  open,     \* registered handles
  closed,   \* sessions that were torn down
  stopping, \* shutdown has begun
  stopped,  \* shutdown is over
  lock,     \* the mutation lock of each session: its holder and the waiters
  binding,  \* session.bindings: the connection each handle leases
  client,   \* every kernel connection ever made: kernel, references, live
  hub,      \* KernelHub: the connection shared for each kernel
  jobs,     \* unfinished jobs of open handles and the connection each is on
  kernelAt, \* Jupyter: the kernel of each path's session
  kernels   \* kernels started so far

vars == <<pc, arg, saw, open, closed, stopping, stopped, lock, binding, client, hub, jobs,
          kernelAt, kernels>>
calls == <<pc, arg, saw, lock>>
leases == <<binding, client, hub>>

Init ==
  /\ pc = [c \in Callers |-> "idle"]
  /\ arg = [c \in Callers |-> [notebook |-> CHOOSE n \in Notebooks : TRUE, tool |-> "execute"]]
  /\ saw = [c \in Callers |-> None]
  /\ open = Notebooks
  /\ closed = {}
  /\ stopping = FALSE /\ stopped = FALSE
  /\ lock = [s \in Sessions |-> << >>]
  /\ binding = [n \in Notebooks |-> None]
  /\ client = << >>
  /\ hub = [k \in Kernels |-> None]
  /\ jobs = {}
  /\ kernelAt \in [Paths -> {None, 1}]
  /\ \A p, q \in Paths : kernelAt[p] = 1 /\ kernelAt[q] = 1 => p = q
  /\ kernels = 1

------------------------------------------------------------------------------
\* What Jupyter says of the session of a handle's path, and whether execution
\* can go on with it.
LookupBinding(n)  == kernelAt[PathOf[n]]
RequireBinding(n) == LookupBinding(n) # None

(* The hub: every operation maps the leases to the leases. *)
Leases == [binding |-> binding, client |-> client, hub |-> hub]

\* Mutant of Unshared: a closed connection need not be the current one.
Unshared_Any(L, gone) ==
  [k \in Kernels |-> IF \E b \in gone : L.client[b].kernel = k THEN None ELSE L.hub[k]]

\* The hub without the connections in gone: a newer one of the kernel stays.
Unshared(L, gone) == [k \in Kernels |-> IF L.hub[k] \in gone THEN None ELSE L.hub[k]]

\* The handles ns release their leases, one after the other: connection b has
\* fewer references, and the last one of a connection closes it.
Left(L, ns, b) == L.client[b].refs - Cardinality({n \in ns : L.binding[n] = b})
Last(L, ns)    == {b \in DOMAIN L.client : Left(L, ns, b) = 0 /\ \E n \in ns : L.binding[n] = b}

Released(L, ns) ==
  [binding |-> [n \in Notebooks |-> IF n \in ns THEN None ELSE L.binding[n]],
   client  |-> [b \in DOMAIN L.client |->
                  [L.client[b] EXCEPT !.refs = Left(L, ns, b),
                                      !.live = @ /\ b \notin Last(L, ns)]],
   hub     |-> Unshared(L, Last(L, ns))]

\* The shared connections of the kernels ks are dropped, whoever leases them.
SharedBy(L, ks) == {L.hub[k] : k \in ks} \ {None}

Invalidated(L, ks) ==
  [binding |-> L.binding,
   client  |-> [b \in DOMAIN L.client |->
                  [L.client[b] EXCEPT !.live = @ /\ b \notin SharedBy(L, ks)]],
   hub     |-> Unshared(L, SharedBy(L, ks))]

\* Handle n leases the connection of kernel k, which is made when there is none.
Acquired(L, n, k) ==
  IF L.hub[k] # None
  THEN [L EXCEPT !.client[L.hub[k]].refs = @ + 1, !.binding[n] = L.hub[k]]
  ELSE LET b == Len(L.client) + 1 IN
       [binding |-> [L.binding EXCEPT ![n] = b],
        client  |-> Append(L.client, [kernel |-> k, refs |-> 1, live |-> TRUE]),
        hub     |-> [L.hub EXCEPT ![k] = b]]

\* Mutant of Keeps: a lease whose connection was dropped is kept.
Keeps_Stale(L, n, k) == L.binding[n] # None /\ L.client[L.binding[n]].kernel = k

\* The lease of handle n still serves kernel k.
Keeps(L, n, k) ==
  L.binding[n] # None /\ L.client[L.binding[n]].kernel = k /\ L.client[L.binding[n]].live

\* #bind.
Bound(L, n, k) == IF Keeps(L, n, k) THEN L ELSE Acquired(Released(L, {n}), n, k)

\* The leases become L; of the jobs left, those on a connection that went end.
Become(L, left, submitted) ==
  /\ Len(L.client) <= MaxClients
  /\ binding' = L.binding /\ client' = L.client /\ hub' = L.hub
  /\ jobs' = {j \in left : L.client[j.client].live} \cup submitted

------------------------------------------------------------------------------
Await(c, what) == pc' = [pc EXCEPT ![c] = what]

SessionOfCall(c) == SessionOf[arg[c].notebook]

HasLock(c) == lock[SessionOfCall(c)] # << >> /\ Head(lock[SessionOfCall(c)]) = c

\* The call returns, and the lock it holds goes to the next waiter.
Settle(c) ==
  /\ Await(c, "idle")
  /\ saw' = [saw EXCEPT ![c] = None]
  /\ lock' = [lock EXCEPT ![SessionOfCall(c)] = Tail(@)]

Active(n) == \E j \in jobs : j.notebook = n

\* notebook_execute and kernel_control locate the handle, then queue for the
\* session's mutation lock.
Call(c, n, tool) ==
  /\ pc[c] = "idle" /\ n \in open /\ ~stopping
  /\ arg' = [arg EXCEPT ![c] = [notebook |-> n, tool |-> tool]]
  /\ lock' = [lock EXCEPT ![SessionOf[n]] = Append(@, c)]
  /\ Await(c, "queued")
  /\ UNCHANGED <<saw, open, closed, stopping, stopped, leases, jobs, kernelAt, kernels>>

\* The lock is had.  Execution wants a live replica and no active job; control
\* checks neither.  Both ask Jupyter which kernel the path has.
GotLock(c) ==
  LET n == arg[c].notebook
      ok == arg[c].tool = "execute" => n \in open /\ ~Active(n) IN
  /\ pc[c] = "queued" /\ HasLock(c)
  /\ \/ ok /\ Await(c, "lookup") /\ UNCHANGED <<lock, saw>>
     \/ ~ok /\ Settle(c)
  /\ UNCHANGED <<arg, open, closed, stopping, stopped, leases, jobs, kernelAt, kernels>>

\* A request fails, the caller expected another kernel, or the ledger refuses.
Refused(c) ==
  /\ pc[c] \in {"queued", "lookup", "specs", "effect"} /\ HasLock(c)
  /\ Settle(c)
  /\ UNCHANGED <<arg, open, closed, stopping, stopped, leases, jobs, kernelAt, kernels>>

\* Execution binds the kernel it was told of and submits; it is the ledger that
\* may still refuse, after the binding.
ExecutionBinds(c) ==
  LET n == arg[c].notebook
      k == LookupBinding(n)
      L == Bound(Leases, n, k)
      job == [notebook |-> n, client |-> L.binding[n]] IN
  /\ pc[c] = "lookup" /\ arg[c].tool = "execute" /\ RequireBinding(n)
  /\ Become(L, jobs, {}) \/ Become(L, jobs, {job})
  /\ Settle(c)
  /\ UNCHANGED <<arg, open, closed, stopping, stopped, kernelAt, kernels>>

\* Control learns the kernel; start and switch ask for the kernelspecs next.
ControlLooks(c) ==
  /\ pc[c] = "lookup" /\ arg[c].tool # "execute"
  /\ saw' = [saw EXCEPT ![c] = LookupBinding(arg[c].notebook)]
  /\ \/ arg[c].tool \in {"start", "switch"} /\ Await(c, "specs")
     \/ arg[c].tool \in {"restart", "shutdown"} /\ saw'[c] # None /\ Await(c, "effect")
  /\ UNCHANGED <<arg, lock, open, closed, stopping, stopped, leases, jobs, kernelAt, kernels>>

\* Accepted: start reuses the kernel it saw, else the request goes out.
ControlAccepted(c) ==
  LET n == arg[c].notebook IN
  /\ pc[c] = "specs"
  /\ IF arg[c].tool = "start" /\ saw[c] # None
     THEN Become(Bound(Leases, n, saw[c]), jobs, {}) /\ Await(c, "status")
     ELSE Await(c, "effect") /\ UNCHANGED <<leases, jobs>>
  /\ UNCHANGED <<arg, saw, lock, open, closed, stopping, stopped, kernelAt, kernels>>

\* Mutant of Dropped: a restart does not invalidate the connection.
Dropped_Reused(c, after) == IF arg[c].tool = "restart" THEN {} ELSE {saw[c]} \ {None}

\* The kernel, if any, whose connection a control that ends at kernel after
\* invalidates.
Dropped(c, after) ==
  IF after = saw[c] /\ arg[c].tool # "restart" THEN {} ELSE {saw[c]} \ {None}

\* Jupyter did what was asked: the old connection is invalidated, the lease of
\* the handle dropped, and the kernel that is there now bound.
ControlDone(c, after) ==
  LET n == arg[c].notebook
      L == Released(Invalidated(Leases, Dropped(c, after)), {n}) IN
  /\ pc[c] = "effect"
  /\ Become(IF after = None THEN L ELSE Bound(L, n, after), jobs, {})
  /\ kernelAt' = [kernelAt EXCEPT ![PathOf[n]] = after]
  /\ kernels' = IF after = kernels + 1 THEN after ELSE kernels
  /\ Await(c, "status")
  /\ UNCHANGED <<arg, saw, lock, open, closed, stopping, stopped>>

\* Jupyter reuses the session a path has, gives a switched one a new kernel, and
\* knows no session or kernel that is gone.
KernelControl(c) ==
  LET now == kernelAt[PathOf[arg[c].notebook]]  tool == arg[c].tool IN
  \/ tool \in {"start", "switch"} /\ saw[c] = None /\ now # None /\ ControlDone(c, now)
  \/ /\ tool \in {"start", "switch"} /\ (saw[c] = None <=> now = None)
     /\ kernels < MaxKernels /\ ControlDone(c, kernels + 1)
  \/ tool = "restart" /\ now = saw[c] /\ ControlDone(c, now)
  \/ tool = "shutdown" /\ now = saw[c] /\ ControlDone(c, None)

StatusRead(c) ==
  /\ pc[c] = "status"
  /\ Settle(c)
  /\ UNCHANGED <<arg, open, closed, stopping, stopped, leases, jobs, kernelAt, kernels>>

------------------------------------------------------------------------------
MayClose(c, n) == arg[c].tool = "force_close" \/ ~Active(n)

\* notebook_close asks Jupyter whether the kernel runs, without the lock.
NotebookClose(c, n, tool) ==
  /\ pc[c] = "idle" /\ n \in open
  /\ tool = "force_close" \/ ~Active(n)
  /\ arg' = [arg EXCEPT ![c] = [notebook |-> n, tool |-> tool]]
  /\ Await(c, "closing")
  /\ UNCHANGED <<saw, lock, open, closed, stopping, stopped, leases, jobs, kernelAt, kernels>>

\* #closeNotebook of some handles: their jobs and leases go.
Closing(ns, L) ==
  /\ open' = open \ ns
  /\ Become(L, {j \in jobs : j.notebook \notin ns}, {})

\* The answer came, or two seconds are over.
CloseAnswered(c) ==
  LET n == arg[c].notebook IN
  /\ pc[c] = "closing"
  /\ \/ n \in open /\ MayClose(c, n) /\ Closing({n}, Released(Leases, {n}))
     \/ ~(n \in open /\ MayClose(c, n)) /\ UNCHANGED <<open, leases, jobs>>
  /\ Await(c, "idle")
  /\ UNCHANGED <<arg, saw, lock, closed, stopping, stopped, kernelAt, kernels>>

\* session_close tears the session down at once.
SessionClose(s) ==
  LET ns == {n \in open : SessionOf[n] = s} IN
  /\ s \notin closed /\ closed' = closed \cup {s}
  /\ Closing(ns, Released(Leases, ns))
  /\ UNCHANGED <<calls, stopping, stopped, kernelAt, kernels>>

ShutdownBegins ==
  /\ ~stopping /\ stopping' = TRUE
  /\ UNCHANGED <<calls, open, closed, stopped, leases, jobs, kernelAt, kernels>>

\* Every session is torn down, then every connection of the hub.
ShutdownEnds ==
  LET L == Released(Leases, open) IN
  /\ stopping /\ ~stopped
  /\ stopped' = TRUE /\ closed' = Sessions
  /\ Closing(open, Invalidated(L, Kernels))
  /\ UNCHANGED <<calls, stopping, kernelAt, kernels>>

------------------------------------------------------------------------------
JobEnds(j) ==
  /\ jobs' = jobs \ {j}
  /\ UNCHANGED <<calls, open, closed, stopping, stopped, leases, kernelAt, kernels>>

\* The watch found that a kernel with an unfinished job is gone.
KernelGone(k) ==
  LET watched == {n \in Notebooks : SessionOf[n] \notin closed}
      holders == {n \in watched : binding[n] # None /\ client[binding[n]].kernel = k} IN
  /\ ~stopping
  /\ \E j \in jobs : j.notebook \in watched /\ client[j.client].kernel = k
  /\ \A p \in Paths : kernelAt[p] # k
  /\ Become(Released(Invalidated(Leases, {k}), holders), jobs, {})
  /\ UNCHANGED <<calls, open, closed, stopping, stopped, kernelAt, kernels>>

\* The browser starts, replaces or stops the kernel of a path.
Browser(p) ==
  /\ \/ /\ kernels < MaxKernels /\ kernels' = kernels + 1
        /\ kernelAt' = [kernelAt EXCEPT ![p] = kernels + 1]
     \/ kernelAt[p] # None /\ kernelAt' = [kernelAt EXCEPT ![p] = None] /\ UNCHANGED kernels
  /\ UNCHANGED <<calls, open, closed, stopping, stopped, leases, jobs>>

------------------------------------------------------------------------------
Next ==
  \/ \E c \in Callers, n \in Notebooks :
       \/ \E tool \in {"execute", "start", "restart", "shutdown", "switch"} : Call(c, n, tool)
       \/ \E tool \in {"close", "force_close"} : NotebookClose(c, n, tool)
  \/ \E c \in Callers :
       \/ GotLock(c) \/ Refused(c) \/ ExecutionBinds(c)
       \/ ControlLooks(c) \/ ControlAccepted(c) \/ KernelControl(c) \/ StatusRead(c)
       \/ CloseAnswered(c)
  \/ \E s \in Sessions : SessionClose(s)
  \/ ShutdownBegins \/ ShutdownEnds
  \/ \E j \in jobs : JobEnds(j)
  \/ \E k \in Kernels : KernelGone(k)
  \/ \E p \in Paths : Browser(p)

Spec == Init /\ [][Next]_vars

------------------------------------------------------------------------------
(* Every value is what its variable may hold. *)
TypeOK ==
  /\ pc \in [Callers -> {"idle", "queued", "lookup", "specs", "effect", "status", "closing"}]
  /\ arg \in [Callers -> [notebook : Notebooks, tool : Tools]]
  /\ saw \in [Callers -> {None} \cup Kernels]
  /\ open \subseteq Notebooks /\ closed \subseteq Sessions
  /\ stopping \in BOOLEAN /\ stopped \in BOOLEAN
  /\ lock \in [Sessions -> Seq(Callers)]
  /\ client \in Seq([kernel : Kernels, refs : Nat, live : BOOLEAN])
  /\ binding \in [Notebooks -> {None} \cup DOMAIN client]
  /\ hub \in [Kernels -> {None} \cup DOMAIN client]
  /\ jobs \subseteq [notebook : Notebooks, client : DOMAIN client]
  /\ kernelAt \in [Paths -> {None} \cup Kernels] /\ kernels \in Kernels

(* The references of a connection are the bindings that lease it, through every
   rebinding, close and invalidation: a shared connection closes with its last
   lease and not before. *)
LeasesCount ==
  \A b \in DOMAIN client :
    /\ client[b].refs = Cardinality({n \in Notebooks : binding[n] = b})
    /\ client[b].live => client[b].refs > 0

(* All live connections to one kernel are one: it is the hub's, so jobs of
   every handle on that kernel share one queue. *)
OneConnectionPerKernel ==
  \A b \in DOMAIN client : client[b].live => hub[client[b].kernel] = b

(* What the hub, its connections and the bindings say of each other, always. *)
LeasesInvariant == TypeOK /\ LeasesCount /\ OneConnectionPerKernel

(* Every unfinished job is on a live connection: a call whose lease went stale,
   because another handle restarted or replaced the kernel, leases the new
   connection before it submits. *)
JobsAreServed == \A j \in jobs : client[j.client].live

(* A handle has at most one unfinished job: two calls that both found it idle
   do not both submit, although each waits for Jupyter in between. *)
OneJobPerHandle == \A i, j \in jobs : i.notebook = j.notebook => i = j

(* Both: a handle has one unfinished job at most, and it is being served. *)
JobsInvariant == JobsAreServed /\ OneJobPerHandle

(* When a restart ends, the connection that the old kernel process had is
   dropped for every handle that leases it, and a connection once dropped, be
   it by a restart, a close or the watch, is dropped for good: neither the jobs
   that were under way nor any job submitted later, through whichever handle
   and however stale its lease, is on it. *)
RestartDropsConnection ==
  [][LET Restarted(c) == pc[c] = "effect" /\ pc'[c] = "status" /\ arg[c].tool = "restart"
     IN  \A b \in DOMAIN client :
           ~client[b].live \/ (\E c \in Callers : Restarted(c) /\ client[b].kernel = saw[c]) =>
             ~client'[b].live /\ \A j \in jobs' : j.client # b]_vars
==============================================================================
