----------------------------- MODULE ReplicaOpen -----------------------------
(***************************************************************************)
(* Opening, creating and closing notebooks in the service                  *)
(* (service/service.ts): which replicas (a Y.Doc with its room WebSocket)  *)
(* exist, who owns each, and how concurrent opens of one path share one.   *)
(*                                                                         *)
(* What a call does between two awaits is one action.  Jupyter answers a   *)
(* request at any time, may fail any of them, and its files are moved and  *)
(* removed by other clients meanwhile.                                     *)
(***************************************************************************)
EXTENDS Integers, Sequences, FiniteSets

CONSTANTS
  Callers,     \* concurrent tool calls; each makes one after another
  Creators,    \* the callers that also call notebook_create
  Sessions,    \* working sessions (server bindings)
  Paths,       \* contents paths
  NoCaller,
  Budget,      \* maxOpenNotebooks
  MaxReplicas, \* bound: replicas ever built; a room beyond it fails to open
  MaxFiles,    \* bound: files ever created
  MaxMoves     \* bound: moves and removals of files by other clients

ASSUME ConstantsAssumption ==
  /\ Creators \subseteq Callers /\ NoCaller \notin Callers /\ IsFiniteSet(Paths)
  /\ Budget \in Nat /\ MaxReplicas \in Nat /\ MaxFiles \in Nat /\ MaxMoves \in Nat

VARIABLES
  pc,       \* what each call awaits
  arg,      \* the session and path each call is about
  mine,     \* the replica a call is building or closing, 0 for none
  leader,   \* the call whose open a joined call shares
  replica,  \* every replica ever built: its session, path, file, the tool that
            \* asked for it, and whether it is live
  notebooks,\* session.notebooks: the registered replicas of each session
  opening,  \* session.opening: the call opening each path, or NoCaller
  lock,     \* the mutation lock of each session: its holder and the waiters
  closed,   \* sessions that were torn down
  stopping, \* shutdown has begun
  fileAt,   \* Jupyter: the file id at each path, 0 for no file
  files,    \* file ids handed out
  moves     \* moves and removals so far

vars == <<pc, arg, mine, leader, replica, notebooks, opening, lock, closed,
          stopping, fileAt, files, moves>>
server == <<fileAt, files, moves>>

Init ==
  /\ pc = [c \in Callers |-> "idle"]
  /\ arg \in [Callers -> {[session |-> s, path |-> p] : s \in Sessions, p \in Paths}]
  /\ \A c, d \in Callers : arg[c] = arg[d]
  /\ mine = [c \in Callers |-> 0]
  /\ leader = [c \in Callers |-> NoCaller]
  /\ replica = << >>
  /\ notebooks = [s \in Sessions |-> {}]
  /\ opening = [s \in Sessions |-> [p \in Paths |-> NoCaller]]
  /\ lock = [s \in Sessions |-> << >>]
  /\ closed = {}
  /\ stopping = FALSE
  /\ \E n \in 0..Cardinality(Paths) :
       /\ files = n
       /\ fileAt \in [Paths -> 0..n]
       /\ \A i \in 1..n : \E p \in Paths : fileAt[p] = i /\ \A q \in Paths \ {p} : fileAt[q] # i
  /\ moves = 0

------------------------------------------------------------------------------
Live == {n \in DOMAIN replica : replica[n].live}
OpenNotebooks == UNION {notebooks[s] : s \in Sessions}

\* #assertReplicaBudget counts the registered replicas, not the ones opening.
WithinReplicaBudget == Cardinality(OpenNotebooks) < Budget

\* Mutant of SessionOpen: the check is not made.
SessionOpen_Unchecked(c) == TRUE

\* #assertSessionOpen.
SessionOpen(c) == arg[c].session \notin closed

\* Mutant of Joins: every open builds its own replica.
Joins_Never(s, p) == FALSE

\* What a queued creation checks once it has the lock.
MayCreate(c) == ~stopping /\ SessionOpen(c) /\ WithinReplicaBudget

\* An open of this path is running, and this one shares it.
Joins(s, p) == opening[s][p] # NoCaller

HasFile(c) == fileAt[arg[c].path] # 0

\* The tool whose call is in #openHandle: an open has its entry in
\* session.opening, a creation has the lock.
Tool(c) == IF opening[arg[c].session][arg[c].path] = c THEN "open" ELSE "create"

\* The calls between the start of #openHandle and its end.
InOpenHandle == {c \in Callers : pc[c] \in {"stat", "collaboration", "room", "baseline"}}

Dispose(ns) == replica' = [n \in DOMAIN replica |->
  IF n \in ns THEN [replica[n] EXCEPT !.live = FALSE] ELSE replica[n]]

\* An open that fails releases the replica it built, if any.
Discard(c) == Dispose({mine[c]})

\* session.opening and the lock once the call is over: its own entry goes, and
\* the lock it held passes to the next waiter.
OpeningAfter(c) ==
  LET s == arg[c].session  p == arg[c].path IN
  IF opening[s][p] = c THEN [opening EXCEPT ![s][p] = NoCaller] ELSE opening

LockAfter(c) ==
  LET s == arg[c].session IN
  IF lock[s] # << >> /\ Head(lock[s]) = c THEN [lock EXCEPT ![s] = Tail(@)] ELSE lock

\* Mutant of Answered: nobody tells the calls that joined.
Answered_Alone(c) == {c}

\* The calls that get the answer of c: its own and those that joined its open.
Answered(c) == {c} \cup {d \in Callers : leader[d] = c}

\* The call returns.
Settle(c) ==
  /\ pc' = [d \in Callers |-> IF d \in Answered(c) THEN "idle" ELSE pc[d]]
  /\ leader' = [d \in Callers |-> IF d \in Answered(c) THEN NoCaller ELSE leader[d]]
  /\ mine' = [mine EXCEPT ![c] = 0]
  /\ opening' = OpeningAfter(c)
  /\ lock' = LockAfter(c)

Await(c, what) == pc' = [pc EXCEPT ![c] = what]

Proceed(c, what) == Await(c, what) /\ UNCHANGED <<mine, leader, opening, lock>>

------------------------------------------------------------------------------
\* notebook_open.  A path that is already open answers at once and changes
\* nothing; a path being opened is joined; else #openHandle starts.
NotebookOpen(c, s, p) ==
  /\ pc[c] = "idle" /\ ~stopping /\ s \notin closed
  /\ \A n \in notebooks[s] : replica[n].path # p
  /\ arg' = [arg EXCEPT ![c] = [session |-> s, path |-> p]]
  /\ \/ /\ Joins(s, p)
        /\ Await(c, "joined")
        /\ leader' = [leader EXCEPT ![c] = opening[s][p]]
        /\ UNCHANGED opening
     \/ /\ ~Joins(s, p) /\ WithinReplicaBudget
        /\ Await(c, "stat")
        /\ opening' = [opening EXCEPT ![s][p] = c]
        /\ UNCHANGED leader
  /\ UNCHANGED <<mine, replica, notebooks, lock, closed, stopping, server>>

\* notebook_create queues for the session's mutation lock.
NotebookCreate(c, s, p) ==
  /\ c \in Creators /\ pc[c] = "idle" /\ ~stopping /\ s \notin closed
  /\ arg' = [arg EXCEPT ![c] = [session |-> s, path |-> p]]
  /\ lock' = [lock EXCEPT ![s] = Append(@, c)]
  /\ Await(c, "queued")
  /\ UNCHANGED <<mine, leader, replica, notebooks, opening, closed, stopping, server>>

\* The creation has the lock: it is accepted and sent, or refused.
CreateGetsLock(c) ==
  /\ pc[c] = "queued" /\ Head(lock[arg[c].session]) = c
  /\ \/ MayCreate(c) /\ Proceed(c, "untitled")
     \/ ~MayCreate(c) /\ Settle(c)
  /\ UNCHANGED <<arg, replica, notebooks, closed, stopping, server>>

\* Jupyter created the untitled notebook and renamed it to a name that was
\* free; #openHandle starts with the two checks it makes for an open.
FileCreated(c) ==
  /\ pc[c] = "untitled" /\ ~HasFile(c) /\ files < MaxFiles
  /\ files' = files + 1
  /\ fileAt' = [fileAt EXCEPT ![arg[c].path] = files + 1]
  /\ \/ SessionOpen(c) /\ WithinReplicaBudget /\ Proceed(c, "stat")
     \/ ~(SessionOpen(c) /\ WithinReplicaBudget) /\ Settle(c)
  /\ UNCHANGED <<arg, replica, notebooks, closed, stopping, moves>>

\* A request of the call fails, or its room does not open.
RequestFails(c) ==
  /\ pc[c] \in {"untitled", "stat", "collaboration", "room"}
  /\ Discard(c)
  /\ Settle(c)
  /\ UNCHANGED <<arg, notebooks, closed, stopping, server>>

------------------------------------------------------------------------------
\* #openHandle, continued: the file exists, or does not.
StatAnswered(c) ==
  /\ pc[c] = "stat"
  /\ \/ SessionOpen(c) /\ HasFile(c) /\ Proceed(c, "collaboration")
     \/ ~(SessionOpen(c) /\ HasFile(c)) /\ Settle(c)
  /\ UNCHANGED <<arg, replica, notebooks, closed, stopping, server>>

\* Jupyter named the document.  A replica the session already has is
\* answered, else one is built and its room connects; the room of a path
\* without a file is refused.
CollaborationAnswered(c) ==
  LET s == arg[c].session
      f == fileAt[arg[c].path]
      again == \E n \in notebooks[s] : replica[n].file = f
      builds == SessionOpen(c) /\ HasFile(c) /\ ~again IN
  /\ pc[c] = "collaboration"
  /\ \/ /\ builds /\ Len(replica) < MaxReplicas
        /\ replica' = Append(replica, [session |-> s, path |-> arg[c].path,
                                       file |-> f, by |-> Tool(c), live |-> TRUE])
        /\ mine' = [mine EXCEPT ![c] = Len(replica) + 1]
        /\ Await(c, "room")
        /\ UNCHANGED <<leader, opening, lock>>
     \/ ~builds /\ Settle(c) /\ UNCHANGED replica
  /\ UNCHANGED <<arg, notebooks, closed, stopping, server>>

\* The room is synchronised: read the file for the overwrite baseline.
RoomReady(c) ==
  /\ pc[c] = "room"
  /\ \/ SessionOpen(c) /\ Proceed(c, "baseline") /\ UNCHANGED replica
     \/ ~SessionOpen(c) /\ Discard(c) /\ Settle(c)
  /\ UNCHANGED <<arg, notebooks, closed, stopping, server>>

\* The baseline was read or given up: the replica is registered.
BaselineRead(c) ==
  /\ pc[c] = "baseline"
  /\ \/ /\ SessionOpen(c)
        /\ notebooks' = [notebooks EXCEPT ![arg[c].session] = @ \cup {mine[c]}]
        /\ UNCHANGED replica
     \/ ~SessionOpen(c) /\ Discard(c) /\ UNCHANGED notebooks
  /\ Settle(c)
  /\ UNCHANGED <<arg, closed, stopping, server>>

------------------------------------------------------------------------------
\* notebook_close asks Jupyter for the kernel sessions first, without the lock.
NotebookClose(c, s, n) ==
  /\ pc[c] = "idle" /\ n \in notebooks[s]
  /\ arg' = [arg EXCEPT ![c] = [session |-> s, path |-> replica[n].path]]
  /\ mine' = [mine EXCEPT ![c] = n]
  /\ Await(c, "closing")
  /\ UNCHANGED <<leader, replica, notebooks, opening, lock, closed, stopping, server>>

\* The answer, or its two seconds are over: close unless somebody else did.
CloseAnswered(c) ==
  LET s == arg[c].session IN
  /\ pc[c] = "closing"
  /\ \/ /\ mine[c] \in notebooks[s]
        /\ notebooks' = [notebooks EXCEPT ![s] = @ \ {mine[c]}]
        /\ Dispose({mine[c]})
     \/ /\ mine[c] \notin notebooks[s]
        /\ UNCHANGED <<notebooks, replica>>
  /\ pc' = [pc EXCEPT ![c] = "idle"]
  /\ mine' = [mine EXCEPT ![c] = 0]
  /\ UNCHANGED <<arg, leader, opening, lock, closed, stopping, server>>

\* #teardownSession of some sessions, with everything they registered.
Teardown(ss) ==
  /\ closed' = closed \cup ss
  /\ opening' = [s \in Sessions |-> IF s \in ss THEN [p \in Paths |-> NoCaller] ELSE opening[s]]
  /\ Dispose(UNION {notebooks[s] : s \in ss})
  /\ notebooks' = [s \in Sessions |-> IF s \in ss THEN {} ELSE notebooks[s]]

SessionClose(s) ==
  /\ s \notin closed
  /\ Teardown({s})
  /\ UNCHANGED <<pc, arg, mine, leader, lock, stopping, server>>

\* shutdown refuses new calls, gives pending updates two seconds, and tears
\* every session down.
ShutdownBegins ==
  /\ ~stopping
  /\ stopping' = TRUE
  /\ UNCHANGED <<pc, arg, mine, leader, replica, notebooks, opening, lock, closed, server>>

ShutdownEnds ==
  /\ stopping /\ closed # Sessions
  /\ Teardown(Sessions \ closed)
  /\ UNCHANGED <<pc, arg, mine, leader, lock, stopping, server>>

\* Another client moves a file, or removes it.
FileMoved(p, q) ==
  /\ moves < MaxMoves /\ fileAt[p] # 0 /\ (fileAt[q] = 0 \/ p = q)
  /\ moves' = moves + 1
  /\ fileAt' = IF p = q THEN [fileAt EXCEPT ![p] = 0]
               ELSE [fileAt EXCEPT ![p] = 0, ![q] = fileAt[p]]
  /\ UNCHANGED <<pc, arg, mine, leader, replica, notebooks, opening, lock, closed,
                 stopping, files>>

------------------------------------------------------------------------------
Call(c) ==
  \/ \E s \in Sessions, p \in Paths : NotebookOpen(c, s, p) \/ NotebookCreate(c, s, p)
  \/ \E s \in Sessions : \E n \in notebooks[s] : NotebookClose(c, s, n)

Continue(c) ==
  \/ CreateGetsLock(c) \/ FileCreated(c) \/ RequestFails(c)
  \/ StatAnswered(c) \/ CollaborationAnswered(c) \/ RoomReady(c) \/ BaselineRead(c)
  \/ CloseAnswered(c)

Next ==
  \/ \E c \in Callers : Call(c) \/ Continue(c)
  \/ \E s \in Sessions : SessionClose(s)
  \/ ShutdownBegins \/ ShutdownEnds
  \/ \E p, q \in Paths : FileMoved(p, q)

Spec == Init /\ [][Next]_vars

\* Every request to Jupyter is answered, fails or times out, and the event loop
\* runs the continuation; nobody need call, close or move anything.
FairSpec == Spec /\ \A c \in Callers : WF_vars(Continue(c))

------------------------------------------------------------------------------
(* Every value is what its variable may hold. *)
TypeOK ==
  /\ pc \in [Callers -> {"idle", "joined", "queued", "untitled", "stat",
                         "collaboration", "room", "baseline", "closing"}]
  /\ arg \in [Callers -> [session : Sessions, path : Paths]]
  /\ mine \in [Callers -> 0..Len(replica)]
  /\ leader \in [Callers -> Callers \cup {NoCaller}]
  /\ Len(replica) \in 0..MaxReplicas
  /\ files \in Nat /\ moves \in 0..MaxMoves
  /\ replica \in Seq([session : Sessions, path : Paths, file : 1..files,
                      by : {"open", "create"}, live : BOOLEAN])
  /\ notebooks \in [Sessions -> SUBSET DOMAIN replica]
  /\ opening \in [Sessions -> [Paths -> Callers \cup {NoCaller}]]
  /\ lock \in [Sessions -> Seq(Callers)]
  /\ closed \subseteq Sessions /\ stopping \in BOOLEAN
  /\ fileAt \in [Paths -> 0..files]

(* No replica leaks: one whose WebSocket is up is registered in an open
   session, where notebook_close and session_close find it, or is in the hands
   of the one open that is still building it. *)
ReplicasAreOwned ==
  \A n \in Live :
    \/ \E s \in Sessions \ closed : n \in notebooks[s]
    \/ \E c \in Callers : pc[c] \in {"room", "baseline"} /\ mine[c] = n

(* A session that was closed while opens were in flight gets no replica from
   them afterwards, and every registered replica is a live one of its session. *)
RegisteredIsLive ==
  \A s \in Sessions : \A n \in notebooks[s] :
    s \notin closed /\ replica[n].live /\ replica[n].session = s

(* An entry of session.opening is an open that is running: the failure of one
   open never answers a later open of that path. *)
OpeningIsRunning ==
  \A s \in Sessions, p \in Paths :
    opening[s][p] # NoCaller =>
      /\ opening[s][p] \in InOpenHandle
      /\ arg[opening[s][p]] = [session |-> s, path |-> p]

(* What the handles and the opens under way say of the replicas, at any time. *)
ReplicasInvariant ==
  /\ TypeOK
  /\ ReplicasAreOwned
  /\ RegisteredIsLive
  /\ OpeningIsRunning

(* Concurrent opens coalesce: a session has at most one live replica that
   notebook_open built for a path, whatever fails, moves or closes meanwhile,
   unless the file at that path is another one by now. *)
OpensCoalesce ==
  \A m, n \in Live :
    /\ replica[m].by = "open" /\ replica[n].by = "open"
    /\ replica[m].session = replica[n].session
    /\ replica[m].path = replica[n].path /\ replica[m].file = replica[n].file
    => m = n

(* A creation that was queued for the lock when its session closed or shutdown
   began is refused: it creates no file. *)
NothingCreatedAfterClose ==
  [][\A c \in Callers : pc[c] = "queued" /\ pc'[c] = "untitled" =>
       ~stopping /\ arg[c].session \notin closed]_vars

(* Every call returns, the ones that joined another's open and the ones that
   wait for the session lock included. *)
EveryCallReturns == \A c \in Callers : pc[c] # "idle" ~> pc[c] = "idle"
==============================================================================
