---------------------------- MODULE NotebookSave ----------------------------
(***************************************************************************)
(* notebook_save of service/service.ts on an RtcConnection: the snapshot,  *)
(* the Contents read before the save, the RAW save, and the read-back that *)
(* confirms it.  The digests of core/notebook/persistence.ts are the       *)
(* contents themselves here.                                               *)
(*                                                                         *)
(* The replica changes by local and remote edits; the file changes when    *)
(* the server saves the room and when anybody else writes it.  A Contents  *)
(* read is served at one moment and answered at a later one.               *)
(***************************************************************************)
EXTENDS RtcConnection

CONSTANTS
  Savers,   \* concurrent notebook_save calls; each makes one after another
  Contents, \* what a notebook may contain, as digests
  MaxEdits, \* bound: changes of the replica
  MaxWrites \* bound: changes of the file

Unknown == "unknown"     \* null: a digest that could not be made or read

\* A notebook has a content, and a content is not the absence of one.
ASSUME ContentsAssumption == Contents # {} /\ Unknown \notin Contents /\ None \notin Contents

Digests == Contents \union {Unknown}
Verdicts == {"yes", "no", Unknown}

VARIABLES
  replica,         \* content of the replica
  file,            \* content of the file
  observedDisk,    \* handle.observedDiskDigest
  observedReplica, \* handle.observedReplicaDigest
  call,            \* each notebook_save under way
  answer,          \* the last answer of each caller
  moved,           \* history: the file changed since the read behind observedDisk
  held,            \* history: contents of the file since each call's save was answered
  edits, writes    \* changes so far

observed  == <<observedDisk, observedReplica, moved>>
fileVars  == <<replica, file, edits, writes>>
vars      == <<rtcVars, observed, fileVars, call, answer, held>>

Idle == [phase |-> "idle", snapshot |-> Unknown, read |-> None, external |-> Unknown,
         id |-> 0, readMoved |-> FALSE, sawMoved |-> FALSE]
NoAnswer == [saveStatus |-> None, confirmed |-> Unknown, overwrote |-> Unknown]

\* The handle was opened on any replica and file, named by what the replica holds then;
\* the baseline read may have failed.
SaveInit ==
  /\ Init
  /\ replica = CHOOSE c \in Contents : TRUE
  /\ file \in Contents
  /\ observedReplica = replica
  /\ observedDisk \in {file, Unknown}
  /\ call = [s \in Savers |-> Idle]
  /\ answer = [s \in Savers |-> NoAnswer]
  /\ held = [s \in Savers |-> {}]
  /\ moved = FALSE
  /\ edits = 0 /\ writes = 0

------------------------------------------------------------------------------
\* assertWritable of the handle.
Writable == opening = "open" /\ ~Over /\ state = "ready"

\* The snapshot is taken, and the file is read unless the snapshot has no digest.
Begin(s) ==
  /\ call[s].phase = "idle" /\ Writable /\ Len(saves) < MaxSaves
  /\ \E snapshot \in {replica, Unknown} :
       call' = [call EXCEPT ![s] =
                  [Idle EXCEPT !.phase = IF snapshot = Unknown THEN "saving" ELSE "before",
                               !.snapshot = snapshot]]
  /\ answer' = [answer EXCEPT ![s] = NoAnswer]
  /\ held' = [held EXCEPT ![s] = {}]
  /\ UNCHANGED <<rtcVars, observed, fileVars>>

\* The server serves a Contents read; its answer is on its way.
Serve(s) ==
  /\ call[s].phase \in {"before", "confirming"} /\ call[s].read = None
  /\ call' = [call EXCEPT ![s].read = file, ![s].readMoved = FALSE, ![s].sawMoved =
                IF call[s].phase = "before" THEN moved ELSE @]
  /\ UNCHANGED <<rtcVars, observed, fileVars, answer, held>>

\* externalChangeDetected: what the file held, against the last paired observation.
External(before, snapshot) ==
  IF Unknown \in {before, snapshot} THEN Unknown
  ELSE IF before = snapshot THEN "no"
  ELSE IF Unknown \in {observedDisk, observedReplica} THEN Unknown
  ELSE IF before # observedDisk \/ observedDisk # observedReplica THEN "yes" ELSE "no"

\* The read before the save is answered, or it failed or ran out of its quarter.
BeforeRead(s) ==
  /\ call[s].phase = "before"
  /\ \E before \in {Unknown} \union (IF call[s].read = None THEN {} ELSE {call[s].read}) :
       call' = [call EXCEPT ![s].phase = "saving", ![s].read = None,
                            ![s].external = External(before, call[s].snapshot)]
  /\ UNCHANGED <<rtcVars, observed, fileVars, answer, held>>

Throws(s) ==
  /\ call' = [call EXCEPT ![s] = Idle]
  /\ UNCHANGED <<answer, held>>

\* connection.save: refused, or sent.
SendSave(s) ==
  /\ call[s].phase = "saving"
  /\ \/ MaySave /\ Save /\ call' = [call EXCEPT ![s].phase = "sent", ![s].id = Len(saves) + 1]
        /\ UNCHANGED <<answer, held>>
     \/ ~MaySave /\ Throws(s) /\ UNCHANGED rtcVars
  /\ UNCHANGED <<observed, fileVars>>

\* persistenceConfirmation is the snapshot that was read back, or Unknown.
Answers(s, status, confirmed) ==
  /\ answer' = [answer EXCEPT ![s] =
       [saveStatus |-> status, confirmed |-> confirmed,
        overwrote |-> IF confirmed # Unknown THEN call[s].external
                      ELSE IF status = "skipped" THEN "no" ELSE Unknown]]

\* The status of the save: a failure throws, a success is confirmed if time is left.
SaveStatus(s) ==
  LET status == saves[call[s].id].status IN
  /\ call[s].phase = "sent" /\ status # "pending"
  /\ \/ status \in {"failed", "uncertain", "expired", "unsent"} /\ Throws(s)
     \/ /\ status = "success" /\ call[s].snapshot # Unknown
        /\ call' = [call EXCEPT ![s].phase = "confirming", ![s].id = 0]
        /\ held' = [held EXCEPT ![s] = {file}]
        /\ UNCHANGED answer
     \/ /\ status \in {"success", "skipped", "timeout"}
        /\ Answers(s, status, Unknown) /\ call' = [call EXCEPT ![s] = Idle]
        /\ UNCHANGED held
  /\ saves' = [saves EXCEPT ![call[s].id] = [status |-> "taken", socket |-> 0]]
  /\ UNCHANGED <<rtcButSaves, observed, fileVars>>

\* Mutant of Confirms: any readable file confirms.
Confirms_Any(s) == call[s].read # None

\* The read-back returned the snapshot.
Confirms(s) == call[s].read = call[s].snapshot

\* A read-back: the snapshot confirms the save and becomes the paired observation (for the
\* saves under way too, which take no lock), another content is read again, no content or
\* no time ends without confirmation.
ReadBack(s) ==
  /\ call[s].phase = "confirming"
  /\ \/ /\ call[s].read # None /\ Confirms(s)
        /\ Answers(s, "success", call[s].snapshot)
        /\ call' = [t \in Savers |-> IF t = s THEN Idle ELSE [call[t] EXCEPT !.sawMoved = TRUE]]
        /\ observedDisk' = call[s].snapshot /\ observedReplica' = call[s].snapshot
        /\ moved' = call[s].readMoved
     \/ /\ call[s].read # None /\ ~Confirms(s) /\ ~disposed
        /\ call' = [call EXCEPT ![s].read = None]
        /\ UNCHANGED <<answer, observed>>
     \/ /\ Answers(s, "success", Unknown) /\ call' = [call EXCEPT ![s] = Idle]
        /\ UNCHANGED observed
  /\ UNCHANGED <<rtcVars, fileVars, held>>

------------------------------------------------------------------------------
ReplicaChanges ==
  /\ Writable /\ edits < MaxEdits
  /\ edits' = edits + 1
  /\ replica' \in Contents \ {replica}
  /\ UNCHANGED <<rtcVars, observed, file, writes, call, answer, held>>

\* The server saves the room, or anybody else writes the file, while somebody may read it.
FileWritten ==
  /\ Writable \/ \E s \in Savers : call[s].phase \in {"before", "saving", "sent", "confirming"}
  /\ writes < MaxWrites
  /\ writes' = writes + 1
  /\ file' \in Contents \ {file}
  /\ moved' = TRUE
  /\ call' = [s \in Savers |-> [call[s] EXCEPT !.readMoved = TRUE]]
  /\ held' = [s \in Savers |-> IF call[s].phase = "confirming" THEN held[s] \union {file'}
                               ELSE held[s]]
  /\ UNCHANGED <<rtcVars, observedDisk, observedReplica, replica, edits, answer>>

------------------------------------------------------------------------------
Rtc ==
  \/ Connect \/ OpenFails \/ Dispose \/ StructureSeen \/ StructureArrives
  \/ Connected \/ Synced \/ Conflict \/ ProviderTimer
  \/ \E close \in Closes : ConnectionClose(close)
  \/ ReconnectTimer \/ RevalidationRejected
  \/ \E same \in BOOLEAN : Revalidated(same)
  \/ \E id \in DOMAIN saves : SaveTimeout(id) \/ \E r \in Replies : SaveReply(id, r)

RtcStep == Rtc /\ UNCHANGED <<observed, fileVars, call, answer, held>>

Service(s) == Begin(s) \/ Serve(s) \/ BeforeRead(s) \/ SendSave(s) \/ SaveStatus(s) \/ ReadBack(s)

Next == RtcStep \/ ReplicaChanges \/ FileWritten \/ \E s \in Savers : Service(s)

\* Timers fire; an awaited revalidation, which is an HTTP request with a timeout, ends.
Fairness ==
  /\ WF_vars(ReconnectTimer /\ UNCHANGED <<observed, fileVars, call, answer, held>>)
  /\ WF_vars((RevalidationRejected \/ \E same \in BOOLEAN : Revalidated(same))
             /\ UNCHANGED <<observed, fileVars, call, answer, held>>)
  /\ WF_vars((OpenFails \/ StructureSeen) /\ UNCHANGED <<observed, fileVars, call, answer, held>>)
  /\ WF_vars((\E id \in DOMAIN saves : SaveTimeout(id))
             /\ UNCHANGED <<observed, fileVars, call, answer, held>>)
  /\ \A s \in Savers : WF_vars(BeforeRead(s) \/ SendSave(s) \/ SaveStatus(s) \/ (ReadBack(s) /\ call'[s].phase = "idle"))

Spec == SaveInit /\ [][Next]_vars /\ Fairness

------------------------------------------------------------------------------
TypeOK ==
  /\ state \in States /\ terminal \in Errors \union {None}
  /\ {disposed, synced, timer, revalidating, shouldConnect, providerSynced,
      nbformat, moved, stale} \subseteq BOOLEAN
  /\ initRetries \in 0..InitRetryBudget + 1 /\ (terminal = None => initRetries <= InitRetryBudget)
  /\ ws \in {"none", "connecting", "open"} /\ generation \in Nat
  /\ opening \in {"start", "connecting", "structure", "open", "thrown"}
  /\ \A i \in DOMAIN saves : saves[i].status \in Replies \union
        {"pending", "timeout", "uncertain", "expired", "unsent", "taken"} /\ saves[i].socket \in 0..generation
  /\ replica \in Contents /\ file \in Contents
  /\ observedDisk \in Digests /\ observedReplica \in Digests
  /\ \A s \in Savers : call[s].snapshot \in Digests /\ call[s].external \in Verdicts

(* rtc-connection.ts:528: a connection that calls itself ready, and so lets edits, executions *)
(* and saves through, has an open socket in sync with the room; and whatever a listener is   *)
(* told of a lost, failed or closed connection, the synced flag it can read is already down, *)
(* though the provider's own flag is not.                                                    *)
ReadyIsSynced ==
  /\ state = "ready" => ws = "open" /\ synced /\ providerSynced /\ ~Over
  /\ ~stale

(* rtc-connection.ts:598, 621: a connection that was started and is not over has exactly one way *)
(* forward - its socket, its reconnect timer or the revalidation it awaits - and never two that  *)
(* could open two sockets; the provider's own timer is never allowed to open one.                *)
OneWayForward ==
  /\ Cardinality({w \in {"socket", "timer", "revalidation"} :
                    \/ w = "socket" /\ ws # "none"
                    \/ w = "timer" /\ timer
                    \/ w = "revalidation" /\ revalidating /\ ~Over})
     = IF Over \/ opening = "start" THEN 0 ELSE 1
  /\ shouldConnect => ws # "none"

(* save-requests.ts:22: a save is waited for only while the socket that carried it is open, so *)
(* no reply of another socket can answer it and none hangs on a dead one.                      *)
SavesFollowTheSocket ==
  \A i \in DOMAIN saves : saves[i].status = "pending" =>
    ws = "open" /\ saves[i].socket = generation /\ ~Over

(* What the state of the room says of its socket, its timers and its saves, at any time. *)
RoomInvariant ==
  /\ TypeOK
  /\ ReadyIsSynced
  /\ OneWayForward
  /\ SavesFollowTheSocket

(* rtc-connection.ts:637, 656: once the connection failed or was disposed of, no callback that *)
(* was already on its way opens a socket, arms a timer, changes the stored error or the answer *)
(* a save was given.                                                                           *)
OverIsFinal ==
  [][/\ Over => /\ ws' \in {ws, "none"} /\ ~timer' /\ ~shouldConnect'
                /\ terminal # None => terminal' = terminal
                /\ state' \in {"failed", "closed"}
     /\ \A i \in DOMAIN saves : saves[i].status # "pending" => saves'[i].status \in {saves[i].status, "taken"}]_vars

(* service.ts:1370: a confirmed answer is given for a successful save only, and the file did hold *)
(* the very snapshot of the request after the server reported success.                           *)
ConfirmedWasOnDisk ==
  \A s \in Savers :
    /\ answer[s].confirmed # Unknown =>
         answer[s].saveStatus = "success" /\ answer[s].confirmed \in held[s]
    /\ answer[s].overwrote = "yes" => answer[s].confirmed # Unknown

(* SPEC.md:1592: an external change is reported only when the file changed since the read that *)
(* is compared with, or was already different from the replica then, or another save under way *)
(* replaced the observation after this one read the file.                                      *)
ExternalChangesAreReal ==
  \A s \in Savers : call[s].external = "yes" =>
    call[s].sawMoved \/ observedDisk # observedReplica

(* Both: what notebook_save answers is true of the file. *)
AnswersAreTrue == ConfirmedWasOnDisk /\ ExternalChangesAreReal

(* rtc-connection.ts:574, 598: a lost connection comes to another attempt or to an end.  The *)
(* open ends, and so does every save that was sent.                                          *)
Recovers ==
  /\ state = "reconnecting" ~> (ws # "none" \/ Over)
  /\ opening = "connecting" ~> opening \in {"open", "thrown"}
  /\ \A s \in Savers : call[s].phase # "idle" ~> call[s].phase = "idle"
=============================================================================
