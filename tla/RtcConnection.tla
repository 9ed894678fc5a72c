--------------------------- MODULE RtcConnection ---------------------------
(***************************************************************************)
(* One open notebook's connection to its collaboration room                *)
(* (jupyter/rtc-connection.ts), the save requests in flight on it          *)
(* (jupyter/save-requests.ts), the close codes that end or suspend it      *)
(* (jupyter/close-codes.ts) and the open that waits for it                 *)
(* (service/notebook-handle.ts).                                           *)
(*                                                                         *)
(* One action is one callback: a provider event, a timer or the answer of  *)
(* an awaited call.  The y-websocket provider is external; its state is    *)
(* ws, shouldConnect and providerSynced.                                   *)
(***************************************************************************)
EXTENDS Integers, Sequences, FiniteSets

CONSTANTS
  InitRetryBudget, \* 4500 closes that are retried between two syncs
  MaxSaves,        \* bound: save requests ever created
  MaxCloses,       \* bound: sockets the server or the network closes
  MaxRejects       \* bound: revalidations that are rejected

ASSUME BoundsAssumption ==
  /\ InitRetryBudget \in Nat /\ MaxSaves \in Nat /\ MaxCloses \in Nat /\ MaxRejects \in Nat

States == {"connecting", "syncing", "ready", "reconnecting", "conflict", "failed", "closed"}
Replies == {"success", "skipped", "failed"}
None == "none"

\* Close frames, by what classifyClose makes of them; null is a local close.
TerminalClose == [unknown_session |-> "RTC_SESSION_REJECTED",
                  version_mismatch |-> "RTC_SESSION_REJECTED",
                  initialization_error |-> "RTC_INITIALIZATION_FAILED",
                  unparsable |-> "RTC_INITIALIZATION_FAILED",
                  bad_request |-> "RTC_BAD_REQUEST",
                  not_found |-> "NOTEBOOK_NOT_FOUND"]
Closes == DOMAIN TerminalClose \union {"internal", "transient", "null"}
Errors == {TerminalClose[c] : c \in DOMAIN TerminalClose} \union {"RTC_CONFLICT", "FILE_ID_CHANGED"}

VARIABLES
  state,          \* what `state` events announce
  terminal,       \* the stored terminal error, or None
  disposed,
  initRetries,    \* 4500 closes since the last sync
  synced,         \* the connection's own flag; the getter also asks the provider
  timer,          \* the reconnect timer is armed
  revalidating,   \* reconnectNow awaits the file id
  generation,     \* sockets that reached `connected`
  saves,          \* every save request: its status and the socket that carried it
  ws,             \* provider: no socket, a connecting one or an open one
  shouldConnect,  \* provider: it may open sockets by itself
  providerSynced, \* provider: its synced flag
  nbformat,       \* the document's structure has arrived
  opening,        \* NotebookHandle.open: what it waits for
  closes, rejects,\* sockets closed and revalidations rejected so far
  stale           \* history: a listener told of a lost connection could read `synced` as true

provider == <<ws, shouldConnect, providerSynced>>
retry    == <<timer, revalidating>>
env      == <<closes, rejects>>
rtcButSaves == <<state, terminal, disposed, initRetries, synced, retry, generation,
                 provider, nbformat, opening, env, stale>>
rtcVars == <<rtcButSaves, saves>>

Init ==
  /\ state = "connecting" /\ terminal = None /\ disposed = FALSE
  /\ initRetries = 0 /\ generation = 0 /\ saves = << >>
  /\ synced = FALSE /\ timer = FALSE /\ revalidating = FALSE
  /\ ws = "none" /\ shouldConnect = FALSE /\ providerSynced = FALSE
  /\ nbformat = FALSE
  /\ opening = "start"
  /\ closes = 0 /\ rejects = 0
  /\ stale = FALSE

Over == disposed \/ terminal # None

------------------------------------------------------------------------------
(* Parts of handlers. *)

\* What the `synced` getter gives a listener: the own flag, already primed, and
\* the provider's, which is cleared later.
ReadsSynced == synced' /\ providerSynced

\* setState: a listener is told of a change only.
SetState(next) ==
  /\ state' = next
  /\ stale' = (stale \/ (/\ next # state /\ next \in {"reconnecting", "failed", "closed"}
                        /\ ReadsSynced))

\* The save requests still waited for get one answer.
SettleAll(status) ==
  saves' = [i \in DOMAIN saves |->
              IF saves[i].status = "pending" THEN [saves[i] EXCEPT !.status = status] ELSE saves[i]]

\* Mutant of ScheduleReconnect: no timer after a close that was awaited.
ScheduleReconnect_Off == UNCHANGED timer

ScheduleReconnect == timer' = TRUE

\* Mutant of EnterReconnecting: the flag is cleared too late.
EnterReconnecting_StaleFlag ==
  /\ synced' = synced
  /\ SettleAll("timeout")
  /\ shouldConnect' = FALSE
  /\ SetState("reconnecting")
  /\ ScheduleReconnect
  /\ UNCHANGED <<terminal, opening, disposed>>

\* A lost socket answers no save; the retry is the connection's, not the provider's.
EnterReconnecting ==
  /\ synced' = FALSE
  /\ SettleAll("timeout")
  /\ shouldConnect' = FALSE
  /\ SetState("reconnecting")
  /\ ScheduleReconnect
  /\ UNCHANGED <<terminal, opening, disposed>>

\* NotebookHandle.open gives up: it disposes what it made and throws.  The state
\* listener is unsubscribed by then.
Abandon ==
  /\ opening' = "thrown"
  /\ disposed' = TRUE
  /\ state' = "closed"

\* fail: the terminal error, every pending save, the state; an open under way
\* is rejected by that state event and disposes of the connection.
Fail(error) ==
  /\ terminal' = error
  /\ synced' = FALSE
  /\ timer' = FALSE
  /\ shouldConnect' = FALSE
  /\ SettleAll("uncertain")
  /\ stale' = (stale \/ ReadsSynced)
  /\ IF opening = "connecting" THEN Abandon
     ELSE state' = "failed" /\ UNCHANGED <<opening, disposed>>

\* setupWS of the provider: a new socket, and a status event `connecting`.
OpenSocket ==
  /\ ws' = "connecting"
  /\ shouldConnect' = TRUE
  /\ UNCHANGED providerSynced

\* The provider drops its socket; clearing its synced flag
\* reports sync(false).
DropSocket ==
  /\ ws' = "none"
  /\ providerSynced' = FALSE

------------------------------------------------------------------------------
(* Opening. *)

\* connect, called once by NotebookHandle.open.
Connect ==
  /\ opening = "start"
  /\ opening' = "connecting"
  /\ OpenSocket
  /\ UNCHANGED <<state, terminal, disposed, initRetries, synced, retry, generation, saves,
                 nbformat, env, stale>>

\* NotebookHandle.dispose, then RtcConnection.dispose.
Disposed ==
  /\ disposed' = TRUE
  /\ timer' = FALSE
  /\ synced' = FALSE
  /\ SettleAll("expired")
  /\ shouldConnect' = FALSE
  /\ ws' = "none" /\ providerSynced' = FALSE
  /\ SetState("closed")
  /\ UNCHANGED <<terminal, initRetries, revalidating, generation, nbformat, env>>

\* The open budget runs out before readiness or before the structure arrived, or
\* the room fails while the structure is awaited.
OpenFails ==
  /\ \/ opening = "connecting"
     \/ opening = "structure" /\ ~nbformat
  /\ opening' = "thrown"
  /\ Disposed

Dispose ==
  /\ opening = "open" /\ ~disposed
  /\ UNCHANGED opening
  /\ Disposed

\* waitForNbformat polls until the structure is there.
StructureSeen ==
  /\ opening = "structure" /\ nbformat
  /\ opening' = "open"
  /\ UNCHANGED <<state, terminal, disposed, initRetries, synced, retry, generation, saves,
                 provider, nbformat, env, stale>>

\* An update of the document brings nbformat.
StructureArrives ==
  /\ providerSynced /\ ~nbformat
  /\ nbformat' = TRUE
  /\ UNCHANGED <<state, terminal, disposed, initRetries, synced, retry, generation, saves,
                 provider, opening, env, stale>>

------------------------------------------------------------------------------
(* Provider events. *)

\* status `connected`.
Connected ==
  /\ ws = "connecting"
  /\ ws' = "open"
  /\ generation' = generation + 1
  /\ UNCHANGED <<terminal, disposed, initRetries, synced, retry, saves, shouldConnect,
                 providerSynced, nbformat, opening, env>>
  /\ SetState("syncing")

\* sync(true): the room accepted the session; a waiting open goes on to the structure.
Synced ==
  /\ ws = "open" /\ ~providerSynced
  /\ providerSynced' = TRUE /\ synced' = TRUE
  /\ initRetries' = 0
  /\ state' = "ready"
  /\ nbformat' \in {nbformat, TRUE}
  /\ opening' = IF opening = "connecting" THEN "structure" ELSE opening
  /\ UNCHANGED <<terminal, disposed, retry, generation, saves, ws, shouldConnect, env, stale>>

\* A 4500 close is retried within its budget.
InitClose ==
  /\ initRetries' = initRetries + 1
  /\ IF initRetries + 1 > InitRetryBudget THEN Fail("RTC_INITIALIZATION_FAILED") ELSE EnterReconnecting

\* connection-close while the connection still listens, then the provider's own clean-up.
ConnectionClose(close) ==
  /\ ws # "none" /\ closes < MaxCloses
  /\ closes' = closes + 1
  /\ close # "transient" => ws = "open"
  /\ \/ /\ close \in DOMAIN TerminalClose
        /\ Fail(TerminalClose[close]) /\ UNCHANGED initRetries
     \/ close = "internal" /\ InitClose
     \/ close \in {"transient", "null"} /\ EnterReconnecting /\ UNCHANGED initRetries
  /\ DropSocket
  /\ UNCHANGED <<revalidating, generation, nbformat, rejects>>

\* RAW conflict: the state `conflict` is passed through, then the room fails and the
\* socket is closed at once.
Conflict ==
  /\ ws = "open"
  /\ Fail("RTC_CONFLICT")
  /\ DropSocket
  /\ UNCHANGED <<initRetries, revalidating, generation, nbformat, env>>

\* A timer the provider armed when it lost a socket: it reopens only what it may.
ProviderTimer ==
  /\ closes > 0
  /\ IF shouldConnect /\ ws = "none" THEN ws' = "connecting" ELSE UNCHANGED ws
  /\ UNCHANGED <<state, terminal, disposed, initRetries, synced, retry, generation, saves,
                 shouldConnect, providerSynced, nbformat, opening, env, stale>>

------------------------------------------------------------------------------
(* Reconnection. *)

\* The timer fires: reconnectNow asks for the file id behind the path.
ReconnectTimer ==
  /\ timer
  /\ timer' = FALSE
  /\ revalidating' = TRUE
  /\ UNCHANGED <<state, terminal, disposed, initRetries, synced, generation, saves,
                 provider, nbformat, opening, env, stale>>

\* The revalidation is rejected: one more failed attempt.
RevalidationRejected ==
  /\ revalidating /\ rejects < MaxRejects
  /\ rejects' = rejects + 1
  /\ revalidating' = FALSE
  /\ IF Over THEN UNCHANGED timer ELSE ScheduleReconnect
  /\ UNCHANGED <<state, terminal, disposed, initRetries, synced, generation, saves,
                 provider, nbformat, opening, closes, stale>>

\* Mutant of Revalidated: what was read before the await still holds after it.
Revalidated_Unchecked(same) ==
  /\ revalidating
  /\ revalidating' = FALSE
  /\ IF same THEN /\ OpenSocket
                  /\ UNCHANGED <<state, terminal, disposed, synced, timer, saves, opening, stale>>
     ELSE Fail("FILE_ID_CHANGED") /\ UNCHANGED <<ws, providerSynced>>
  /\ UNCHANGED <<initRetries, generation, nbformat, env>>

\* The file id arrives: the same one reopens the socket, another one is terminal.
Revalidated(same) ==
  /\ revalidating
  /\ revalidating' = FALSE
  /\ \/ /\ Over
        /\ UNCHANGED <<state, terminal, disposed, synced, timer, saves, provider, opening, stale>>
     \/ /\ ~Over /\ same
        /\ OpenSocket
        /\ UNCHANGED <<state, terminal, disposed, synced, timer, saves, opening, stale>>
     \/ /\ ~Over /\ ~same
        /\ Fail("FILE_ID_CHANGED")
        /\ UNCHANGED <<ws, providerSynced>>
  /\ UNCHANGED <<initRetries, generation, nbformat, env>>

------------------------------------------------------------------------------
(* Saves. *)

\* save: what it refuses changes nothing.  The send may throw.
MaySave == ~Over /\ state = "ready" /\ ws = "open"

Save ==
  /\ MaySave /\ Len(saves) < MaxSaves
  /\ \E sent \in BOOLEAN :
       saves' = Append(saves, [status |-> IF sent THEN "pending" ELSE "unsent",
                               socket |-> generation])
  /\ UNCHANGED <<state, terminal, disposed, initRetries, synced, retry, generation,
                 provider, nbformat, opening, env, stale>>

\* settle: a request that is no longer waited for is dropped.
Settled(id, status) ==
  IF saves[id].status = "pending" THEN saves' = [saves EXCEPT ![id].status = status]
  ELSE UNCHANGED saves

\* A RAW save reply, possibly late or repeated, on the socket that carried the request.
SaveReply(id, status) ==
  /\ ws = "open" /\ saves[id].socket = generation /\ saves[id].status # "unsent"
  /\ Settled(id, status)
  /\ UNCHANGED <<state, terminal, disposed, initRetries, synced, retry, generation,
                 provider, nbformat, opening, env, stale>>

SaveTimeout(id) ==
  /\ saves[id].status = "pending"
  /\ saves' = [saves EXCEPT ![id].status = "timeout"]
  /\ UNCHANGED <<state, terminal, disposed, initRetries, synced, retry, generation,
                 provider, nbformat, opening, env, stale>>
=============================================================================
