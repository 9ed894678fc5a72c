-------------------------- MODULE Notebook_proofs --------------------------
(***************************************************************************)
(* Proofs about the two ways a shared notebook is held: NotebookSave, with *)
(* the RtcConnection under it, for every set of savers and of contents and *)
(* every retry budget; and NotebookReader, with the ChangeJournal and the  *)
(* pages of NotebookRead, for every document, every size of the ring, the  *)
(* window and the pages, and every number of transactions of other         *)
(* clients.                                                                *)
(***************************************************************************)
EXTENDS NotebookSave, NotebookReader, FiniteSetTheorems, SequenceTheorems,
        WellFoundedInduction, TLAPS

------------------------------------------------------------------------------
(* The room. *)

SaveStatuses == Replies \union {"pending", "timeout", "uncertain", "expired", "unsent", "taken"}
SaveRecord   == [status : SaveStatuses, socket : Nat]

RoomTypes ==
  /\ state \in States /\ terminal \in Errors \union {None}
  /\ disposed \in BOOLEAN /\ synced \in BOOLEAN /\ timer \in BOOLEAN /\ revalidating \in BOOLEAN
  /\ shouldConnect \in BOOLEAN /\ providerSynced \in BOOLEAN /\ nbformat \in BOOLEAN
  /\ stale \in BOOLEAN
  /\ initRetries \in 0..InitRetryBudget + 1
  /\ terminal = None => initRetries <= InitRetryBudget
  /\ ws \in {"none", "connecting", "open"} /\ generation \in Nat
  /\ opening \in {"start", "connecting", "structure", "open", "thrown"}
  /\ saves \in Seq(SaveRecord)
  /\ \A i \in DOMAIN saves : saves[i].socket <= generation

\* Nothing is under way on a connection that was not started.
NotStarted ==
  opening = "start" => ws = "none" /\ ~timer /\ ~revalidating /\ ~Over

\* What is over has no socket and no timer; only a revalidation may still be awaited.
Ended == Over => ws = "none" /\ ~timer /\ ~shouldConnect /\ state \in {"failed", "closed"}

\* OneWayForward without its cardinality.
OneWay ==
  /\ ~Over /\ opening # "start" =>
       /\ ws # "none" \/ timer \/ revalidating
       /\ ws # "none" => ~timer /\ ~revalidating
       /\ timer => ~revalidating
  /\ shouldConnect => ws # "none"

RoomInv ==
  /\ RoomTypes
  /\ NotStarted
  /\ Ended
  /\ OneWay
  /\ ReadyIsSynced
  /\ SavesFollowTheSocket

------------------------------------------------------------------------------
(* The calls. *)

CallType ==
  [phase : {"idle", "before", "saving", "sent", "confirming"}, snapshot : Digests,
   read : Contents \union {None}, external : Verdicts, id : Nat,
   readMoved : BOOLEAN, sawMoved : BOOLEAN]

AnswerType ==
  [saveStatus : SaveStatuses \union {None}, confirmed : Digests, overwrote : Verdicts]

CallTypes ==
  /\ replica \in Contents /\ file \in Contents
  /\ observedDisk \in Digests /\ observedReplica \in Digests /\ moved \in BOOLEAN
  /\ call \in [Savers -> CallType]
  /\ answer \in [Savers -> AnswerType]
  /\ held \in [Savers -> SUBSET Contents]

\* What the handle last observed is still on disk unless the file changed since.
ObservationIsCurrent == ~moved => observedDisk \in {file, Unknown}

\* A read on its way is compared with the observation it was served after.
ReadsAreCurrent ==
  \A s \in Savers :
    /\ call[s].read # None => call[s].phase \in {"before", "confirming"}
    /\ call[s].phase = "before" =>
         /\ call[s].external = Unknown
         /\ call[s].read # None /\ ~call[s].sawMoved => observedDisk \in {call[s].read, Unknown}

\* A read-back saw a content the file had after the save was answered.
ReadBacksWereHeld ==
  \A s \in Savers : call[s].phase = "confirming" =>
    /\ call[s].snapshot # Unknown
    /\ file \in held[s]
    /\ call[s].read # None =>
         /\ call[s].read \in held[s]
         /\ ~call[s].readMoved => call[s].read = file

\* A call under way has given no answer.
OneAnswer == \A s \in Savers : call[s].phase # "idle" => answer[s] = NoAnswer

CallInv ==
  /\ CallTypes
  /\ ObservationIsCurrent
  /\ ReadsAreCurrent
  /\ ReadBacksWereHeld
  /\ OneAnswer
  /\ ConfirmedWasOnDisk
  /\ ExternalChangesAreReal

IInv == RoomInv /\ CallInv

------------------------------------------------------------------------------
(* Lemmas on the parts of handlers. *)

ErrorNames == {"RTC_SESSION_REJECTED", "RTC_INITIALIZATION_FAILED", "RTC_BAD_REQUEST",
               "NOTEBOOK_NOT_FOUND", "RTC_CONFLICT", "FILE_ID_CHANGED"}

\* The errors, written out.
LEMMA ErrorsAre ==
  /\ Errors = ErrorNames
  /\ \A c \in DOMAIN TerminalClose : TerminalClose[c] \in Errors
  /\ None \notin Errors
<1>1. DOMAIN TerminalClose = {"unknown_session", "version_mismatch", "initialization_error",
                              "unparsable", "bad_request", "not_found"}
  BY DEF TerminalClose
<1>2. /\ TerminalClose["unknown_session"] = "RTC_SESSION_REJECTED"
      /\ TerminalClose["version_mismatch"] = "RTC_SESSION_REJECTED"
      /\ TerminalClose["initialization_error"] = "RTC_INITIALIZATION_FAILED"
      /\ TerminalClose["unparsable"] = "RTC_INITIALIZATION_FAILED"
      /\ TerminalClose["bad_request"] = "RTC_BAD_REQUEST"
      /\ TerminalClose["not_found"] = "NOTEBOOK_NOT_FOUND"
  BY DEF TerminalClose
<1> HIDE DEF TerminalClose
<1>3. Errors = ErrorNames
  BY <1>1, <1>2 DEF Errors, ErrorNames
<1>4. \A c \in DOMAIN TerminalClose : TerminalClose[c] \in Errors
  BY DEF Errors
<1>5. None \notin Errors
  BY <1>3 DEF ErrorNames, None
<1> QED BY <1>3, <1>4, <1>5

\* SettleAll keeps the requests and leaves none of them waited for.
LEMMA SettleAllSettles ==
  ASSUME saves \in Seq(SaveRecord), NEW status \in SaveStatuses \ {"pending"}, SettleAll(status)
  PROVE  /\ saves' \in Seq(SaveRecord)
         /\ DOMAIN saves' = DOMAIN saves
         /\ \A i \in DOMAIN saves :
              /\ saves'[i].socket = saves[i].socket
              /\ saves'[i].status # "pending"
              /\ saves[i].status # "pending" => saves'[i] = saves[i]
<1>0. Len(saves) \in Nat /\ DOMAIN saves = 1..Len(saves)
  BY LenProperties
<1>1. \A i \in DOMAIN saves : saves[i] \in SaveRecord
  BY ElementOfSeq, <1>0
<1>2. saves' = [i \in DOMAIN saves |-> IF saves[i].status = "pending"
                                       THEN [saves[i] EXCEPT !.status = status] ELSE saves[i]]
  BY DEF SettleAll
<1>3. \A i \in DOMAIN saves : saves'[i] \in SaveRecord
  BY <1>1, <1>2 DEF SaveRecord
<1>4. saves' \in [1..Len(saves) -> SaveRecord]
  BY <1>0, <1>2, <1>3
<1>5. saves' \in Seq(SaveRecord)
  BY <1>0, <1>4, SeqDef
<1>6. DOMAIN saves' = DOMAIN saves
  BY <1>2
<1>7. ASSUME NEW i \in DOMAIN saves
      PROVE  /\ saves'[i].socket = saves[i].socket
             /\ saves'[i].status # "pending"
             /\ saves[i].status # "pending" => saves'[i] = saves[i]
  <2>1. saves[i] \in SaveRecord
    BY <1>1
  <2>2. saves'[i] = IF saves[i].status = "pending"
                    THEN [saves[i] EXCEPT !.status = status] ELSE saves[i]
    BY <1>2
  <2> QED BY <2>1, <2>2 DEF SaveRecord
<1> QED BY <1>5, <1>6, <1>7

\* A request that is answered keeps its socket; the others are left alone.
LEMMA OneSaveChanges ==
  ASSUME saves \in Seq(SaveRecord), NEW id \in DOMAIN saves,
         NEW r \in SaveRecord, saves' = [saves EXCEPT ![id] = r]
  PROVE  /\ saves' \in Seq(SaveRecord)
         /\ DOMAIN saves' = DOMAIN saves
         /\ saves'[id] = r
         /\ \A i \in DOMAIN saves : i # id => saves'[i] = saves[i]
<1>0. Len(saves) \in Nat /\ DOMAIN saves = 1..Len(saves)
  BY LenProperties
<1>1. saves \in [1..Len(saves) -> SaveRecord]
  BY <1>0, ElementOfSeq, LenProperties
<1>2. saves' \in [1..Len(saves) -> SaveRecord]
  BY <1>0, <1>1
<1>3. saves' \in Seq(SaveRecord)
  BY <1>0, <1>2, SeqDef
<1> QED BY <1>0, <1>1, <1>2, <1>3

\* What Fail and EnterReconnecting leave of the requests.
SavesSettled ==
  /\ saves' \in Seq(SaveRecord)
  /\ DOMAIN saves' = DOMAIN saves
  /\ \A i \in DOMAIN saves :
       /\ saves'[i].socket = saves[i].socket
       /\ saves'[i].status # "pending"
       /\ saves[i].status # "pending" => saves'[i] = saves[i]

\* A terminal error ends the connection, and an open that still waits for it.
LEMMA FailEnds ==
  ASSUME RoomInv, NEW error \in Errors, Fail(error)
  PROVE  /\ terminal' = error /\ Over'
         /\ ~synced' /\ ~timer' /\ ~shouldConnect' /\ ~stale' /\ stale' \in BOOLEAN
         /\ state' \in {"failed", "closed"}
         /\ disposed' \in BOOLEAN /\ (disposed => disposed')
         /\ opening' \in {"start", "connecting", "structure", "open", "thrown"}
         /\ opening' = "start" => opening = "start"
         /\ SavesSettled
<1>1. terminal' = error /\ error # None
  BY ErrorsAre DEF Fail
<1>2. Over'
  BY <1>1 DEF Over
<1>3. ~synced' /\ ~timer' /\ ~shouldConnect' /\ ~stale' /\ stale' \in BOOLEAN
  BY DEF Fail, ReadsSynced, RoomInv, ReadyIsSynced
<1>4. /\ state' \in {"failed", "closed"}
      /\ disposed' \in BOOLEAN /\ (disposed => disposed')
      /\ opening' \in {"start", "connecting", "structure", "open", "thrown"}
      /\ opening' = "start" => opening = "start"
  BY DEF Fail, Abandon, RoomInv, RoomTypes
<1>5. SettleAll("uncertain") /\ "uncertain" \in SaveStatuses \ {"pending"} /\ saves \in Seq(SaveRecord)
  BY DEF Fail, SaveStatuses, RoomInv, RoomTypes
<1>6. SavesSettled
  BY <1>5, SettleAllSettles DEF SavesSettled
<1> QED BY <1>1, <1>2, <1>3, <1>4, <1>6

\* A lost socket arms the timer and answers every request; nobody reads a stale flag.
LEMMA EnterReconnectingKeeps ==
  ASSUME RoomInv, EnterReconnecting
  PROVE  /\ ~synced' /\ timer' /\ ~shouldConnect' /\ ~stale' /\ stale' \in BOOLEAN
         /\ state' = "reconnecting"
         /\ UNCHANGED <<terminal, opening, disposed>>
         /\ SavesSettled
<1>1. /\ ~synced' /\ timer' /\ ~shouldConnect' /\ ~stale' /\ stale' \in BOOLEAN
      /\ state' = "reconnecting"
      /\ UNCHANGED <<terminal, opening, disposed>>
  BY DEF EnterReconnecting, ScheduleReconnect, SetState, ReadsSynced, RoomInv, ReadyIsSynced
<1>2. SettleAll("timeout") /\ "timeout" \in SaveStatuses \ {"pending"} /\ saves \in Seq(SaveRecord)
  BY DEF EnterReconnecting, SaveStatuses, RoomInv, RoomTypes
<1>3. SavesSettled
  BY <1>2, SettleAllSettles DEF SavesSettled
<1> QED BY <1>1, <1>3

\* Settled requests are of the right kind and none is waited for.
LEMMA SettledIsFine ==
  ASSUME RoomInv, SavesSettled, generation' = generation
  PROVE  /\ saves' \in Seq(SaveRecord)
         /\ (\A i \in DOMAIN saves : saves[i].socket <= generation)'
         /\ SavesFollowTheSocket'
BY DEF SavesSettled, RoomInv, RoomTypes, SavesFollowTheSocket

------------------------------------------------------------------------------
(* Every step of the room keeps its invariant. *)

LEMMA InitRoomInv == Init => RoomInv
<1> SUFFICES ASSUME Init PROVE RoomInv
  OBVIOUS
<1>0. saves = << >> /\ DOMAIN saves = {} /\ saves \in Seq(SaveRecord)
  BY EmptySeq DEF Init
<1>a. 0 \in 0..InitRetryBudget + 1 /\ 0 <= InitRetryBudget /\ 0 \in Nat
  BY BoundsAssumption
<1>1. RoomTypes
  BY <1>0, <1>a DEF Init, RoomTypes, States
<1>2. NotStarted /\ Ended /\ OneWay /\ ReadyIsSynced
  BY DEF Init, NotStarted, Ended, OneWay, ReadyIsSynced, Over
<1>3. SavesFollowTheSocket
  BY <1>0 DEF SavesFollowTheSocket
<1> QED BY <1>1, <1>2, <1>3 DEF RoomInv

LEMMA ConnectKeeps ==
  ASSUME RoomInv, Connect
  PROVE  RoomInv'
<1> USE DEF Connect, OpenSocket, provider, retry, env, Over
<1>0. UNCHANGED saves
  OBVIOUS
<1>1. RoomTypes'
  BY <1>0, BoundsAssumption DEF RoomInv, RoomTypes, States, NotStarted, Ended
<1>2. NotStarted' /\ Ended'
  BY DEF RoomInv, RoomTypes, NotStarted, Ended, OneWay
<1>3. OneWay'
  BY DEF RoomInv, RoomTypes, NotStarted, Ended, OneWay
<1>4. ReadyIsSynced'
  BY DEF RoomInv, RoomTypes, NotStarted, Ended, OneWay, ReadyIsSynced
<1>5. SavesFollowTheSocket'
  BY <1>0 DEF RoomInv, RoomTypes, NotStarted, Ended, SavesFollowTheSocket
<1> QED BY <1>1, <1>2, <1>3, <1>4, <1>5 DEF RoomInv

LEMMA StructureSeenKeeps ==
  ASSUME RoomInv, StructureSeen
  PROVE  RoomInv'
<1> USE DEF StructureSeen, provider, retry, env, Over
<1>0. UNCHANGED saves
  OBVIOUS
<1>1. RoomTypes'
  BY <1>0, BoundsAssumption DEF RoomInv, RoomTypes, States, NotStarted, Ended
<1>2. NotStarted' /\ Ended'
  BY DEF RoomInv, RoomTypes, NotStarted, Ended, OneWay
<1>3. OneWay'
  BY DEF RoomInv, RoomTypes, NotStarted, Ended, OneWay
<1>4. ReadyIsSynced'
  BY DEF RoomInv, RoomTypes, Ended, OneWay, ReadyIsSynced
<1>5. SavesFollowTheSocket'
  BY <1>0 DEF RoomInv, RoomTypes, Ended, SavesFollowTheSocket
<1> QED BY <1>1, <1>2, <1>3, <1>4, <1>5 DEF RoomInv

LEMMA StructureArrivesKeeps ==
  ASSUME RoomInv, StructureArrives
  PROVE  RoomInv'
<1> USE DEF StructureArrives, provider, retry, env, Over
<1>0. UNCHANGED saves
  OBVIOUS
<1>1. RoomTypes'
  BY <1>0, BoundsAssumption DEF RoomInv, RoomTypes, States, NotStarted, Ended
<1>2. NotStarted' /\ Ended'
  BY DEF RoomInv, RoomTypes, NotStarted, Ended, OneWay
<1>3. OneWay'
  BY DEF RoomInv, RoomTypes, NotStarted, Ended, OneWay
<1>4. ReadyIsSynced'
  BY DEF RoomInv, RoomTypes, Ended, OneWay, ReadyIsSynced
<1>5. SavesFollowTheSocket'
  BY <1>0 DEF RoomInv, RoomTypes, Ended, SavesFollowTheSocket
<1> QED BY <1>1, <1>2, <1>3, <1>4, <1>5 DEF RoomInv

LEMMA ConnectedKeeps ==
  ASSUME RoomInv, Connected
  PROVE  RoomInv'
<1> USE DEF Connected, SetState, ReadsSynced, provider, retry, env, Over
<1>0. UNCHANGED saves
  OBVIOUS
<1>a. generation' \in Nat /\ (\A i \in DOMAIN saves : saves[i].socket <= generation)'
  <2>1. Len(saves) \in Nat /\ \A i \in DOMAIN saves : saves[i] \in SaveRecord
    BY ElementOfSeq, LenProperties DEF RoomInv, RoomTypes
  <2>2. \A i \in DOMAIN saves : saves[i].socket \in Nat
    BY <2>1 DEF SaveRecord
  <2> QED BY <1>0, <2>2 DEF RoomInv, RoomTypes
<1>1. RoomTypes'
  BY <1>0, <1>a DEF RoomInv, RoomTypes, States, NotStarted, Ended
<1>2. NotStarted' /\ Ended'
  BY DEF RoomInv, RoomTypes, NotStarted, Ended, OneWay
<1>3. OneWay'
  BY DEF RoomInv, RoomTypes, NotStarted, Ended, OneWay
<1>4. ReadyIsSynced'
  BY DEF RoomInv, RoomTypes, Ended, OneWay, ReadyIsSynced
<1>5. SavesFollowTheSocket'
  BY <1>0 DEF RoomInv, RoomTypes, Ended, SavesFollowTheSocket
<1> QED BY <1>1, <1>2, <1>3, <1>4, <1>5 DEF RoomInv

LEMMA SyncedKeeps ==
  ASSUME RoomInv, Synced
  PROVE  RoomInv'
<1> USE DEF Synced, provider, retry, env, Over
<1>0. UNCHANGED saves
  OBVIOUS
<1>a. 0 \in 0..InitRetryBudget + 1 /\ 0 <= InitRetryBudget /\ 0 \in Nat
  BY BoundsAssumption
<1>1. RoomTypes'
  BY <1>0, <1>a DEF RoomInv, RoomTypes, States, NotStarted, Ended
<1>2. NotStarted' /\ Ended'
  BY DEF RoomInv, RoomTypes, NotStarted, Ended, OneWay
<1>3. OneWay'
  BY DEF RoomInv, RoomTypes, NotStarted, Ended, OneWay
<1>4. ReadyIsSynced'
  BY DEF RoomInv, RoomTypes, Ended, OneWay, ReadyIsSynced
<1>5. SavesFollowTheSocket'
  BY <1>0 DEF RoomInv, RoomTypes, Ended, SavesFollowTheSocket
<1> QED BY <1>1, <1>2, <1>3, <1>4, <1>5 DEF RoomInv

LEMMA ProviderTimerKeeps ==
  ASSUME RoomInv, ProviderTimer
  PROVE  RoomInv'
<1> USE DEF ProviderTimer, provider, retry, env, Over
<1>0. UNCHANGED saves
  OBVIOUS
<1>1. RoomTypes'
  BY <1>0, BoundsAssumption DEF RoomInv, RoomTypes, States, NotStarted, Ended
<1>2. NotStarted' /\ Ended'
  BY DEF RoomInv, RoomTypes, NotStarted, Ended, OneWay
<1>3. OneWay'
  BY DEF RoomInv, RoomTypes, NotStarted, Ended, OneWay
<1>4. ReadyIsSynced'
  BY DEF RoomInv, RoomTypes, Ended, OneWay, ReadyIsSynced
<1>5. SavesFollowTheSocket'
  BY <1>0 DEF RoomInv, RoomTypes, Ended, SavesFollowTheSocket
<1> QED BY <1>1, <1>2, <1>3, <1>4, <1>5 DEF RoomInv

LEMMA ReconnectTimerKeeps ==
  ASSUME RoomInv, ReconnectTimer
  PROVE  RoomInv'
<1> USE DEF ReconnectTimer, provider, retry, env, Over
<1>0. UNCHANGED saves
  OBVIOUS
<1>1. RoomTypes'
  BY <1>0, BoundsAssumption DEF RoomInv, RoomTypes, States, NotStarted, Ended
<1>2. NotStarted' /\ Ended'
  BY DEF RoomInv, RoomTypes, NotStarted, Ended, OneWay
<1>3. OneWay'
  BY DEF RoomInv, RoomTypes, NotStarted, Ended, OneWay
<1>4. ReadyIsSynced'
  BY DEF RoomInv, RoomTypes, Ended, OneWay, ReadyIsSynced
<1>5. SavesFollowTheSocket'
  BY <1>0 DEF RoomInv, RoomTypes, Ended, SavesFollowTheSocket
<1> QED BY <1>1, <1>2, <1>3, <1>4, <1>5 DEF RoomInv

LEMMA RevalidationRejectedKeeps ==
  ASSUME RoomInv, RevalidationRejected
  PROVE  RoomInv'
<1> USE DEF RevalidationRejected, ScheduleReconnect, provider, retry, env, Over
<1>0. UNCHANGED saves
  OBVIOUS
<1>1. RoomTypes'
  <2>1. UNCHANGED <<state, terminal, disposed, synced, shouldConnect, providerSynced, nbformat,
                     stale, initRetries, ws, generation, opening, saves>>
    OBVIOUS
  <2>2. timer' \in BOOLEAN /\ revalidating' \in BOOLEAN
    BY DEF RoomInv, RoomTypes
  <2> QED BY ONLY RoomInv, <2>1, <2>2 DEF RoomInv, RoomTypes
<1>2. NotStarted' /\ Ended'
  BY DEF RoomInv, RoomTypes, NotStarted, Ended, OneWay
<1>3. OneWay'
  BY DEF RoomInv, RoomTypes, NotStarted, Ended, OneWay
<1>4. ReadyIsSynced'
  BY DEF RoomInv, RoomTypes, Ended, OneWay, ReadyIsSynced
<1>5. SavesFollowTheSocket'
  BY <1>0 DEF RoomInv, RoomTypes, Ended, SavesFollowTheSocket
<1> QED BY <1>1, <1>2, <1>3, <1>4, <1>5 DEF RoomInv

LEMMA DisposedKeeps ==
  ASSUME RoomInv, Disposed, opening' \in {"open", "thrown"}
  PROVE  RoomInv' /\ SavesSettled
<1>1. /\ disposed' /\ ~timer' /\ ~synced' /\ ~shouldConnect' /\ ws' = "none" /\ ~providerSynced'
      /\ timer' = FALSE /\ synced' = FALSE /\ shouldConnect' = FALSE /\ providerSynced' = FALSE
      /\ disposed' = TRUE
      /\ state' = "closed"
      /\ UNCHANGED <<terminal, initRetries, revalidating, generation, nbformat>>
  BY DEF Disposed, SetState
<1>2. ~stale' /\ stale' \in BOOLEAN
  BY DEF Disposed, SetState, ReadsSynced, RoomInv, ReadyIsSynced
<1>3. SettleAll("expired") /\ "expired" \in SaveStatuses \ {"pending"} /\ saves \in Seq(SaveRecord)
  BY DEF Disposed, SaveStatuses, RoomInv, RoomTypes
<1>4. SavesSettled
  BY <1>3, SettleAllSettles DEF SavesSettled
<1>5. RoomTypes'
  BY <1>1, <1>2, <1>4, SettledIsFine DEF RoomInv, RoomTypes, States
<1>6. NotStarted' /\ Ended' /\ OneWay' /\ ReadyIsSynced'
  BY <1>1, <1>2 DEF NotStarted, Ended, OneWay, ReadyIsSynced, Over
<1>7. SavesFollowTheSocket'
  BY <1>1, <1>4, SettledIsFine
<1> QED BY <1>4, <1>5, <1>6, <1>7 DEF RoomInv

LEMMA OpenFailsKeeps ==
  ASSUME RoomInv, OpenFails
  PROVE  RoomInv' /\ SavesSettled
BY DisposedKeeps DEF OpenFails

LEMMA DisposeKeeps ==
  ASSUME RoomInv, Dispose
  PROVE  RoomInv' /\ SavesSettled
BY DisposedKeeps DEF Dispose

\* A room that failed has neither a socket nor a timer, when its socket is dropped too.
LEMMA FailKeeps ==
  ASSUME RoomInv, NEW error \in Errors, Fail(error), ws' = "none", providerSynced' \in BOOLEAN,
         initRetries' \in 0..InitRetryBudget + 1, revalidating' \in BOOLEAN,
         opening # "start", UNCHANGED <<generation, nbformat>>
  PROVE  RoomInv'
<1>1. /\ terminal' = error /\ Over'
      /\ ~synced' /\ ~timer' /\ ~shouldConnect' /\ ~stale' /\ stale' \in BOOLEAN
      /\ state' \in {"failed", "closed"}
      /\ disposed' \in BOOLEAN
      /\ opening' \in {"start", "connecting", "structure", "open", "thrown"}
      /\ opening' # "start"
      /\ SavesSettled
  BY FailEnds
<1>2. synced' = FALSE /\ timer' = FALSE /\ shouldConnect' = FALSE
  BY DEF Fail
<1>3. error # None
  BY ErrorsAre
<1>4. RoomTypes'
  BY <1>1, <1>2, <1>3, SettledIsFine DEF RoomInv, RoomTypes, States
<1>5. NotStarted' /\ Ended' /\ OneWay' /\ ReadyIsSynced'
  BY <1>1 DEF NotStarted, Ended, OneWay, ReadyIsSynced
<1>6. SavesFollowTheSocket'
  BY <1>1, SettledIsFine
<1> QED BY <1>4, <1>5, <1>6 DEF RoomInv

LEMMA ConnectionCloseKeeps ==
  ASSUME RoomInv, NEW close \in Closes, ConnectionClose(close)
  PROVE  RoomInv' /\ SavesSettled /\ ~Over
<1>1. /\ ws # "none" /\ ws' = "none" /\ providerSynced' = FALSE
      /\ UNCHANGED <<revalidating, generation, nbformat>>
  BY DEF ConnectionClose, DropSocket
<1>2. ~Over /\ opening # "start" /\ ~revalidating /\ terminal = None
  BY <1>1 DEF RoomInv, Ended, NotStarted, OneWay, Over
<1>3. initRetries \in Nat /\ InitRetryBudget \in Nat /\ initRetries <= InitRetryBudget
  BY <1>2, BoundsAssumption DEF RoomInv, RoomTypes
<1>4. ASSUME NEW error \in Errors, Fail(error), initRetries' \in 0..InitRetryBudget + 1
      PROVE  RoomInv' /\ SavesSettled
  <2>1. SavesSettled
    BY <1>4, FailEnds
  <2>2. providerSynced' \in BOOLEAN /\ revalidating' \in BOOLEAN
    BY <1>1 DEF RoomInv, RoomTypes
  <2>3. RoomInv'
    BY <1>1, <1>2, <1>4, <2>2, FailKeeps
  <2> QED BY <2>1, <2>3
<1>5. ASSUME EnterReconnecting, initRetries' \in 0..InitRetryBudget
      PROVE  RoomInv' /\ SavesSettled
  <2>1. /\ ~synced' /\ timer' /\ ~shouldConnect' /\ ~stale' /\ stale' \in BOOLEAN
        /\ state' = "reconnecting"
        /\ UNCHANGED <<terminal, opening, disposed>>
        /\ SavesSettled
    BY <1>5, EnterReconnectingKeeps
  <2>2. synced' = FALSE /\ timer' = TRUE /\ shouldConnect' = FALSE
    BY <1>5 DEF EnterReconnecting, ScheduleReconnect
  <2>3. ~Over'
    BY <1>2, <2>1 DEF Over
  <2>4. initRetries' \in 0..InitRetryBudget + 1 /\ initRetries' <= InitRetryBudget
    BY <1>3, <1>5
  <2>5. RoomTypes'
    BY <1>1, <2>1, <2>2, <2>4, SettledIsFine DEF RoomInv, RoomTypes, States
  <2>6. NotStarted' /\ Ended' /\ OneWay' /\ ReadyIsSynced'
    BY <1>1, <1>2, <2>1, <2>3 DEF NotStarted, Ended, OneWay, ReadyIsSynced
  <2>7. SavesFollowTheSocket'
    BY <1>1, <2>1, SettledIsFine
  <2> QED BY <2>1, <2>5, <2>6, <2>7 DEF RoomInv
<1>6. CASE close \in DOMAIN TerminalClose /\ Fail(TerminalClose[close]) /\ UNCHANGED initRetries
  <2>1. TerminalClose[close] \in Errors /\ initRetries' \in 0..InitRetryBudget + 1
    BY <1>6, <1>3, ErrorsAre
  <2> QED BY <1>2, <1>4, <1>6, <2>1
<1>7. CASE InitClose
  <2>1. initRetries' = initRetries + 1
    BY <1>7 DEF InitClose
  <2>2. CASE initRetries + 1 > InitRetryBudget
    <3>1. Fail("RTC_INITIALIZATION_FAILED")
      BY <1>7, <2>2 DEF InitClose
    <3>2. "RTC_INITIALIZATION_FAILED" \in Errors
      BY ErrorsAre DEF ErrorNames
    <3>3. initRetries' \in 0..InitRetryBudget + 1
      BY <1>3, <2>1
    <3> QED BY <1>2, <1>4, <3>1, <3>2, <3>3
  <2>3. CASE ~(initRetries + 1 > InitRetryBudget)
    <3>1. EnterReconnecting
      BY <1>7, <2>3 DEF InitClose
    <3>2. initRetries' \in 0..InitRetryBudget
      BY <1>3, <2>1, <2>3
    <3> QED BY <1>2, <1>5, <3>1, <3>2
  <2> QED BY <2>2, <2>3
<1>8. CASE EnterReconnecting /\ UNCHANGED initRetries
  <2>1. initRetries' \in 0..InitRetryBudget
    BY <1>3, <1>8
  <2> QED BY <1>2, <1>5, <1>8, <2>1
<1> QED BY <1>6, <1>7, <1>8 DEF ConnectionClose

LEMMA ConflictKeeps ==
  ASSUME RoomInv, Conflict
  PROVE  RoomInv' /\ SavesSettled /\ ~Over
<1>1. /\ ws = "open" /\ Fail("RTC_CONFLICT") /\ ws' = "none" /\ providerSynced' = FALSE
      /\ UNCHANGED <<initRetries, revalidating, generation, nbformat>>
  BY DEF Conflict, DropSocket
<1>2. ~Over /\ opening # "start"
  BY <1>1 DEF RoomInv, Ended, NotStarted
<1>3. "RTC_CONFLICT" \in Errors
  BY ErrorsAre DEF ErrorNames
<1>4. SavesSettled
  BY <1>1, <1>3, FailEnds
<1>5. /\ initRetries' \in 0..InitRetryBudget + 1 /\ revalidating' \in BOOLEAN
      /\ providerSynced' \in BOOLEAN
  BY <1>1 DEF RoomInv, RoomTypes
<1> QED BY <1>1, <1>2, <1>3, <1>4, <1>5, FailKeeps

\* Past the await a connection that ended does nothing more; one that did not has one socket
\* again, or it fails.
LEMMA RevalidatedKeeps ==
  ASSUME RoomInv, NEW same \in BOOLEAN, Revalidated(same)
  PROVE  /\ RoomInv'
         /\ Over => UNCHANGED <<state, terminal, disposed, timer, saves, ws, shouldConnect>>
         /\ SavesSettled \/ UNCHANGED saves
<1>1. /\ revalidating /\ revalidating' = FALSE
      /\ UNCHANGED <<initRetries, generation, nbformat>>
  BY DEF Revalidated
<1>2. opening # "start"
  BY <1>1 DEF RoomInv, NotStarted
<1>3. CASE /\ Over
           /\ UNCHANGED <<state, terminal, disposed, synced, timer, saves, provider, opening, stale>>
  <2> USE <1>1, <1>3 DEF provider
  <2>1. RoomTypes'
    <3>1. UNCHANGED <<state, terminal, disposed, synced, shouldConnect, providerSynced, nbformat,
                     stale, initRetries, ws, generation, opening, saves>>
      OBVIOUS
    <3>2. timer' \in BOOLEAN /\ revalidating' \in BOOLEAN
      BY DEF RoomInv, RoomTypes
    <3> QED BY ONLY RoomInv, <3>1, <3>2 DEF RoomInv, RoomTypes
  <2>2. NotStarted' /\ Ended' /\ OneWay' /\ ReadyIsSynced' /\ SavesFollowTheSocket'
    BY DEF RoomInv, RoomTypes, NotStarted, Ended, OneWay, ReadyIsSynced, SavesFollowTheSocket, Over
  <2> QED BY <2>1, <2>2 DEF RoomInv
<1>4. CASE /\ ~Over /\ OpenSocket
           /\ UNCHANGED <<state, terminal, disposed, synced, timer, saves, opening, stale>>
  <2>1. /\ ws' = "connecting" /\ shouldConnect' = TRUE /\ UNCHANGED providerSynced
        /\ ws = "none" /\ ~timer /\ ~Over'
    BY <1>1, <1>2, <1>4 DEF OpenSocket, RoomInv, OneWay, Over
  <2> USE <1>1, <1>2, <1>4, <2>1
  <2>2. RoomTypes'
    BY DEF RoomInv, RoomTypes
  <2>3. NotStarted' /\ Ended' /\ OneWay'
    BY DEF NotStarted, Ended, OneWay
  <2>4. ReadyIsSynced'
    BY DEF RoomInv, ReadyIsSynced
  <2>5. SavesFollowTheSocket'
    BY DEF RoomInv, SavesFollowTheSocket
  <2> QED BY <2>2, <2>3, <2>4, <2>5 DEF RoomInv
<1>5. CASE ~Over /\ Fail("FILE_ID_CHANGED") /\ UNCHANGED <<ws, providerSynced>>
  <2>1. ws' = "none"
    BY <1>1, <1>2, <1>5 DEF RoomInv, OneWay, RoomTypes
  <2>2. "FILE_ID_CHANGED" \in Errors
    BY ErrorsAre DEF ErrorNames
  <2>3. SavesSettled
    BY <1>5, <2>2, FailEnds
  <2>4. /\ initRetries' \in 0..InitRetryBudget + 1 /\ revalidating' \in BOOLEAN
        /\ providerSynced' \in BOOLEAN
    BY <1>1, <1>5 DEF RoomInv, RoomTypes
  <2>5. RoomInv'
    BY <1>1, <1>2, <1>5, <2>1, <2>2, <2>4, FailKeeps
  <2> QED BY <1>5, <2>3, <2>5
<1> QED BY <1>3, <1>4, <1>5 DEF Revalidated

\* Nothing but the requests changes.
LEMMA OnlySaves ==
  ASSUME RoomInv, UNCHANGED rtcButSaves, saves' \in Seq(SaveRecord),
         \A i \in DOMAIN saves' : /\ saves'[i].socket <= generation
                                  /\ saves'[i].status = "pending" =>
                                       ws = "open" /\ saves'[i].socket = generation /\ ~Over
  PROVE  RoomInv'
<1> USE DEF rtcButSaves, provider, retry, env
<1>1. RoomTypes'
  BY DEF RoomInv, RoomTypes
<1>2. NotStarted' /\ Ended' /\ OneWay' /\ ReadyIsSynced'
  BY DEF RoomInv, NotStarted, Ended, OneWay, ReadyIsSynced, Over
<1>3. SavesFollowTheSocket'
  BY DEF SavesFollowTheSocket, Over
<1> QED BY <1>1, <1>2, <1>3 DEF RoomInv

\* One request is answered, or dropped.
LEMMA AnsweredKeeps ==
  ASSUME RoomInv, UNCHANGED rtcButSaves, NEW id \in DOMAIN saves, NEW r \in SaveRecord,
         r.status # "pending", r.socket <= generation, saves' = [saves EXCEPT ![id] = r]
  PROVE  RoomInv'
<1>1. /\ saves' \in Seq(SaveRecord) /\ DOMAIN saves' = DOMAIN saves /\ saves'[id] = r
      /\ \A i \in DOMAIN saves : i # id => saves'[i] = saves[i]
  BY OneSaveChanges DEF RoomInv, RoomTypes
<1>2. ASSUME NEW i \in DOMAIN saves'
      PROVE  /\ saves'[i].socket <= generation
             /\ saves'[i].status = "pending" => ws = "open" /\ saves'[i].socket = generation /\ ~Over
  <2>1. CASE i = id
    BY <1>1, <2>1
  <2>2. CASE i # id
    <3>1. i \in DOMAIN saves /\ saves'[i] = saves[i]
      BY <1>1, <2>2
    <3> QED BY <3>1 DEF RoomInv, RoomTypes, SavesFollowTheSocket
  <2> QED BY <2>1, <2>2
<1> QED BY <1>1, <1>2, OnlySaves

\* The status of one request of the right kind changes.
LEMMA StatusChanges ==
  ASSUME RoomInv, NEW id \in DOMAIN saves, NEW status \in SaveStatuses,
         saves' = [saves EXCEPT ![id].status = status]
  PROVE  LET r == [saves[id] EXCEPT !.status = status]
         IN r \in SaveRecord /\ r.status = status /\ r.socket <= generation
            /\ saves' = [saves EXCEPT ![id] = r]
<1>1. saves[id] \in SaveRecord
  BY ElementOfSeq, LenProperties DEF RoomInv, RoomTypes
<1>2. saves[id].socket <= generation
  BY DEF RoomInv, RoomTypes
<1> QED BY <1>1, <1>2 DEF SaveRecord

LEMMA SaveTimeoutKeeps ==
  ASSUME RoomInv, NEW id \in DOMAIN saves, SaveTimeout(id)
  PROVE  RoomInv'
<1>1. "timeout" \in SaveStatuses /\ saves' = [saves EXCEPT ![id].status = "timeout"]
      /\ UNCHANGED rtcButSaves
  BY DEF SaveTimeout, SaveStatuses, rtcButSaves, retry, provider, env
<1> DEFINE r == [saves[id] EXCEPT !.status = "timeout"]
<1>2. r \in SaveRecord /\ r.status = "timeout" /\ r.socket <= generation
      /\ saves' = [saves EXCEPT ![id] = r]
  BY <1>1, StatusChanges
<1> HIDE DEF r
<1> QED BY <1>1, <1>2, AnsweredKeeps

LEMMA StutterKeeps ==
  ASSUME RoomInv, UNCHANGED rtcVars
  PROVE  RoomInv'
<1> USE DEF rtcVars, rtcButSaves, provider, retry, env
<1>1. RoomTypes'
  BY DEF RoomInv, RoomTypes
<1>2. NotStarted' /\ Ended' /\ OneWay' /\ ReadyIsSynced' /\ SavesFollowTheSocket'
  BY DEF RoomInv, NotStarted, Ended, OneWay, ReadyIsSynced, SavesFollowTheSocket, Over
<1> QED BY <1>1, <1>2 DEF RoomInv

\* A late or repeated reply finds nobody waiting.
LEMMA SaveReplyKeeps ==
  ASSUME RoomInv, NEW id \in DOMAIN saves, NEW status \in Replies, SaveReply(id, status)
  PROVE  RoomInv'
<1>1. UNCHANGED rtcButSaves
  BY DEF SaveReply, rtcButSaves, retry, provider, env
<1>2. CASE saves[id].status = "pending"
  <2>1. status \in SaveStatuses /\ status # "pending"
        /\ saves' = [saves EXCEPT ![id].status = status]
    BY <1>2 DEF SaveReply, Settled, SaveStatuses, Replies
  <2> DEFINE r == [saves[id] EXCEPT !.status = status]
  <2>2. r \in SaveRecord /\ r.status = status /\ r.socket <= generation
        /\ saves' = [saves EXCEPT ![id] = r]
    BY <2>1, StatusChanges
  <2> HIDE DEF r
  <2> QED BY <1>1, <2>1, <2>2, AnsweredKeeps
<1>3. CASE saves[id].status # "pending"
  <2>1. UNCHANGED saves
    BY <1>3 DEF SaveReply, Settled
  <2> QED BY <1>1, <2>1, StutterKeeps DEF rtcVars
<1> QED BY <1>2, <1>3

\* A save goes out on the open socket of a room that is ready, and on that socket only.
LEMMA SaveKeeps ==
  ASSUME RoomInv, Save
  PROVE  /\ RoomInv'
         /\ DOMAIN saves' = 1..(Len(saves) + 1)
         /\ \A i \in DOMAIN saves : saves'[i] = saves[i]
<1>1. UNCHANGED rtcButSaves
  BY DEF Save, rtcButSaves, retry, provider, env
<1>2. PICK sent \in BOOLEAN :
        saves' = Append(saves, [status |-> IF sent THEN "pending" ELSE "unsent",
                                socket |-> generation])
  BY DEF Save
<1>3. ws = "open" /\ ~Over
  BY DEF Save, MaySave
<1> DEFINE r == [status |-> IF sent THEN "pending" ELSE "unsent", socket |-> generation]
<1>4. r \in SaveRecord /\ r.socket = generation
  BY DEF SaveRecord, SaveStatuses, RoomInv, RoomTypes
<1>5. generation \in Nat /\ saves \in Seq(SaveRecord)
  BY DEF RoomInv, RoomTypes
<1> HIDE DEF r
<1>6. saves' = Append(saves, r)
  BY <1>2 DEF r
<1>7. /\ saves' \in Seq(SaveRecord)
      /\ DOMAIN saves' = 1..(Len(saves) + 1)
      /\ DOMAIN saves = 1..Len(saves)
      /\ Len(saves) \in Nat
      /\ saves'[Len(saves) + 1] = r
      /\ \A i \in 1..Len(saves) : saves'[i] = saves[i]
  BY <1>4, <1>5, <1>6, AppendProperties, LenProperties
<1>8. ASSUME NEW i \in DOMAIN saves'
      PROVE  /\ saves'[i].socket <= generation
             /\ saves'[i].status = "pending" => ws = "open" /\ saves'[i].socket = generation /\ ~Over
  <2>1. CASE i = Len(saves) + 1
    BY <1>3, <1>4, <1>5, <1>7, <2>1
  <2>2. CASE i # Len(saves) + 1
    <3>1. i \in DOMAIN saves /\ saves'[i] = saves[i]
      BY <1>7, <2>2
    <3> QED BY <3>1 DEF RoomInv, RoomTypes, SavesFollowTheSocket
  <2> QED BY <2>1, <2>2
<1>9. RoomInv'
  BY <1>1, <1>7, <1>8, OnlySaves
<1> QED BY <1>7, <1>9

\* The caller takes its status, which is never that of a save still waited for.
LEMMA TakenKeeps ==
  ASSUME RoomInv, UNCHANGED rtcButSaves, NEW id,
         saves' = [saves EXCEPT ![id] = [status |-> "taken", socket |-> 0]]
  PROVE  /\ RoomInv' /\ DOMAIN saves' = DOMAIN saves
         /\ \A i \in DOMAIN saves : saves'[i] = saves[i] \/ saves'[i].status = "taken"
<1> DEFINE r == [status |-> "taken", socket |-> 0]
<1>1. r \in SaveRecord /\ r.status = "taken" /\ r.socket <= generation
  BY DEF SaveRecord, SaveStatuses, RoomInv, RoomTypes
<1> HIDE DEF r
<1>2. saves' = [saves EXCEPT ![id] = r]
  BY DEF r
<1>3. CASE id \in DOMAIN saves
  <2>1. RoomInv'
    BY <1>1, <1>2, <1>3, AnsweredKeeps
  <2> QED BY <1>1, <1>2, <1>3, <2>1
<1>4. CASE id \notin DOMAIN saves
  <2>1. saves \in Seq(SaveRecord) /\ DOMAIN saves = 1..Len(saves) /\ Len(saves) \in Nat
    BY LenProperties DEF RoomInv, RoomTypes
  <2>2. saves \in [1..Len(saves) -> SaveRecord]
    BY <2>1, ElementOfSeq
  <2>3. UNCHANGED saves
    BY <1>2, <1>4, <2>1, <2>2
  <2> QED BY <2>3, StutterKeeps DEF rtcVars
<1> QED BY <1>3, <1>4

------------------------------------------------------------------------------
(* The whole of the room: its invariant, and what is over stays over. *)

LEMMA RtcKeeps ==
  ASSUME RoomInv, Rtc
  PROVE  RoomInv'
<1>1. CASE Connect
  BY <1>1, ConnectKeeps
<1>2. CASE OpenFails
  BY <1>2, OpenFailsKeeps
<1>3. CASE Dispose
  BY <1>3, DisposeKeeps
<1>4. CASE StructureSeen
  BY <1>4, StructureSeenKeeps
<1>5. CASE StructureArrives
  BY <1>5, StructureArrivesKeeps
<1>6. CASE Connected
  BY <1>6, ConnectedKeeps
<1>7. CASE Synced
  BY <1>7, SyncedKeeps
<1>8. CASE Conflict
  BY <1>8, ConflictKeeps
<1>9. CASE ProviderTimer
  BY <1>9, ProviderTimerKeeps
<1>10. CASE \E close \in Closes : ConnectionClose(close)
  BY <1>10, ConnectionCloseKeeps
<1>11. CASE ReconnectTimer
  BY <1>11, ReconnectTimerKeeps
<1>12. CASE RevalidationRejected
  BY <1>12, RevalidationRejectedKeeps
<1>13. CASE \E same \in BOOLEAN : Revalidated(same)
  BY <1>13, RevalidatedKeeps
<1>14. CASE \E id \in DOMAIN saves : SaveTimeout(id)
  BY <1>14, SaveTimeoutKeeps
<1>15. CASE \E id \in DOMAIN saves : \E r \in Replies : SaveReply(id, r)
  BY <1>15, SaveReplyKeeps
<1> QED BY <1>1, <1>2, <1>3, <1>4, <1>5, <1>6, <1>7, <1>8, <1>9, <1>10, <1>11, <1>12, <1>13,
           <1>14, <1>15 DEF Rtc

\* What notebook_save does to the room: it sends a save, takes a status, or nothing.
LEMMA ServiceOnRoom ==
  ASSUME RoomInv, NEW s \in Savers, Service(s)
  PROVE  /\ RoomInv'
         /\ \/ UNCHANGED rtcVars
            \/ ~Over /\ UNCHANGED rtcButSaves /\ \A i \in DOMAIN saves : saves'[i] = saves[i]
            \/ /\ UNCHANGED rtcButSaves
               /\ \A i \in DOMAIN saves : saves'[i] = saves[i] \/ saves'[i].status = "taken"
<1>1. CASE Begin(s) \/ Serve(s) \/ BeforeRead(s) \/ ReadBack(s)
  <2>1. UNCHANGED rtcVars
    BY <1>1 DEF Begin, Serve, BeforeRead, ReadBack
  <2> QED BY <2>1, StutterKeeps
<1>2. CASE SendSave(s)
  <2>1. CASE Save
    <3>1. ~Over /\ UNCHANGED rtcButSaves
      BY <2>1 DEF Save, MaySave, rtcButSaves, retry, provider, env
    <3> QED BY <2>1, <3>1, SaveKeeps
  <2>2. CASE UNCHANGED rtcVars
    BY <2>2, StutterKeeps
  <2> QED BY <1>2, <2>1, <2>2 DEF SendSave
<1>3. CASE SaveStatus(s)
  <2>1. /\ UNCHANGED rtcButSaves
        /\ saves' = [saves EXCEPT ![call[s].id] = [status |-> "taken", socket |-> 0]]
    BY <1>3 DEF SaveStatus
  <2> QED BY <2>1, TakenKeeps
<1> QED BY <1>1, <1>2, <1>3 DEF Service

LEMMA RoomStep == RoomInv /\ [Next]_vars => RoomInv'
<1> SUFFICES ASSUME RoomInv, [Next]_vars PROVE RoomInv'
  OBVIOUS
<1>1. CASE RtcStep
  BY <1>1, RtcKeeps DEF RtcStep
<1>2. CASE ReplicaChanges \/ FileWritten \/ UNCHANGED vars
  <2>1. UNCHANGED rtcVars
    BY <1>2 DEF ReplicaChanges, FileWritten, vars
  <2> QED BY <2>1, StutterKeeps
<1>3. CASE \E s \in Savers : Service(s)
  BY <1>3, ServiceOnRoom
<1> QED BY <1>1, <1>2, <1>3 DEF Next

\* An answered save is not answered again.
AnsweredOnce ==
  \A i \in DOMAIN saves :
    saves[i].status # "pending" => saves'[i].status \in {saves[i].status, "taken"}

\* What is over has come to its end.
EndStays ==
  Over => /\ ws' \in {ws, "none"} /\ ~timer' /\ ~shouldConnect'
          /\ terminal # None => terminal' = terminal
          /\ state' \in {"failed", "closed"}

LEMMA UnchangedIsFinal ==
  ASSUME RoomInv, UNCHANGED <<state, terminal, timer, ws, shouldConnect>>
  PROVE  EndStays
BY DEF RoomInv, Ended, EndStays

LEMMA SettledOnce ==
  ASSUME SavesSettled \/ UNCHANGED saves
  PROVE  AnsweredOnce
BY DEF SavesSettled, AnsweredOnce

LEMMA DisposedIsFinal ==
  ASSUME RoomInv, Disposed, opening' \in {"open", "thrown"}
  PROVE  EndStays /\ AnsweredOnce
<1>1. EndStays
  BY DEF Disposed, SetState, EndStays
<1> QED BY <1>1, DisposedKeeps, SettledOnce

LEMMA RtcIsFinal ==
  ASSUME RoomInv, Rtc
  PROVE  EndStays /\ AnsweredOnce
<1>1. CASE Connect
  <2>1. ~Over /\ UNCHANGED saves
    BY <1>1 DEF Connect, RoomInv, NotStarted
  <2> QED BY <2>1, SettledOnce DEF EndStays
<1>2. CASE OpenFails \/ Dispose
  BY <1>2, DisposedIsFinal DEF OpenFails, Dispose
<1>3. CASE StructureSeen \/ StructureArrives
  <2>1. UNCHANGED <<state, terminal, timer, ws, shouldConnect, saves>>
    BY <1>3 DEF StructureSeen, StructureArrives, provider, retry
  <2> QED BY <2>1, UnchangedIsFinal, SettledOnce
<1>4. CASE Connected \/ Synced
  <2>1. ws # "none" /\ UNCHANGED saves
    BY <1>4 DEF Connected, Synced
  <2>2. ~Over
    BY <2>1 DEF RoomInv, Ended
  <2> QED BY <2>1, <2>2, SettledOnce DEF EndStays
<1>5. CASE Conflict
  <2>1. SavesSettled /\ ~Over
    BY <1>5, ConflictKeeps
  <2> QED BY <2>1, SettledOnce DEF EndStays
<1>6. CASE ProviderTimer
  <2>1. UNCHANGED <<state, terminal, timer, shouldConnect, saves>>
    BY <1>6 DEF ProviderTimer, retry
  <2>2. Over => UNCHANGED ws
    BY <1>6 DEF ProviderTimer, RoomInv, Ended
  <2> QED BY <2>1, <2>2, UnchangedIsFinal, SettledOnce DEF EndStays
<1>7. CASE \E close \in Closes : ConnectionClose(close)
  <2>1. SavesSettled /\ ~Over
    BY <1>7, ConnectionCloseKeeps
  <2> QED BY <2>1, SettledOnce DEF EndStays
<1>8. CASE ReconnectTimer
  <2>1. ~Over /\ UNCHANGED saves
    BY <1>8 DEF ReconnectTimer, RoomInv, Ended
  <2> QED BY <2>1, SettledOnce DEF EndStays
<1>9. CASE RevalidationRejected
  <2>1. UNCHANGED <<state, terminal, ws, shouldConnect, saves>> /\ (Over => UNCHANGED timer)
    BY <1>9 DEF RevalidationRejected, provider
  <2> QED BY <2>1, UnchangedIsFinal, SettledOnce DEF EndStays
<1>10. CASE \E same \in BOOLEAN : Revalidated(same)
  <2>1. /\ Over => UNCHANGED <<state, terminal, timer, ws, shouldConnect>>
        /\ SavesSettled \/ UNCHANGED saves
    BY <1>10, RevalidatedKeeps
  <2>2. EndStays
    BY <2>1, UnchangedIsFinal DEF EndStays
  <2> QED BY <2>1, <2>2, SettledOnce
<1>11. CASE \E id \in DOMAIN saves : SaveTimeout(id)
  <2>1. PICK id \in DOMAIN saves : SaveTimeout(id)
    BY <1>11
  <2>2. UNCHANGED <<state, terminal, timer, ws, shouldConnect>>
    BY <2>1 DEF SaveTimeout, provider, retry
  <2>3. AnsweredOnce
    BY <2>1 DEF SaveTimeout, AnsweredOnce
  <2> QED BY <2>2, <2>3, UnchangedIsFinal
<1>12. CASE \E id \in DOMAIN saves : \E r \in Replies : SaveReply(id, r)
  <2>1. PICK id \in DOMAIN saves : \E r \in Replies : SaveReply(id, r)
    BY <1>12
  <2>2. PICK r \in Replies : SaveReply(id, r)
    BY <2>1
  <2>3. UNCHANGED <<state, terminal, timer, ws, shouldConnect>>
    BY <2>2 DEF SaveReply, provider, retry
  <2>4. AnsweredOnce
    BY <2>2 DEF SaveReply, Settled, AnsweredOnce
  <2> QED BY <2>3, <2>4, UnchangedIsFinal
<1> QED BY <1>1, <1>2, <1>3, <1>4, <1>5, <1>6, <1>7, <1>8, <1>9, <1>10, <1>11, <1>12 DEF Rtc

LEMMA StepIsFinal ==
  ASSUME RoomInv, [Next]_vars
  PROVE  EndStays /\ AnsweredOnce
<1>1. CASE UNCHANGED rtcVars
  <2>1. UNCHANGED <<state, terminal, timer, ws, shouldConnect, saves>>
    BY <1>1 DEF rtcVars, rtcButSaves, provider, retry
  <2> QED BY <2>1, UnchangedIsFinal, SettledOnce
<1>2. CASE RtcStep
  BY <1>2, RtcIsFinal DEF RtcStep
<1>3. CASE ReplicaChanges \/ FileWritten \/ UNCHANGED vars
  BY <1>1, <1>3 DEF ReplicaChanges, FileWritten, vars
<1>4. CASE \E s \in Savers : Service(s)
  <2>1. PICK s \in Savers : Service(s)
    BY <1>4
  <2>2. \/ UNCHANGED rtcVars
        \/ /\ UNCHANGED rtcButSaves
           /\ \A i \in DOMAIN saves : saves'[i] = saves[i] \/ saves'[i].status = "taken"
    BY <2>1, ServiceOnRoom
  <2>3. CASE /\ UNCHANGED rtcButSaves
             /\ \A i \in DOMAIN saves : saves'[i] = saves[i] \/ saves'[i].status = "taken"
    <3>1. UNCHANGED <<state, terminal, timer, ws, shouldConnect>>
      BY <2>3 DEF rtcButSaves, provider, retry
    <3>2. AnsweredOnce
      BY <2>3 DEF AnsweredOnce
    <3> QED BY <3>1, <3>2, UnchangedIsFinal
  <2> QED BY <1>1, <2>2, <2>3
<1> QED BY <1>2, <1>3, <1>4 DEF Next

------------------------------------------------------------------------------
(* The calls: every step keeps what they rest on. *)

LEMMA InitCallInv == SaveInit => CallInv
<1> SUFFICES ASSUME SaveInit PROVE CallInv
  OBVIOUS
<1>1. replica \in Contents
  BY ContentsAssumption DEF SaveInit
<1>2. CallTypes
  <2>1. Idle \in CallType /\ NoAnswer \in AnswerType
    BY DEF Idle, NoAnswer, CallType, AnswerType, Verdicts, Digests
  <2>2. file \in Contents /\ observedReplica = replica /\ observedDisk \in {file, Unknown} /\ moved = FALSE
        /\ call = [s \in Savers |-> Idle] /\ answer = [s \in Savers |-> NoAnswer]
        /\ held = [s \in Savers |-> {}]
    BY DEF SaveInit
  <2> QED BY <1>1, <2>1, <2>2 DEF CallTypes, Digests
<1>3. \A s \in Savers : call[s] = Idle /\ answer[s] = NoAnswer
  BY DEF SaveInit
<1>4. ObservationIsCurrent
  BY DEF SaveInit, ObservationIsCurrent
<1>5. ReadsAreCurrent /\ ReadBacksWereHeld /\ OneAnswer
  BY <1>3 DEF Idle, ReadsAreCurrent, ReadBacksWereHeld, OneAnswer, None
<1>6. ConfirmedWasOnDisk /\ ExternalChangesAreReal
  BY <1>3 DEF Idle, NoAnswer, ConfirmedWasOnDisk, ExternalChangesAreReal, Unknown
<1> QED BY <1>2, <1>4, <1>5, <1>6 DEF CallInv

LEMMA CallsUnchanged ==
  ASSUME CallInv, UNCHANGED <<observed, file, call, answer, held>>, replica' \in Contents
  PROVE  CallInv'
<1> USE DEF observed
<1>1. CallTypes'
  BY DEF CallInv, CallTypes
<1>2. ObservationIsCurrent' /\ ReadsAreCurrent' /\ ReadBacksWereHeld' /\ OneAnswer'
  BY DEF CallInv, ObservationIsCurrent, ReadsAreCurrent, ReadBacksWereHeld, OneAnswer
<1>3. ConfirmedWasOnDisk' /\ ExternalChangesAreReal'
  BY DEF CallInv, ConfirmedWasOnDisk, ExternalChangesAreReal
<1> QED BY <1>1, <1>2, <1>3 DEF CallInv

\* What CallInv says of one call, its answer and what the file held since its save.
Fine(c, a, h) ==
  /\ c.read # None => c.phase \in {"before", "confirming"}
  /\ c.phase = "before" =>
       /\ c.external = Unknown
       /\ c.read # None /\ ~c.sawMoved => observedDisk \in {c.read, Unknown}
  /\ c.phase = "confirming" =>
       /\ c.snapshot # Unknown
       /\ file \in h
       /\ c.read # None =>
            /\ c.read \in h
            /\ ~c.readMoved => c.read = file
  /\ c.phase # "idle" => a = NoAnswer
  /\ a.confirmed # Unknown => a.saveStatus = "success" /\ a.confirmed \in h
  /\ a.overwrote = "yes" => a.confirmed # Unknown
  /\ c.external = "yes" => c.sawMoved \/ observedDisk # observedReplica

AllFine == \A s \in Savers : Fine(call[s], answer[s], held[s])

LEMMA CallByCall ==
  CallInv <=> CallTypes /\ ObservationIsCurrent /\ AllFine
<1>1. ASSUME AllFine
      PROVE  /\ ReadsAreCurrent /\ ReadBacksWereHeld /\ OneAnswer
             /\ ConfirmedWasOnDisk /\ ExternalChangesAreReal
  <2>1. ReadsAreCurrent
    BY <1>1 DEF ReadsAreCurrent, AllFine, Fine
  <2>2. ReadBacksWereHeld
    <3>1. ASSUME NEW s \in Savers, call[s].phase = "confirming"
          PROVE  /\ call[s].snapshot # Unknown
                 /\ file \in held[s]
                 /\ call[s].read # None => call[s].read \in held[s]
                 /\ call[s].read # None /\ ~call[s].readMoved => call[s].read = file
      <4>1. Fine(call[s], answer[s], held[s])
        BY <1>1 DEF AllFine
      <4> QED BY <3>1, <4>1 DEF Fine
    <3> QED BY <3>1 DEF ReadBacksWereHeld
  <2>3. OneAnswer
    BY <1>1 DEF OneAnswer, AllFine, Fine
  <2>4. ConfirmedWasOnDisk
    BY <1>1 DEF ConfirmedWasOnDisk, AllFine, Fine
  <2>5. ExternalChangesAreReal
    BY <1>1 DEF ExternalChangesAreReal, AllFine, Fine
  <2> QED BY <2>1, <2>2, <2>3, <2>4, <2>5
<1>2. ASSUME CallInv PROVE AllFine
  <2> SUFFICES ASSUME NEW s \in Savers PROVE Fine(call[s], answer[s], held[s])
    BY DEF AllFine
  <2>1. ReadsAreCurrent /\ ReadBacksWereHeld /\ OneAnswer /\ ConfirmedWasOnDisk /\ ExternalChangesAreReal
    BY <1>2 DEF CallInv
  <2> QED BY <2>1 DEF ReadsAreCurrent, ReadBacksWereHeld, OneAnswer, ConfirmedWasOnDisk,
                      ExternalChangesAreReal, Fine
<1> QED BY <1>1, <1>2 DEF CallInv

LEMMA CallByCallNext ==
  ASSUME CallTypes', ObservationIsCurrent', AllFine'
  PROVE  CallInv'
BY CallByCall, PTL

\* One call moves on; the others see nothing of it.
LEMMA OneCallMoves ==
  ASSUME CallInv, NEW s \in Savers, NEW c \in CallType, NEW a \in AnswerType,
         NEW h \in SUBSET Contents,
         call' = [call EXCEPT ![s] = c], answer' = [answer EXCEPT ![s] = a],
         held' = [held EXCEPT ![s] = h], UNCHANGED <<observed, file, replica>>,
         Fine(c, a, h)
  PROVE  CallInv'
<1> USE DEF observed
<1>1. CallTypes'
  BY DEF CallInv, CallTypes
<1>2. ObservationIsCurrent'
  BY DEF CallInv, ObservationIsCurrent
<1>3. ASSUME NEW t \in Savers PROVE Fine(call[t], answer[t], held[t])'
  <2>1. CASE t = s
    <3>1. call'[t] = c /\ answer'[t] = a /\ held'[t] = h
      BY <2>1 DEF CallInv, CallTypes
    <3> QED BY <3>1 DEF Fine
  <2>2. CASE t # s
    <3>1. call'[t] = call[t] /\ answer'[t] = answer[t] /\ held'[t] = held[t]
      BY <2>2 DEF CallInv, CallTypes
    <3>2. Fine(call[t], answer[t], held[t])
      BY CallByCall DEF AllFine
    <3> QED BY <3>1, <3>2 DEF Fine
  <2> QED BY <2>1, <2>2
<1>4. AllFine'
  BY <1>3 DEF AllFine
<1> QED BY <1>1, <1>2, <1>4, CallByCallNext

\* An untouched answer, or record of what the file held.
LEMMA Untouched ==
  ASSUME CallInv, NEW s \in Savers
  PROVE  /\ [answer EXCEPT ![s] = answer[s]] = answer /\ answer[s] \in AnswerType
         /\ [held EXCEPT ![s] = held[s]] = held /\ held[s] \in SUBSET Contents
         /\ call[s] \in CallType /\ Fine(call[s], answer[s], held[s])
         /\ replica \in Contents /\ file \in Contents
<1>1. answer \in [Savers -> AnswerType] /\ held \in [Savers -> SUBSET Contents]
      /\ call \in [Savers -> CallType] /\ replica \in Contents /\ file \in Contents
  BY DEF CallInv, CallTypes
<1> QED BY <1>1, CallByCall DEF AllFine

LEMMA BeginKeeps ==
  ASSUME CallInv, NEW s \in Savers, Begin(s)
  PROVE  CallInv'
<1>1. PICK snapshot \in {replica, Unknown} :
        call' = [call EXCEPT ![s] =
                  [Idle EXCEPT !.phase = IF snapshot = Unknown THEN "saving" ELSE "before",
                               !.snapshot = snapshot]]
  BY DEF Begin
<1> DEFINE c == [Idle EXCEPT !.phase = IF snapshot = Unknown THEN "saving" ELSE "before",
                             !.snapshot = snapshot]
<1>2. c \in CallType /\ c.read = None /\ c.phase \in {"saving", "before"} /\ c.external = Unknown
  BY Untouched DEF Idle, CallType, Digests, Verdicts
<1>3. NoAnswer \in AnswerType /\ {} \in SUBSET Contents
  BY DEF NoAnswer, AnswerType, Digests, Verdicts
<1>4. Fine(c, NoAnswer, {})
  BY <1>2 DEF Fine, NoAnswer, Unknown
<1>5. /\ call' = [call EXCEPT ![s] = c] /\ answer' = [answer EXCEPT ![s] = NoAnswer]
      /\ held' = [held EXCEPT ![s] = {}] /\ UNCHANGED <<observed, file, replica>>
  BY <1>1 DEF Begin, fileVars
<1> HIDE DEF c
<1> QED BY <1>2, <1>3, <1>4, <1>5, OneCallMoves

LEMMA ServeKeeps ==
  ASSUME CallInv, NEW s \in Savers, Serve(s)
  PROVE  CallInv'
<1> DEFINE c == [call[s] EXCEPT !.read = file, !.readMoved = FALSE,
                   !.sawMoved = IF call[s].phase = "before" THEN moved ELSE call[s].sawMoved]
<1>1. call[s] \in CallType /\ Fine(call[s], answer[s], held[s]) /\ file \in Contents /\ moved \in BOOLEAN
  BY Untouched DEF CallInv, CallTypes
<1>2. call[s].phase \in {"before", "confirming"}
  BY DEF Serve
<1>3. /\ c \in CallType /\ c.read = file /\ ~c.readMoved /\ c.phase = call[s].phase
      /\ c.external = call[s].external /\ c.snapshot = call[s].snapshot
      /\ c.phase = "before" => c.sawMoved = moved
      /\ c.phase # "before" => c.sawMoved = call[s].sawMoved
  BY <1>1 DEF CallType
<1>4. ~moved => observedDisk \in {file, Unknown}
  BY DEF CallInv, ObservationIsCurrent
<1>5. Fine(c, answer[s], held[s])
  BY <1>1, <1>2, <1>3, <1>4 DEF Fine, Unknown
<1>6. call' = [call EXCEPT ![s] = c]
  BY DEF Serve
<1>7. /\ answer' = [answer EXCEPT ![s] = answer[s]] /\ held' = [held EXCEPT ![s] = held[s]]
      /\ UNCHANGED <<observed, file, replica>>
  BY Untouched DEF Serve, fileVars
<1> HIDE DEF c
<1> QED BY <1>3, <1>5, <1>6, <1>7, Untouched, OneCallMoves

LEMMA BeforeReadKeeps ==
  ASSUME CallInv, NEW s \in Savers, BeforeRead(s)
  PROVE  CallInv'
<1>1. call[s] \in CallType /\ Fine(call[s], answer[s], held[s]) /\ call[s].phase = "before"
  BY Untouched DEF BeforeRead
<1>2. PICK before \in {Unknown} \union (IF call[s].read = None THEN {} ELSE {call[s].read}) :
        call' = [call EXCEPT ![s].phase = "saving", ![s].read = None,
                             ![s].external = External(before, call[s].snapshot)]
  BY DEF BeforeRead
<1> DEFINE e == External(before, call[s].snapshot)
           c == [call[s] EXCEPT !.phase = "saving", !.read = None, !.external = e]
<1>3. e \in Verdicts
  BY DEF External, Verdicts
<1>4. e = "yes" => call[s].sawMoved \/ observedDisk # observedReplica
  <2> SUFFICES ASSUME e = "yes", ~call[s].sawMoved, observedDisk = observedReplica PROVE FALSE
    OBVIOUS
  <2>1. before # Unknown /\ before # observedDisk /\ observedDisk # Unknown
    BY DEF External, Unknown
  <2>2. call[s].read # None /\ before = call[s].read
    BY <1>2, <2>1
  <2>3. observedDisk \in {call[s].read, Unknown}
    BY <1>1, <2>2 DEF Fine
  <2> QED BY <2>1, <2>2, <2>3
<1>5. call' = [call EXCEPT ![s] = c]
  BY <1>2
<1> HIDE DEF e
<1>6. /\ c \in CallType /\ c.read = None /\ c.phase = "saving" /\ c.external = e
      /\ c.sawMoved = call[s].sawMoved
  BY <1>1, <1>3 DEF CallType
<1> HIDE DEF c
<1>7. Fine(c, answer[s], held[s])
  BY <1>1, <1>4, <1>6 DEF Fine
<1>8. /\ answer' = [answer EXCEPT ![s] = answer[s]] /\ held' = [held EXCEPT ![s] = held[s]]
      /\ UNCHANGED <<observed, file, replica>>
  BY Untouched DEF BeforeRead, fileVars
<1> QED BY <1>5, <1>6, <1>7, <1>8, Untouched, OneCallMoves

\* A call ends: what it answers was confirmed or is not.
LEMMA EndsKeeps ==
  ASSUME CallInv, NEW s \in Savers, NEW a \in AnswerType,
         call' = [call EXCEPT ![s] = Idle], answer' = [answer EXCEPT ![s] = a],
         UNCHANGED <<held, observed, file, replica>>,
         a.confirmed # Unknown => a.saveStatus = "success" /\ a.confirmed \in held[s],
         a.overwrote = "yes" => a.confirmed # Unknown
  PROVE  CallInv'
<1>1. Idle \in CallType /\ Idle.phase = "idle" /\ Idle.read = None /\ Idle.external = Unknown
  BY DEF Idle, CallType, Digests, Verdicts
<1>2. Fine(Idle, a, held[s])
  BY <1>1 DEF Fine, Unknown
<1>3. held' = [held EXCEPT ![s] = held[s]] /\ held[s] \in SUBSET Contents
  BY Untouched
<1> QED BY <1>1, <1>2, <1>3, OneCallMoves

LEMMA ThrowsKeeps ==
  ASSUME CallInv, NEW s \in Savers, Throws(s), UNCHANGED <<observed, file, replica>>
  PROVE  CallInv'
<1>1. answer' = [answer EXCEPT ![s] = answer[s]] /\ answer[s] \in AnswerType
  BY Untouched DEF Throws
<1>2. /\ answer[s].confirmed # Unknown =>
           answer[s].saveStatus = "success" /\ answer[s].confirmed \in held[s]
      /\ answer[s].overwrote = "yes" => answer[s].confirmed # Unknown
  BY Untouched DEF Fine
<1>3. call' = [call EXCEPT ![s] = Idle] /\ UNCHANGED held
  BY DEF Throws
<1> QED BY <1>1, <1>2, <1>3, EndsKeeps

LEMMA SendSaveKeeps ==
  ASSUME RoomInv, CallInv, NEW s \in Savers, SendSave(s)
  PROVE  CallInv'
<1>0. UNCHANGED <<observed, file, replica>>
  BY DEF SendSave, fileVars
<1>1. CASE call[s].phase = "saving" /\ call' = [call EXCEPT ![s].phase = "sent", ![s].id = Len(saves) + 1]
           /\ UNCHANGED <<answer, held>>
  <2> DEFINE c == [call[s] EXCEPT !.phase = "sent", !.id = Len(saves) + 1]
  <2>1. call[s] \in CallType /\ Fine(call[s], answer[s], held[s])
    BY Untouched
  <2>2. Len(saves) + 1 \in Nat
    BY LenProperties DEF RoomInv, RoomTypes
  <2>3. /\ c \in CallType /\ c.phase = "sent" /\ c.read = call[s].read
        /\ c.external = call[s].external /\ c.sawMoved = call[s].sawMoved
    BY <2>1, <2>2 DEF CallType
  <2>4. call' = [call EXCEPT ![s] = c]
    BY <1>1
  <2> HIDE DEF c
  <2>5. Fine(c, answer[s], held[s])
    BY <1>1, <2>1, <2>3 DEF Fine
  <2>6. answer' = [answer EXCEPT ![s] = answer[s]] /\ held' = [held EXCEPT ![s] = held[s]]
    BY <1>1, Untouched
  <2> QED BY <1>0, <2>3, <2>4, <2>5, <2>6, Untouched, OneCallMoves
<1>2. CASE Throws(s)
  BY <1>0, <1>2, ThrowsKeeps
<1> QED BY <1>1, <1>2 DEF SendSave

LEMMA SaveStatusKeeps ==
  ASSUME CallInv, NEW s \in Savers, SaveStatus(s)
  PROVE  CallInv'
<1>0. UNCHANGED <<observed, file, replica>> /\ call[s].phase = "sent"
  BY DEF SaveStatus, fileVars
<1>1. CASE Throws(s)
  BY <1>0, <1>1, ThrowsKeeps
<1>2. CASE /\ call[s].snapshot # Unknown
           /\ call' = [call EXCEPT ![s].phase = "confirming", ![s].id = 0]
           /\ held' = [held EXCEPT ![s] = {file}]
           /\ UNCHANGED answer
  <2> DEFINE c == [call[s] EXCEPT !.phase = "confirming", !.id = 0]
  <2>1. call[s] \in CallType /\ Fine(call[s], answer[s], held[s]) /\ file \in Contents
        /\ {file} \in SUBSET Contents
    BY Untouched
  <2>2. /\ c \in CallType /\ c.phase = "confirming" /\ c.read = call[s].read
        /\ c.external = call[s].external /\ c.sawMoved = call[s].sawMoved
        /\ c.snapshot = call[s].snapshot
    BY <2>1 DEF CallType
  <2>3. call' = [call EXCEPT ![s] = c]
    BY <1>2
  <2> HIDE DEF c
  <2>4. call[s].read = None /\ answer[s] = NoAnswer
    BY <1>0, <2>1 DEF Fine
  <2>5. Fine(c, answer[s], {file})
    BY <1>2, <2>1, <2>2, <2>4 DEF Fine, NoAnswer, Unknown
  <2>6. answer' = [answer EXCEPT ![s] = answer[s]]
    BY <1>2, Untouched
  <2> QED BY <1>0, <1>2, <2>1, <2>2, <2>3, <2>5, <2>6, Untouched, OneCallMoves
<1>3. ASSUME NEW status \in {"success", "skipped", "timeout"}, Answers(s, status, Unknown),
             call' = [call EXCEPT ![s] = Idle], UNCHANGED held
      PROVE  CallInv'
  <2> DEFINE a == [saveStatus |-> status, confirmed |-> Unknown,
                   overwrote |-> IF status = "skipped" THEN "no" ELSE Unknown]
  <2>1. a \in AnswerType /\ a.confirmed = Unknown /\ a.overwrote # "yes"
    BY <1>3 DEF AnswerType, SaveStatuses, Replies, Digests, Verdicts, Unknown
  <2>2. answer' = [answer EXCEPT ![s] = a]
    BY <1>3 DEF Answers
  <2> HIDE DEF a
  <2> QED BY <1>0, <1>3, <2>1, <2>2, EndsKeeps
<1> QED BY <1>1, <1>2, <1>3 DEF SaveStatus

\* A read-back replaces the observation with the content it read, for every call under way.
LEMMA ConfirmedKeeps ==
  ASSUME CallInv, NEW s \in Savers, call[s].phase = "confirming",
         call[s].read # None, Confirms(s),
         Answers(s, "success", call[s].snapshot),
         call' = [t \in Savers |-> IF t = s THEN Idle ELSE [call[t] EXCEPT !.sawMoved = TRUE]],
         observedDisk' = call[s].snapshot, observedReplica' = call[s].snapshot,
         moved' = call[s].readMoved, UNCHANGED <<file, replica, held>>
  PROVE  CallInv'
<1> DEFINE a == [saveStatus |-> "success", confirmed |-> call[s].snapshot,
                 overwrote |-> IF call[s].snapshot # Unknown THEN call[s].external ELSE Unknown]
<1>1. call[s] \in CallType /\ Fine(call[s], answer[s], held[s])
  BY Untouched
<1>2. call[s].read = call[s].snapshot /\ call[s].snapshot # Unknown /\ call[s].snapshot \in held[s]
      /\ (~call[s].readMoved => call[s].snapshot = file)
  BY <1>1 DEF Fine, Confirms
<1>3. /\ a \in AnswerType /\ a.confirmed = call[s].snapshot /\ a.saveStatus = "success"
  <2>1. call[s].snapshot \in Digests /\ call[s].external \in Verdicts /\ Unknown \in Verdicts
    BY <1>1 DEF CallType, Verdicts
  <2>2. "success" \in SaveStatuses \union {None}
    BY DEF SaveStatuses, Replies
  <2> QED BY <2>1, <2>2 DEF AnswerType
<1>4. answer' = [answer EXCEPT ![s] = a]
  BY <1>2 DEF Answers
<1> HIDE DEF a
<1>5. \A t \in Savers : call[t] \in CallType /\ Fine(call[t], answer[t], held[t])
  BY Untouched
<1>6. Idle \in CallType /\ Idle.phase = "idle" /\ Idle.read = None /\ Idle.external = Unknown
  BY DEF Idle, CallType, Digests, Verdicts
<1>7. CallTypes'
  <2>1. \A t \in Savers : [call[t] EXCEPT !.sawMoved = TRUE] \in CallType
    BY <1>5 DEF CallType
  <2>2. call' \in [Savers -> CallType]
    BY <1>6, <2>1
  <2>3. answer' \in [Savers -> AnswerType]
    BY <1>3, <1>4 DEF CallInv, CallTypes
  <2>4. observedDisk' \in Digests /\ observedReplica' \in Digests /\ moved' \in BOOLEAN
    BY <1>1 DEF CallType
  <2> QED BY <2>2, <2>3, <2>4 DEF CallInv, CallTypes
<1>8. ObservationIsCurrent'
  BY <1>2 DEF ObservationIsCurrent
<1>9. ASSUME NEW t \in Savers PROVE Fine(call[t], answer[t], held[t])'
  <2>1. CASE t = s
    <3>1. call'[t] = Idle /\ answer'[t] = a /\ held'[t] = held[s]
      BY <1>4, <2>1 DEF CallInv, CallTypes
    <3>2. a.overwrote = "yes" => a.confirmed # Unknown
      BY <1>2, <1>3
    <3>3. a.confirmed \in held[s]
      BY <1>2, <1>3
    <3> QED BY <1>3, <1>6, <3>1, <3>2, <3>3 DEF Fine, Unknown
  <2>2. CASE t # s
    <3> DEFINE c == [call[t] EXCEPT !.sawMoved = TRUE]
    <3>1. call'[t] = c /\ answer'[t] = answer[t] /\ held'[t] = held[t]
      BY <1>4, <2>2 DEF CallInv, CallTypes
    <3>2. /\ c.phase = call[t].phase /\ c.read = call[t].read /\ c.external = call[t].external
          /\ c.snapshot = call[t].snapshot /\ c.readMoved = call[t].readMoved /\ c.sawMoved
      BY <1>5 DEF CallType
    <3> HIDE DEF c
    <3>3. Fine(call[t], answer[t], held[t])
      BY <1>5
    <3> QED BY <3>1, <3>2, <3>3 DEF Fine
  <2> QED BY <2>1, <2>2
<1>10. AllFine'
  BY <1>9 DEF AllFine
<1> QED BY <1>7, <1>8, <1>10, CallByCallNext

LEMMA ReadBackKeeps ==
  ASSUME CallInv, NEW s \in Savers, ReadBack(s)
  PROVE  CallInv'
<1>0. UNCHANGED <<file, replica, held>> /\ call[s].phase = "confirming"
  BY DEF ReadBack, fileVars
<1>1. CASE /\ call[s].read # None /\ Confirms(s)
           /\ Answers(s, "success", call[s].snapshot)
           /\ call' = [t \in Savers |-> IF t = s THEN Idle ELSE [call[t] EXCEPT !.sawMoved = TRUE]]
           /\ observedDisk' = call[s].snapshot /\ observedReplica' = call[s].snapshot
           /\ moved' = call[s].readMoved
  BY <1>0, <1>1, ConfirmedKeeps
<1>2. CASE call' = [call EXCEPT ![s].read = None] /\ UNCHANGED <<answer, observed>>
  <2> DEFINE c == [call[s] EXCEPT !.read = None]
  <2>1. call[s] \in CallType /\ Fine(call[s], answer[s], held[s])
    BY Untouched
  <2>2. /\ c \in CallType /\ c.phase = "confirming" /\ c.read = None
        /\ c.external = call[s].external /\ c.sawMoved = call[s].sawMoved
        /\ c.snapshot = call[s].snapshot
    BY <1>0, <2>1 DEF CallType
  <2>3. call' = [call EXCEPT ![s] = c]
    BY <1>2
  <2> HIDE DEF c
  <2>4. Fine(c, answer[s], held[s])
    BY <1>0, <2>1, <2>2 DEF Fine
  <2>5. answer' = [answer EXCEPT ![s] = answer[s]] /\ held' = [held EXCEPT ![s] = held[s]]
    BY <1>0, <1>2, Untouched
  <2> QED BY <1>0, <1>2, <2>2, <2>3, <2>4, <2>5, Untouched, OneCallMoves
<1>3. CASE Answers(s, "success", Unknown) /\ call' = [call EXCEPT ![s] = Idle] /\ UNCHANGED observed
  <2> DEFINE a == [saveStatus |-> "success", confirmed |-> Unknown, overwrote |-> Unknown]
  <2>1. a \in AnswerType /\ a.confirmed = Unknown /\ a.overwrote # "yes"
    BY DEF AnswerType, SaveStatuses, Replies, Digests, Verdicts, Unknown
  <2>2. answer' = [answer EXCEPT ![s] = a]
    BY <1>3 DEF Answers
  <2> HIDE DEF a
  <2> QED BY <1>0, <1>3, <2>1, <2>2, EndsKeeps
<1> QED BY <1>1, <1>2, <1>3 DEF ReadBack

\* The file changes: every read on its way is of an older content, every read-back still of one
\* the file had since.
LEMMA FileWrittenKeeps ==
  ASSUME CallInv, FileWritten
  PROVE  CallInv'
<1>1. /\ file' \in Contents /\ moved' = TRUE
      /\ call' = [s \in Savers |-> [call[s] EXCEPT !.readMoved = TRUE]]
      /\ held' = [s \in Savers |-> IF call[s].phase = "confirming" THEN held[s] \union {file'}
                                   ELSE held[s]]
      /\ UNCHANGED <<observedDisk, observedReplica, replica, answer>>
  BY DEF FileWritten
<1>2. \A t \in Savers : /\ call[t] \in CallType /\ Fine(call[t], answer[t], held[t])
                        /\ held[t] \in SUBSET Contents
  BY Untouched
<1>3. CallTypes'
  <2>1. \A t \in Savers : [call[t] EXCEPT !.readMoved = TRUE] \in CallType
    BY <1>2 DEF CallType
  <2>2. call' \in [Savers -> CallType]
    BY <1>1, <2>1
  <2>3. held' \in [Savers -> SUBSET Contents]
    BY <1>1, <1>2
  <2> QED BY <1>1, <2>2, <2>3 DEF CallInv, CallTypes
<1>4. ObservationIsCurrent'
  BY <1>1 DEF ObservationIsCurrent
<1>5. ASSUME NEW t \in Savers PROVE Fine(call[t], answer[t], held[t])'
  <2> DEFINE c == [call[t] EXCEPT !.readMoved = TRUE]
  <2>1. call'[t] = c
    BY <1>1
  <2>2. /\ c.phase = call[t].phase /\ c.read = call[t].read /\ c.external = call[t].external
        /\ c.snapshot = call[t].snapshot /\ c.sawMoved = call[t].sawMoved /\ c.readMoved
    BY <1>2 DEF CallType
  <2> HIDE DEF c
  <2>3. Fine(call[t], answer[t], held[t])
    BY <1>2
  <2>4. CASE call[t].phase = "confirming"
    <3>1. held'[t] = held[t] \union {file'}
      BY <1>1, <2>4
    <3> QED BY <1>1, <2>1, <2>2, <2>3, <2>4, <3>1 DEF Fine
  <2>5. CASE call[t].phase # "confirming"
    <3>1. held'[t] = held[t]
      BY <1>1, <2>5
    <3> QED BY <1>1, <2>1, <2>2, <2>3, <2>5, <3>1 DEF Fine
  <2> QED BY <2>4, <2>5
<1>6. AllFine'
  BY <1>5 DEF AllFine
<1> QED BY <1>3, <1>4, <1>6, CallByCallNext

LEMMA CallStep == IInv /\ [Next]_vars => CallInv'
<1> SUFFICES ASSUME IInv, [Next]_vars PROVE CallInv'
  OBVIOUS
<1>0. RoomInv /\ CallInv /\ replica \in Contents
  BY Untouched DEF IInv, CallInv, CallTypes
<1>1. CASE RtcStep \/ UNCHANGED vars
  BY <1>0, <1>1, CallsUnchanged DEF RtcStep, fileVars, vars
<1>2. CASE ReplicaChanges
  BY <1>0, <1>2, CallsUnchanged DEF ReplicaChanges
<1>3. CASE FileWritten
  BY <1>0, <1>3, FileWrittenKeeps
<1>4. CASE \E s \in Savers : Service(s)
  <2>1. PICK s \in Savers : Service(s)
    BY <1>4
  <2> QED BY <1>0, <2>1, BeginKeeps, ServeKeeps, BeforeReadKeeps, SendSaveKeeps, SaveStatusKeeps,
             ReadBackKeeps DEF Service
<1> QED BY <1>1, <1>2, <1>3, <1>4 DEF Next

------------------------------------------------------------------------------
(* The theorems. *)

LEMMA InitIInv == SaveInit => IInv
BY InitRoomInv, InitCallInv DEF SaveInit, IInv

LEMMA StepIInv == IInv /\ [Next]_vars => IInv'
BY RoomStep, CallStep DEF IInv

LEMMA IInvHolds == Spec => []IInv
BY InitIInv, StepIInv, PTL DEF Spec

\* One of the three ways forward, and only one, makes a set of one element.
LEMMA OneWayIsOne == RoomInv => OneWayForward
<1> SUFFICES ASSUME RoomInv PROVE OneWayForward
  OBVIOUS
<1> DEFINE W == {w \in {"socket", "timer", "revalidation"} :
                    \/ w = "socket" /\ ws # "none"
                    \/ w = "timer" /\ timer
                    \/ w = "revalidation" /\ revalidating /\ ~Over}
<1>1. CASE Over \/ opening = "start"
  <2>1. W = {}
    BY <1>1 DEF RoomInv, Ended, NotStarted
  <2>2. Cardinality(W) = 0
    BY <2>1, FS_EmptySet
  <2> QED BY <1>1, <2>2 DEF OneWayForward, RoomInv, OneWay
<1>2. CASE ~Over /\ opening # "start"
  <2>1. W = {"socket"} \/ W = {"timer"} \/ W = {"revalidation"}
    <3>1. CASE ws # "none"
      BY <1>2, <3>1 DEF RoomInv, OneWay
    <3>2. CASE ws = "none" /\ timer
      BY <1>2, <3>2 DEF RoomInv, OneWay
    <3>3. CASE ws = "none" /\ ~timer
      BY <1>2, <3>3 DEF RoomInv, OneWay
    <3> QED BY <3>1, <3>2, <3>3 DEF RoomInv, RoomTypes
  <2>2. Cardinality(W) = 1
    BY <2>1, FS_Singleton
  <2> QED BY <1>2, <2>2 DEF OneWayForward, RoomInv, OneWay
<1> QED BY <1>1, <1>2

LEMMA TypesHold == IInv => TypeOK
<1> SUFFICES ASSUME IInv PROVE TypeOK
  OBVIOUS
<1>1. \A i \in DOMAIN saves : saves[i].status \in SaveStatuses /\ saves[i].socket \in 0..generation
  <2>1. \A i \in DOMAIN saves : saves[i] \in SaveRecord
    BY ElementOfSeq, LenProperties DEF IInv, RoomInv, RoomTypes
  <2>2. \A i \in DOMAIN saves : saves[i].socket <= generation /\ generation \in Nat
    BY DEF IInv, RoomInv, RoomTypes
  <2> QED BY <2>1, <2>2 DEF SaveRecord
<1>2. \A s \in Savers : call[s].snapshot \in Digests /\ call[s].external \in Verdicts
  BY DEF IInv, CallInv, CallTypes, CallType
<1>3. stale \in BOOLEAN
  BY DEF IInv, RoomInv, RoomTypes
<1>4. /\ replica \in Contents /\ file \in Contents
      /\ observedDisk \in Digests /\ observedReplica \in Digests /\ moved \in BOOLEAN
  BY DEF IInv, CallInv, CallTypes
<1> QED BY <1>1, <1>2, <1>3, <1>4 DEF TypeOK, SaveStatuses, IInv, RoomInv, RoomTypes

(* At any time the room has one way forward, or is over; what calls itself ready is synced; *)
(* and a save is waited for on the socket that carried it and on no other.                  *)
THEOREM RoomHolds == Spec => []RoomInvariant
<1>1. IInv => RoomInvariant
  BY TypesHold, OneWayIsOne DEF RoomInvariant, IInv, RoomInv
<1> QED BY <1>1, IInvHolds, PTL

(* What notebook_save confirms was on disk after the save, and what it calls an external change *)
(* was one, however the replica, the file, the room and the other saves moved meanwhile.        *)
THEOREM AnswersHold == Spec => []AnswersAreTrue
<1>1. IInv => AnswersAreTrue
  BY DEF AnswersAreTrue, IInv, CallInv
<1> QED BY <1>1, IInvHolds, PTL

(* No callback that was on its way reopens, rearms or re-answers anything of a connection that *)
(* failed or was disposed of.                                                                  *)
THEOREM OverHolds == Spec => OverIsFinal
<1>1. IInv /\ [Next]_vars =>
        [/\ Over => /\ ws' \in {ws, "none"} /\ ~timer' /\ ~shouldConnect'
                    /\ terminal # None => terminal' = terminal
                    /\ state' \in {"failed", "closed"}
         /\ \A i \in DOMAIN saves :
              saves[i].status # "pending" => saves'[i].status \in {saves[i].status, "taken"}]_vars
  BY StepIsFinal DEF IInv, EndStays, AnsweredOnce
<1> QED BY <1>1, IInvHolds, PTL DEF Spec, OverIsFinal
------------------------------------------------------------------------------
(* The reader of a notebook: induction, first, over a range of numbers.      *)

\* The least of some numbers.
LEMMA LeastOf ==
  ASSUME NEW T \in SUBSET Nat, T # {}
  PROVE  \E n \in T : \A m \in T : n <= m
<1> DEFINE R == OpToRel(<, Nat)
<1>3. IsWellFoundedOn(R, Nat)
  BY NatLessThanWellFounded
<1> HIDE DEF R
<1>1. PICK n \in T : \A m \in T : ~ (<<m, n>> \in R)
  <2>1. T \subseteq Nat
    OBVIOUS
  <2> QED BY <1>3, <2>1, WFMin, Zenon
<1>2. \A m \in T : ~(m < n)
  BY <1>1 DEF OpToRel, R
<1> QED BY <1>2

\* Induction over 0..N, with a set of values in place of a predicate.
LEMMA Inductive ==
  ASSUME NEW N \in Nat, NEW X, NEW f, f[0] \in X[0],
         \A n \in 1..N : f[n - 1] \in X[n - 1] => f[n] \in X[n]
  PROVE  \A n \in 0..N : f[n] \in X[n]
<1> DEFINE T == {n \in 0..N : f[n] \notin X[n]}
<1> SUFFICES ASSUME T # {} PROVE FALSE
  OBVIOUS
<1>1. T \in SUBSET Nat
  OBVIOUS
<1>2. PICK n \in T : \A m \in T : n <= m
  BY <1>1, LeastOf
<1>3. n \in 1..N
  BY <1>2
<1>4. n - 1 \in 0..N /\ ~(n <= n - 1)
  BY <1>3
<1>5. n - 1 \notin T
  BY <1>2, <1>4
<1> QED BY <1>2, <1>3, <1>4, <1>5

\* A function on 0..N that starts with a and goes on by the steps g, within X.
StepsThrough(f, N, X, a, g) ==
  /\ f = [n \in 0..N |-> f[n]]
  /\ f[0] = a /\ \A n \in 1..N : f[n] = g[n][f[n - 1]]
  /\ \A n \in 0..N : f[n] \in X[n]

\* A function that is defined by recursion over 0..N exists, if each of its
\* values is in the domain of the step that makes the next.
LEMMA Recursion ==
  ASSUME NEW N \in Nat, NEW X, NEW a \in X[0], NEW g,
         \A n \in 1..N : \A x \in X[n - 1] : g[n][x] \in X[n]
  PROVE  \E f : StepsThrough(f, N, X, a, g)
<1> DEFINE Upto(k, f) == StepsThrough(f, k, X, a, g)
           T == {k \in 0..N : ~ \E f : Upto(k, f)}
<1>0. T = {} => \E f : Upto(N, f)
  OBVIOUS
<1> SUFFICES ASSUME T # {} PROVE FALSE
  BY <1>0
<1>1. T \in SUBSET Nat
  OBVIOUS
<1> HIDE DEF Upto
<1>2. PICK k \in T : \A m \in T : k <= m
  BY <1>1, LeastOf
<1>3. k # 0
  <2> DEFINE f == [n \in 0..0 |-> a]
  <2>1. Upto(0, f)
    BY DEF Upto, StepsThrough
  <2> QED BY <2>1
<1>4. k \in 1..N /\ k - 1 \in 0..N /\ ~(k <= k - 1)
  BY <1>3
<1>5. PICK h : Upto(k - 1, h)
  BY <1>2, <1>4
<1> DEFINE f == [n \in 0..k |-> IF n = k THEN g[k][h[k - 1]] ELSE h[n]]
<1>6. \A n \in 0..(k - 1) : f[n] = h[n] /\ h[n] \in X[n]
  BY <1>4, <1>5 DEF Upto, StepsThrough
<1>7. f[k] = g[k][h[k - 1]] /\ f[k - 1] = h[k - 1] /\ f[0] = h[0] /\ h[0] = a
  BY <1>4, <1>5 DEF Upto, StepsThrough
<1>8. f[k] \in X[k]
  <2>1. k - 1 \in 0..(k - 1)
    BY <1>4
  <2>2. h[k - 1] \in X[k - 1]
    BY <2>1, <1>6
  <2> HIDE DEF f
  <2> QED BY <2>2, <1>4, <1>7
<1>9. \A n \in 1..(k - 1) : h[n] = g[n][h[n - 1]]
  BY <1>4, <1>5 DEF Upto, StepsThrough
<1>10. f = [n \in 0..k |-> f[n]]
  OBVIOUS
<1> HIDE DEF f
<1>11. \A n \in 1..k : f[n] = g[n][f[n - 1]]
  <2> TAKE n \in 1..k
  <2>1. CASE n = k
    BY <2>1, <1>4, <1>7
  <2>2. CASE n # k
    <3>1. n \in 1..(k - 1) /\ n \in 0..(k - 1) /\ n - 1 \in 0..(k - 1)
      BY <2>2, <1>4 DEF StepsThrough
    <3> QED BY <3>1, <1>6, <1>9
  <2> QED BY <2>1, <2>2
<1>12. \A n \in 0..k : f[n] \in X[n]
  BY <1>4, <1>6, <1>8
<1>13. Upto(k, f)
  BY <1>7, <1>10, <1>11, <1>12 DEF Upto, StepsThrough
<1> QED BY <1>13

-------------------------------------------------------------------------------
(* The journal: arithmetic.                                                 *)

\* Two places less than a ring apart are not in one slot.
LEMMA SlotsDiffer ==
  ASSUME NEW a \in Nat, NEW b \in Nat, NEW L \in Nat \ {0}, a < b, b - a < L
  PROVE  a % L # b % L
<1>1. ASSUME NEW x \in Nat
      PROVE  \E q \in Nat, r \in 0..(L - 1) : x = L * q + r /\ r = x % L
  <2>1. L \in Nat /\ L > 0
    OBVIOUS
  <2> QED BY <2>1
<1>2. PICK qa \in Nat, ra \in 0..(L - 1) : a = L * qa + ra /\ ra = a % L
  BY <1>1
<1>3. PICK qb \in Nat, rb \in 0..(L - 1) : b = L * qb + rb /\ rb = b % L
  BY <1>1
<1> SUFFICES ASSUME a % L = b % L PROVE FALSE
  OBVIOUS
<1>7. ra = rb
  BY <1>2, <1>3, Zenon
<1>4. b - a = L * (qb - qa)
  BY <1>2, <1>3, <1>7
<1>5. CASE qb - qa <= 0
  <2>1. L * (qb - qa) <= 0
    BY <1>5
  <2> QED BY <2>1, <1>4
<1>6. CASE qb - qa >= 1
  <2>1. L * (qb - qa) >= L
    BY <1>6
  <2> QED BY <2>1, <1>4
<1> QED BY <1>5, <1>6

LEMMA MaxOfPair ==
  ASSUME NEW a \in Int, NEW b \in Int
  PROVE  Max({a, b}) = (IF a >= b THEN a ELSE b) /\ Min({a, b}) = (IF a <= b THEN a ELSE b)
<1>1. \E x \in {a, b} : \A y \in {a, b} : x >= y
  OBVIOUS
<1>2. \E x \in {a, b} : \A y \in {a, b} : x <= y
  OBVIOUS
<1>3. Max({a, b}) \in {a, b} /\ \A y \in {a, b} : Max({a, b}) >= y
  BY <1>1 DEF Max
<1>4. Min({a, b}) \in {a, b} /\ \A y \in {a, b} : Min({a, b}) <= y
  BY <1>2 DEF Min
<1> QED BY <1>3, <1>4

LEMMA MinOfMany ==
  ASSUME NEW T \in SUBSET Nat, T # {}
  PROVE  Min(T) \in T /\ \A n \in T : Min(T) <= n
<1>1. \E n \in T : \A m \in T : n <= m
  BY LeastOf
<1> QED BY <1>1 DEF Min

\* The last of some numbers of a range.
LEMMA LastOf ==
  ASSUME NEW a \in Int, NEW b \in Int, NEW T \in SUBSET (a..b), T # {}
  PROVE  \E n \in T : \A m \in T : m <= n
<1> DEFINE R == {b - n : n \in T}
<1>1. R \in SUBSET Nat /\ R # {}
  OBVIOUS
<1>2. PICK r \in R : \A s \in R : r <= s
  BY <1>1, LeastOf
<1>3. PICK n \in T : r = b - n
  BY <1>2
<1>4. \A m \in T : b - n <= b - m
  BY <1>2, <1>3
<1>5. \A m \in T : m <= n
  BY <1>4
<1> QED BY <1>5

-------------------------------------------------------------------------------
(* The journal: what is in it.                                               *)

Revisions == [src : Nat, meta : Nat, out : Nat]
Kinds == ContentKinds \union Structural \union {"connection_state"}
JournalEvent == [kind : Kinds, id : Ids \union {NoCell}, rev : Revisions, ids : Seq(Ids), seq : Nat]
HeldBack == [id : Ids, obj : Objects, due : 0..Window]
NoEvent == [seq |-> 0]
JournalType ==
  [ring    : [0..Limit - 1 -> JournalEvent \union {NoEvent}],
   last    : Nat,
   pending : Seq(HeldBack),
   age     : [Ids -> 0..Window],
   timer   : Nat \union {NoTimer}]

\* The event of a number, if it is still in the ring, and which ones are.
At(j, n) == j.ring[(n - 1) % Limit]
Recent(j) == {n \in 1..j.last : n > j.last - Limit}

RingSound(j) == \A n \in Recent(j) : At(j, n) \in JournalEvent /\ At(j, n).seq = n
TimerSound(j) ==
  \A i \in DOMAIN j.pending : j.timer # NoTimer /\ j.timer <= j.pending[i].due
JournalOk(j) == j \in JournalType /\ RingSound(j) /\ TimerSound(j)

\* The second journal is the first with further events, all of the set E.
Adds(j, k, E) ==
  /\ JournalOk(j) /\ JournalOk(k)
  /\ j.last <= k.last
  /\ \A n \in Recent(k) : IF n <= j.last THEN At(k, n) = At(j, n) ELSE At(k, n) \in E

\* One of the further events is of the set T (or has already left the ring).
Includes(j, k, T) == \E n \in j.last + 1..k.last : n \in Recent(k) => At(k, n) \in T

\* Of the events of T after a place, the last is of G; if there is none, base is of B.
Latest(j, from, T, G, base, B) ==
  \A n \in from..j.last :
    /\ \A m \in n + 1..j.last : At(j, m) \notin T
    /\ n = from \/ At(j, n) \in T
    => IF n = from THEN base \in B ELSE At(j, n) \in G

LEMMA AddsNothing ==
  ASSUME NEW j, JournalOk(j), NEW E
  PROVE  Adds(j, j, E)
<1>1. j.last \in Nat
  BY DEF JournalOk, JournalType
<1>2. \A n \in Recent(j) : n <= j.last
  BY <1>1 DEF Recent
<1> QED BY <1>1, <1>2 DEF Adds

LEMMA AddsWider ==
  ASSUME NEW j, NEW k, NEW E, NEW F, E \subseteq F, Adds(j, k, E)
  PROVE  Adds(j, k, F)
BY DEF Adds

LEMMA AddsThenAdds ==
  ASSUME NEW i, NEW j, NEW k, NEW E, Adds(i, j, E), Adds(j, k, E)
  PROVE  Adds(i, k, E)
<1>0. i.last \in Nat /\ j.last \in Nat /\ k.last \in Nat /\ i.last <= j.last /\ j.last <= k.last
      /\ Limit \in Nat
  BY JournalBounds DEF Adds, JournalOk, JournalType
<1>1. ASSUME NEW n \in Recent(k)
      PROVE  IF n <= i.last THEN At(k, n) = At(i, n) ELSE At(k, n) \in E
  <2>1. CASE n <= j.last
    <3>1. n \in Recent(j)
      BY <2>1, <1>0 DEF Recent
    <3> QED BY <2>1, <3>1, <1>0 DEF Adds
  <2>2. CASE ~(n <= j.last)
    <3>1. n \in Int
      BY <1>0 DEF Recent
    <3> QED BY <2>2, <3>1, <1>0 DEF Adds
  <2> QED BY <2>1, <2>2
<1> QED BY <1>0, <1>1 DEF Adds

LEMMA IncludesThenAdds ==
  ASSUME NEW i, NEW j, NEW k, NEW E, NEW F, NEW T, Adds(i, j, E), Includes(i, j, T), Adds(j, k, F)
  PROVE  Includes(i, k, T)
<1>0. i.last \in Nat /\ j.last \in Nat /\ k.last \in Nat /\ i.last <= j.last /\ j.last <= k.last
      /\ Limit \in Nat
  BY JournalBounds DEF Adds, JournalOk, JournalType
<1>1. PICK n \in i.last + 1..j.last : n \in Recent(j) => At(j, n) \in T
  BY DEF Includes
<1>2. n \in i.last + 1..k.last /\ n <= j.last
  BY <1>0
<1>3. n \in Recent(k) => n \in Recent(j) /\ At(k, n) = At(j, n)
  BY <1>0, <1>2 DEF Recent, Adds
<1> QED BY <1>1, <1>2, <1>3 DEF Includes

LEMMA AddsThenIncludes ==
  ASSUME NEW i, NEW j, NEW k, NEW E, NEW T, Adds(i, j, E), JournalOk(k), Includes(j, k, T)
  PROVE  Includes(i, k, T)
<1>0. i.last \in Nat /\ j.last \in Nat /\ k.last \in Nat /\ i.last <= j.last
  BY DEF Adds, JournalOk, JournalType
<1>1. PICK n \in j.last + 1..k.last : n \in Recent(k) => At(k, n) \in T
  BY DEF Includes
<1>2. n \in i.last + 1..k.last
  BY <1>0
<1> QED BY <1>1, <1>2 DEF Includes

\* What is told last stays good while every further event about it is good.
LEMMA LatestStays ==
  ASSUME NEW j, NEW k, NEW E, NEW T, NEW G, NEW from \in Nat, NEW base, NEW B,
         Adds(j, k, E), E \intersect T \subseteq G, from <= j.last, from >= k.last - Limit,
         Latest(j, from, T, G, base, B) \/ Includes(j, k, T)
  PROVE  Latest(k, from, T, G, base, B)
<1>0. j.last \in Nat /\ k.last \in Nat /\ j.last <= k.last /\ Limit \in Nat
  BY JournalBounds DEF Adds, JournalOk, JournalType
<1> SUFFICES ASSUME NEW n \in from..k.last,
                    \A m \in n + 1..k.last : At(k, m) \notin T,
                    n = from \/ At(k, n) \in T
             PROVE  IF n = from THEN base \in B ELSE At(k, n) \in G
  BY DEF Latest
<1>1. \A m \in from + 1..k.last : m \in Recent(k)
  BY <1>0 DEF Recent
<1>2. CASE n > j.last
  <2>1. n \in from + 1..k.last /\ ~(n <= j.last)
    BY <1>0, <1>2
  <2>2. At(k, n) \in E
    BY <2>1, <1>1 DEF Adds
  <2> QED BY <2>1, <2>2
<1>3. CASE n <= j.last
  <2>1. ~Includes(j, k, T)
    <3> SUFFICES ASSUME NEW m \in j.last + 1..k.last, m \in Recent(k) => At(k, m) \in T PROVE FALSE
      BY DEF Includes
    <3>1. m \in n + 1..k.last /\ m \in from + 1..k.last
      BY <1>0, <1>3
    <3> QED BY <3>1, <1>1
  <2>2. \A m \in from + 1..j.last : At(k, m) = At(j, m)
    <3> TAKE m \in from + 1..j.last
    <3>1. m \in from + 1..k.last /\ m <= j.last
      BY <1>0
    <3> QED BY <3>1, <1>1 DEF Adds
  <2>3. \A m \in n + 1..j.last : At(j, m) \notin T
    <3> TAKE m \in n + 1..j.last
    <3>1. m \in from + 1..j.last /\ m \in n + 1..k.last
      BY <1>0
    <3> QED BY <3>1, <2>2
  <2>4. n \in from..j.last /\ (n # from => n \in from + 1..j.last)
    BY <1>0, <1>3
  <2>5. n = from \/ At(j, n) \in T
    BY <2>2, <2>4
  <2>6. IF n = from THEN base \in B ELSE At(j, n) \in G
    BY <2>1, <2>3, <2>4, <2>5 DEF Latest
  <2> QED BY <2>2, <2>4, <2>6
<1> QED BY <1>0, <1>2, <1>3

-------------------------------------------------------------------------------

(* The operations of the journal.                                           *)

\* A journal with the same ring says the same.
LEMMA SameRing ==
  ASSUME NEW j, JournalOk(j), NEW k \in JournalType, k.ring = j.ring, k.last = j.last,
         TimerSound(k), NEW E
  PROVE  Adds(j, k, E)
<1>0. j.last \in Nat
  BY DEF JournalOk, JournalType
<1>1. Recent(k) = Recent(j) /\ \A n : At(k, n) = At(j, n)
  BY DEF Recent, At
<1>2. JournalOk(k)
  BY <1>1 DEF JournalOk, RingSound
<1>3. \A n \in Recent(k) : n <= j.last
  BY <1>0, <1>1 DEF Recent
<1> QED BY <1>0, <1>1, <1>2, <1>3 DEF Adds

LEMMA ModRange ==
  ASSUME NEW x \in Nat, NEW L \in Nat \ {0}
  PROVE  x % L \in 0..L - 1
OBVIOUS

LEMMA JournalFields ==
  ASSUME NEW j \in JournalType
  PROVE  /\ j.ring \in [0..Limit - 1 -> JournalEvent \union {NoEvent}]
         /\ j.pending \in Seq(HeldBack) /\ j.age \in [Ids -> 0..Window]
         /\ j.timer \in Nat \union {NoTimer}
<1> DEFINE S == Seq(HeldBack)
           A == [Ids -> 0..Window]
           R == [0..Limit - 1 -> JournalEvent \union {NoEvent}]
<1>1. j \in [ring : R, last : Nat, pending : S, age : A, timer : Nat \union {NoTimer}]
  BY DEF JournalType
<1> HIDE DEF R, S, A
<1>2. j.ring \in R /\ j.pending \in S /\ j.age \in A /\ j.last \in Nat /\ j.timer \in Nat \union {NoTimer}
  BY <1>1
<1> USE DEF R, S, A
<1> QED BY <1>2

LEMMA LastIsNat ==
  ASSUME NEW j \in JournalType
  PROVE  j.last \in Nat
BY DEF JournalType

\* A slot of the ring and the number of the last event change together.
Wrote(j, k, s, f) ==
  /\ k.ring = [j.ring EXCEPT ![s] = f] /\ k.last = j.last + 1
  /\ k.pending = j.pending /\ k.timer = j.timer /\ k.age = j.age

LEMMA SlotWritten ==
  ASSUME NEW j \in JournalType, NEW s, NEW f, NEW k,
         [j.ring EXCEPT ![s] = f] \in [0..Limit - 1 -> JournalEvent \union {NoEvent}],
         k = [j EXCEPT !.last = @ + 1, !.ring = [@ EXCEPT ![s] = f]]
  PROVE  k \in JournalType /\ Wrote(j, k, s, f)
<1> DEFINE S == Seq(HeldBack)
           A == [Ids -> 0..Window]
           R == [0..Limit - 1 -> JournalEvent \union {NoEvent}]
           T == [ring : R, last : Nat, pending : S, age : A, timer : Nat \union {NoTimer}]
           ring2 == [j.ring EXCEPT ![s] = f]
           last2 == j.last + 1
<1>1. j \in T /\ ring2 \in R
  BY DEF JournalType
<1> HIDE DEF R, S, A
<1>2. j.last \in Nat
  BY <1>1
<1>3. last2 \in Nat
  BY <1>2
<1>4. k = [j EXCEPT !.last = last2, !.ring = ring2]
  OBVIOUS
<1> HIDE DEF ring2, last2
<1>5. k \in T
  BY <1>1, <1>3, <1>4
<1>6. k.ring = ring2 /\ k.last = last2 /\ k.pending = j.pending /\ k.timer = j.timer /\ k.age = j.age
  BY <1>1, <1>4
<1> QED BY <1>5, <1>6 DEF JournalType, R, S, A, ring2, last2, Wrote

\* An event that is published is the last one, and all that is new.
Described(e) ==
  {f \in JournalEvent : f.kind = e.kind /\ f.id = e.id /\ f.rev = e.rev /\ f.ids = e.ids}

LEMMA PublishAdds ==
  ASSUME NEW j, JournalOk(j), NEW e,
         e.kind \in Kinds, e.id \in Ids \union {NoCell}, e.rev \in Revisions, e.ids \in Seq(Ids)
  PROVE  /\ Adds(j, Publish(j, e), Described(e))
         /\ Includes(j, Publish(j, e), Described(e))
         /\ Publish(j, e).pending = j.pending /\ Publish(j, e).timer = j.timer
         /\ Publish(j, e).age = j.age
<1> DEFINE f == [kind |-> e.kind, id |-> e.id, rev |-> e.rev, ids |-> e.ids, seq |-> j.last + 1]
           slot == j.last % Limit
           ring2 == [j.ring EXCEPT ![slot] = f]
           k == [j EXCEPT !.last = @ + 1, !.ring = [@ EXCEPT ![slot] = f]]
<1>0. Limit \in Nat \ {0}
  BY JournalBounds
<1>1. j \in JournalType
  BY DEF JournalOk
<1>15. j.last \in Nat
  BY <1>1, LastIsNat
<1>2. /\ j.ring \in [0..Limit - 1 -> JournalEvent \union {NoEvent}]
      /\ j.pending \in Seq(HeldBack) /\ j.age \in [Ids -> 0..Window]
      /\ j.timer \in Nat \union {NoTimer}
  BY <1>1, JournalFields
<1>3. Publish(j, e) = k
  BY DEF Publish
<1>4. f \in JournalEvent
  <2> DEFINE S == Seq(Ids)
             I == Ids \union {NoCell}
  <2>0. j.last + 1 \in Nat
    BY <1>15
  <2>1. j.last + 1 \in Nat /\ e.ids \in S /\ e.id \in I
    BY <2>0
  <2> HIDE DEF S, I
  <2>2. f \in [kind : Kinds, id : I, rev : Revisions, ids : S, seq : Nat]
    BY <2>1
  <2> QED BY <2>2 DEF JournalEvent, S, I
<1>5. slot \in 0..Limit - 1
  BY <1>0, <1>15, ModRange
<1> HIDE DEF f, slot
<1>6. ring2 \in [0..Limit - 1 -> JournalEvent \union {NoEvent}]
      /\ ring2[slot] = f /\ \A s \in 0..Limit - 1 : s # slot => ring2[s] = j.ring[s]
  BY <1>2, <1>4, <1>5
<1> HIDE DEF ring2
<1>7. /\ k \in JournalType
      /\ k.ring = ring2 /\ k.last = j.last + 1 /\ k.pending = j.pending /\ k.timer = j.timer
      /\ k.age = j.age
  <2>1. [j.ring EXCEPT ![slot] = f] \in [0..Limit - 1 -> JournalEvent \union {NoEvent}]
    BY <1>6 DEF ring2
  <2>2. k = [j EXCEPT !.last = @ + 1, !.ring = [@ EXCEPT ![slot] = f]]
    OBVIOUS
  <2> HIDE DEF k
  <2>3. k \in JournalType
    BY <1>1, <2>1, <2>2, SlotWritten, Zenon
  <2>4. Wrote(j, k, slot, f)
    BY <1>1, <2>1, <2>2, SlotWritten, Zenon
  <2> QED BY <2>3, <2>4 DEF ring2, Wrote
<1>8. k.ring = ring2 /\ k.last = j.last + 1 /\ k.pending = j.pending /\ k.timer = j.timer
      /\ k.age = j.age
  BY <1>7
<1> HIDE DEF k
<1>9. ASSUME NEW n \in Recent(k)
      PROVE  IF n = j.last + 1 THEN At(k, n) = f
                               ELSE n <= j.last /\ n \in Recent(j) /\ At(k, n) = At(j, n)
  <2>0. n \in 1..j.last + 1 /\ n > j.last + 1 - Limit
    BY <1>0, <1>15, <1>8 DEF Recent
  <2>1. CASE n = j.last + 1
    <3>1. n - 1 = j.last
      BY <1>15, <2>1
    <3> QED BY <3>1, <2>1, <1>6, <1>8 DEF At, slot
  <2>2. CASE n # j.last + 1
    <3>1. n <= j.last /\ n \in Recent(j)
      BY <1>0, <1>15, <2>0, <2>2 DEF Recent
    <3>2. n - 1 \in Nat /\ n - 1 < j.last /\ j.last - (n - 1) < Limit
      BY <1>0, <1>15, <2>0, <2>2
    <3>3. (n - 1) % Limit # slot
      BY <1>0, <1>15, <3>2, SlotsDiffer DEF slot
    <3>4. (n - 1) % Limit \in 0..Limit - 1
      BY <1>0, <3>2, ModRange
    <3> QED BY <2>2, <3>1, <3>3, <3>4, <1>6, <1>8 DEF At
  <2> QED BY <2>1, <2>2
<1>10. f.seq = j.last + 1 /\ f \in Described(e)
  BY <1>4 DEF f, Described
<1>11. JournalOk(k)
  <2>1. RingSound(k)
    <3> SUFFICES ASSUME NEW n \in Recent(k) PROVE At(k, n) \in JournalEvent /\ At(k, n).seq = n
      BY DEF RingSound
    <3>1. RingSound(j)
      BY DEF JournalOk
    <3> QED BY <1>4, <1>9, <1>10, <3>1 DEF RingSound
  <2>2. TimerSound(k)
    BY <1>8 DEF JournalOk, TimerSound
  <2> QED BY <1>7, <2>1, <2>2 DEF JournalOk
<1>12. \A n \in Recent(k) : IF n <= j.last THEN At(k, n) = At(j, n) ELSE At(k, n) \in Described(e)
  <2> TAKE n \in Recent(k)
  <2>1. CASE n = j.last + 1
    <3>1. ~(n <= j.last)
      BY <1>15, <2>1
    <3> QED BY <3>1, <2>1, <1>9, <1>10
  <2>2. CASE n # j.last + 1
    BY <2>2, <1>9
  <2> QED BY <2>1, <2>2
<1>13. Adds(j, k, Described(e))
  <2>1. j.last <= k.last
    BY <1>15, <1>8
  <2> QED BY <1>11, <1>12, <2>1 DEF Adds
<1>14. Includes(j, k, Described(e))
  <2>1. j.last + 1 \in j.last + 1..k.last
    BY <1>15, <1>8
  <2>2. j.last + 1 \in Recent(k) => At(k, j.last + 1) \in Described(e)
    BY <1>9, <1>10
  <2> QED BY <2>1, <2>2 DEF Includes
<1> QED BY <1>3, <1>8, <1>13, <1>14

\* The other fields change, the ring stays.
Changed(j, k, p, a, t) ==
  k.ring = j.ring /\ k.last = j.last /\ k.pending = p /\ k.age = a /\ k.timer = t

LEMMA FieldsChange ==
  ASSUME NEW j \in JournalType
  PROVE  /\ \A a \in [Ids -> 0..Window] :
              LET k == [j EXCEPT !.age = a]
              IN  k \in JournalType /\ Changed(j, k, j.pending, a, j.timer)
         /\ \A p \in Seq(HeldBack) :
              LET k == [j EXCEPT !.pending = p]
              IN  k \in JournalType /\ Changed(j, k, p, j.age, j.timer)
         /\ \A t \in Nat \union {NoTimer} :
              LET k == [j EXCEPT !.timer = t]
              IN  k \in JournalType /\ Changed(j, k, j.pending, j.age, t)
<1> DEFINE S == Seq(HeldBack)
           A == [Ids -> 0..Window]
           R == [0..Limit - 1 -> JournalEvent \union {NoEvent}]
           N == Nat \union {NoTimer}
           T == [ring : R, last : Nat, pending : S, age : A, timer : N]
<1>1. j \in T /\ JournalType = T
  BY DEF JournalType
<1> HIDE DEF R, S, A, N
<1>2. ASSUME NEW a \in A
      PROVE  [j EXCEPT !.age = a] \in T /\ Changed(j, [j EXCEPT !.age = a], j.pending, a, j.timer)
  BY <1>1 DEF Changed
<1>3. ASSUME NEW p \in S
      PROVE  [j EXCEPT !.pending = p] \in T /\ Changed(j, [j EXCEPT !.pending = p], p, j.age, j.timer)
  BY <1>1 DEF Changed
<1>4. ASSUME NEW t \in N
      PROVE  [j EXCEPT !.timer = t] \in T /\ Changed(j, [j EXCEPT !.timer = t], j.pending, j.age, t)
  BY <1>1 DEF Changed
<1> HIDE DEF T
<1>5. A = [Ids -> 0..Window] /\ S = Seq(HeldBack) /\ N = Nat \union {NoTimer}
  BY DEF A, S, N
<1> QED BY <1>1, <1>2, <1>3, <1>4, <1>5

\* The output events of some pending records.
Outputs(c, P) ==
  {f \in JournalEvent : \E p \in P : /\ f.kind = "outputs_changed" /\ f.id = p.id
                                     /\ f.rev = c[p.obj]}
CellContents == [Objects -> Revisions]

LEMMA EmitAdds ==
  ASSUME NEW j, JournalOk(j), NEW p, p.id \in Ids, p.obj \in Objects, NEW c \in CellContents,
         NEW P, p \in P
  PROVE  LET k == EmitOutputs(j, p.id, p.obj, c)
         IN  /\ Adds(j, k, Outputs(c, P)) /\ Includes(j, k, Outputs(c, {p}))
             /\ k.pending = j.pending /\ k.timer = j.timer
<1> DEFINE e == [kind |-> "outputs_changed", id |-> p.id, rev |-> c[p.obj], ids |-> <<>>]
           i == Publish(j, e)
           a == [i.age EXCEPT ![p.id] = 0]
           k == [i EXCEPT !.age = a]
<1>1. e.kind \in Kinds /\ e.id \in Ids \union {NoCell} /\ e.rev \in Revisions /\ e.ids \in Seq(Ids)
  <2>1. e.kind \in Kinds
    BY DEF Kinds, ContentKinds
  <2>2. e.rev \in Revisions
    BY DEF CellContents
  <2>3. e.ids \in Seq(Ids)
    OBVIOUS
  <2> QED BY <2>1, <2>2, <2>3
<1>2. Described(e) \subseteq Outputs(c, P) /\ Described(e) \subseteq Outputs(c, {p})
  BY DEF Described, Outputs
<1>3. /\ Adds(j, i, Described(e)) /\ Includes(j, i, Described(e))
      /\ i.pending = j.pending /\ i.timer = j.timer
  <2> HIDE DEF e
  <2> QED BY <1>1, PublishAdds
<1>4. EmitOutputs(j, p.id, p.obj, c) = k
  BY DEF EmitOutputs
<1> HIDE DEF e, i
<1>5. JournalOk(i) /\ i \in JournalType /\ i.age \in [Ids -> 0..Window]
  BY <1>3, JournalFields DEF Adds, JournalOk
<1>6. a \in [Ids -> 0..Window]
  <2>1. 0 \in 0..Window
    BY JournalBounds
  <2> QED BY <1>5, <2>1
<1>7. k \in JournalType /\ Changed(i, k, i.pending, a, i.timer)
  <2> HIDE DEF a
  <2> QED BY <1>5, <1>6, FieldsChange
<1> HIDE DEF a, k
<1>8. Adds(i, k, Outputs(c, P))
  <2>1. TimerSound(k)
    BY <1>5, <1>7 DEF JournalOk, TimerSound, Changed
  <2> QED BY <1>5, <1>7, <2>1, SameRing DEF Changed
<1>9. Adds(j, i, Outputs(c, P))
  BY <1>2, <1>3, AddsWider
<1>10. Includes(j, i, Outputs(c, {p}))
  BY <1>2, <1>3 DEF Includes
<1>11. Adds(j, k, Outputs(c, P)) /\ Includes(j, k, Outputs(c, {p}))
  BY <1>8, <1>9, <1>10, AddsThenAdds, IncludesThenAdds
<1>12. k.pending = j.pending /\ k.timer = j.timer
  BY <1>3, <1>7 DEF Changed
<1> QED BY <1>4, <1>11, <1>12

LEMMA WithoutFacts ==
  ASSUME NEW T, NEW s \in Seq(T), NEW S
  PROVE  /\ Without(s, S) \in Seq(T)
         /\ ToSet(Without(s, S)) = ToSet(s) \ S
<1> DEFINE N == Len(s)
           X == [n \in 0..N |-> {x \in Seq(T) : ToSet(x) = {s[i] : i \in 1..n} \ S}]
           g == [n \in 1..N |-> [x \in X[n - 1] |-> IF s[n] \in S THEN x ELSE Append(x, s[n])]]
<1>1. N \in Nat
  OBVIOUS
<1>2. << >> \in X[0]
  BY <1>1 DEF ToSet
<1>3. \A n \in 1..N : \A x \in X[n - 1] :
        /\ g[n][x] = IF s[n] \in S THEN x ELSE Append(x, s[n])
        /\ g[n][x] \in X[n]
  <2> TAKE n \in 1..N
  <2> TAKE x \in X[n - 1]
  <2>1. n - 1 \in 0..N /\ n \in 0..N /\ s[n] \in T
    OBVIOUS
  <2>2. x \in Seq(T) /\ ToSet(x) = {s[i] : i \in 1..(n - 1)} \ S
    BY <2>1
  <2>3. g[n][x] = IF s[n] \in S THEN x ELSE Append(x, s[n])
    BY <2>1
  <2>4. {s[i] : i \in 1..n} = {s[i] : i \in 1..(n - 1)} \cup {s[n]}
    <3>1. 1..n = 1..(n - 1) \cup {n}
      BY <2>1
    <3> QED BY <3>1
  <2>5. CASE s[n] \notin S
    <3> DEFINE y == Append(x, s[n])
    <3>1. y \in Seq(T) /\ Len(y) = Len(x) + 1
      BY <2>1, <2>2
    <3>2. ToSet(y) = ToSet(x) \cup {s[n]}
      <4>1. DOMAIN y = 1..(Len(x) + 1) /\ DOMAIN x = 1..Len(x) /\ Len(x) \in Nat
        BY <3>1, <2>2
      <4>2. \A i \in 1..Len(x) : y[i] = x[i]
        BY <2>1, <2>2
      <4>3. y[Len(x) + 1] = s[n]
        BY <2>1, <2>2
      <4> HIDE DEF y
      <4>4. 1..(Len(x) + 1) = 1..Len(x) \cup {Len(x) + 1}
        BY <4>1
      <4> QED BY <4>1, <4>2, <4>3, <4>4 DEF ToSet
    <3>3. y \in X[n]
      BY <3>1, <3>2, <2>1, <2>2, <2>4, <2>5
    <3> QED BY <3>3, <2>3, <2>5
  <2>6. CASE s[n] \in S
    <3>1. x \in X[n]
      BY <2>1, <2>2, <2>4, <2>6
    <3> QED BY <3>1, <2>3, <2>6
  <2> QED BY <2>3, <2>5, <2>6
<1> DEFINE R(f) == f = [n \in 0..N |-> IF n = 0 THEN << >>
                          ELSE IF s[n] \in S THEN f[n - 1] ELSE Append(f[n - 1], s[n])]
<1> HIDE DEF X, g, N
<1>4. PICK h : StepsThrough(h, N, X, << >>, g)
  <2>1. \A n \in 1..N : \A x \in X[n - 1] : g[n][x] \in X[n]
    BY <1>3
  <2> QED BY <1>1, <1>2, <2>1, Recursion
<1>5. R(h)
  <2>1. \A n \in 0..N : n # 0 => n \in 1..N /\ n - 1 \in 0..N
    BY <1>1
  <2>2. \A n \in 0..N : n # 0 =>
          h[n] = IF s[n] \in S THEN h[n - 1] ELSE Append(h[n - 1], s[n])
    BY <2>1, <1>3, <1>4 DEF StepsThrough
  <2>3. \A n \in 0..N : h[n] = IF n = 0 THEN << >>
                          ELSE IF s[n] \in S THEN h[n - 1] ELSE Append(h[n - 1], s[n])
    BY <2>2, <1>4 DEF StepsThrough
  <2> QED BY <1>4, <2>3 DEF StepsThrough
<1> DEFINE k == CHOOSE f : R(f)
<1>6. R(k)
  <2> HIDE DEF R
  <2> QED BY <1>5
<1>7. Without(s, S) = k[N]
  BY DEF Without, N
<1> HIDE DEF k
<1>8. k[0] \in X[0] /\ \A n \in 1..N : k[n - 1] \in X[n - 1] => k[n] \in X[n]
  <2>1. k[0] = << >>
    BY <1>1, <1>6
  <2>2. ASSUME NEW n \in 1..N, k[n - 1] \in X[n - 1]
        PROVE  k[n] \in X[n]
    <3>1. n \in 0..N /\ n # 0
      BY <1>1
    <3>2. k[n] = IF s[n] \in S THEN k[n - 1] ELSE Append(k[n - 1], s[n])
      BY <3>1, <1>6
    <3> QED BY <3>2, <2>2, <1>3
  <2> QED BY <2>1, <2>2, <1>2
<1>9. \A n \in 0..N : k[n] \in X[n]
  BY <1>1, <1>8, Inductive
<1>10. k[N] \in X[N]
  BY <1>1, <1>9
<1>11. {s[i] : i \in 1..N} = ToSet(s) /\ N = Len(s)
  BY DEF ToSet, N
<1> QED BY <1>1, <1>7, <1>10, <1>11 DEF X

\* What every operation on a journal is about to be shown to do with pending records.
Published(j, k, goes, c) ==
  /\ Adds(j, k, Outputs(c, goes))
  /\ \A p \in ToSet(j.pending) \intersect goes : Includes(j, k, Outputs(c, {p}))
  /\ ToSet(k.pending) = ToSet(j.pending) \ goes

LEMMA PublishPendingAdds ==
  ASSUME NEW j, JournalOk(j), NEW goes, NEW c \in CellContents
  PROVE  Published(j, PublishPending(j, goes, c), goes, c)
<1> DEFINE s == j.pending
           N == Len(s)
           W == Without(s, goes)
           a == [j EXCEPT !.pending = W]
           E == Outputs(c, goes)
           Done(n, i) == \A m \in 1..n : s[m] \in goes => Includes(j, i, Outputs(c, {s[m]}))
           Mid(n, i) == Adds(j, i, E) /\ i.pending = W /\ Done(n, i)
           X == [n \in 0..N |-> {i \in JournalType : Mid(n, i)}]
           Step(n, i) == IF s[n] \in goes THEN EmitOutputs(i, s[n].id, s[n].obj, c) ELSE i
           g == [n \in 1..N |-> [i \in X[n - 1] |-> Step(n, i)]]
<1>1. j \in JournalType /\ s \in Seq(HeldBack) /\ N \in Nat
  BY JournalFields DEF JournalOk
<1>2. W \in Seq(HeldBack) /\ ToSet(W) = ToSet(s) \ goes
  BY <1>1, WithoutFacts
<1>3. \A n \in 1..N : s[n].id \in Ids /\ s[n].obj \in Objects
  <2>1. \A n \in 1..N : s[n] \in HeldBack
    BY <1>1
  <2> HIDE DEF s, N
  <2> QED BY <2>1 DEF HeldBack
<1> HIDE DEF s, W
<1>17. \A n \in 1..N : \A m \in 1..n : m # n => m \in 1..n - 1
  <2> HIDE DEF N, Mid, Step, X, g, a, E
  <2> QED BY <1>1
<1>15. \A n \in 0..N : X[n] = {i \in JournalType : Mid(n, i)}
  <2> HIDE DEF Mid, N
  <2> QED OBVIOUS
<1>4. a \in X[0]
  <2>1. a \in JournalType /\ Changed(j, a, W, j.age, j.timer)
    BY <1>1, <1>2, FieldsChange
  <2>2. TimerSound(a)
    <3> SUFFICES ASSUME NEW i \in DOMAIN W PROVE j.timer # NoTimer /\ j.timer <= W[i].due
      BY <2>1 DEF TimerSound, Changed
    <3>1. W[i] \in ToSet(s)
      BY <1>2 DEF ToSet
    <3>2. PICK m \in DOMAIN s : W[i] = s[m]
      BY <3>1 DEF ToSet
    <3> QED BY <3>2 DEF JournalOk, TimerSound, s
  <2> HIDE DEF a, E
  <2>3. Adds(j, a, E)
    BY <2>1, <2>2, SameRing DEF Changed
  <2>4. Mid(0, a)
    BY <2>1, <2>3 DEF Changed
  <2> HIDE DEF Mid
  <2> QED BY <1>1, <2>1, <2>4
<1>5. \A n \in 1..N : \A i \in X[n - 1] : g[n][i] = Step(n, i) /\ g[n][i] \in X[n]
  <2> TAKE n \in 1..N
  <2> TAKE i \in X[n - 1]
  <2>1. n - 1 \in 0..N /\ n \in 0..N
    BY <1>1
  <2>2. i \in JournalType /\ Mid(n - 1, i)
    <3> HIDE DEF Mid, X
    <3> QED BY <2>1, <1>15
  <2>3. g[n][i] = Step(n, i)
    <3> HIDE DEF Mid, Step, X
    <3> QED OBVIOUS
  <2>4. ASSUME NEW m \in 1..n, m # n PROVE m \in 1..n - 1
    BY <1>17, <2>4
  <2>5. CASE s[n] \notin goes
    <3>1. Mid(n, i)
      BY <2>2, <2>4, <2>5
    <3> HIDE DEF Mid
    <3>2. i \in X[n]
      BY <2>1, <2>2, <3>1
    <3> QED BY <2>3, <2>5, <3>2 DEF Step
  <2>6. CASE s[n] \in goes
    <3> DEFINE k == EmitOutputs(i, s[n].id, s[n].obj, c)
    <3>1. Adds(j, i, E) /\ i.pending = W /\ Done(n - 1, i)
      BY <2>2
    <3>2. JournalOk(i)
      BY <3>1 DEF Adds
    <3>3. /\ Adds(i, k, E) /\ Includes(i, k, Outputs(c, {s[n]}))
          /\ k.pending = i.pending
      <4>1. s[n].id \in Ids /\ s[n].obj \in Objects
        BY <1>3
      <4> QED BY <4>1, <2>6, <3>2, EmitAdds
    <3> HIDE DEF k, E
    <3>4. Adds(j, k, E)
      BY <3>1, <3>3, AddsThenAdds
    <3>5. \A m \in 1..n : s[m] \in goes => Includes(j, k, Outputs(c, {s[m]}))
      <4> TAKE m \in 1..n
      <4>1. CASE m = n
        BY <4>1, <3>1, <3>2, <3>3, AddsThenIncludes DEF Adds
      <4>2. CASE m # n
        <5>1. s[m] \in goes => Includes(j, i, Outputs(c, {s[m]}))
          BY <4>2, <2>4, <3>1
        <5> QED BY <5>1, <3>1, <3>3, IncludesThenAdds
      <4> QED BY <4>1, <4>2
    <3>6. Mid(n, k) /\ k \in JournalType
      BY <3>1, <3>3, <3>4, <3>5 DEF Adds, JournalOk
    <3> HIDE DEF Mid
    <3>7. k \in X[n]
      BY <2>1, <3>6
    <3> USE DEF k
    <3> QED BY <2>3, <2>6, <3>7 DEF Step
  <2> QED BY <2>3, <2>5, <2>6
<1> DEFINE R(f) == f = [n \in 0..N |-> IF n = 0 THEN a ELSE Step(n, f[n - 1])]
<1> HIDE DEF X, g, N, a, Step, E, Mid
<1>6. PICK h : StepsThrough(h, N, X, a, g)
  <2>1. \A n \in 1..N : \A x \in X[n - 1] : g[n][x] \in X[n]
    BY <1>5
  <2> QED BY <1>1, <1>4, <2>1, Recursion
<1>7. R(h)
  <2>1. \A n \in 0..N : n # 0 => n \in 1..N /\ n - 1 \in 0..N
    BY <1>1
  <2>2. \A n \in 0..N : n # 0 => h[n] = Step(n, h[n - 1])
    BY <2>1, <1>5, <1>6 DEF StepsThrough
  <2>3. \A n \in 0..N : h[n] = IF n = 0 THEN a ELSE Step(n, h[n - 1])
    BY <2>2, <1>6 DEF StepsThrough
  <2> QED BY <1>6, <2>3 DEF StepsThrough
<1> DEFINE k == CHOOSE f : R(f)
<1>8. R(k)
  <2> HIDE DEF R
  <2> QED BY <1>7
<1>9. PublishPending(j, goes, c) = k[N]
  BY DEF PublishPending, N, a, Step, W, s
<1> HIDE DEF k
<1>10. k[0] \in X[0] /\ \A n \in 1..N : k[n - 1] \in X[n - 1] => k[n] \in X[n]
  <2>1. k[0] = a
    BY <1>1, <1>8
  <2>2. ASSUME NEW n \in 1..N, k[n - 1] \in X[n - 1]
        PROVE  k[n] \in X[n]
    <3>1. n \in 0..N /\ n # 0
      BY <1>1
    <3>2. k[n] = Step(n, k[n - 1])
      BY <3>1, <1>8
    <3> QED BY <3>2, <2>2, <1>5
  <2> QED BY <2>1, <2>2, <1>4
<1>11. \A n \in 0..N : k[n] \in X[n]
  BY <1>1, <1>10, Inductive
<1>12. k[N] \in X[N]
  BY <1>1, <1>11
<1>13. Mid(N, k[N])
  BY <1>1, <1>12 DEF X
<1>14. \A p \in ToSet(s) : \E m \in 1..N : p = s[m]
  BY <1>1 DEF ToSet, N
<1> QED BY <1>2, <1>9, <1>13, <1>14 DEF Mid, Published, E, s

LEMMA PendingIs ==
  ASSUME NEW j, NEW id
  PROVE  IsPending(j, id) <=> \E p \in ToSet(j.pending) : p.id = id
BY DEF IsPending, ToSet

LEMMA PendingTypes ==
  ASSUME NEW j \in JournalType, NEW p \in ToSet(j.pending)
  PROVE  p \in HeldBack /\ p.id \in Ids /\ p.obj \in Objects /\ p.due \in 0..Window
<1>1. j.pending \in Seq(HeldBack)
  BY JournalFields
<1>2. p \in HeldBack
  <2> DEFINE s == j.pending
  <2>1. PICK i \in DOMAIN s : p = s[i]
    BY DEF ToSet
  <2>2. s \in Seq(HeldBack)
    BY <1>1
  <2> HIDE DEF s
  <2> QED BY <2>1, <2>2
<1> QED BY <1>2 DEF HeldBack

\* The timer is set to the first record that is due.
LEMMA RearmKeeps ==
  ASSUME NEW j, JournalOk(j), NEW i \in JournalType, i.ring = j.ring, i.last = j.last, NEW E
  PROVE  Adds(j, Rearm(i), E) /\ Rearm(i).pending = i.pending
<1> DEFINE D == {p.due : p \in ToSet(i.pending)}
           t == IF i.pending = <<>> THEN NoTimer ELSE Min(D)
           k == [i EXCEPT !.timer = t]
<1>1. Rearm(i) = k
  BY DEF Rearm
<1>2. D \subseteq Nat
  <2>1. \A p \in ToSet(i.pending) : p.due \in Nat
    BY PendingTypes, JournalBounds
  <2> QED BY <2>1
<1>3. i.pending # <<>> => D # {}
  <2>1. i.pending \in Seq(HeldBack)
    BY JournalFields
  <2>2. i.pending # <<>> => 1 \in DOMAIN i.pending
    <3> DEFINE s == i.pending
    <3>1. s \in Seq(HeldBack)
      BY <2>1
    <3> HIDE DEF s
    <3>2. s # <<>> => 1 \in DOMAIN s
      BY <3>1
    <3> QED BY <3>2 DEF s
  <2>3. i.pending # <<>> => i.pending[1] \in ToSet(i.pending)
    BY <2>2 DEF ToSet
  <2> QED BY <2>3
<1> HIDE DEF D
<1>4. i.pending # <<>> => Min(D) \in D /\ \A n \in D : Min(D) <= n
  BY <1>2, <1>3, MinOfMany
<1>5. t \in Nat \union {NoTimer}
  BY <1>2, <1>4
<1>6. k \in JournalType /\ Changed(i, k, i.pending, i.age, t)
  <2> HIDE DEF t
  <2> QED BY <1>5, FieldsChange
<1>7. TimerSound(k)
  <2> SUFFICES ASSUME NEW n \in DOMAIN i.pending PROVE t # NoTimer /\ t <= i.pending[n].due
    BY <1>6 DEF TimerSound, Changed
  <2>1. i.pending # <<>>
    OBVIOUS
  <2>2. i.pending[n].due \in D
    BY DEF D, ToSet
  <2>3. t = Min(D) /\ t \in Nat /\ t <= i.pending[n].due
    BY <2>1, <2>2, <1>2, <1>4
  <2> QED BY <2>3 DEF NoTimer
<1> HIDE DEF k, t
<1>8. Adds(j, k, E) /\ k.pending = i.pending
  BY <1>6, <1>7, SameRing DEF Changed
<1> QED BY <1>1, <1>8

LEMMA PublishAndRearm ==
  ASSUME NEW j, JournalOk(j), NEW goes, NEW c \in CellContents
  PROVE  Published(j, Rearm(PublishPending(j, goes, c)), goes, c)
<1> DEFINE i == PublishPending(j, goes, c)
           k == Rearm(i)
<1>1. Published(j, i, goes, c)
  BY PublishPendingAdds
<1> HIDE DEF i
<1>2. JournalOk(i) /\ i \in JournalType
  BY <1>1 DEF Published, Adds, JournalOk
<1>3. Adds(i, k, Outputs(c, goes)) /\ k.pending = i.pending
  BY <1>2, RearmKeeps
<1> HIDE DEF k
<1>4. Adds(j, k, Outputs(c, goes))
  BY <1>1, <1>3, AddsThenAdds DEF Published
<1>5. \A p \in ToSet(j.pending) \intersect goes : Includes(j, k, Outputs(c, {p}))
  <2> TAKE p \in ToSet(j.pending) \intersect goes
  <2>1. Adds(j, i, Outputs(c, goes)) /\ Includes(j, i, Outputs(c, {p}))
    BY <1>1 DEF Published
  <2> QED BY <2>1, <1>3, IncludesThenAdds
<1>6. Published(j, k, goes, c)
  BY <1>1, <1>3, <1>4, <1>5 DEF Published
<1> QED BY <1>6 DEF k, i

LEMMA NothingPublished ==
  ASSUME NEW j, JournalOk(j), NEW goes, NEW c, goes \intersect ToSet(j.pending) = {}
  PROVE  Published(j, j, goes, c)
BY AddsNothing DEF Published

RecordsOf(j, id) == {p \in ToSet(j.pending) : p.id = id}

LEMMA FlushCellPublishes ==
  ASSUME NEW j, JournalOk(j), NEW id, NEW c \in CellContents
  PROVE  Published(j, FlushCell(j, id, c), RecordsOf(j, id), c)
<1>1. CASE IsPending(j, id)
  BY <1>1, PublishAndRearm DEF FlushCell, RecordsOf
<1>2. CASE ~IsPending(j, id)
  <2>1. RecordsOf(j, id) = {}
    BY <1>2, PendingIs DEF RecordsOf
  <2>2. Published(j, j, RecordsOf(j, id), c)
    BY <2>1, NothingPublished
  <2> QED BY <1>2, <2>2 DEF FlushCell
<1> QED BY <1>1, <1>2

LEMMA ForgetCellPublishes ==
  ASSUME NEW j, JournalOk(j), NEW id \in Ids, NEW c \in CellContents
  PROVE  Published(j, ForgetCell(j, id, c), RecordsOf(j, id), c)
<1> DEFINE i == FlushCell(j, id, c)
           a == [i.age EXCEPT ![id] = Window]
           k == [i EXCEPT !.age = a]
           E == Outputs(c, RecordsOf(j, id))
<1>1. Published(j, i, RecordsOf(j, id), c)
  BY FlushCellPublishes
<1>0. ForgetCell(j, id, c) = k
  BY DEF ForgetCell
<1> HIDE DEF i, E
<1>2. JournalOk(i) /\ i \in JournalType /\ i.age \in [Ids -> 0..Window]
  BY <1>1, JournalFields DEF Published, Adds, JournalOk
<1>3. a \in [Ids -> 0..Window]
  <2>1. Window \in 0..Window
    BY JournalBounds
  <2> QED BY <1>2, <2>1
<1>4. k \in JournalType /\ Changed(i, k, i.pending, a, i.timer)
  <2> HIDE DEF a
  <2> QED BY <1>2, <1>3, FieldsChange
<1> HIDE DEF a, k
<1>5. Adds(i, k, E) /\ k.pending = i.pending
  <2>1. TimerSound(k)
    BY <1>2, <1>4 DEF JournalOk, TimerSound, Changed
  <2> QED BY <1>2, <1>4, <2>1, SameRing DEF Changed
<1>6. Adds(j, k, E)
  BY <1>1, <1>5, AddsThenAdds DEF Published, E
<1>7. \A p \in ToSet(j.pending) \intersect RecordsOf(j, id) : Includes(j, k, Outputs(c, {p}))
  <2> TAKE p \in ToSet(j.pending) \intersect RecordsOf(j, id)
  <2>1. Adds(j, i, E) /\ Includes(j, i, Outputs(c, {p}))
    BY <1>1 DEF Published, E
  <2> QED BY <2>1, <1>5, IncludesThenAdds
<1>8. Published(j, k, RecordsOf(j, id), c)
  BY <1>1, <1>5, <1>6, <1>7 DEF Published, E
<1> QED BY <1>0, <1>8

LEMMA FlushPublishes ==
  ASSUME NEW j, JournalOk(j), NEW c \in CellContents
  PROVE  Published(j, Flush(j, c), ToSet(j.pending), c)
<1>1. CASE j.pending # <<>>
  BY <1>1, PublishAndRearm DEF Flush
<1>2. CASE j.pending = <<>>
  <2>1. ToSet(j.pending) = {}
    BY <1>2 DEF ToSet
  <2>2. Published(j, j, ToSet(j.pending), c)
    BY <2>1, NothingPublished
  <2> QED BY <1>2, <2>2 DEF Flush
<1> QED BY <1>1, <1>2

LEMMA OnTimerPublishes ==
  ASSUME NEW j, JournalOk(j), NEW c \in CellContents
  PROVE  Published(j, OnTimer(j, c), {p \in ToSet(j.pending) : p.due = 0}, c)
BY PublishAndRearm DEF OnTimer

OutputOf(id, rev) == {f \in JournalEvent : f.kind = "outputs_changed" /\ f.id = id /\ f.rev = rev}

\* An output change is published, or joins the pending ones.
Recorded(j, k, id, obj, c) ==
  /\ Adds(j, k, OutputOf(id, c[obj]))
  /\ IsPending(k, id) \/ Includes(j, k, OutputOf(id, c[obj]))
  /\ \A p \in ToSet(k.pending) : p \in ToSet(j.pending) \/ (p.id = id /\ p.obj = obj)
  /\ \A p \in ToSet(j.pending) : p.id # id => p \in ToSet(k.pending)

LEMMA RecordOutputsRecords ==
  ASSUME NEW j, JournalOk(j), NEW id \in Ids, NEW obj \in Objects, NEW c \in CellContents
  PROVE  Recorded(j, RecordOutputs(j, id, obj, c), id, obj, c)
<1> DEFINE s == j.pending
           E == OutputOf(id, c[obj])
<1>0. j \in JournalType /\ s \in Seq(HeldBack) /\ j.age \in [Ids -> 0..Window]
  BY JournalFields DEF JournalOk
<1>w. Window \in Nat \ {0}
  BY JournalBounds
<1>1. CASE IsPending(j, id)
  <2> DEFINE s2 == [i \in DOMAIN s |-> IF s[i].id = id THEN [s[i] EXCEPT !.obj = obj] ELSE s[i]]
             i == [j EXCEPT !.pending = s2]
             k == Rearm(i)
  <2>1. RecordOutputs(j, id, obj, c) = k
    BY <1>1 DEF RecordOutputs
  <2>2. \A n \in DOMAIN s : s[n] \in HeldBack
    <3> HIDE DEF s
    <3> QED BY <1>0
  <2>3. \A n \in DOMAIN s : /\ s2[n] \in HeldBack /\ s2[n].id = s[n].id
                            /\ s2[n] = s[n] \/ (s[n].id = id /\ s2[n].obj = obj)
                            /\ s[n].id # id => s2[n] = s[n]
    <3> HIDE DEF s
    <3> TAKE n \in DOMAIN s
    <3> DEFINE r == s[n]
    <3>1. r \in [id : Ids, obj : Objects, due : 0..Window]
      BY <2>2 DEF HeldBack
    <3>2. s2[n] = IF r.id = id THEN [r EXCEPT !.obj = obj] ELSE r
      OBVIOUS
    <3> HIDE DEF r, s2
    <3>3. CASE r.id = id
      <4>1. s2[n] \in HeldBack /\ s2[n].id = r.id /\ s2[n].obj = obj
        BY <3>1, <3>2, <3>3 DEF HeldBack
      <4> QED BY <4>1, <3>3 DEF r
    <3>4. CASE r.id # id
      <4>1. s2[n] = r /\ r \in HeldBack
        BY <3>1, <3>2, <3>4 DEF HeldBack
      <4> QED BY <4>1, <3>4 DEF r
    <3> QED BY <3>3, <3>4
  <2>4. s2 \in Seq(HeldBack) /\ DOMAIN s2 = DOMAIN s
    <3> HIDE DEF s
    <3>1. s2 = [n \in 1..Len(s) |-> s2[n]] /\ Len(s) \in Nat /\ DOMAIN s2 = DOMAIN s
      BY <1>0
    <3>2. \A n \in 1..Len(s) : s2[n] \in HeldBack
      BY <1>0, <2>3
    <3> HIDE DEF s2
    <3> QED BY <3>1, <3>2
  <2> HIDE DEF s, s2
  <2>5. i \in JournalType /\ Changed(j, i, s2, j.age, j.timer)
    BY <1>0, <2>4, FieldsChange
  <2> HIDE DEF i
  <2>6. Adds(j, k, E) /\ k.pending = s2
    BY <2>5, RearmKeeps DEF Changed
  <2> HIDE DEF k
  <2>7. PICK n \in DOMAIN s : s[n].id = id
    BY <1>1 DEF IsPending, s
  <2>8. IsPending(k, id)
    BY <2>3, <2>4, <2>6, <2>7 DEF IsPending
  <2>9. \A p \in ToSet(k.pending) : p \in ToSet(s) \/ (p.id = id /\ p.obj = obj)
    BY <2>3, <2>4, <2>6 DEF ToSet
  <2>10. \A p \in ToSet(s) : p.id # id => p \in ToSet(k.pending)
    BY <2>3, <2>4, <2>6 DEF ToSet
  <2> QED BY <2>1, <2>6, <2>8, <2>9, <2>10 DEF Recorded, s
<1>2. CASE ~IsPending(j, id) /\ j.age[id] >= Window
  <2> DEFINE p == [id |-> id, obj |-> obj, due |-> 0]
             k == EmitOutputs(j, p.id, p.obj, c)
  <2>1. RecordOutputs(j, id, obj, c) = k
    BY <1>2 DEF RecordOutputs
  <2>2. /\ Adds(j, k, Outputs(c, {p})) /\ Includes(j, k, Outputs(c, {p}))
        /\ k.pending = j.pending
    <3>1. p.id \in Ids /\ p.obj \in Objects /\ p \in {p}
      OBVIOUS
    <3> HIDE DEF p
    <3> QED BY <3>1, EmitAdds
  <2>3. Outputs(c, {p}) = E
    BY DEF Outputs, OutputOf
  <2> HIDE DEF k, p
  <2>4. Adds(j, k, E) /\ Includes(j, k, E)
    BY <2>2, <2>3
  <2>5. Recorded(j, k, id, obj, c)
    BY <2>2, <2>4 DEF Recorded
  <2> QED BY <2>1, <2>5, Zenon
<1>3. CASE ~IsPending(j, id) /\ ~(j.age[id] >= Window)
  <2> DEFINE p == [id |-> id, obj |-> obj, due |-> Window - j.age[id]]
             s2 == Append(s, p)
             i == [j EXCEPT !.pending = s2]
             k == Rearm(i)
  <2>1. RecordOutputs(j, id, obj, c) = k
    BY <1>3 DEF RecordOutputs
  <2>2. p \in HeldBack
    <3>1. j.age[id] \in 0..Window
      BY <1>0
    <3>2. Window - j.age[id] \in 0..Window
      BY <3>1, <1>w
    <3> QED BY <3>2 DEF HeldBack
  <2>3. p.id = id /\ p.obj = obj
    OBVIOUS
  <2> HIDE DEF p, s
  <2>4. s2 \in Seq(HeldBack) /\ ToSet(s2) = ToSet(s) \union {p}
    <3>1. s2 \in Seq(HeldBack) /\ Len(s2) = Len(s) + 1 /\ Len(s) \in Nat
      BY <1>0, <2>2
    <3>2. DOMAIN s2 = 1..(Len(s) + 1) /\ DOMAIN s = 1..Len(s)
      BY <1>0, <3>1
    <3>3. (\A n \in 1..Len(s) : s2[n] = s[n]) /\ s2[Len(s) + 1] = p
      BY <1>0, <2>2
    <3>4. 1..(Len(s) + 1) = 1..Len(s) \union {Len(s) + 1}
      BY <3>1
    <3> HIDE DEF s2
    <3> QED BY <3>1, <3>2, <3>3, <3>4 DEF ToSet
  <2> HIDE DEF s2
  <2>5. i \in JournalType /\ Changed(j, i, s2, j.age, j.timer)
    BY <1>0, <2>4, FieldsChange
  <2> HIDE DEF i
  <2>6. Adds(j, k, E) /\ k.pending = s2
    BY <2>5, RearmKeeps DEF Changed
  <2> HIDE DEF k
  <2>7. IsPending(k, id)
    BY <2>3, <2>4, <2>6, PendingIs
  <2>8. \A q \in ToSet(k.pending) : q \in ToSet(s) \/ (q.id = id /\ q.obj = obj)
    BY <2>3, <2>4, <2>6
  <2>9. \A q \in ToSet(s) : q \in ToSet(k.pending)
    BY <2>4, <2>6
  <2> QED BY <2>1, <2>6, <2>7, <2>8, <2>9 DEF Recorded, s
<1> QED BY <1>1, <1>2, <1>3

\* As time passes nothing is published, and the same is held back.
LEMMA LaterKeeps ==
  ASSUME NEW j, JournalOk(j), NEW E
  PROVE  /\ Adds(j, Later(j), E)
         /\ \A p \in ToSet(Later(j).pending) :
              \E q \in ToSet(j.pending) : q.id = p.id /\ q.obj = p.obj
         /\ \A q \in ToSet(j.pending) :
              \E p \in ToSet(Later(j).pending) : q.id = p.id /\ q.obj = p.obj
<1> DEFINE s == j.pending
           a == [id \in Ids |-> Min({j.age[id] + 1, Window})]
           s2 == [i \in DOMAIN s |-> [s[i] EXCEPT !.due = Max({s[i].due - 1, 0})]]
           t == IF j.timer = NoTimer THEN NoTimer ELSE Max({j.timer - 1, 0})
           k == Later(j)
<1>0. j \in JournalType /\ s \in Seq(HeldBack) /\ j.age \in [Ids -> 0..Window]
      /\ j.timer \in Nat \union {NoTimer}
  BY JournalFields DEF JournalOk
<1>w. Window \in Nat \ {0}
  BY JournalBounds
<1>1. a \in [Ids -> 0..Window]
  <2> SUFFICES ASSUME NEW id \in Ids PROVE Min({j.age[id] + 1, Window}) \in 0..Window
    OBVIOUS
  <2>1. j.age[id] \in 0..Window
    BY <1>0
  <2> DEFINE n == j.age[id]
  <2>2. n + 1 \in Int /\ Window \in Int /\ n \in Nat
    BY <2>1, <1>w
  <2> HIDE DEF n
  <2>3. Min({n + 1, Window}) = IF n + 1 <= Window THEN n + 1 ELSE Window
    BY <2>2, MaxOfPair
  <2>4. Min({n + 1, Window}) \in 0..Window
    BY <2>2, <2>3, <1>w
  <2> QED BY <2>4 DEF n
<1>2. \A n \in DOMAIN s : s[n] \in HeldBack
  <2> HIDE DEF s
  <2> QED BY <1>0
<1>3. \A n \in DOMAIN s :
        /\ s2[n] \in HeldBack /\ s2[n].id = s[n].id /\ s2[n].obj = s[n].obj
        /\ s2[n].due = (IF s[n].due >= 1 THEN s[n].due - 1 ELSE 0)
  <2> TAKE n \in DOMAIN s
  <2> DEFINE d == Max({s[n].due - 1, 0})
             r == s[n]
  <2>1. r \in [id : Ids, obj : Objects, due : 0..Window] /\ r.due \in 0..Window
    BY <1>2 DEF HeldBack
  <2>2. d = IF r.due - 1 >= 0 THEN r.due - 1 ELSE 0
    BY <2>1, MaxOfPair
  <2>3. s2[n] = [r EXCEPT !.due = d]
    OBVIOUS
  <2> HIDE DEF d, r, s, s2
  <2>4. d \in 0..Window /\ d = (IF r.due >= 1 THEN r.due - 1 ELSE 0)
    BY <2>1, <2>2, <1>w
  <2>5. s2[n] \in HeldBack /\ s2[n].id = r.id /\ s2[n].obj = r.obj /\ s2[n].due = d
    BY <2>1, <2>3, <2>4 DEF HeldBack
  <2> QED BY <2>4, <2>5 DEF r
<1>4. s2 \in Seq(HeldBack) /\ DOMAIN s2 = DOMAIN s
  <2> HIDE DEF s
  <2>1. s2 = [n \in 1..Len(s) |-> s2[n]] /\ Len(s) \in Nat /\ DOMAIN s2 = DOMAIN s
    BY <1>0
  <2>2. \A n \in 1..Len(s) : s2[n] \in HeldBack
    <3>1. DOMAIN s = 1..Len(s)
      BY <1>0
    <3> HIDE DEF s2
    <3> QED BY <1>3, <3>1
  <2> HIDE DEF s2
  <2> QED BY <2>1, <2>2
<1>5. t \in Nat \union {NoTimer} /\ (j.timer # NoTimer => t = IF j.timer >= 1 THEN j.timer - 1 ELSE 0)
  <2>1. CASE j.timer = NoTimer
    BY <2>1
  <2>2. CASE j.timer # NoTimer
    <3>1. j.timer \in Nat
      BY <1>0, <2>2
    <3>2. Max({j.timer - 1, 0}) = IF j.timer - 1 >= 0 THEN j.timer - 1 ELSE 0
      BY <3>1, MaxOfPair
    <3> QED BY <2>2, <3>1, <3>2
  <2> QED BY <2>1, <2>2
<1>6. k = [j EXCEPT !.age = a, !.pending = s2, !.timer = t]
  BY DEF Later
<1> HIDE DEF k, a, s2, t, s
<1>7. k \in JournalType /\ Changed(j, k, s2, a, t)
  <2> DEFINE S == Seq(HeldBack)
             A == [Ids -> 0..Window]
             R == [0..Limit - 1 -> JournalEvent \union {NoEvent}]
             N == Nat \union {NoTimer}
  <2>1. j \in [ring : R, last : Nat, pending : S, age : A, timer : N]
    BY <1>0 DEF JournalType
  <2>2. a \in A /\ s2 \in S /\ t \in N
    BY <1>1, <1>4, <1>5
  <2> HIDE DEF S, A, R, N
  <2>3. k \in [ring : R, last : Nat, pending : S, age : A, timer : N] /\ Changed(j, k, s2, a, t)
    BY <2>1, <2>2, <1>6 DEF Changed
  <2> QED BY <2>3 DEF JournalType, S, A, R, N
<1>8. TimerSound(k)
  <2> SUFFICES ASSUME NEW n \in DOMAIN s2 PROVE t # NoTimer /\ t <= s2[n].due
    BY <1>7 DEF TimerSound, Changed
  <2>1. j.timer # NoTimer /\ j.timer <= s[n].due /\ s[n].due \in Nat
    <3>1. TimerSound(j) /\ n \in DOMAIN s /\ s[n] \in HeldBack
      BY <1>2, <1>4 DEF JournalOk
    <3>2. s[n].due \in 0..Window
      BY <3>1 DEF HeldBack
    <3> QED BY <3>1, <3>2, <1>w DEF TimerSound, s
  <2>2. j.timer \in Nat
    BY <1>0, <2>1
  <2> QED BY <2>1, <2>2, <1>3, <1>4, <1>5 DEF NoTimer
<1>9. Adds(j, k, E)
  BY <1>7, <1>8, SameRing DEF Changed
<1>10. \A p \in ToSet(k.pending) : \E q \in ToSet(s) : q.id = p.id /\ q.obj = p.obj
  BY <1>3, <1>4, <1>7 DEF ToSet, Changed
<1>11. \A q \in ToSet(s) : \E p \in ToSet(k.pending) : q.id = p.id /\ q.obj = p.obj
  BY <1>3, <1>4, <1>7 DEF ToSet, Changed
<1> QED BY <1>9, <1>10, <1>11 DEF k, s

-------------------------------------------------------------------------------
(* What a caller knows.                                                      *)

\* The events about a cell, and those that leave the caller right about it, if S
\* are the contents of the cells with this id.
About(id) ==
  {f \in JournalEvent : f.id = id /\ f.kind \in ContentKinds \union (Structural \ {"order_changed"})}
GoodFor(S) == {f \in JournalEvent : f.kind \in Structural \/ f.rev \in S}
Knowledge == [told : BOOLEAN, rev : Revisions]
KnowsAnyOf(S) == {w \in Knowledge : ~w.told \/ w.rev \in S}

Structurals == {f \in JournalEvent : f.kind \in Structural}
Ordering(ids) == {f \in JournalEvent : f.ids = ids}
ContentEvents == {f \in JournalEvent : f.kind \in ContentKinds}

\* A caller is [from, known, order]; it is still served while its place is in the ring.
CallerType == [from : Nat, known : [Ids -> Knowledge], order : Seq(Ids)]
Served(j, x) == x.from >= j.last - Limit

Informed(j, x, id, S) ==
  Served(j, x) => Latest(j, x.from, About(id), GoodFor(S), x.known[id], KnowsAnyOf(S))
Aware(j, x, id, S) == IsPending(j, id) \/ Informed(j, x, id, S)
Ordered(j, x, ids) ==
  Served(j, x) => Latest(j, x.from, Structurals, Ordering(ids), x.order, {ids})

LEMMA InformedStays ==
  ASSUME NEW j, NEW k, NEW E, NEW x, NEW id, NEW S, x.from \in Nat, x.from <= j.last,
         Adds(j, k, E), E \intersect About(id) \subseteq GoodFor(S),
         Informed(j, x, id, S) \/ Includes(j, k, About(id))
  PROVE  Informed(k, x, id, S)
<1>1. j.last \in Nat /\ k.last \in Nat /\ j.last <= k.last /\ Limit \in Nat
  BY JournalBounds, LastIsNat DEF Adds, JournalOk
<1>2. SUFFICES ASSUME Served(k, x)
               PROVE  Latest(k, x.from, About(id), GoodFor(S), x.known[id], KnowsAnyOf(S))
  BY DEF Informed
<1>3. x.from >= k.last - Limit /\ Served(j, x)
  BY <1>1, <1>2 DEF Served
<1>4. Latest(j, x.from, About(id), GoodFor(S), x.known[id], KnowsAnyOf(S))
      \/ Includes(j, k, About(id))
  BY <1>3 DEF Informed
<1> QED BY <1>3, <1>4, LatestStays

LEMMA OrderedStays ==
  ASSUME NEW j, NEW k, NEW E, NEW x, NEW ids, x.from \in Nat, x.from <= j.last,
         Adds(j, k, E), E \intersect Structurals \subseteq Ordering(ids),
         Ordered(j, x, ids) \/ Includes(j, k, Structurals)
  PROVE  Ordered(k, x, ids)
<1>1. j.last \in Nat /\ k.last \in Nat /\ j.last <= k.last /\ Limit \in Nat
  BY JournalBounds, LastIsNat DEF Adds, JournalOk
<1>2. SUFFICES ASSUME Served(k, x)
               PROVE  Latest(k, x.from, Structurals, Ordering(ids), x.order, {ids})
  BY DEF Ordered
<1>3. x.from >= k.last - Limit /\ Served(j, x)
  BY <1>1, <1>2 DEF Served
<1>4. Latest(j, x.from, Structurals, Ordering(ids), x.order, {ids})
      \/ Includes(j, k, Structurals)
  BY <1>3 DEF Ordered
<1> QED BY <1>3, <1>4, LatestStays

\* The contents under one id, and the records that are pending for cells there are.
ContentsOf(D, c, id) == {c[D[i].obj] : i \in {n \in DOMAIN D : D[n].id = id}}
IdSet(D) == {D[i].id : i \in DOMAIN D}
Owned(j, D) == \A p \in ToSet(j.pending) : \E i \in DOMAIN D : D[i].id = p.id /\ D[i].obj = p.obj

LEMMA OutputsAreContent ==
  ASSUME NEW c, NEW P, NEW id
  PROVE  /\ Outputs(c, P) \subseteq ContentEvents
         /\ (\A p \in P : p.id # id) => Outputs(c, P) \intersect About(id) = {}
         /\ \A p \in P : p.id = id => Outputs(c, {p}) \subseteq About(id)
         /\ \A S : (\A p \in P : p.id = id => c[p.obj] \in S)
                     => Outputs(c, P) \intersect About(id) \subseteq GoodFor(S)
BY DEF Outputs, ContentEvents, About, GoodFor, ContentKinds

LEMMA ContentIsNotOrder ==
  ASSUME NEW ids
  PROVE  ContentEvents \intersect Structurals \subseteq Ordering(ids)
BY DEF ContentEvents, Structurals, ContentKinds, Structural

\* Records that are published keep the caller right, and set it right.
LEMMA PublishedKeeps ==
  ASSUME NEW j, NEW k, NEW goes, NEW c, NEW x, NEW id, NEW S,
         x.from \in Nat, x.from <= j.last, goes \subseteq ToSet(j.pending),
         Published(j, k, goes, c), \A p \in goes : p.id = id => c[p.obj] \in S,
         Aware(j, x, id, S) \/ \E p \in goes : p.id = id
  PROVE  Aware(k, x, id, S)
<1>1. Adds(j, k, Outputs(c, goes))
  BY DEF Published
<1>2. Outputs(c, goes) \intersect About(id) \subseteq GoodFor(S)
  BY OutputsAreContent
<1>3. CASE \E p \in goes : p.id = id
  <2>1. PICK p \in goes : p.id = id
    BY <1>3
  <2>2. Includes(j, k, Outputs(c, {p})) /\ Outputs(c, {p}) \subseteq About(id)
    BY <2>1, OutputsAreContent DEF Published
  <2>3. Includes(j, k, About(id))
    BY <2>2 DEF Includes
  <2>4. Informed(k, x, id, S)
    BY <1>1, <1>2, <2>3, InformedStays
  <2> QED BY <2>4 DEF Aware
<1>4. CASE ~ \E p \in goes : p.id = id
  <2>1. CASE IsPending(j, id)
    <3>1. PICK q \in ToSet(j.pending) : q.id = id
      BY <2>1, PendingIs
    <3>2. q \in ToSet(k.pending)
      BY <3>1, <1>4 DEF Published
    <3> QED BY <3>1, <3>2, PendingIs DEF Aware
  <2>2. CASE Informed(j, x, id, S)
    <3>1. Informed(k, x, id, S)
      BY <1>1, <1>2, <2>2, InformedStays
    <3> QED BY <3>1 DEF Aware
  <2> QED BY <1>4, <2>1, <2>2 DEF Aware
<1> QED BY <1>3, <1>4

(* The events of one cell.                                                  *)

CellEvents(id, V) == {f \in JournalEvent : f.kind \in ContentKinds /\ f.id = id /\ f.rev \in V}

\* What may be told of a cell: its content, and that of what is pending for its id.
Tellable(j, id, obj, c) == {c[obj]} \union {c[p.obj] : p \in RecordsOf(j, id)}

\* Events of one cell alone, and no other record touched.
CellStage(j, k, id, obj, c, V) ==
  /\ Adds(j, k, CellEvents(id, V))
  /\ \A p \in ToSet(k.pending) : p \in ToSet(j.pending) \/ (p.id = id /\ p.obj = obj)
  /\ \A p \in ToSet(j.pending) : p.id # id => p \in ToSet(k.pending)
  /\ Tellable(k, id, obj, c) \subseteq V

LEMMA StagesCompose ==
  ASSUME NEW i, NEW j, NEW k, NEW id, NEW obj, NEW c, NEW V,
         CellStage(i, j, id, obj, c, V), CellStage(j, k, id, obj, c, V)
  PROVE  CellStage(i, k, id, obj, c, V)
<1>1. Adds(i, k, CellEvents(id, V))
  BY AddsThenAdds DEF CellStage
<1> QED BY <1>1 DEF CellStage

LEMMA NoStage ==
  ASSUME NEW j, JournalOk(j), NEW id, NEW obj, NEW c
  PROVE  CellStage(j, j, id, obj, c, Tellable(j, id, obj, c))
BY AddsNothing DEF CellStage

LEMMA TellableOf ==
  ASSUME NEW j, NEW k, NEW id, NEW obj, NEW c,
         \A p \in ToSet(k.pending) : p \in ToSet(j.pending) \/ (p.id = id /\ p.obj = obj)
  PROVE  Tellable(k, id, obj, c) \subseteq Tellable(j, id, obj, c)
BY DEF Tellable, RecordsOf

\* A source or metadata event, after the outputs of the cell that are held back.
LEMMA ContentStage ==
  ASSUME NEW j, JournalOk(j), NEW id \in Ids, NEW obj \in Objects, NEW c \in CellContents,
         NEW kind \in ContentKinds, NEW V, Tellable(j, id, obj, c) \subseteq V
  PROVE  LET k == Publish(FlushCell(j, id, c),
                          [kind |-> kind, id |-> id, rev |-> c[obj], ids |-> <<>>])
         IN  CellStage(j, k, id, obj, c, V) /\ Includes(j, k, About(id))
<1> DEFINE e == [kind |-> kind, id |-> id, rev |-> c[obj], ids |-> <<>>]
           i == FlushCell(j, id, c)
           k == Publish(i, e)
           E == CellEvents(id, V)
<1>1. Published(j, i, RecordsOf(j, id), c)
  BY FlushCellPublishes
<1> HIDE DEF i
<1>2. JournalOk(i) /\ Adds(j, i, Outputs(c, RecordsOf(j, id)))
  BY <1>1 DEF Published, Adds
<1>3. e.kind \in Kinds /\ e.id \in Ids \union {NoCell} /\ e.rev \in Revisions /\ e.ids \in Seq(Ids)
  <2>1. e.kind \in Kinds
    BY DEF Kinds
  <2>2. e.rev \in Revisions
    BY DEF CellContents
  <2>3. e.ids \in Seq(Ids)
    OBVIOUS
  <2> QED BY <2>1, <2>2, <2>3
<1>4. Described(e) \subseteq E /\ Described(e) \subseteq About(id)
  <2>1. c[obj] \in V
    BY DEF Tellable
  <2> QED BY <2>1 DEF Described, CellEvents, About
<1>5. Outputs(c, RecordsOf(j, id)) \subseteq E
  <2>1. \A p \in RecordsOf(j, id) : c[p.obj] \in V /\ p.id = id
    BY DEF Tellable, RecordsOf
  <2> QED BY <2>1 DEF Outputs, CellEvents, ContentKinds
<1>6. Adds(i, k, Described(e)) /\ Includes(i, k, Described(e)) /\ k.pending = i.pending
  <2> HIDE DEF e
  <2> QED BY <1>2, <1>3, PublishAdds
<1> HIDE DEF e, k, E
<1>7. Adds(j, k, E)
  <2>1. Adds(j, i, E)
    BY <1>2, <1>5, AddsWider
  <2>2. Adds(i, k, E)
    BY <1>4, <1>6, AddsWider
  <2> QED BY <2>1, <2>2, AddsThenAdds
<1>8. Includes(j, k, About(id))
  <2>1. Includes(i, k, About(id))
    BY <1>4, <1>6 DEF Includes
  <2>2. JournalOk(k)
    BY <1>7 DEF Adds
  <2> QED BY <2>1, <2>2, <1>2, AddsThenIncludes
<1>9. ToSet(k.pending) = ToSet(j.pending) \ RecordsOf(j, id)
  BY <1>1, <1>6 DEF Published
<1>10. CellStage(j, k, id, obj, c, V)
  <2>1. \A p \in ToSet(k.pending) : p \in ToSet(j.pending)
    BY <1>9
  <2>2. \A p \in ToSet(j.pending) : p.id # id => p \in ToSet(k.pending)
    BY <1>9 DEF RecordsOf
  <2>3. Tellable(k, id, obj, c) \subseteq V
    BY <2>1, TellableOf
  <2> QED BY <1>7, <2>1, <2>2, <2>3 DEF CellStage, E
<1> QED BY <1>8, <1>10 DEF k, i, e

LEMMA OutputStage ==
  ASSUME NEW j, JournalOk(j), NEW id \in Ids, NEW obj \in Objects, NEW c \in CellContents,
         NEW V, Tellable(j, id, obj, c) \subseteq V
  PROVE  LET k == RecordOutputs(j, id, obj, c)
         IN  /\ CellStage(j, k, id, obj, c, V)
             /\ IsPending(k, id) \/ Includes(j, k, About(id))
<1> DEFINE k == RecordOutputs(j, id, obj, c)
<1>1. Recorded(j, k, id, obj, c)
  BY RecordOutputsRecords
<1> HIDE DEF k
<1>2. OutputOf(id, c[obj]) \subseteq CellEvents(id, V) /\ OutputOf(id, c[obj]) \subseteq About(id)
  <2>1. c[obj] \in V
    BY DEF Tellable
  <2> QED BY <2>1 DEF OutputOf, CellEvents, About, ContentKinds
<1>3. Adds(j, k, CellEvents(id, V))
  BY <1>1, <1>2, AddsWider DEF Recorded
<1>4. Tellable(k, id, obj, c) \subseteq V
  BY <1>1, TellableOf DEF Recorded
<1>5. IsPending(k, id) \/ Includes(j, k, About(id))
  BY <1>1, <1>2 DEF Recorded, Includes
<1>6. CellStage(j, k, id, obj, c, V)
  BY <1>1, <1>3, <1>4 DEF Recorded, CellStage
<1> QED BY <1>5, <1>6 DEF k

Aspects == {"source", "metadata", "outputs"}

LEMMA PublishCellStage ==
  ASSUME NEW j, JournalOk(j), NEW entry, entry.id \in Ids, entry.obj \in Objects,
         NEW c \in CellContents, NEW aspects
  PROVE  LET k == PublishCell(j, entry, aspects, c)
         IN  /\ CellStage(j, k, entry.id, entry.obj, c, Tellable(j, entry.id, entry.obj, c))
             /\ aspects \intersect Aspects # {} =>
                  IsPending(k, entry.id) \/ Includes(j, k, About(entry.id))
             /\ aspects \intersect Aspects = {} => k = j
<1> DEFINE id == entry.id
           obj == entry.obj
           V == Tellable(j, id, obj, c)
           event(kind) == [kind |-> kind, id |-> id, rev |-> c[obj], ids |-> <<>>]
           j1 == IF "source" \notin aspects THEN j
                 ELSE Publish(FlushCell(j, id, c), event("source_changed"))
           j2 == IF "metadata" \notin aspects THEN j1
                 ELSE Publish(FlushCell(j1, id, c), event("metadata_changed"))
           k == IF "outputs" \notin aspects THEN j2 ELSE RecordOutputs(j2, id, obj, c)
           Ok(i) == CellStage(j, i, id, obj, c, V)
<1>0. PublishCell(j, entry, aspects, c) = k
  BY DEF PublishCell
<1>k. "source_changed" \in ContentKinds /\ "metadata_changed" \in ContentKinds
  BY DEF ContentKinds
<1>1. Ok(j) /\ Tellable(j, id, obj, c) \subseteq V
  BY NoStage
<1> HIDE DEF V
<1>2. Ok(j1) /\ ("source" \in aspects => Includes(j, j1, About(id)))
  <2>1. CASE "source" \notin aspects
    BY <2>1, <1>1
  <2>2. CASE "source" \in aspects
    <3> DEFINE i == Publish(FlushCell(j, id, c), event("source_changed"))
    <3>1. CellStage(j, i, id, obj, c, V) /\ Includes(j, i, About(id))
      BY <1>1, <1>k, ContentStage
    <3> QED BY <3>1, <2>2
  <2> QED BY <2>1, <2>2
<1> HIDE DEF j1
<1>3. JournalOk(j1) /\ Tellable(j1, id, obj, c) \subseteq V
  BY <1>2 DEF CellStage, Adds
<1>4. Ok(j2) /\ ("source" \in aspects \/ "metadata" \in aspects => Includes(j, j2, About(id)))
  <2>1. CASE "metadata" \notin aspects
    BY <2>1, <1>2
  <2>2. CASE "metadata" \in aspects
    <3> DEFINE i == Publish(FlushCell(j1, id, c), event("metadata_changed"))
    <3>1. CellStage(j1, i, id, obj, c, V) /\ Includes(j1, i, About(id))
      BY <1>3, <1>k, ContentStage
    <3>2. j2 = i
      BY <2>2
    <3> HIDE DEF i, j2
    <3>3. Ok(i)
      BY <1>2, <3>1, StagesCompose
    <3>4. Includes(j, i, About(id))
      BY <1>2, <3>1, AddsThenIncludes DEF CellStage, Adds
    <3> QED BY <3>2, <3>3, <3>4
  <2> QED BY <2>1, <2>2
<1> HIDE DEF j2
<1>5. JournalOk(j2) /\ Tellable(j2, id, obj, c) \subseteq V
  BY <1>4 DEF CellStage, Adds
<1>6. /\ Ok(k)
      /\ "outputs" \in aspects => IsPending(k, id) \/ Includes(j2, k, About(id))
      /\ "source" \in aspects \/ "metadata" \in aspects => Includes(j, k, About(id))
  <2>1. CASE "outputs" \notin aspects
    BY <2>1, <1>4
  <2>2. CASE "outputs" \in aspects
    <3> DEFINE i == RecordOutputs(j2, id, obj, c)
    <3>1. CellStage(j2, i, id, obj, c, V) /\ (IsPending(i, id) \/ Includes(j2, i, About(id)))
      BY <1>5, OutputStage
    <3>2. k = i
      BY <2>2
    <3> HIDE DEF i, k
    <3>3. Ok(i)
      BY <1>4, <3>1, StagesCompose
    <3>4. "source" \in aspects \/ "metadata" \in aspects => Includes(j, i, About(id))
      BY <1>4, <3>1, IncludesThenAdds DEF CellStage
    <3> QED BY <3>1, <3>2, <3>3, <3>4
  <2> QED BY <2>1, <2>2
<1>7. aspects \intersect Aspects # {} => IsPending(k, id) \/ Includes(j, k, About(id))
  <2> HIDE DEF k
  <2>1. Includes(j2, k, About(id)) => Includes(j, k, About(id))
    BY <1>4, <1>6, AddsThenIncludes DEF CellStage, Adds
  <2> QED BY <2>1, <1>6 DEF Aspects
<1>8. aspects \intersect Aspects = {} => k = j
  BY DEF k, j2, j1, Aspects
<1> HIDE DEF k
<1> QED BY <1>0, <1>6, <1>7, <1>8 DEF V

EntryType == [obj : Objects, id : Ids]

\* The caller is right about every cell, but for the ids of Z.
WellTold(j, x, D, c, Z) ==
  /\ JournalOk(j) /\ x.from \in Nat /\ x.from <= j.last
  /\ Owned(j, D)
  /\ \A id \in IdSet(D) \ Z : Aware(j, x, id, ContentsOf(D, c, id))

LEMMA CellTold ==
  ASSUME NEW D \in Seq(EntryType), NEW n \in 1..Len(D), NEW c \in CellContents, NEW aspects,
         NEW j, NEW x, NEW Z, WellTold(j, x, D, c, Z)
  PROVE  LET k == PublishCell(j, D[n], aspects, c)
         IN  /\ Adds(j, k, ContentEvents)
             /\ aspects \intersect Aspects = {} => WellTold(k, x, D, c, Z)
             /\ aspects \intersect Aspects # {} => WellTold(k, x, D, c, Z \ {D[n].id})
<1> DEFINE k == PublishCell(j, D[n], aspects, c)
           e == D[n]
           V == Tellable(j, e.id, e.obj, c)
           Zk == IF aspects \intersect Aspects = {} THEN Z ELSE Z \ {e.id}
<1>1. n \in DOMAIN D /\ e.id \in Ids /\ e.obj \in Objects
  <2>1. D[n] \in EntryType /\ n \in DOMAIN D
    OBVIOUS
  <2> QED BY <2>1 DEF EntryType
<1>2. JournalOk(j) /\ Owned(j, D) /\ x.from \in Nat /\ x.from <= j.last
  BY DEF WellTold
<1>3. /\ CellStage(j, k, e.id, e.obj, c, V)
      /\ aspects \intersect Aspects # {} => IsPending(k, e.id) \/ Includes(j, k, About(e.id))
      /\ aspects \intersect Aspects = {} => k = j
  BY <1>1, <1>2, PublishCellStage
<1> HIDE DEF k, e, V
<1>4. Adds(j, k, CellEvents(e.id, V)) /\ JournalOk(k) /\ j.last <= k.last
  BY <1>3 DEF CellStage, Adds
<1>5. Adds(j, k, ContentEvents)
  <2>1. CellEvents(e.id, V) \subseteq ContentEvents
    BY DEF CellEvents, ContentEvents
  <2> QED BY <2>1, <1>4, AddsWider
<1>6. V \subseteq ContentsOf(D, c, e.id)
  <2>1. c[e.obj] \in ContentsOf(D, c, e.id)
    BY <1>1 DEF ContentsOf, e
  <2>2. \A p \in RecordsOf(j, e.id) : c[p.obj] \in ContentsOf(D, c, e.id)
    BY <1>2 DEF ContentsOf, Owned, RecordsOf
  <2> QED BY <2>1, <2>2 DEF V, Tellable
<1>7. Owned(k, D)
  BY <1>1, <1>2, <1>3 DEF Owned, CellStage, e
<1>8. ASSUME NEW id \in IdSet(D) \ Zk
      PROVE  Aware(k, x, id, ContentsOf(D, c, id))
  <2>1. CASE id # e.id
    <3>1. Aware(j, x, id, ContentsOf(D, c, id))
      BY <2>1 DEF WellTold
    <3>2. CASE IsPending(j, id)
      <4>1. PICK q \in ToSet(j.pending) : q.id = id
        BY <3>2, PendingIs
      <4>2. q \in ToSet(k.pending)
        BY <4>1, <2>1, <1>3 DEF CellStage
      <4> QED BY <4>1, <4>2, PendingIs DEF Aware
    <3>3. CASE Informed(j, x, id, ContentsOf(D, c, id))
      <4>1. CellEvents(e.id, V) \intersect About(id) = {}
        BY <2>1 DEF CellEvents, About
      <4>2. Informed(k, x, id, ContentsOf(D, c, id))
        BY <4>1, <3>3, <1>2, <1>4, InformedStays
      <4> QED BY <4>2 DEF Aware
    <3> QED BY <3>1, <3>2, <3>3 DEF Aware
  <2>2. CASE id = e.id /\ aspects \intersect Aspects # {}
    <3>1. CASE IsPending(k, id)
      BY <3>1 DEF Aware
    <3>2. CASE Includes(j, k, About(id))
      <4>1. CellEvents(e.id, V) \intersect About(id) \subseteq GoodFor(ContentsOf(D, c, id))
        BY <1>6, <2>2 DEF CellEvents, GoodFor
      <4>2. Informed(k, x, id, ContentsOf(D, c, id))
        BY <4>1, <3>2, <1>2, <1>4, InformedStays
      <4> QED BY <4>2 DEF Aware
    <3> QED BY <2>2, <1>3, <3>1, <3>2
  <2>3. CASE id = e.id /\ aspects \intersect Aspects = {}
    <3>1. Aware(j, x, id, ContentsOf(D, c, id))
      BY <2>3 DEF WellTold
    <3> QED BY <3>1, <2>3, <1>3
  <2> QED BY <2>1, <2>2, <2>3
<1>9. x.from <= k.last
  BY <1>2, <1>4, LastIsNat DEF JournalOk
<1>10. WellTold(k, x, D, c, Zk)
  BY <1>2, <1>4, <1>7, <1>8, <1>9 DEF WellTold
<1> QED BY <1>5, <1>10 DEF k, e

\* The ids of the cells from a place on that are touched and not announced.
Unheard(D, fresh, touched, n) ==
  {D[m].id : m \in {i \in n..Len(D) : D[i].obj \notin fresh
                                      /\ touched[D[i].obj] \intersect Aspects # {}}}

LEMMA PublishContentTold ==
  ASSUME NEW D \in Seq(EntryType), NEW c \in CellContents, NEW fresh, NEW touched,
         NEW j, NEW x, WellTold(j, x, D, c, Unheard(D, fresh, touched, 1))
  PROVE  LET k == PublishContent(j, D, fresh, touched, c)
         IN  Adds(j, k, ContentEvents) /\ WellTold(k, x, D, c, {})
<1> DEFINE N == Len(D)
           Mid(n, i) == Adds(j, i, ContentEvents)
                        /\ WellTold(i, x, D, c, Unheard(D, fresh, touched, n + 1))
           X == [n \in 0..N |-> {i \in JournalType : Mid(n, i)}]
           Step(n, i) == IF D[n].obj \in fresh THEN i
                         ELSE PublishCell(i, D[n], touched[D[n].obj], c)
           g == [n \in 1..N |-> [i \in X[n - 1] |-> Step(n, i)]]
<1>1. N \in Nat
  OBVIOUS
<1>15. \A n \in 0..N : X[n] = {i \in JournalType : Mid(n, i)}
  <2> HIDE DEF Mid, N
  <2> QED OBVIOUS
<1>4. j \in X[0]
  <2>1. JournalOk(j) /\ j \in JournalType
    BY DEF WellTold, JournalOk
  <2>2. Mid(0, j)
    BY <2>1, AddsNothing
  <2> HIDE DEF Mid, X
  <2> QED BY <2>1, <2>2, <1>1, <1>15
<1>5. \A n \in 1..N : \A i \in X[n - 1] : g[n][i] = Step(n, i) /\ g[n][i] \in X[n]
  <2> TAKE n \in 1..N
  <2> TAKE i \in X[n - 1]
  <2>1. n - 1 \in 0..N /\ n \in 0..N /\ (n - 1) + 1 = n
    BY <1>1
  <2>2. i \in JournalType /\ Mid(n - 1, i)
    <3> HIDE DEF Mid, X
    <3> QED BY <2>1, <1>15
  <2>3. g[n][i] = Step(n, i)
    <3> HIDE DEF Mid, Step, X
    <3> QED OBVIOUS
  <2>4. Adds(j, i, ContentEvents) /\ WellTold(i, x, D, c, Unheard(D, fresh, touched, n))
    BY <2>1, <2>2
  <2> DEFINE U == Unheard(D, fresh, touched, n)
             U2 == Unheard(D, fresh, touched, n + 1)
             quiet == D[n].obj \in fresh \/ touched[D[n].obj] \intersect Aspects = {}
  <2>5. U \subseteq U2 \union {D[n].id} /\ (quiet => U \subseteq U2)
    <3>1. \A m \in n..Len(D) : m = n \/ m \in n + 1..Len(D)
      OBVIOUS
    <3> QED BY <3>1 DEF Unheard
  <2>6. Step(n, i) \in JournalType /\ Mid(n, Step(n, i))
    <3>1. CASE D[n].obj \in fresh
      <4>1. WellTold(i, x, D, c, U2)
        BY <2>4, <2>5, <3>1 DEF WellTold
      <4> QED BY <4>1, <2>2, <2>4, <3>1
    <3>2. CASE D[n].obj \notin fresh
      <4> DEFINE k == PublishCell(i, D[n], touched[D[n].obj], c)
      <4>1. /\ Adds(i, k, ContentEvents)
            /\ quiet => WellTold(k, x, D, c, U)
            /\ ~quiet => WellTold(k, x, D, c, U \ {D[n].id})
        BY <2>4, <3>2, CellTold
      <4> HIDE DEF k, U, U2, quiet
      <4>2. Adds(j, k, ContentEvents) /\ k \in JournalType
        BY <2>4, <4>1, AddsThenAdds DEF Adds, JournalOk
      <4>3. WellTold(k, x, D, c, U2)
        <5>1. CASE quiet
          BY <5>1, <4>1, <2>5 DEF WellTold
        <5>2. CASE ~quiet
          BY <5>2, <4>1, <2>5 DEF WellTold
        <5> QED BY <5>1, <5>2
      <4>4. Step(n, i) = k
        BY <3>2 DEF k
      <4> QED BY <4>2, <4>3, <4>4 DEF U2
    <3> QED BY <3>1, <3>2
  <2> HIDE DEF Mid, Step, X, g
  <2> QED BY <2>1, <2>3, <2>6, <1>15
<1> DEFINE R(f) == f = [n \in 0..N |-> IF n = 0 THEN j ELSE Step(n, f[n - 1])]
<1> HIDE DEF X, g, N, Step, Mid
<1>6. PICK h : StepsThrough(h, N, X, j, g)
  <2>1. \A n \in 1..N : \A i \in X[n - 1] : g[n][i] \in X[n]
    BY <1>5
  <2> QED BY <1>1, <1>4, <2>1, Recursion
<1>7. R(h)
  <2>1. \A n \in 0..N : n # 0 => n \in 1..N /\ n - 1 \in 0..N
    BY <1>1
  <2>2. \A n \in 0..N : n # 0 => h[n] = Step(n, h[n - 1])
    BY <2>1, <1>5, <1>6 DEF StepsThrough
  <2>3. \A n \in 0..N : h[n] = IF n = 0 THEN j ELSE Step(n, h[n - 1])
    BY <2>2, <1>6 DEF StepsThrough
  <2> QED BY <1>6, <2>3 DEF StepsThrough
<1> DEFINE k == CHOOSE f : R(f)
<1>8. R(k)
  <2> HIDE DEF R
  <2> QED BY <1>7
<1>9. PublishContent(j, D, fresh, touched, c) = k[N]
  BY DEF PublishContent, N, Step
<1> HIDE DEF k
<1>10. k[0] \in X[0] /\ \A n \in 1..N : k[n - 1] \in X[n - 1] => k[n] \in X[n]
  <2>1. k[0] = j
    BY <1>1, <1>8
  <2>2. ASSUME NEW n \in 1..N, k[n - 1] \in X[n - 1]
        PROVE  k[n] \in X[n]
    <3>1. n \in 0..N /\ n # 0
      BY <1>1
    <3>2. k[n] = Step(n, k[n - 1])
      BY <3>1, <1>8
    <3> QED BY <3>2, <2>2, <1>5
  <2> QED BY <2>1, <2>2, <1>4
<1>11. \A n \in 0..N : k[n] \in X[n]
  BY <1>1, <1>10, Inductive
<1>12. Mid(N, k[N])
  BY <1>1, <1>11, <1>15
<1>13. Unheard(D, fresh, touched, N + 1) = {}
  <2>1. (N + 1)..Len(D) = {}
    BY <1>1 DEF N
  <2> QED BY <2>1 DEF Unheard
<1>14. Adds(j, k[N], ContentEvents) /\ WellTold(k[N], x, D, c, {})
  BY <1>12, <1>13 DEF Mid
<1> QED BY <1>9, <1>14

(* The structural events of a transaction.                                  *)

StructuralWith(ids) == {f \in JournalEvent : f.kind \in Structural /\ f.ids = ids}

\* Structural events only, with the ids as they are after it, of all ids of I; and
\* nothing is held back.
Announces(j, k, ids, I) ==
  /\ Adds(j, k, StructuralWith(ids))
  /\ ToSet(k.pending) = {}
  /\ \A id \in I : Includes(j, k, About(id))
  /\ I # {} => Includes(j, k, Structurals)

LEMMA AnnouncesNothing ==
  ASSUME NEW j, JournalOk(j), ToSet(j.pending) = {}, NEW ids
  PROVE  Announces(j, j, ids, {})
BY AddsNothing DEF Announces

LEMMA AnnouncesFewer ==
  ASSUME NEW j, NEW k, NEW ids, NEW I, NEW K, K \subseteq I, Announces(j, k, ids, I)
  PROVE  Announces(j, k, ids, K)
BY DEF Announces

LEMMA AnnouncesBoth ==
  ASSUME NEW i, NEW j, NEW k, NEW ids, NEW I, NEW K,
         Announces(i, j, ids, I), Announces(j, k, ids, K)
  PROVE  Announces(i, k, ids, I \union K)
<1>1. Adds(i, k, StructuralWith(ids)) /\ JournalOk(k)
  BY AddsThenAdds DEF Announces, Adds
<1>2. \A T : Includes(i, j, T) \/ Includes(j, k, T) => Includes(i, k, T)
  BY <1>1, IncludesThenAdds, AddsThenIncludes DEF Announces
<1> QED BY <1>1, <1>2 DEF Announces

LEMMA IdsAreSeq ==
  ASSUME NEW D \in Seq(EntryType)
  PROVE  IdsOf(D) \in Seq(Ids) /\ Len(IdsOf(D)) = Len(D)
<1>1. \A i \in 1..Len(D) : D[i].id \in Ids
  <2>1. \A i \in 1..Len(D) : D[i] \in EntryType
    OBVIOUS
  <2> QED BY <2>1 DEF EntryType
<1>2. DOMAIN D = 1..Len(D) /\ Len(D) \in Nat
  OBVIOUS
<1> QED BY <1>1, <1>2 DEF IdsOf

LEMMA StructureAnnounces ==
  ASSUME NEW j, JournalOk(j), ToSet(j.pending) = {}, NEW kind \in Structural,
         NEW id \in Ids \union {NoCell}, NEW after \in Seq(EntryType)
  PROVE  LET k == Publish(j, Structure(kind, id, after))
         IN  /\ Announces(j, k, IdsOf(after), {})
             /\ Includes(j, k, Structurals)
             /\ kind # "order_changed" => Announces(j, k, IdsOf(after), {id})
<1> DEFINE e == Structure(kind, id, after)
           k == Publish(j, e)
<1>1. e.kind \in Kinds /\ e.id \in Ids \union {NoCell} /\ e.rev \in Revisions /\ e.ids \in Seq(Ids)
  <2>1. IdsOf(after) \in Seq(Ids)
    BY IdsAreSeq
  <2>2. NoRevision \in Revisions /\ kind \in Kinds
    BY DEF NoRevision, Revisions, Kinds
  <2> QED BY <2>1, <2>2 DEF Structure
<1>2. Described(e) \subseteq StructuralWith(IdsOf(after)) /\ Described(e) \subseteq Structurals
      /\ (kind # "order_changed" => Described(e) \subseteq About(id))
  <2>1. e.kind = kind /\ e.id = id /\ e.ids = IdsOf(after)
    BY DEF Structure
  <2> HIDE DEF e
  <2> QED BY <2>1 DEF Described, StructuralWith, Structurals, About
<1> HIDE DEF e
<1>3. Adds(j, k, Described(e)) /\ Includes(j, k, Described(e)) /\ k.pending = j.pending
  BY <1>1, PublishAdds
<1> HIDE DEF k
<1>4. Adds(j, k, StructuralWith(IdsOf(after))) /\ Includes(j, k, Structurals)
      /\ (kind # "order_changed" => Includes(j, k, About(id)))
  BY <1>2, <1>3, AddsWider DEF Includes
<1> QED BY <1>3, <1>4 DEF Announces, k, e

LEMMA DeletedAnnounces ==
  ASSUME NEW j, JournalOk(j), ToSet(j.pending) = {}, NEW id \in Ids,
         NEW after \in Seq(EntryType), NEW c \in CellContents
  PROVE  Announces(j, PublishDeleted(j, id, after, c), IdsOf(after), {id})
<1> DEFINE i == ForgetIfGone(j, id, after, c)
           k == Publish(i, Structure("cell_deleted", id, after))
<1>1. Announces(j, i, IdsOf(after), {})
  <2>1. CASE Has(after, id)
    BY <2>1, AnnouncesNothing DEF ForgetIfGone
  <2>2. CASE ~Has(after, id)
    <3>1. Published(j, i, RecordsOf(j, id), c)
      BY <2>2, ForgetCellPublishes DEF ForgetIfGone
    <3> HIDE DEF i
    <3>2. RecordsOf(j, id) = {}
      BY DEF RecordsOf
    <3>3. Outputs(c, {}) = {}
      BY DEF Outputs
    <3>4. Adds(j, i, {}) /\ ToSet(i.pending) = {}
      BY <3>1, <3>2, <3>3 DEF Published
    <3> QED BY <3>4, AddsWider DEF Announces
  <2> QED BY <2>1, <2>2
<1> HIDE DEF i
<1>2. JournalOk(i) /\ ToSet(i.pending) = {}
  BY <1>1 DEF Announces, Adds
<1>3. Announces(i, k, IdsOf(after), {id})
  BY <1>2, StructureAnnounces DEF Structural
<1> HIDE DEF k
<1>4. Announces(j, k, IdsOf(after), {} \union {id})
  BY <1>1, <1>3, AnnouncesBoth
<1>5. {} \union {id} = {id}
  OBVIOUS
<1> QED BY <1>4, <1>5 DEF PublishDeleted, k, i

ChangeKinds == {"replaced", "renamed", "deleted", "added"}

\* The ids that one change is about.
IdsOfChange(kind, e, before) ==
  {e.id} \union (IF kind = "renamed" THEN {Was(before, e.obj)} ELSE {})

LEMMA ChangeAnnounces ==
  ASSUME NEW j, JournalOk(j), ToSet(j.pending) = {}, NEW kind \in ChangeKinds, NEW e, NEW before,
         IdsOfChange(kind, e, before) \subseteq Ids,
         NEW after \in Seq(EntryType), NEW c \in CellContents
  PROVE  Announces(j, PublishChange(j, kind, e, before, after, c), IdsOf(after),
                   IdsOfChange(kind, e, before))
<1>0. e.id \in Ids /\ "cell_replaced" \in Structural /\ "cell_added" \in Structural
  BY DEF IdsOfChange, Structural
<1>1. CASE kind = "replaced"
  <2>1. Announces(j, Publish(j, Structure("cell_replaced", e.id, after)), IdsOf(after), {e.id})
    BY <1>0, StructureAnnounces
  <2> QED BY <1>1, <2>1 DEF PublishChange, IdsOfChange
<1>2. CASE kind = "added"
  <2>1. Announces(j, Publish(j, Structure("cell_added", e.id, after)), IdsOf(after), {e.id})
    BY <1>0, StructureAnnounces
  <2> QED BY <1>2, <2>1 DEF PublishChange, IdsOfChange
<1>3. CASE kind = "deleted"
  <2>1. Announces(j, PublishDeleted(j, e.id, after, c), IdsOf(after), {e.id})
    BY <1>0, DeletedAnnounces
  <2> QED BY <1>3, <2>1 DEF PublishChange, IdsOfChange
<1>4. CASE kind = "renamed"
  <2> DEFINE was == Was(before, e.obj)
             i == PublishDeleted(j, was, after, c)
             k == Publish(i, Structure("cell_added", e.id, after))
  <2>0. was \in Ids
    BY <1>4 DEF IdsOfChange
  <2>1. Announces(j, i, IdsOf(after), {was})
    BY <2>0, DeletedAnnounces
  <2> HIDE DEF i, was
  <2>2. JournalOk(i) /\ ToSet(i.pending) = {}
    BY <2>1 DEF Announces, Adds
  <2>3. Announces(i, k, IdsOf(after), {e.id})
    BY <1>0, <2>2, StructureAnnounces
  <2> HIDE DEF k
  <2>4. Announces(j, k, IdsOf(after), {was} \union {e.id})
    BY <2>1, <2>3, AnnouncesBoth
  <2>5. {was} \union {e.id} = IdsOfChange(kind, e, before)
    BY <1>4 DEF IdsOfChange, was
  <2>6. PublishChange(j, kind, e, before, after, c) = k
    BY <1>4 DEF PublishChange, k, i, was
  <2> QED BY <2>4, <2>5, <2>6
<1> QED BY <1>1, <1>2, <1>3, <1>4 DEF ChangeKinds

\* The ids that the changes of some places are about.
IdsOfChanges(kind, list, places, before) ==
  UNION {IdsOfChange(kind, list[n], before) : n \in places}

LEMMA PublishAtAnnounces ==
  ASSUME NEW j, JournalOk(j), ToSet(j.pending) = {}, NEW kind \in ChangeKinds,
         NEW list \in Seq(EntryType), NEW places \in SUBSET (1..Len(list)), NEW before,
         IdsOfChanges(kind, list, places, before) \subseteq Ids,
         NEW after \in Seq(EntryType), NEW c \in CellContents
  PROVE  Announces(j, PublishAt(j, kind, list, places, before, after, c), IdsOf(after),
                   IdsOfChanges(kind, list, places, before))
<1> DEFINE N == Len(list)
           I(n) == IdsOfChanges(kind, list, places \intersect (1..n), before)
           Mid(n, i) == Announces(j, i, IdsOf(after), I(n))
           X == [n \in 0..N |-> {i \in JournalType : Mid(n, i)}]
           Step(n, i) == IF n \in places THEN PublishChange(i, kind, list[n], before, after, c)
                         ELSE i
           g == [n \in 1..N |-> [i \in X[n - 1] |-> Step(n, i)]]
<1>1. N \in Nat
  OBVIOUS
<1>15. \A n \in 0..N : X[n] = {i \in JournalType : Mid(n, i)}
  <2> HIDE DEF Mid, N
  <2> QED OBVIOUS
<1>4. j \in X[0]
  <2>1. j \in JournalType
    BY DEF JournalOk
  <2>2. I(0) = {}
    BY DEF IdsOfChanges
  <2>3. Mid(0, j)
    BY <2>2, AnnouncesNothing
  <2> HIDE DEF Mid, X
  <2> QED BY <2>1, <2>3, <1>1, <1>15
<1>5. \A n \in 1..N : \A i \in X[n - 1] : g[n][i] = Step(n, i) /\ g[n][i] \in X[n]
  <2> TAKE n \in 1..N
  <2> TAKE i \in X[n - 1]
  <2>1. n - 1 \in 0..N /\ n \in 0..N
    BY <1>1
  <2>2. i \in JournalType /\ Mid(n - 1, i)
    <3> HIDE DEF Mid, X
    <3> QED BY <2>1, <1>15
  <2>3. g[n][i] = Step(n, i)
    <3> HIDE DEF Mid, Step, X
    <3> QED OBVIOUS
  <2>4. 1..n = (1..n - 1) \union {n}
    BY <2>1
  <2>5. Step(n, i) \in JournalType /\ Mid(n, Step(n, i))
    <3>1. CASE n \notin places
      <4>1. places \intersect (1..n) = places \intersect (1..n - 1)
        BY <2>4, <3>1
      <4> QED BY <4>1, <2>2, <3>1
    <3>2. CASE n \in places
      <4> DEFINE k == PublishChange(i, kind, list[n], before, after, c)
                 J == IdsOfChange(kind, list[n], before)
      <4>1. JournalOk(i) /\ ToSet(i.pending) = {}
        BY <2>2 DEF Announces, Adds
      <4>2. J \subseteq Ids
        BY <3>2 DEF IdsOfChanges
      <4>3. Announces(i, k, IdsOf(after), J)
        BY <4>1, <4>2, ChangeAnnounces
      <4>4. I(n) = I(n - 1) \union J
        BY <2>4, <3>2 DEF IdsOfChanges
      <4> HIDE DEF k, J, I
      <4>7. Announces(j, i, IdsOf(after), I(n - 1))
        BY <2>2
      <4>8. Announces(j, k, IdsOf(after), I(n - 1) \union J)
        BY <4>3, <4>7, AnnouncesBoth
      <4>5. Announces(j, k, IdsOf(after), I(n)) /\ k \in JournalType
        BY <4>3, <4>4, <4>8 DEF Announces, Adds, JournalOk
      <4>6. Step(n, i) = k
        BY <3>2 DEF k
      <4> QED BY <4>5, <4>6
    <3> QED BY <3>1, <3>2
  <2> HIDE DEF Mid, Step, X, g
  <2> QED BY <2>1, <2>3, <2>5, <1>15
<1> DEFINE R(f) == f = [n \in 0..N |-> IF n = 0 THEN j ELSE Step(n, f[n - 1])]
<1> HIDE DEF X, g, N, Step, Mid
<1>6. PICK h : StepsThrough(h, N, X, j, g)
  <2>1. \A n \in 1..N : \A i \in X[n - 1] : g[n][i] \in X[n]
    BY <1>5
  <2> QED BY <1>1, <1>4, <2>1, Recursion
<1>7. R(h)
  <2>1. \A n \in 0..N : n # 0 => n \in 1..N /\ n - 1 \in 0..N
    BY <1>1
  <2>2. \A n \in 0..N : n # 0 => h[n] = Step(n, h[n - 1])
    BY <2>1, <1>5, <1>6 DEF StepsThrough
  <2>3. \A n \in 0..N : h[n] = IF n = 0 THEN j ELSE Step(n, h[n - 1])
    BY <2>2, <1>6 DEF StepsThrough
  <2> QED BY <1>6, <2>3 DEF StepsThrough
<1> DEFINE k == CHOOSE f : R(f)
<1>8. R(k)
  <2> HIDE DEF R
  <2> QED BY <1>7
<1>9. PublishAt(j, kind, list, places, before, after, c) = k[N]
  BY DEF PublishAt, N, Step
<1> HIDE DEF k
<1>10. k[0] \in X[0] /\ \A n \in 1..N : k[n - 1] \in X[n - 1] => k[n] \in X[n]
  <2>1. k[0] = j
    BY <1>1, <1>8
  <2>2. ASSUME NEW n \in 1..N, k[n - 1] \in X[n - 1]
        PROVE  k[n] \in X[n]
    <3>1. n \in 0..N /\ n # 0
      BY <1>1
    <3>2. k[n] = Step(n, k[n - 1])
      BY <3>1, <1>8
    <3> QED BY <3>2, <2>2, <1>5
  <2> QED BY <2>1, <2>2, <1>4
<1>11. \A n \in 0..N : k[n] \in X[n]
  BY <1>1, <1>10, Inductive
<1>12. Mid(N, k[N])
  BY <1>1, <1>11, <1>15
<1>13. places \intersect (1..N) = places
  BY DEF N
<1> QED BY <1>9, <1>12, <1>13 DEF Mid

\* All that a transaction changed of the structure, as places in the two lists.
DiffOk(diff, before, after) ==
  /\ diff.replaced \in SUBSET (1..Len(after)) /\ diff.renamed \in SUBSET (1..Len(after))
  /\ diff.added \in SUBSET (1..Len(after)) /\ diff.deleted \in SUBSET (1..Len(before))
  /\ diff.reordered \in BOOLEAN
  /\ \A n \in diff.renamed : Was(before, after[n].obj) \in Ids

Addressed(diff, before, after) ==
  {after[n].id : n \in diff.replaced \union diff.renamed \union diff.added}
    \union {Was(before, after[n].obj) : n \in diff.renamed}
    \union {before[n].id : n \in diff.deleted}

LEMMA StructureTold ==
  ASSUME NEW j, JournalOk(j), ToSet(j.pending) = {}, NEW before \in Seq(EntryType),
         NEW after \in Seq(EntryType), NEW c \in CellContents, NEW diff,
         DiffOk(diff, before, after)
  PROVE  LET k == PublishStructure(j, diff, before, after, c)
         IN  /\ Announces(j, k, IdsOf(after), Addressed(diff, before, after))
             /\ diff.reordered => Includes(j, k, Structurals)
<1> DEFINE ids == IdsOf(after)
           I1 == IdsOfChanges("replaced", after, diff.replaced, before)
           I2 == IdsOfChanges("renamed", after, diff.renamed, before)
           I3 == IdsOfChanges("deleted", before, diff.deleted, before)
           I4 == IdsOfChanges("added", after, diff.added, before)
           j1 == PublishAt(j,  "replaced", after,  diff.replaced, before, after, c)
           j2 == PublishAt(j1, "renamed",  after,  diff.renamed,  before, after, c)
           j3 == PublishAt(j2, "deleted",  before, diff.deleted,  before, after, c)
           j4 == PublishAt(j3, "added",    after,  diff.added,    before, after, c)
           j5 == Publish(j4, Structure("order_changed", NoCell, after))
           k == IF diff.reordered THEN j5 ELSE j4
<1>0. PublishStructure(j, diff, before, after, c) = k
  BY DEF PublishStructure
<1>1. /\ "replaced" \in ChangeKinds /\ "renamed" \in ChangeKinds
      /\ "deleted" \in ChangeKinds /\ "added" \in ChangeKinds
  BY DEF ChangeKinds
<1>2. /\ \A n \in 1..Len(after) : after[n].id \in Ids
      /\ \A n \in 1..Len(before) : before[n].id \in Ids
  <2>1. (\A n \in 1..Len(after) : after[n] \in EntryType)
        /\ \A n \in 1..Len(before) : before[n] \in EntryType
    OBVIOUS
  <2> QED BY <2>1 DEF EntryType
<1>3. /\ I1 \subseteq Ids /\ I2 \subseteq Ids /\ I3 \subseteq Ids /\ I4 \subseteq Ids
      /\ Addressed(diff, before, after) = ((I1 \union I2) \union I3) \union I4
  <2>1. I1 = {after[n].id : n \in diff.replaced}
    BY DEF IdsOfChanges, IdsOfChange
  <2>2. I2 = {after[n].id : n \in diff.renamed}
             \union {Was(before, after[n].obj) : n \in diff.renamed}
    BY DEF IdsOfChanges, IdsOfChange
  <2>3. I3 = {before[n].id : n \in diff.deleted}
    BY DEF IdsOfChanges, IdsOfChange
  <2>4. I4 = {after[n].id : n \in diff.added}
    BY DEF IdsOfChanges, IdsOfChange
  <2> HIDE DEF I1, I2, I3, I4
  <2> QED BY <2>1, <2>2, <2>3, <2>4, <1>2 DEF DiffOk, Addressed
<1> HIDE DEF I1, I2, I3, I4, ids
<1>4. Announces(j, j1, ids, I1) /\ JournalOk(j1) /\ ToSet(j1.pending) = {}
  <2>1. Announces(j, j1, ids, I1)
    BY <1>1, <1>3, PublishAtAnnounces DEF DiffOk, I1, ids
  <2> QED BY <2>1 DEF Announces, Adds
<1> HIDE DEF j1
<1>5. Announces(j1, j2, ids, I2) /\ JournalOk(j2) /\ ToSet(j2.pending) = {}
  <2>1. Announces(j1, j2, ids, I2)
    BY <1>1, <1>3, <1>4, PublishAtAnnounces DEF DiffOk, I2, ids
  <2> QED BY <2>1 DEF Announces, Adds
<1> HIDE DEF j2
<1>6. Announces(j2, j3, ids, I3) /\ JournalOk(j3) /\ ToSet(j3.pending) = {}
  <2>1. Announces(j2, j3, ids, I3)
    BY <1>1, <1>3, <1>5, PublishAtAnnounces DEF DiffOk, I3, ids
  <2> QED BY <2>1 DEF Announces, Adds
<1> HIDE DEF j3
<1>7. Announces(j3, j4, ids, I4) /\ JournalOk(j4) /\ ToSet(j4.pending) = {}
  <2>1. Announces(j3, j4, ids, I4)
    BY <1>1, <1>3, <1>6, PublishAtAnnounces DEF DiffOk, I4, ids
  <2> QED BY <2>1 DEF Announces, Adds
<1> HIDE DEF j4
<1>8. Announces(j4, j5, ids, {}) /\ Includes(j4, j5, Structurals)
  <2>1. "order_changed" \in Structural
    BY DEF Structural
  <2> QED BY <2>1, <1>7, StructureAnnounces DEF ids
<1> HIDE DEF j5
<1>9. Announces(j, j4, ids, ((I1 \union I2) \union I3) \union I4)
  <2>1. Announces(j, j2, ids, I1 \union I2)
    BY <1>4, <1>5, AnnouncesBoth
  <2>2. Announces(j, j3, ids, (I1 \union I2) \union I3)
    BY <2>1, <1>6, AnnouncesBoth
  <2> QED BY <2>2, <1>7, AnnouncesBoth
<1>10. Announces(j, j5, ids, ((I1 \union I2) \union I3) \union I4)
  <2> DEFINE A == ((I1 \union I2) \union I3) \union I4
  <2>1. Announces(j, j5, ids, A \union {})
    BY <1>8, <1>9, AnnouncesBoth
  <2>2. A \union {} = A
    OBVIOUS
  <2> QED BY <2>1, <2>2
<1>11. Includes(j, j5, Structurals)
  BY <1>8, <1>9, AddsThenIncludes DEF Announces, Adds
<1>12. diff.reordered => k = j5
  OBVIOUS
<1>13. ~diff.reordered => k = j4
  OBVIOUS
<1> HIDE DEF k
<1> QED BY <1>0, <1>3, <1>9, <1>10, <1>11, <1>12, <1>13 DEF ids

-------------------------------------------------------------------------------
(* What a rebuild of the index finds.                                       *)

Distinct(D) == \A i, n \in DOMAIN D : D[i].obj = D[n].obj => i = n
Holders(D, id) == {D[i].obj : i \in {n \in DOMAIN D : D[n].id = id}}

LEMMA WasThere ==
  ASSUME NEW D \in Seq(EntryType), Distinct(D), NEW i \in DOMAIN D
  PROVE  Was(D, D[i].obj) = D[i].id
BY DEF Was, Distinct

LEMMA CountOne ==
  ASSUME NEW P, IsFiniteSet(P), NEW i \in P
  PROVE  Cardinality(P) \in Nat /\ Cardinality(P) >= 1
<1>1. Cardinality(P) \in Nat
  BY FS_CardinalityType
<1>2. Cardinality(P) # 0
  BY FS_EmptySet
<1> QED BY <1>1, <1>2

\* The parts of what a rebuild finds, by name.
Gone(before, after) == {i \in DOMAIN before : before[i].obj \notin ToSet(ObjsOf(after))}
Fresh(before, after) == {i \in DOMAIN after : after[i].obj \notin ToSet(ObjsOf(before))}
Renamed(before, after) ==
  {i \in DOMAIN after \ Fresh(before, after) : Was(before, after[i].obj) # after[i].id}
CountOf(s, places, id) == Cardinality({i \in places : s[i].id = id})

LEMMA DiffParts ==
  ASSUME NEW before \in Seq(EntryType), NEW after \in Seq(EntryType)
  PROVE  LET d == Diff(before, after)
         IN  /\ d.replaced \union d.added = Fresh(before, after)
             /\ d.renamed = Renamed(before, after)
             /\ d.deleted = {n \in Gone(before, after) :
                               CountOf(before, Gone(before, after) \intersect (1..n), before[n].id)
                                 > CountOf(after, Fresh(before, after), before[n].id)}
             /\ d.reordered = (Fresh(before, after) = {} /\ d.deleted = {}
                               /\ ObjsOf(before) # ObjsOf(after))
             /\ d.freshTokens = {after[i].obj : i \in Fresh(before, after) \union Renamed(before, after)}
BY DEF Diff, Gone, Fresh, Renamed, CountOf

LEMMA ObjsAre ==
  ASSUME NEW D \in Seq(EntryType)
  PROVE  /\ \A o : o \in ToSet(ObjsOf(D)) <=> \E i \in DOMAIN D : D[i].obj = o
         /\ DOMAIN D = 1..Len(D) /\ \A i \in DOMAIN D : D[i].obj \in Objects /\ D[i].id \in Ids
<1>1. \A i \in DOMAIN D : D[i] \in EntryType
  OBVIOUS
<1> QED BY <1>1 DEF ObjsOf, ToSet, EntryType

LEMMA DiffIsOk ==
  ASSUME NEW before \in Seq(EntryType), NEW after \in Seq(EntryType), Distinct(before)
  PROVE  DiffOk(Diff(before, after), before, after)
<1> DEFINE d == Diff(before, after)
<1>1. /\ d.replaced \union d.added = Fresh(before, after)
      /\ d.renamed = Renamed(before, after)
      /\ d.deleted \subseteq Gone(before, after) /\ d.reordered \in BOOLEAN
  BY DiffParts
<1> HIDE DEF d
<1>2. /\ Fresh(before, after) \subseteq 1..Len(after)
      /\ Renamed(before, after) \subseteq 1..Len(after)
      /\ Gone(before, after) \subseteq 1..Len(before)
  BY DEF Fresh, Renamed, Gone
<1>3. ASSUME NEW n \in Renamed(before, after)
      PROVE  Was(before, after[n].obj) \in Ids
  <2>1. PICK i \in DOMAIN before : before[i].obj = after[n].obj
    BY ObjsAre DEF Renamed, Fresh
  <2>2. Was(before, before[i].obj) = before[i].id /\ before[i].id \in Ids
    BY WasThere, ObjsAre
  <2> QED BY <2>1, <2>2
<1>4. DiffOk(d, before, after)
  BY <1>1, <1>2, <1>3 DEF DiffOk
<1> QED BY <1>4 DEF d

\* An id that no structural event addresses has the objects it had.
LEMMA NotAddressed ==
  ASSUME NEW before \in Seq(EntryType), NEW after \in Seq(EntryType),
         Distinct(before), Distinct(after),
         NEW id, id \notin Addressed(Diff(before, after), before, after)
  PROVE  Holders(before, id) = Holders(after, id)
<1> DEFINE d == Diff(before, after)
           G == Gone(before, after)
           F == Fresh(before, after)
<1>1. /\ d.replaced \union d.added = F
      /\ d.renamed = Renamed(before, after)
      /\ d.deleted = {n \in G : CountOf(before, G \intersect (1..n), before[n].id)
                                  > CountOf(after, F, before[n].id)}
  BY DiffParts
<1> HIDE DEF d
<1>2. /\ \A n \in F : after[n].id # id
      /\ \A n \in Renamed(before, after) : after[n].id # id /\ Was(before, after[n].obj) # id
      /\ \A n \in d.deleted : before[n].id # id
  BY <1>1 DEF Addressed, d
<1>3. ASSUME NEW n \in DOMAIN after, after[n].id = id
      PROVE  after[n].obj \in Holders(before, id)
  <2>1. n \notin F /\ n \notin Renamed(before, after)
    BY <1>2, <1>3
  <2>2. PICK i \in DOMAIN before : before[i].obj = after[n].obj
    BY <2>1, ObjsAre DEF Fresh
  <2>3. Was(before, after[n].obj) = id
    BY <2>1, <1>3 DEF Renamed
  <2>4. before[i].id = id
    BY <2>2, <2>3, WasThere
  <2> QED BY <2>2, <2>4 DEF Holders
<1>4. ASSUME NEW i \in DOMAIN before, before[i].id = id
      PROVE  before[i].obj \in Holders(after, id)
  <2>1. i \notin G
    <3> SUFFICES ASSUME i \in G PROVE FALSE
      OBVIOUS
    <3> DEFINE P == {n \in G \intersect (1..i) : before[n].id = before[i].id}
               Q == {n \in F : after[n].id = before[i].id}
    <3>1. IsFiniteSet(P) /\ i \in P
      <4>1. i \in 1..i /\ P \subseteq 1..i /\ i \in Nat
        BY ObjsAre
      <4>2. IsFiniteSet(1..i)
        BY <4>1, FS_Interval
      <4> QED BY <4>1, <4>2, FS_Subset
    <3>2. IsFiniteSet(Q) /\ Q = {}
      BY <1>2, <1>4, FS_EmptySet
    <3>3. Cardinality(P) \in Nat /\ Cardinality(P) >= 1 /\ Cardinality(Q) = 0
      BY <3>1, <3>2, CountOne, FS_EmptySet
    <3>4. CountOf(before, G \intersect (1..i), before[i].id) > CountOf(after, F, before[i].id)
      BY <3>3 DEF CountOf
    <3>5. i \in d.deleted
      BY <3>4, <1>1
    <3> QED BY <3>5, <1>2, <1>4
  <2>2. PICK n \in DOMAIN after : after[n].obj = before[i].obj
    BY <2>1, ObjsAre DEF Gone
  <2>3. n \notin F
    BY <2>2, ObjsAre DEF Fresh
  <2>4. Was(before, after[n].obj) = id
    BY <2>2, <1>4, WasThere
  <2>5. after[n].id = id
    BY <2>3, <2>4, <1>2 DEF Renamed
  <2> QED BY <2>2, <2>5 DEF Holders
<1> QED BY <1>3, <1>4 DEF Holders

\* A rebuild that addresses nothing finds the same list.
LEMMA NothingAddressed ==
  ASSUME NEW before \in Seq(EntryType), NEW after \in Seq(EntryType), Distinct(before),
         Addressed(Diff(before, after), before, after) = {}, ~Diff(before, after).reordered
  PROVE  IdsOf(before) = IdsOf(after)
<1> DEFINE d == Diff(before, after)
<1>1. /\ d.replaced \union d.added = Fresh(before, after)
      /\ d.renamed = Renamed(before, after)
      /\ d.reordered = (Fresh(before, after) = {} /\ d.deleted = {}
                               /\ ObjsOf(before) # ObjsOf(after))
  BY DiffParts
<1> HIDE DEF d
<1>2. Fresh(before, after) = {} /\ Renamed(before, after) = {} /\ d.deleted = {}
  BY <1>1 DEF Addressed, d
<1>3. ObjsOf(before) = ObjsOf(after)
  BY <1>1, <1>2 DEF d
<1>4. DOMAIN before = DOMAIN after /\ \A i \in DOMAIN before : before[i].obj = after[i].obj
  <2>1. DOMAIN ObjsOf(before) = DOMAIN before /\ DOMAIN ObjsOf(after) = DOMAIN after
    BY DEF ObjsOf
  <2>2. \A i \in DOMAIN before : ObjsOf(before)[i] = before[i].obj
    BY DEF ObjsOf
  <2>3. \A i \in DOMAIN after : ObjsOf(after)[i] = after[i].obj
    BY DEF ObjsOf
  <2> QED BY <1>3, <2>1, <2>2, <2>3
<1>5. \A i \in DOMAIN after : after[i].id = before[i].id
  <2> TAKE i \in DOMAIN after
  <2>1. Was(before, after[i].obj) = after[i].id
    BY <1>2 DEF Renamed
  <2> QED BY <2>1, <1>4, WasThere
<1> QED BY <1>4, <1>5 DEF IdsOf

LEMMA FreshIsAddressed ==
  ASSUME NEW before \in Seq(EntryType), NEW after \in Seq(EntryType), Distinct(after),
         NEW n \in DOMAIN after, after[n].obj \in Diff(before, after).freshTokens
  PROVE  after[n].id \in Addressed(Diff(before, after), before, after)
<1> DEFINE d == Diff(before, after)
<1>1. /\ d.replaced \union d.added = Fresh(before, after)
      /\ d.renamed = Renamed(before, after)
      /\ d.freshTokens = {after[i].obj : i \in Fresh(before, after) \union Renamed(before, after)}
  BY DiffParts
<1> HIDE DEF d
<1>2. PICK i \in Fresh(before, after) \union Renamed(before, after) : after[i].obj = after[n].obj
  BY <1>1 DEF d
<1>3. i = n
  BY <1>2 DEF Distinct, Fresh, Renamed
<1>4. n \in d.replaced \union d.renamed \union d.added
  BY <1>1, <1>2, <1>3
<1> QED BY <1>4 DEF Addressed, d

-------------------------------------------------------------------------------
(* A transaction.                                                           *)

LEMMA ContentsAre ==
  ASSUME NEW D, NEW c, NEW id
  PROVE  /\ ContentsOf(D, c, id) = {c[o] : o \in Holders(D, id)}
         /\ id \in IdSet(D) <=> Holders(D, id) # {}
BY DEF ContentsOf, Holders, IdSet

\* What is edited of the cells of two lists.
EditedTo(c, c2, touched) ==
  \A o \in Objects : touched[o] \intersect Aspects = {} => c2[o] = c[o]

\* The structural events are told, and what is held back is published before them.
LEMMA RebuildTold ==
  ASSUME NEW before \in Seq(EntryType), NEW after \in Seq(EntryType),
         Distinct(before), Distinct(after),
         NEW c \in CellContents, NEW c2 \in CellContents, NEW touched, EditedTo(c, c2, touched),
         NEW j, NEW x, WellTold(j, x, before, c, {}), Ordered(j, x, IdsOf(before))
  PROVE  LET d == Diff(before, after)
             s == PublishStructure(Flush(j, c2), d, before, after, c2)
         IN  /\ WellTold(s, x, after, c2, Unheard(after, d.freshTokens, touched, 1))
             /\ Ordered(s, x, IdsOf(after))
<1> DEFINE d == Diff(before, after)
           f == Flush(j, c2)
           s == PublishStructure(f, d, before, after, c2)
           A == Addressed(d, before, after)
           U == Unheard(after, d.freshTokens, touched, 1)
<1>1. JournalOk(j) /\ Owned(j, before) /\ x.from \in Nat /\ x.from <= j.last
  BY DEF WellTold
<1>2. Published(j, f, ToSet(j.pending), c2)
  BY <1>1, FlushPublishes
<1>3. JournalOk(f) /\ ToSet(f.pending) = {} /\ j.last <= f.last
      /\ Adds(j, f, Outputs(c2, ToSet(j.pending)))
  BY <1>2 DEF Published, Adds
<1>4. Announces(f, s, IdsOf(after), A) /\ (d.reordered => Includes(f, s, Structurals))
  <2> HIDE DEF f
  <2>1. DiffOk(d, before, after)
    BY DiffIsOk
  <2> HIDE DEF d
  <2> QED BY <1>3, <2>1, StructureTold
<1>5. A = {} /\ ~d.reordered => IdsOf(before) = IdsOf(after)
  BY NothingAddressed
<1>6. \A id : id \notin A => Holders(before, id) = Holders(after, id)
  BY NotAddressed
<1>7. \A n \in DOMAIN after : after[n].obj \in d.freshTokens => after[n].id \in A
  BY FreshIsAddressed
<1> HIDE DEF d, f, s, A
<1>8. /\ JournalOk(s) /\ f.last <= s.last /\ ToSet(s.pending) = {}
      /\ Adds(f, s, StructuralWith(IdsOf(after)))
      /\ \A id \in A : Includes(f, s, About(id))
      /\ A # {} => Includes(f, s, Structurals)
  BY <1>4 DEF Announces, Adds
<1>9. x.from <= f.last /\ x.from <= s.last
  BY <1>1, <1>3, <1>8, LastIsNat DEF JournalOk
<1>10. ASSUME NEW id \in IdSet(after) \ U
       PROVE  Informed(s, x, id, ContentsOf(after, c2, id))
  <2> DEFINE S == ContentsOf(after, c2, id)
  <2>1. StructuralWith(IdsOf(after)) \intersect About(id) \subseteq GoodFor(S)
    BY DEF StructuralWith, GoodFor
  <2>2. Informed(f, x, id, S) \/ id \in A
    <3> SUFFICES ASSUME id \notin A PROVE Informed(f, x, id, S)
      OBVIOUS
    <3>1. Holders(before, id) = Holders(after, id)
      BY <1>6
    <3>2. \A o \in Holders(after, id) : c2[o] = c[o]
      <4> SUFFICES ASSUME NEW n \in DOMAIN after, after[n].id = id
                   PROVE  c2[after[n].obj] = c[after[n].obj]
        BY DEF Holders
      <4>1. n \in 1..Len(after) /\ after[n].obj \in Objects
        BY ObjsAre
      <4>2. after[n].obj \notin d.freshTokens
        BY <1>7
      <4>3. touched[after[n].obj] \intersect Aspects = {}
        BY <4>1, <4>2 DEF Unheard, U
      <4> QED BY <4>1, <4>3 DEF EditedTo
    <3>7. /\ S = {c2[o] : o \in Holders(after, id)} /\ Holders(after, id) # {}
          /\ ContentsOf(before, c, id) = {c[o] : o \in Holders(before, id)}
      BY ContentsAre
    <3>3. S = {c2[o] : o \in Holders(after, id)} /\ S = ContentsOf(before, c, id)
          /\ id \in IdSet(before)
      <4> HIDE DEF S
      <4> QED BY <3>1, <3>2, <3>7, ContentsAre
    <3> HIDE DEF S
    <3>4. Aware(j, x, id, S)
      BY <3>3 DEF WellTold
    <3>5. \A p \in ToSet(j.pending) : p.id = id => c2[p.obj] \in S
      <4> TAKE p \in ToSet(j.pending)
      <4> HAVE p.id = id
      <4>1. PICK i \in DOMAIN before : before[i].id = p.id /\ before[i].obj = p.obj
        BY <1>1 DEF Owned
      <4>2. p.obj \in Holders(before, id)
        BY <4>1 DEF Holders
      <4> QED BY <4>2, <3>1, <3>3
    <3>6. Aware(f, x, id, S)
      BY <1>1, <1>2, <3>4, <3>5, PublishedKeeps
    <3> QED BY <3>6, <1>3, PendingIs DEF Aware
  <2> HIDE DEF S
  <2>3. Informed(s, x, id, S)
    <3>1. Informed(f, x, id, S) \/ Includes(f, s, About(id))
      BY <2>2, <1>8
    <3> QED BY <3>1, <2>1, <1>1, <1>8, <1>9, InformedStays
  <2> QED BY <2>3 DEF S
<1>11. Owned(s, after)
  BY <1>8 DEF Owned
<1>12. WellTold(s, x, after, c2, U)
  BY <1>1, <1>8, <1>9, <1>10, <1>11 DEF WellTold, Aware
<1>13. Ordered(s, x, IdsOf(after))
  <2>1. Outputs(c2, ToSet(j.pending)) \intersect Structurals \subseteq Ordering(IdsOf(before))
    BY OutputsAreContent, ContentIsNotOrder
  <2>2. Ordered(f, x, IdsOf(before))
    BY <2>1, <1>1, <1>3, OrderedStays
  <2>3. Ordered(f, x, IdsOf(after)) \/ Includes(f, s, Structurals)
    BY <2>2, <1>4, <1>5, <1>8
  <2>4. StructuralWith(IdsOf(after)) \intersect Structurals \subseteq Ordering(IdsOf(after))
    BY DEF StructuralWith, Ordering
  <2> QED BY <2>3, <2>4, <1>1, <1>8, <1>9, OrderedStays
<1> QED BY <1>12, <1>13 DEF s, f, d, U

LEMMA ContentTold ==
  ASSUME NEW D \in Seq(EntryType), NEW c \in CellContents, NEW fresh, NEW touched,
         NEW j, NEW x, WellTold(j, x, D, c, Unheard(D, fresh, touched, 1)), NEW ids,
         Ordered(j, x, ids)
  PROVE  LET k == PublishContent(j, D, fresh, touched, c)
         IN  WellTold(k, x, D, c, {}) /\ Ordered(k, x, ids)
<1> DEFINE k == PublishContent(j, D, fresh, touched, c)
<1>1. Adds(j, k, ContentEvents) /\ WellTold(k, x, D, c, {})
  BY PublishContentTold
<1> HIDE DEF k
<1>2. x.from \in Nat /\ x.from <= j.last
  BY DEF WellTold
<1>3. Ordered(k, x, ids)
  BY <1>1, <1>2, OrderedStays, ContentIsNotOrder
<1> QED BY <1>1, <1>3 DEF k

\* Edits of cells that stay where they are.
LEMMA EditTold ==
  ASSUME NEW D \in Seq(EntryType), NEW c \in CellContents, NEW c2 \in CellContents,
         NEW touched, EditedTo(c, c2, touched), NEW j, NEW x, WellTold(j, x, D, c, {})
  PROVE  WellTold(j, x, D, c2, Unheard(D, {}, touched, 1))
<1> DEFINE U == Unheard(D, {}, touched, 1)
<1>1. ASSUME NEW id \in IdSet(D) \ U
      PROVE  ContentsOf(D, c2, id) = ContentsOf(D, c, id)
  <2>1. \A n \in DOMAIN D : D[n].id = id => c2[D[n].obj] = c[D[n].obj]
    <3> TAKE n \in DOMAIN D
    <3> HAVE D[n].id = id
    <3>1. n \in 1..Len(D) /\ D[n].obj \in Objects
      BY ObjsAre
    <3>2. touched[D[n].obj] \intersect Aspects = {}
      BY <3>1 DEF U, Unheard
    <3> QED BY <3>1, <3>2 DEF EditedTo
  <2> QED BY <2>1 DEF ContentsOf
<1> QED BY <1>1 DEF WellTold

\* A flush at the end of a call of this client.
LEMMA FlushTold ==
  ASSUME NEW D, NEW c \in CellContents, NEW j, NEW x, WellTold(j, x, D, c, {}),
         NEW ids, Ordered(j, x, ids)
  PROVE  WellTold(Flush(j, c), x, D, c, {}) /\ Ordered(Flush(j, c), x, ids)
         /\ ToSet(Flush(j, c).pending) = {} /\ j.last <= Flush(j, c).last
<1> DEFINE k == Flush(j, c)
<1>1. JournalOk(j) /\ Owned(j, D) /\ x.from \in Nat /\ x.from <= j.last
  BY DEF WellTold
<1>2. Published(j, k, ToSet(j.pending), c)
  BY <1>1, FlushPublishes
<1> HIDE DEF k
<1>3. JournalOk(k) /\ ToSet(k.pending) = {} /\ j.last <= k.last
      /\ Adds(j, k, Outputs(c, ToSet(j.pending)))
  BY <1>2 DEF Published, Adds
<1>4. ASSUME NEW id \in IdSet(D)
      PROVE  Aware(k, x, id, ContentsOf(D, c, id))
  <2>1. \A p \in ToSet(j.pending) : p.id = id => c[p.obj] \in ContentsOf(D, c, id)
    BY <1>1 DEF Owned, ContentsOf
  <2>2. Aware(j, x, id, ContentsOf(D, c, id))
    BY DEF WellTold
  <2> QED BY <1>1, <1>2, <2>1, <2>2, PublishedKeeps
<1>5. Outputs(c, ToSet(j.pending)) \intersect Structurals \subseteq Ordering(ids)
  BY OutputsAreContent, ContentIsNotOrder
<1>6. Ordered(k, x, ids)
  BY <1>1, <1>3, <1>5, OrderedStays
<1>7. x.from <= k.last /\ Owned(k, D)
  BY <1>1, <1>3, LastIsNat DEF JournalOk, Owned
<1>8. WellTold(k, x, D, c, {})
  BY <1>1, <1>3, <1>4, <1>7 DEF WellTold
<1> QED BY <1>3, <1>6, <1>8 DEF k

-------------------------------------------------------------------------------
(* The document, and what is right of it.                                   *)

NoTwice(d) == \A i, n \in DOMAIN d : d[i] = d[n] => i = n

LEMMA EntriesAre ==
  ASSUME NEW d \in Seq(Objects), NoTwice(d), NEW ids \in [Objects -> Ids]
  PROVE  /\ Entries(d, ids) \in Seq(EntryType) /\ Distinct(Entries(d, ids))
         /\ DOMAIN Entries(d, ids) = DOMAIN d /\ Len(Entries(d, ids)) = Len(d)
         /\ \A i \in DOMAIN d : Entries(d, ids)[i] = [obj |-> d[i], id |-> ids[d[i]]]
<1> DEFINE D == Entries(d, ids)
<1>1. DOMAIN D = 1..Len(d) /\ DOMAIN d = 1..Len(d) /\ Len(d) \in Nat
  BY DEF Entries
<1>2. \A i \in DOMAIN d : D[i] = [obj |-> d[i], id |-> ids[d[i]]]
  BY DEF Entries
<1>3. \A i \in 1..Len(d) : D[i] \in EntryType
  <2> TAKE i \in 1..Len(d)
  <2>1. d[i] \in Objects
    OBVIOUS
  <2> QED BY <1>1, <1>2, <2>1 DEF EntryType
<1>4. D = [i \in 1..Len(d) |-> D[i]]
  BY <1>1 DEF Entries
<1>7. Distinct(D)
  BY <1>1, <1>2 DEF Distinct, NoTwice
<1> HIDE DEF D
<1>5. D \in [1..Len(d) -> EntryType]
  BY <1>3, <1>4
<1>6. D \in Seq(EntryType) /\ Len(D) = Len(d)
  BY <1>1, <1>5
<1> QED BY <1>1, <1>2, <1>6, <1>7 DEF D

\* A caller that has just been given everything is right.
LEMMA FreshCaller ==
  ASSUME NEW j, JournalOk(j), NEW D, Owned(j, D), NEW c, NEW x, x.from = j.last,
         \A id \in IdSet(D) : x.known[id] \in KnowsAnyOf(ContentsOf(D, c, id)),
         x.order = IdsOf(D)
  PROVE  WellTold(j, x, D, c, {}) /\ Ordered(j, x, IdsOf(D))
<1>1. j.last \in Nat
  BY LastIsNat DEF JournalOk
<1>2. \A n \in x.from..j.last : n = x.from
  BY <1>1
<1>3. \A id \in IdSet(D) : Informed(j, x, id, ContentsOf(D, c, id))
  BY <1>2 DEF Informed, Latest
<1>4. Ordered(j, x, IdsOf(D))
  BY <1>2 DEF Ordered, Latest
<1> QED BY <1>1, <1>3, <1>4 DEF WellTold, Aware

LEMMA OnCellsTold ==
  ASSUME doc \in Seq(Objects), NoTwice(doc), idOf \in [Objects -> Ids],
         index = Entries(doc, idOf),
         NEW doc2 \in Seq(Objects), NoTwice(doc2), NEW ids2 \in [Objects -> Ids],
         NEW c \in CellContents, NEW c2 \in CellContents, NEW touched, EditedTo(c, c2, touched),
         NEW x, WellTold(journal, x, index, c, {}), Ordered(journal, x, IdsOf(index))
  PROVE  LET seen == OnCells(doc2, ids2, c2, touched)
             D2 == Entries(doc2, ids2)
         IN  /\ seen.index = D2
             /\ WellTold(seen.journal, x, D2, c2, {}) /\ Ordered(seen.journal, x, IdsOf(D2))
<1> DEFINE D2 == Entries(doc2, ids2)
           d == Diff(index, D2)
           s == PublishStructure(Flush(journal, c2), d, index, D2, c2)
           seen == OnCells(doc2, ids2, c2, touched)
<1>1. index \in Seq(EntryType) /\ Distinct(index)
  BY EntriesAre
<1>2. D2 \in Seq(EntryType) /\ Distinct(D2)
  BY EntriesAre
<1> HIDE DEF D2
<1>3. CASE doc2 # doc \/ \E o \in ToSet(doc) : ids2[o] # idOf[o]
  <2>1. seen = [index |-> D2, journal |-> PublishContent(s, D2, d.freshTokens, touched, c2)]
    BY <1>3 DEF OnCells, Restructured, D2
  <2>2. /\ WellTold(s, x, D2, c2, Unheard(D2, d.freshTokens, touched, 1))
        /\ Ordered(s, x, IdsOf(D2))
    BY <1>1, <1>2, RebuildTold
  <2> DEFINE k == PublishContent(s, D2, d.freshTokens, touched, c2)
  <2>3. WellTold(k, x, D2, c2, {}) /\ Ordered(k, x, IdsOf(D2))
    <3> HIDE DEF s, d
    <3> QED BY <1>2, <2>2, ContentTold
  <2> HIDE DEF k, seen
  <2>4. seen.index = D2 /\ seen.journal = k
    BY <2>1 DEF k
  <2> QED BY <2>3, <2>4 DEF seen, D2
<1>4. CASE ~(doc2 # doc \/ \E o \in ToSet(doc) : ids2[o] # idOf[o])
  <2> DEFINE k == PublishContent(journal, index, {}, touched, c2)
  <2>1. seen = [index |-> index, journal |-> k]
    BY <1>4 DEF OnCells
  <2>2. index = D2
    <3>1. \A i \in DOMAIN doc : ids2[doc[i]] = idOf[doc[i]]
      BY <1>4 DEF ToSet
    <3> QED BY <3>1, <1>4 DEF D2, Entries
  <2>3. WellTold(journal, x, index, c2, Unheard(index, {}, touched, 1))
    BY <1>1, EditTold
  <2>4. WellTold(k, x, index, c2, {}) /\ Ordered(k, x, IdsOf(index))
    BY <1>1, <2>3, ContentTold
  <2> HIDE DEF k, seen
  <2>5. seen.index = index /\ seen.journal = k
    BY <2>1
  <2> QED BY <2>2, <2>4, <2>5 DEF seen, D2
<1> QED BY <1>3, <1>4

-------------------------------------------------------------------------------
(* The invariant.                                                           *)

Right(j, x, D, c) == WellTold(j, x, D, c, {}) /\ Ordered(j, x, IdsOf(D))

\* The document has no cell twice, the index has it as it is.
DocumentSound ==
  /\ doc \in Seq(Objects) /\ NoTwice(doc)
  /\ born \in Nat /\ \A i \in DOMAIN doc : doc[i] \in 1..born
  /\ idOf \in [Objects -> Ids] /\ cell \in CellContents
  /\ index = Entries(doc, idOf)

\* The caller as the journal sees it; what is held back is of cells that are there; and
\* a caller that reads is right about the document, or the ring has what it lacks.
Reader == [from |-> changes, known |-> known, order |-> order]
JournalSound == JournalOk(journal) /\ Owned(journal, index)
CallerSound ==
  /\ phase \in {"idle", "paging", "following"}
  /\ changes \in Nat /\ changes <= journal.last
  /\ known \in [Ids -> Knowledge] /\ order \in Seq(Ids)
  /\ phase # "idle" => Right(journal, Reader, index, cell)
NotebookInv == DocumentSound /\ JournalSound /\ CallerSound

\* Someone who has read everything just now.
Newcomer(j, D) == [from |-> j.last, known |-> KnowsNothing, order |-> IdsOf(D)]

LEMMA NewcomerIsRight ==
  ASSUME NEW j, JournalOk(j), NEW D \in Seq(EntryType), Owned(j, D), NEW c
  PROVE  Right(j, Newcomer(j, D), D, c)
<1> DEFINE x == Newcomer(j, D)
<1>1. x.from = j.last /\ x.known = KnowsNothing /\ x.order = IdsOf(D)
  BY DEF Newcomer
<1>2. ASSUME NEW id \in IdSet(D)
      PROVE  KnowsNothing[id] \in KnowsAnyOf(ContentsOf(D, c, id))
  <2>1. id \in Ids
    BY ObjsAre DEF IdSet
  <2>2. KnowsNothing[id] \in Knowledge /\ ~KnowsNothing[id].told
    BY <2>1 DEF KnowsNothing, Knowledge, NoRevision, Revisions
  <2> QED BY <2>2 DEF KnowsAnyOf
<1> HIDE DEF x
<1>3. WellTold(j, x, D, c, {}) /\ Ordered(j, x, IdsOf(D))
  BY <1>1, <1>2, FreshCaller
<1> QED BY <1>3 DEF Right, x

LEMMA RightIsSound ==
  ASSUME NEW j, NEW x, NEW D, NEW c, Right(j, x, D, c)
  PROVE  JournalOk(j) /\ Owned(j, D) /\ x.from \in Nat /\ x.from <= j.last
BY DEF Right, WellTold

\* Only the content of the cells that are there matters.
LEMMA RightOfThoseThere ==
  ASSUME NEW j, NEW x, NEW D, NEW c, NEW c2, Right(j, x, D, c),
         \A i \in DOMAIN D : c2[D[i].obj] = c[D[i].obj]
  PROVE  Right(j, x, D, c2)
<1>1. \A id : ContentsOf(D, c2, id) = ContentsOf(D, c, id)
  BY DEF ContentsOf
<1> QED BY <1>1 DEF Right, WellTold

LEMMA BumpsAre ==
  ASSUME cell \in CellContents, NEW touched, NEW c2,
         c2 = [o \in Objects |->
                 [src  |-> cell[o].src  + (IF "source" \in touched[o] THEN 1 ELSE 0),
                  meta |-> cell[o].meta + (IF "metadata" \in touched[o] THEN 1 ELSE 0),
                  out  |-> cell[o].out  + (IF "outputs" \in touched[o] THEN 1 ELSE 0)]]
  PROVE  c2 \in CellContents /\ EditedTo(cell, c2, touched)
<1>1. \A o \in Objects : /\ cell[o] \in Revisions /\ cell[o].src \in Nat
                         /\ cell[o].meta \in Nat /\ cell[o].out \in Nat
  BY DEF CellContents, Revisions
<1>2. \A o \in Objects : c2[o] \in Revisions
  BY <1>1 DEF Revisions
<1>3. c2 \in CellContents
  BY <1>2 DEF CellContents
<1>4. ASSUME NEW o \in Objects, touched[o] \intersect Aspects = {}
      PROVE  c2[o] = cell[o]
  <2>1. "source" \notin touched[o] /\ "metadata" \notin touched[o] /\ "outputs" \notin touched[o]
    BY <1>4 DEF Aspects
  <2>2. /\ c2[o] \in Revisions /\ c2[o].src = cell[o].src
        /\ c2[o].meta = cell[o].meta /\ c2[o].out = cell[o].out
    BY <1>1, <1>2, <2>1
  <2> QED BY <2>2, <1>1 DEF Revisions
<1> QED BY <1>3, <1>4 DEF EditedTo

LEMMA CommitKeeps ==
  ASSUME NotebookInv, NEW doc2 \in Seq(Objects), NoTwice(doc2),
         \A i \in DOMAIN doc2 : doc2[i] \in (1..born) \union {born + 1},
         NEW ids2 \in [Objects -> Ids], NEW touched, NEW local \in BOOLEAN,
         Commit(doc2, ids2, touched, local)
  PROVE  NotebookInv'
<1> DEFINE cell2 == [o \in Objects |->
                 [src  |-> cell[o].src  + (IF "source" \in touched[o] THEN 1 ELSE 0),
                  meta |-> cell[o].meta + (IF "metadata" \in touched[o] THEN 1 ELSE 0),
                  out  |-> cell[o].out  + (IF "outputs" \in touched[o] THEN 1 ELSE 0)]]
           seen == OnCells(doc2, ids2, cell2, touched)
           D2 == Entries(doc2, ids2)
<1>1. /\ doc' = doc2 /\ idOf' = ids2
      /\ cell' = [o \in Objects |-> IF o \in ToSet(doc2) THEN cell2[o] ELSE NoRevision]
      /\ born' = IF born + 1 \in ToSet(doc2) THEN born + 1 ELSE born
      /\ index' = seen.index
      /\ journal' = IF local THEN Flush(seen.journal, cell2) ELSE seen.journal
      /\ phase' = phase /\ changes' = changes /\ known' = known /\ order' = order
  BY DEF Commit, caller
<1>2. /\ cell \in CellContents /\ doc \in Seq(Objects) /\ NoTwice(doc)
      /\ idOf \in [Objects -> Ids] /\ index = Entries(doc, idOf) /\ born \in Nat
      /\ JournalOk(journal) /\ Owned(journal, index)
  BY DEF NotebookInv, DocumentSound, JournalSound
<1>3. cell2 \in CellContents /\ EditedTo(cell, cell2, touched)
  <2> HIDE DEF cell2
  <2>1. cell2 = cell2
    OBVIOUS
  <2> QED BY <1>2, BumpsAre DEF cell2
<1> HIDE DEF cell2
<1>4. D2 \in Seq(EntryType) /\ DOMAIN D2 = DOMAIN doc2 /\ \A i \in DOMAIN doc2 : D2[i].obj = doc2[i]
  <2>1. /\ D2 \in Seq(EntryType) /\ DOMAIN D2 = DOMAIN doc2
        /\ \A i \in DOMAIN doc2 : D2[i] = [obj |-> doc2[i], id |-> ids2[doc2[i]]]
    BY EntriesAre
  <2> HIDE DEF D2
  <2> QED BY <2>1
<1>5. cell' \in CellContents /\ \A i \in DOMAIN D2 : cell'[D2[i].obj] = cell2[D2[i].obj]
  <2>1. NoRevision \in Revisions
    BY DEF NoRevision, Revisions
  <2>2. cell' \in CellContents
    BY <2>1, <1>1, <1>3 DEF CellContents
  <2>3. \A i \in DOMAIN doc2 : doc2[i] \in ToSet(doc2) /\ doc2[i] \in Objects
    BY DEF ToSet
  <2> HIDE DEF D2, seen
  <2> QED BY <2>2, <2>3, <1>1, <1>4
<1>6. ASSUME NEW x, Right(journal, x, index, cell)
      PROVE  index' = D2 /\ Right(journal', x, D2, cell')
  <2>1. /\ seen.index = D2
        /\ WellTold(seen.journal, x, D2, cell2, {}) /\ Ordered(seen.journal, x, IdsOf(D2))
    BY <1>2, <1>3, <1>6, OnCellsTold DEF Right
  <2> HIDE DEF seen, D2
  <2>2. CASE local
    <3>1. Right(Flush(seen.journal, cell2), x, D2, cell2)
      BY <2>1, <1>3, FlushTold DEF Right
    <3>2. Right(journal', x, D2, cell2)
      BY <2>2, <3>1, <1>1
    <3> QED BY <3>2, <1>1, <2>1, <1>5, RightOfThoseThere
  <2>3. CASE ~local
    <3>1. Right(journal', x, D2, cell2)
      BY <2>1, <2>3, <1>1 DEF Right
    <3> QED BY <3>1, <1>1, <2>1, <1>5, RightOfThoseThere
  <2> QED BY <2>2, <2>3
<1>7. index \in Seq(EntryType)
  BY <1>2, EntriesAre
<1>8. index' = D2 /\ Right(journal', Newcomer(journal, index), D2, cell')
  BY <1>2, <1>6, <1>7, NewcomerIsRight
<1>9. JournalOk(journal') /\ Owned(journal', D2) /\ journal.last <= journal'.last
  BY <1>8, RightIsSound DEF Newcomer
<1>10. DocumentSound'
  <2>1. \A i \in DOMAIN doc2 : doc2[i] \in 1..born' /\ born' \in Nat
    <3> TAKE i \in DOMAIN doc2
    <3>1. doc2[i] \in ToSet(doc2)
      BY DEF ToSet
    <3>2. CASE doc2[i] = born + 1
      BY <3>1, <3>2, <1>1, <1>2
    <3>3. CASE doc2[i] \in 1..born
      BY <3>3, <1>1, <1>2
    <3> QED BY <3>2, <3>3
  <2>2. born' \in Nat
    BY <1>1, <1>2
  <2> HIDE DEF seen
  <2> QED BY <1>1, <1>5, <1>8, <2>1, <2>2 DEF DocumentSound
<1>11. CallerSound'
  <2>1. phase \in {"idle", "paging", "following"} /\ changes \in Nat /\ changes <= journal.last
        /\ known \in [Ids -> Knowledge] /\ order \in Seq(Ids)
        /\ (phase # "idle" => Right(journal, Reader, index, cell))
    BY DEF NotebookInv, CallerSound
  <2>2. changes <= journal'.last
    BY <1>2, <1>9, <2>1, LastIsNat DEF JournalOk
  <2>3. phase # "idle" => Right(journal', Reader, D2, cell')
    BY <1>6, <2>1
  <2>4. Reader' = Reader
    BY <1>1 DEF Reader
  <2> HIDE DEF D2, seen
  <2>5. phase' # "idle" => Right(journal', Reader', index', cell')
    BY <1>1, <1>8, <2>3, <2>4
  <2> QED BY <1>1, <2>1, <2>2, <2>5 DEF CallerSound
<1>12. JournalSound'
  BY <1>8, <1>9 DEF JournalSound
<1> QED BY <1>10, <1>11, <1>12 DEF NotebookInv

-------------------------------------------------------------------------------
(* The actions.                                                             *)

LEMMA InsertIs ==
  ASSUME NEW T, NEW s \in Seq(T), NEW i \in 1..Len(s) + 1, NEW e \in T
  PROVE  LET t == InsertAt(s, i, e)
         IN  /\ t \in Seq(T) /\ Len(t) = Len(s) + 1
             /\ \A n \in 1..Len(s) + 1 :
                  t[n] = IF n < i THEN s[n] ELSE IF n = i THEN e ELSE s[n - 1]
<1> DEFINE a == SubSeq(s, 1, i - 1)
           b == SubSeq(s, i, Len(s))
<1>1. Len(s) \in Nat /\ i \in Nat
  OBVIOUS
<1>2. a \in Seq(T) /\ Len(a) = i - 1 /\ \A n \in 1..i - 1 : a[n] = s[n]
  BY <1>1
<1>3. b \in Seq(T) /\ Len(b) = Len(s) - i + 1 /\ \A n \in 1..Len(s) - i + 1 : b[n] = s[i + n - 1]
  BY <1>1
<1>4. InsertAt(s, i, e) = a \o <<e>> \o b
  BY DEF InsertAt
<1> HIDE DEF a, b
<1> DEFINE h == a \o <<e>>
<1>5. h \in Seq(T) /\ Len(h) = i /\ h[i] = e /\ \A n \in 1..i - 1 : h[n] = a[n]
  BY <1>1, <1>2
<1> HIDE DEF h
<1> DEFINE t == h \o b
<1>6. t \in Seq(T) /\ Len(t) = Len(s) + 1
  <2>0. h \in Seq(T) /\ b \in Seq(T)
    BY <1>3, <1>5
  <2>1. t \in Seq(T) /\ Len(t) = Len(h) + Len(b)
    BY <2>0, ConcatProperties
  <2> HIDE DEF t
  <2> QED BY <2>1, <1>1, <1>3, <1>5
<1>7. \A n \in 1..Len(s) + 1 : t[n] = IF n <= i THEN h[n] ELSE b[n - i]
  <2>1. Len(h) + Len(b) = Len(s) + 1 /\ Len(h) = i
    BY <1>1, <1>3, <1>5
  <2>2. \A n \in 1..Len(h) + Len(b) : t[n] = IF n <= Len(h) THEN h[n] ELSE b[n - Len(h)]
    BY <1>3, <1>5
  <2> HIDE DEF t
  <2> QED BY <2>1, <2>2
<1> HIDE DEF t
<1>8. ASSUME NEW n \in 1..Len(s) + 1
      PROVE  t[n] = IF n < i THEN s[n] ELSE IF n = i THEN e ELSE s[n - 1]
  <2>1. CASE n < i
    BY <2>1, <1>1, <1>2, <1>5, <1>7
  <2>2. CASE n = i
    BY <2>2, <1>1, <1>5, <1>7
  <2>3. CASE n > i
    <3>1. n - i \in 1..Len(s) - i + 1 /\ i + (n - i) - 1 = n - 1 /\ ~(n <= i)
      BY <2>3, <1>1
    <3>2. b[n - i] = s[n - 1]
      BY <3>1, <1>3
    <3> QED BY <2>3, <3>1, <3>2, <1>7, <1>1
  <2> QED BY <2>1, <2>2, <2>3, <1>1
<1> QED BY <1>4, <1>6, <1>8 DEF t, h

LEMMA RemoveIs ==
  ASSUME NEW T, NEW s \in Seq(T), NEW i \in 1..Len(s)
  PROVE  LET t == RemoveAt(s, i)
         IN  /\ t \in Seq(T) /\ Len(t) = Len(s) - 1
             /\ \A n \in 1..Len(s) - 1 : t[n] = IF n < i THEN s[n] ELSE s[n + 1]
<1> DEFINE a == SubSeq(s, 1, i - 1)
           b == SubSeq(s, i + 1, Len(s))
<1>1. Len(s) \in Nat /\ i \in Nat
  OBVIOUS
<1>2. a \in Seq(T) /\ Len(a) = i - 1 /\ \A n \in 1..i - 1 : a[n] = s[n]
  BY <1>1
<1>3. b \in Seq(T) /\ Len(b) = Len(s) - i /\ \A n \in 1..Len(s) - i : b[n] = s[i + n]
  BY <1>1
<1>4. RemoveAt(s, i) = a \o b
  BY DEF RemoveAt
<1> HIDE DEF a, b
<1> DEFINE t == a \o b
<1>6. t \in Seq(T) /\ Len(t) = Len(s) - 1
  BY <1>1, <1>2, <1>3
<1>7. \A n \in 1..Len(s) - 1 : t[n] = IF n <= i - 1 THEN a[n] ELSE b[n - (i - 1)]
  BY <1>1, <1>2, <1>3
<1> HIDE DEF t
<1>8. ASSUME NEW n \in 1..Len(s) - 1
      PROVE  t[n] = IF n < i THEN s[n] ELSE s[n + 1]
  <2>1. CASE n < i
    BY <2>1, <1>1, <1>2, <1>7
  <2>3. CASE n >= i
    <3>1. n - (i - 1) \in 1..Len(s) - i /\ i + (n - (i - 1)) = n + 1 /\ ~(n <= i - 1)
      BY <2>3, <1>1
    <3>2. b[n - (i - 1)] = s[n + 1]
      BY <3>1, <1>3
    <3> QED BY <2>3, <3>1, <3>2, <1>7, <1>1
  <2> QED BY <2>1, <2>3, <1>1
<1> QED BY <1>4, <1>6, <1>8 DEF t

\* A new object, an object less: no object is twice in the document.
LEMMA NewObject ==
  ASSUME NEW b \in Nat, NEW s \in Seq(Objects), NoTwice(s), \A n \in DOMAIN s : s[n] \in 1..b,
         NEW i \in 1..Len(s) + 1, b + 1 \in Objects
  PROVE  LET t == InsertAt(s, i, b + 1)
         IN  /\ t \in Seq(Objects) /\ NoTwice(t)
             /\ \A n \in DOMAIN t : t[n] \in (1..b) \union {b + 1}
<1> DEFINE t == InsertAt(s, i, b + 1)
<1>1. /\ t \in Seq(Objects) /\ Len(t) = Len(s) + 1
      /\ \A n \in 1..Len(s) + 1 :
           t[n] = IF n < i THEN s[n] ELSE IF n = i THEN b + 1 ELSE s[n - 1]
  BY InsertIs
<1> HIDE DEF t
<1>2. DOMAIN t = 1..Len(s) + 1 /\ DOMAIN s = 1..Len(s) /\ Len(s) \in Nat /\ i \in Nat
  BY <1>1
<1>3. \A n \in DOMAIN s : s[n] \in 1..b /\ s[n] # b + 1
  OBVIOUS
<1>4. ASSUME NEW n \in DOMAIN t
      PROVE  \/ n = i /\ t[n] = b + 1
             \/ n < i /\ n \in DOMAIN s /\ t[n] = s[n]
             \/ n > i /\ n - 1 \in DOMAIN s /\ t[n] = s[n - 1]
  <2>1. n \in Nat
    BY <1>2
  <2> QED BY <2>1, <1>1, <1>2
<1>5. \A n \in DOMAIN t : t[n] \in (1..b) \union {b + 1}
  BY <1>3, <1>4
<1>6. NoTwice(t)
  <2> SUFFICES ASSUME NEW m \in DOMAIN t, NEW n \in DOMAIN t, t[m] = t[n] PROVE m = n
    BY DEF NoTwice
  <2>1. m \in Nat /\ n \in Nat
    BY <1>2
  <2>2. \A p, q \in DOMAIN s : s[p] = s[q] => p = q
    BY DEF NoTwice
  <2>3. CASE m = i
    BY <2>3, <1>3, <1>4
  <2>4. CASE n = i
    BY <2>4, <1>3, <1>4
  <2>5. CASE m < i /\ n < i
    BY <2>5, <2>1, <2>2, <1>4
  <2>6. CASE m > i /\ n > i
    <3>3. m - 1 \in DOMAIN s /\ t[m] = s[m - 1]
      BY <2>6, <2>1, <1>2, <1>4
    <3>4. n - 1 \in DOMAIN s /\ t[n] = s[n - 1]
      BY <2>6, <2>1, <1>2, <1>4
    <3>1. m - 1 \in DOMAIN s /\ n - 1 \in DOMAIN s /\ s[m - 1] = s[n - 1]
      BY <3>3, <3>4
    <3>2. m - 1 = n - 1
      BY <3>1, <2>2
    <3> QED BY <3>2, <2>1
  <2>7. CASE m < i /\ n > i
    <3>1. m \in DOMAIN s /\ n - 1 \in DOMAIN s /\ s[m] = s[n - 1]
      BY <2>7, <2>1, <1>2, <1>4
    <3>2. m = n - 1
      BY <3>1, <2>2
    <3> QED BY <3>2, <2>1, <2>7, <1>2
  <2>8. CASE m > i /\ n < i
    <3>1. n \in DOMAIN s /\ m - 1 \in DOMAIN s /\ s[n] = s[m - 1]
      BY <2>8, <2>1, <1>2, <1>4
    <3>2. n = m - 1
      BY <3>1, <2>2
    <3> QED BY <3>2, <2>1, <2>8, <1>2
  <2> QED BY <2>1, <2>3, <2>4, <2>5, <2>6, <2>7, <2>8, <1>2
<1> QED BY <1>1, <1>5, <1>6 DEF t

LEMMA ObjectLess ==
  ASSUME NEW b \in Nat, NEW s \in Seq(Objects), NoTwice(s), \A n \in DOMAIN s : s[n] \in 1..b,
         NEW i \in DOMAIN s
  PROVE  LET t == RemoveAt(s, i)
         IN  /\ t \in Seq(Objects) /\ NoTwice(t) /\ Len(t) = Len(s) - 1
             /\ \A n \in DOMAIN t : t[n] \in 1..b
<1> DEFINE t == RemoveAt(s, i)
<1>0. i \in 1..Len(s)
  OBVIOUS
<1>1. /\ t \in Seq(Objects) /\ Len(t) = Len(s) - 1
      /\ \A n \in 1..Len(s) - 1 : t[n] = IF n < i THEN s[n] ELSE s[n + 1]
  BY <1>0, RemoveIs
<1> HIDE DEF t
<1>2. DOMAIN t = 1..Len(s) - 1 /\ DOMAIN s = 1..Len(s) /\ Len(s) \in Nat /\ i \in Nat
  BY <1>1
<1> DEFINE at(n) == IF n < i THEN n ELSE n + 1
<1>4. \A n \in DOMAIN t : n \in Nat /\ at(n) \in DOMAIN s /\ t[n] = s[at(n)]
  BY <1>1, <1>2
<1>5. \A m, n \in Nat : at(m) = at(n) => m = n
  BY <1>2
<1> HIDE DEF at
<1>6. NoTwice(t)
  <2> SUFFICES ASSUME NEW m \in DOMAIN t, NEW n \in DOMAIN t, t[m] = t[n] PROVE m = n
    BY DEF NoTwice
  <2>1. at(m) = at(n)
    BY <1>4 DEF NoTwice
  <2> QED BY <2>1, <1>4, <1>5
<1>7. \A n \in DOMAIN t : t[n] \in 1..b
  BY <1>4
<1> QED BY <1>1, <1>6, <1>7 DEF t

-------------------------------------------------------------------------------
(* Transactions, and time.                                                  *)

LEMMA EditCellKeeps ==
  ASSUME NotebookInv, NEW local \in BOOLEAN, EditCell(local)
  PROVE  NotebookInv'
<1>1. PICK i \in DOMAIN doc, aspects \in Edits : Commit(doc, idOf, Touching(doc[i], aspects), local)
  BY DEF EditCell
<1>2. doc \in Seq(Objects) /\ NoTwice(doc) /\ idOf \in [Objects -> Ids]
      /\ \A n \in DOMAIN doc : doc[n] \in (1..born) \union {born + 1}
  BY DEF NotebookInv, DocumentSound
<1> QED BY <1>1, <1>2, CommitKeeps

LEMMA InsertCellKeeps ==
  ASSUME NotebookInv, InsertCell
  PROVE  NotebookInv'
<1>1. PICK position \in Positions \intersect (0..Len(doc)), id \in Ids, also \in Along :
        /\ born + 1 \in Objects
        /\ Commit(InsertAt(doc, position + 1, born + 1), [idOf EXCEPT ![born + 1] = id],
                  also, FALSE)
  BY DEF InsertCell
<1>2. doc \in Seq(Objects) /\ NoTwice(doc) /\ idOf \in [Objects -> Ids] /\ born \in Nat
      /\ \A n \in DOMAIN doc : doc[n] \in 1..born
  BY DEF NotebookInv, DocumentSound
<1> DEFINE d2 == InsertAt(doc, position + 1, born + 1)
           i2 == [idOf EXCEPT ![born + 1] = id]
<1>3. position + 1 \in 1..Len(doc) + 1
  BY <1>2
<1>4. d2 \in Seq(Objects) /\ NoTwice(d2) /\ \A n \in DOMAIN d2 : d2[n] \in (1..born) \union {born + 1}
  BY <1>1, <1>2, <1>3, NewObject
<1>5. i2 \in [Objects -> Ids]
  BY <1>2
<1>6. Commit(d2, i2, also, FALSE)
  BY <1>1
<1> HIDE DEF d2, i2
<1> QED BY <1>4, <1>5, <1>6, CommitKeeps

LEMMA DeleteCellKeeps ==
  ASSUME NotebookInv, NEW local \in BOOLEAN, DeleteCell(local)
  PROVE  NotebookInv'
<1>1. PICK position \in DOMAIN doc, also \in Along :
        Commit(RemoveAt(doc, position), idOf, also, local)
  BY DEF DeleteCell
<1>2. doc \in Seq(Objects) /\ NoTwice(doc) /\ idOf \in [Objects -> Ids] /\ born \in Nat
      /\ \A n \in DOMAIN doc : doc[n] \in 1..born
  BY DEF NotebookInv, DocumentSound
<1> DEFINE d2 == RemoveAt(doc, position)
<1>4. d2 \in Seq(Objects) /\ NoTwice(d2) /\ \A n \in DOMAIN d2 : d2[n] \in 1..born
  BY <1>2, ObjectLess
<1>6. Commit(d2, idOf, also, local)
  BY <1>1
<1> HIDE DEF d2
<1>7. \A n \in DOMAIN d2 : d2[n] \in (1..born) \union {born + 1}
  BY <1>4
<1> QED BY <1>2, <1>4, <1>6, <1>7, CommitKeeps

LEMMA MoveCellKeeps ==
  ASSUME NotebookInv, MoveCell
  PROVE  NotebookInv'
<1>1. PICK from \in DOMAIN doc, to \in 0..Len(doc) - 1, also \in Along :
        /\ born + 1 \in Objects
        /\ Commit(InsertAt(RemoveAt(doc, from), to + 1, born + 1),
                  [idOf EXCEPT ![born + 1] = idOf[doc[from]]], also, FALSE)
  BY DEF MoveCell
<1>2. doc \in Seq(Objects) /\ NoTwice(doc) /\ idOf \in [Objects -> Ids] /\ born \in Nat
      /\ \A n \in DOMAIN doc : doc[n] \in 1..born
  BY DEF NotebookInv, DocumentSound
<1> DEFINE d1 == RemoveAt(doc, from)
           d2 == InsertAt(d1, to + 1, born + 1)
           i2 == [idOf EXCEPT ![born + 1] = idOf[doc[from]]]
<1>3. d1 \in Seq(Objects) /\ NoTwice(d1) /\ Len(d1) = Len(doc) - 1
      /\ \A n \in DOMAIN d1 : d1[n] \in 1..born
  BY <1>2, ObjectLess
<1>5. i2 \in [Objects -> Ids]
  <2>1. doc[from] \in Objects
    BY <1>2
  <2> QED BY <2>1, <1>2
<1>6. Commit(d2, i2, also, FALSE)
  BY <1>1
<1> HIDE DEF d1, i2
<1>7. to + 1 \in 1..Len(d1) + 1
  <2>1. Len(doc) \in Nat
    BY <1>2
  <2> QED BY <1>3, <2>1
<1>4. d2 \in Seq(Objects) /\ NoTwice(d2) /\ \A n \in DOMAIN d2 : d2[n] \in (1..born) \union {born + 1}
  BY <1>1, <1>2, <1>3, <1>7, NewObject
<1> HIDE DEF d2
<1> QED BY <1>4, <1>5, <1>6, CommitKeeps

LEMMA RenameCellKeeps ==
  ASSUME NotebookInv, RenameCell
  PROVE  NotebookInv'
<1>1. PICK i \in DOMAIN doc, id \in Ids, also \in Along :
        Commit(doc, [idOf EXCEPT ![doc[i]] = id], also, FALSE)
  BY DEF RenameCell
<1>2. doc \in Seq(Objects) /\ NoTwice(doc) /\ idOf \in [Objects -> Ids]
      /\ \A n \in DOMAIN doc : doc[n] \in (1..born) \union {born + 1}
  BY DEF NotebookInv, DocumentSound
<1> DEFINE i2 == [idOf EXCEPT ![doc[i]] = id]
<1>5. i2 \in [Objects -> Ids]
  BY <1>2
<1>6. Commit(doc, i2, also, FALSE)
  BY <1>1
<1> HIDE DEF i2
<1> QED BY <1>2, <1>5, <1>6, CommitKeeps

\* Records are published, events of other kinds recorded, time passes: the caller stays right.
LEMMA QuietStep ==
  ASSUME NEW j, NEW k, NEW E, NEW x, NEW D, NEW c, Right(j, x, D, c), Adds(j, k, E),
         \A id \in Ids : E \intersect About(id) = {}, E \intersect Structurals = {},
         D \in Seq(EntryType),
         \A p \in ToSet(k.pending) : \E q \in ToSet(j.pending) : q.id = p.id /\ q.obj = p.obj,
         \A q \in ToSet(j.pending) : \E p \in ToSet(k.pending) : q.id = p.id /\ q.obj = p.obj
  PROVE  Right(k, x, D, c)
<1>1. WellTold(j, x, D, c, {}) /\ Ordered(j, x, IdsOf(D))
      /\ JournalOk(j) /\ Owned(j, D) /\ x.from \in Nat /\ x.from <= j.last
  BY DEF Right, WellTold
<1>2. JournalOk(k) /\ j.last <= k.last
  BY DEF Adds
<1>3. Owned(k, D)
  BY <1>1 DEF Owned
<1>4. ASSUME NEW id \in IdSet(D)
      PROVE  Aware(k, x, id, ContentsOf(D, c, id))
  <2>1. Aware(j, x, id, ContentsOf(D, c, id)) /\ id \in Ids
    BY <1>1, ObjsAre DEF WellTold, IdSet
  <2>2. CASE IsPending(j, id)
    BY <2>2, PendingIs DEF Aware
  <2>3. CASE Informed(j, x, id, ContentsOf(D, c, id))
    <3>1. E \intersect About(id) \subseteq GoodFor(ContentsOf(D, c, id))
      BY <2>1
    <3>2. Informed(k, x, id, ContentsOf(D, c, id))
      BY <3>1, <2>3, <1>1, InformedStays
    <3> QED BY <3>2 DEF Aware
  <2> QED BY <2>1, <2>2, <2>3 DEF Aware
<1>5. Ordered(k, x, IdsOf(D))
  <2>1. E \intersect Structurals \subseteq Ordering(IdsOf(D))
    OBVIOUS
  <2> QED BY <2>1, <1>1, OrderedStays
<1>6. x.from <= k.last
  BY <1>1, <1>2, LastIsNat DEF JournalOk
<1> QED BY <1>1, <1>2, <1>3, <1>4, <1>5, <1>6 DEF Right, WellTold

LEMMA PublishedTold ==
  ASSUME NEW j, NEW k, NEW goes, NEW x, NEW D, NEW c, Right(j, x, D, c),
         Published(j, k, goes, c), goes \subseteq ToSet(j.pending)
  PROVE  Right(k, x, D, c)
<1>1. WellTold(j, x, D, c, {}) /\ Ordered(j, x, IdsOf(D))
      /\ JournalOk(j) /\ Owned(j, D) /\ x.from \in Nat /\ x.from <= j.last
  BY DEF Right, WellTold
<1>3. JournalOk(k) /\ j.last <= k.last /\ ToSet(k.pending) \subseteq ToSet(j.pending)
      /\ Adds(j, k, Outputs(c, goes))
  BY DEF Published, Adds
<1>4. ASSUME NEW id \in IdSet(D)
      PROVE  Aware(k, x, id, ContentsOf(D, c, id))
  <2>1. \A p \in goes : p.id = id => c[p.obj] \in ContentsOf(D, c, id)
    BY <1>1 DEF Owned, ContentsOf
  <2>2. Aware(j, x, id, ContentsOf(D, c, id))
    BY <1>1 DEF WellTold
  <2> QED BY <1>1, <2>1, <2>2, PublishedKeeps
<1>5. Outputs(c, goes) \intersect Structurals \subseteq Ordering(IdsOf(D))
  BY OutputsAreContent, ContentIsNotOrder
<1>6. Ordered(k, x, IdsOf(D))
  BY <1>1, <1>3, <1>5, OrderedStays
<1>7. x.from <= k.last /\ Owned(k, D)
  BY <1>1, <1>3, LastIsNat DEF JournalOk, Owned
<1> QED BY <1>1, <1>3, <1>4, <1>6, <1>7 DEF Right, WellTold

\* A step of the journal alone.
LEMMA JournalStepKeeps ==
  ASSUME NotebookInv, UNCHANGED <<document, caller>>,
         \A x : Right(journal, x, index, cell) => Right(journal', x, index, cell)
  PROVE  NotebookInv'
<1>1. /\ index \in Seq(EntryType) /\ JournalOk(journal) /\ Owned(journal, index)
      /\ changes \in Nat /\ changes <= journal.last
      /\ (phase # "idle" => Right(journal, Reader, index, cell))
  BY EntriesAre DEF NotebookInv, DocumentSound, JournalSound, CallerSound
<1>2. Right(journal', Newcomer(journal, index), index, cell)
  BY <1>1, NewcomerIsRight
<1>3. JournalOk(journal') /\ Owned(journal', index) /\ journal.last <= journal'.last
  BY <1>2, RightIsSound DEF Newcomer
<1>4. changes <= journal'.last
  BY <1>1, <1>3, LastIsNat DEF JournalOk
<1>5. DocumentSound'
  BY DEF NotebookInv, DocumentSound, document
<1>6. JournalSound'
  BY <1>3 DEF JournalSound, document
<1>7. CallerSound'
  <2>1. Reader' = Reader /\ index' = index /\ cell' = cell /\ phase' = phase
        /\ changes' = changes /\ known' = known /\ order' = order
    BY DEF Reader, caller, document
  <2>2. phase' # "idle" => Right(journal', Reader', index', cell')
    BY <2>1, <1>1
  <2>3. phase \in {"idle", "paging", "following"} /\ known \in [Ids -> Knowledge]
        /\ order \in Seq(Ids)
    BY DEF NotebookInv, CallerSound
  <2> QED BY <2>1, <2>2, <2>3, <1>1, <1>4 DEF CallerSound
<1> QED BY <1>5, <1>6, <1>7 DEF NotebookInv

LEMMA RecordOtherKeeps ==
  ASSUME NotebookInv, RecordOther
  PROVE  NotebookInv'
<1> DEFINE e == [kind |-> "connection_state", id |-> NoCell, rev |-> NoRevision, ids |-> <<>>]
<1>1. journal' = Publish(journal, e) /\ UNCHANGED <<document, caller>>
  BY DEF RecordOther, document
<1>2. JournalOk(journal) /\ index \in Seq(EntryType)
  BY EntriesAre DEF NotebookInv, JournalSound, DocumentSound
<1>3. /\ e.kind \in Kinds /\ e.id \in Ids \union {NoCell} /\ e.rev \in Revisions
      /\ e.ids \in Seq(Ids) /\ e.kind = "connection_state"
  BY DEF Kinds, NoRevision, Revisions
<1> HIDE DEF e
<1>4. Adds(journal, journal', Described(e)) /\ journal'.pending = journal.pending
  BY <1>1, <1>2, <1>3, PublishAdds
<1>5. /\ \A id \in Ids : Described(e) \intersect About(id) = {}
      /\ Described(e) \intersect Structurals = {}
  BY <1>3 DEF Described, About, Structurals, ContentKinds, Structural
<1>6. \A x : Right(journal, x, index, cell) => Right(journal', x, index, cell)
  BY <1>2, <1>4, <1>5, QuietStep
<1> QED BY <1>1, <1>6, JournalStepKeeps

LEMMA TickKeeps ==
  ASSUME NotebookInv, Tick
  PROVE  NotebookInv'
<1>1. journal' = Later(journal) /\ UNCHANGED <<document, caller>>
  BY DEF Tick
<1>2. JournalOk(journal) /\ index \in Seq(EntryType)
  BY EntriesAre DEF NotebookInv, JournalSound, DocumentSound
<1>3. /\ Adds(journal, journal', {})
      /\ \A p \in ToSet(journal'.pending) :
           \E q \in ToSet(journal.pending) : q.id = p.id /\ q.obj = p.obj
      /\ \A q \in ToSet(journal.pending) :
           \E p \in ToSet(journal'.pending) : q.id = p.id /\ q.obj = p.obj
  BY <1>1, <1>2, LaterKeeps
<1>6. \A x : Right(journal, x, index, cell) => Right(journal', x, index, cell)
  BY <1>2, <1>3, QuietStep
<1> QED BY <1>1, <1>6, JournalStepKeeps

LEMMA TimerFiresKeeps ==
  ASSUME NotebookInv, TimerFires
  PROVE  NotebookInv'
<1>1. journal' = OnTimer(journal, cell) /\ UNCHANGED <<document, caller>>
  BY DEF TimerFires
<1>2. JournalOk(journal) /\ cell \in CellContents
  BY DEF NotebookInv, JournalSound, DocumentSound
<1> DEFINE goes == {p \in ToSet(journal.pending) : p.due = 0}
<1>3. Published(journal, journal', goes, cell) /\ goes \subseteq ToSet(journal.pending)
  BY <1>1, <1>2, OnTimerPublishes
<1> HIDE DEF goes
<1>6. \A x : Right(journal, x, index, cell) => Right(journal', x, index, cell)
  BY <1>3, PublishedTold
<1> QED BY <1>1, <1>6, JournalStepKeeps

-------------------------------------------------------------------------------
(* What events tell a caller, one after the other.                          *)

AboutKinds == ContentKinds \union (Structural \ {"order_changed"})
PlacesAbout(seq, places, id) == {i \in places : seq[i].id = id /\ seq[i].kind \in AboutKinds}
PlacesOfOrder(seq, places) == {i \in places : seq[i].kind \in Structural}

\* The last of some places up to n; 0 if there is none.
LastUpto(P, m, n) == m \in 0..n /\ (m = 0 \/ m \in P) /\ \A i \in m + 1..n : i \notin P

KnowledgeOf(e) == IF e.kind \in ContentKinds THEN [told |-> TRUE, rev |-> e.rev]
                                              ELSE [told |-> FALSE, rev |-> NoRevision]
Heard == [known : [Ids -> Knowledge], order : Seq(Ids)]
Sayable(e) == e.kind \in Kinds /\ e.rev \in Revisions /\ e.ids \in Seq(Ids)

\* What a caller has heard of a sequence: the last of an id, and of the order.
HeardOf(w, seq, places, n, id, v) ==
  \E m \in 0..n : /\ LastUpto(PlacesAbout(seq, places, id), m, n)
                  /\ v = IF m = 0 THEN w ELSE KnowledgeOf(seq[m])
HeardOrder(d, seq, places, n, o) ==
  \E m \in 0..n : /\ LastUpto(PlacesOfOrder(seq, places), m, n)
                  /\ o = IF m = 0 THEN d ELSE seq[m].ids
HeardUpto(st, seq, places, n, s) ==
  /\ \A id \in Ids : HeardOf(st.known[id], seq, places, n, id, s.known[id])
  /\ HeardOrder(st.order, seq, places, n, s.order)

LEMMA NextIsLast ==
  ASSUME NEW P, NEW n \in Nat \ {0}
  PROVE  /\ n \in P => LastUpto(P, n, n)
         /\ n \notin P => \A m \in 0..n - 1 : LastUpto(P, m, n - 1) => LastUpto(P, m, n)
<1>1. \A i \in n + 1..n : FALSE
  OBVIOUS
<1>2. ASSUME n \notin P, NEW m \in 0..n - 1, LastUpto(P, m, n - 1)
      PROVE  LastUpto(P, m, n)
  <2>1. \A i \in m + 1..n : i = n \/ i \in m + 1..n - 1
    OBVIOUS
  <2>2. m \in 0..n
    OBVIOUS
  <2> QED BY <1>2, <2>1, <2>2 DEF LastUpto
<1>3. n \in P => LastUpto(P, n, n)
  BY <1>1 DEF LastUpto
<1> QED BY <1>2, <1>3

LEMMA ToldIs ==
  ASSUME NEW s \in Heard, NEW e, Sayable(e)
  PROVE  /\ Told(s, e) \in Heard
         /\ \A id \in Ids : Told(s, e).known[id] =
              IF e.id = id /\ e.kind \in AboutKinds THEN KnowledgeOf(e) ELSE s.known[id]
         /\ Told(s, e).order = IF e.kind \in Structural THEN e.ids ELSE s.order
<1> DEFINE known2 == CASE e.kind \in ContentKinds ->
                           [s.known EXCEPT ![e.id] = [told |-> TRUE, rev |-> e.rev]]
                      [] e.kind \in Structural \ {"order_changed"} ->
                           [s.known EXCEPT ![e.id] = [told |-> FALSE, rev |-> NoRevision]]
                      [] OTHER -> s.known
           order2 == IF e.kind \in Structural THEN e.ids ELSE s.order
<1>1. s.known \in [Ids -> Knowledge] /\ s.order \in Seq(Ids)
  BY DEF Heard
<1>2. KnowledgeOf(e) \in Knowledge
  BY DEF KnowledgeOf, Knowledge, Sayable, NoRevision, Revisions
<1>3. ContentKinds \intersect (Structural \ {"order_changed"}) = {}
  BY DEF ContentKinds, Structural
<1>4. known2 = IF e.kind \in AboutKinds THEN [s.known EXCEPT ![e.id] = KnowledgeOf(e)] ELSE s.known
  <2>1. CASE e.kind \in ContentKinds
    BY <2>1, <1>3 DEF AboutKinds, KnowledgeOf
  <2>2. CASE e.kind \in Structural \ {"order_changed"}
    <3>1. e.kind \notin ContentKinds
      BY <2>2, <1>3
    <3> QED BY <2>2, <3>1 DEF AboutKinds, KnowledgeOf
  <2>3. CASE e.kind \notin ContentKinds /\ e.kind \notin Structural \ {"order_changed"}
    BY <2>3 DEF AboutKinds
  <2> QED BY <2>1, <2>2, <2>3
<1>5. order2 \in Seq(Ids)
  BY <1>1 DEF Sayable
<1>6. Told(s, e) = [known |-> known2, order |-> order2]
  BY DEF Told
<1> HIDE DEF known2
<1>7. /\ known2 \in [Ids -> Knowledge]
      /\ \A id \in Ids : known2[id] =
           IF e.id = id /\ e.kind \in AboutKinds THEN KnowledgeOf(e) ELSE s.known[id]
  BY <1>1, <1>2, <1>4
<1> HIDE DEF order2
<1>8. Told(s, e) \in Heard
  BY <1>5, <1>6, <1>7 DEF Heard
<1>9. Told(s, e).known = known2 /\ Told(s, e).order = order2
  BY <1>6
<1> QED BY <1>7, <1>8, <1>9 DEF order2

LEMMA OneMoreHeard ==
  ASSUME NEW st, NEW seq, NEW places, NEW n \in Nat \ {0}, NEW s \in Heard,
         HeardUpto(st, seq, places, n - 1, s), Sayable(seq[n])
  PROVE  LET t == IF n \in places THEN Told(s, seq[n]) ELSE s
         IN  t \in Heard /\ HeardUpto(st, seq, places, n, t)
<1> DEFINE e == seq[n]
           t == IF n \in places THEN Told(s, seq[n]) ELSE s
<1>1. /\ t \in Heard
      /\ \A id \in Ids : t.known[id] = IF n \in PlacesAbout(seq, places, id)
                                       THEN KnowledgeOf(seq[n]) ELSE s.known[id]
      /\ t.order = IF n \in PlacesOfOrder(seq, places) THEN seq[n].ids ELSE s.order
  <2>1. CASE n \in places
    <3>1. /\ t \in Heard
          /\ \A id \in Ids : t.known[id] =
               IF e.id = id /\ e.kind \in AboutKinds THEN KnowledgeOf(e) ELSE s.known[id]
          /\ t.order = IF e.kind \in Structural THEN e.ids ELSE s.order
      BY <2>1, ToldIs
    <3> HIDE DEF t
    <3> QED BY <2>1, <3>1 DEF PlacesAbout, PlacesOfOrder
  <2>2. CASE n \notin places
    BY <2>2 DEF PlacesAbout, PlacesOfOrder
  <2> QED BY <2>1, <2>2
<1> HIDE DEF t
<1>2. n \in 0..n /\ \A m \in 0..n - 1 : m \in 0..n
  OBVIOUS
<1>3. ASSUME NEW id \in Ids
      PROVE  HeardOf(st.known[id], seq, places, n, id, t.known[id])
  <2> DEFINE P == PlacesAbout(seq, places, id)
  <2>1. CASE n \in P
    <3>1. LastUpto(P, n, n) /\ n # 0
      BY <2>1, NextIsLast
    <3>2. t.known[id] = KnowledgeOf(seq[n])
      BY <2>1, <1>1
    <3> HIDE DEF P
    <3> QED BY <3>1, <3>2, <1>2 DEF HeardOf, P
  <2>2. CASE n \notin P
    <3>1. PICK m \in 0..n - 1 : /\ LastUpto(P, m, n - 1)
                                /\ s.known[id] = IF m = 0 THEN st.known[id] ELSE KnowledgeOf(seq[m])
      BY DEF HeardUpto, HeardOf
    <3>2. LastUpto(P, m, n)
      BY <2>2, <3>1, NextIsLast
    <3>3. t.known[id] = s.known[id]
      BY <2>2, <1>1
    <3> HIDE DEF P
    <3> QED BY <3>1, <3>2, <3>3, <1>2 DEF HeardOf, P
  <2> QED BY <2>1, <2>2
<1>4. HeardOrder(st.order, seq, places, n, t.order)
  <2> DEFINE P == PlacesOfOrder(seq, places)
  <2>1. CASE n \in P
    <3>1. LastUpto(P, n, n) /\ n # 0
      BY <2>1, NextIsLast
    <3>2. t.order = seq[n].ids
      BY <2>1, <1>1
    <3> HIDE DEF P
    <3> QED BY <3>1, <3>2, <1>2 DEF HeardOrder, P
  <2>2. CASE n \notin P
    <3>1. PICK m \in 0..n - 1 : /\ LastUpto(P, m, n - 1)
                                /\ s.order = IF m = 0 THEN st.order ELSE seq[m].ids
      BY DEF HeardUpto, HeardOrder
    <3>2. LastUpto(P, m, n)
      BY <2>2, <3>1, NextIsLast
    <3>3. t.order = s.order
      BY <2>2, <1>1
    <3> HIDE DEF P
    <3> QED BY <3>1, <3>2, <3>3, <1>2 DEF HeardOrder, P
  <2> QED BY <2>1, <2>2
<1> QED BY <1>1, <1>3, <1>4 DEF HeardUpto, t

LEMMA HearIs ==
  ASSUME NEW st \in Heard, NEW seq, NEW places, Len(seq) \in Nat,
         \A n \in 1..Len(seq) : Sayable(seq[n])
  PROVE  /\ Hear(st, seq, places) \in Heard
         /\ HeardUpto(st, seq, places, Len(seq), Hear(st, seq, places))
<1> DEFINE N == Len(seq)
           X == [n \in 0..N |-> {s \in Heard : HeardUpto(st, seq, places, n, s)}]
           Step(n, s) == IF n \in places THEN Told(s, seq[n]) ELSE s
           g == [n \in 1..N |-> [s \in X[n - 1] |-> Step(n, s)]]
<1>1. N \in Nat /\ \A n \in 1..N : Sayable(seq[n])
  OBVIOUS
<1>15. \A n \in 0..N : X[n] = {s \in Heard : HeardUpto(st, seq, places, n, s)}
  <2> HIDE DEF N
  <2> QED OBVIOUS
<1> HIDE DEF X, N
<1>4. st \in X[0]
  <2>1. \A P : LastUpto(P, 0, 0)
    BY DEF LastUpto
  <2>2. 0 \in 0..0 /\ 0 \in 0..N
    BY <1>1
  <2>3. HeardUpto(st, seq, places, 0, st)
    BY <2>1, <2>2 DEF HeardUpto, HeardOf, HeardOrder
  <2> QED BY <2>2, <2>3, <1>15
<1>5. \A n \in 1..N : \A s \in X[n - 1] : g[n][s] = Step(n, s) /\ Step(n, s) \in X[n]
  <2> TAKE n \in 1..N
  <2> TAKE s \in X[n - 1]
  <2>1. n - 1 \in 0..N /\ n \in 0..N /\ n \in Nat \ {0}
    BY <1>1
  <2>2. s \in Heard /\ HeardUpto(st, seq, places, n - 1, s)
    BY <2>1, <1>15
  <2>3. Step(n, s) \in Heard /\ HeardUpto(st, seq, places, n, Step(n, s))
    BY <1>1, <2>1, <2>2, OneMoreHeard
  <2>4. g[n][s] = Step(n, s)
    <3> HIDE DEF Step
    <3> QED OBVIOUS
  <2> HIDE DEF Step, g
  <2> QED BY <2>1, <2>3, <2>4, <1>15
<1> DEFINE R(f) == f = [n \in 0..N |-> IF n = 0 THEN st ELSE Step(n, f[n - 1])]
<1> HIDE DEF g, Step
<1>6. PICK h : StepsThrough(h, N, X, st, g)
  <2>1. \A n \in 1..N : \A i \in X[n - 1] : g[n][i] \in X[n]
    BY <1>5
  <2> QED BY <1>1, <1>4, <2>1, Recursion
<1>7. R(h)
  <2>1. \A n \in 0..N : n # 0 => n \in 1..N /\ n - 1 \in 0..N
    BY <1>1
  <2>2. \A n \in 0..N : n # 0 => h[n] = Step(n, h[n - 1])
    BY <2>1, <1>5, <1>6 DEF StepsThrough
  <2>3. \A n \in 0..N : h[n] = IF n = 0 THEN st ELSE Step(n, h[n - 1])
    BY <2>2, <1>6 DEF StepsThrough
  <2> QED BY <1>6, <2>3 DEF StepsThrough
<1> DEFINE k == CHOOSE f : R(f)
<1>8. R(k)
  <2> HIDE DEF R
  <2> QED BY <1>7
<1>9. Hear(st, seq, places) = k[N]
  BY DEF Hear, N, Step
<1> HIDE DEF k
<1>10. k[0] \in X[0] /\ \A n \in 1..N : k[n - 1] \in X[n - 1] => k[n] \in X[n]
  <2>1. k[0] = st
    BY <1>1, <1>8
  <2>2. ASSUME NEW n \in 1..N, k[n - 1] \in X[n - 1]
        PROVE  k[n] \in X[n]
    <3>1. n \in 0..N /\ n # 0
      BY <1>1
    <3>2. k[n] = Step(n, k[n - 1])
      BY <3>1, <1>8
    <3> QED BY <3>2, <2>2, <1>5
  <2> QED BY <2>1, <2>2, <1>4
<1>11. \A n \in 0..N : k[n] \in X[n]
  BY <1>1, <1>10, Inductive
<1>12. k[N] \in Heard /\ HeardUpto(st, seq, places, N, k[N])
  BY <1>1, <1>11, <1>15
<1> QED BY <1>9, <1>12 DEF N

-------------------------------------------------------------------------------
(* The events a caller is given.                                            *)

\* The events from a place on.
EventsFrom(j, from, K) == [n \in 1..K |-> At(j, from + n)]

LEMMA EventsAre ==
  ASSUME NEW j, JournalOk(j), NEW from \in Nat, NEW K \in Nat, from + K <= j.last,
         from >= j.last - Limit
  PROVE  /\ Len(EventsFrom(j, from, K)) = K
         /\ \A n \in 1..K : /\ EventsFrom(j, from, K)[n] = At(j, from + n)
                            /\ At(j, from + n) \in JournalEvent /\ At(j, from + n).seq = from + n
                            /\ Sayable(At(j, from + n))
<1>1. j.last \in Nat /\ Limit \in Nat
  BY LastIsNat, JournalBounds DEF JournalOk
<1>2. \A n \in 1..K : from + n \in Recent(j)
  BY <1>1 DEF Recent
<1>3. \A n \in 1..K : /\ At(j, from + n) \in JournalEvent /\ At(j, from + n).seq = from + n
                      /\ Sayable(At(j, from + n))
  BY <1>2 DEF JournalOk, RingSound, JournalEvent, Sayable
<1>4. Len(EventsFrom(j, from, K)) = K
  BY DEF EventsFrom
<1>5. \A n \in 1..K : EventsFrom(j, from, K)[n] = At(j, from + n)
  BY DEF EventsFrom
<1> QED BY <1>3, <1>4, <1>5

LEMMA AboutIs ==
  ASSUME NEW e \in JournalEvent, NEW id
  PROVE  /\ e \in About(id) <=> e.id = id /\ e.kind \in AboutKinds
         /\ e \in Structurals <=> e.kind \in Structural
         /\ \A S : e \in GoodFor(S) => KnowledgeOf(e) \in KnowsAnyOf(S)
<1>1. e.rev \in Revisions /\ NoRevision \in Revisions
  BY DEF JournalEvent, NoRevision, Revisions
<1>2. \A S : e \in GoodFor(S) => KnowledgeOf(e) \in KnowsAnyOf(S)
  BY <1>1 DEF KnowledgeOf, KnowsAnyOf, Knowledge, GoodFor, ContentKinds, Structural
<1>3. e \in About(id) <=> e.id = id /\ e.kind \in AboutKinds
  BY DEF About, AboutKinds
<1>4. e \in Structurals <=> e.kind \in Structural
  BY DEF Structurals
<1> QED BY <1>2, <1>3, <1>4

\* The places of what a caller is given that it hears: all but outputs that a later
\* event of the same cell supersedes.
Keeps(seq, places) ==
  \A n \in 1..Len(seq) : n \notin places =>
     /\ seq[n].kind = "outputs_changed"
     /\ \E m \in n + 1..Len(seq) : seq[m].kind = "outputs_changed" /\ seq[m].id = seq[n].id

\* The last place that is heard is the last there is.
LEMMA LastHeard ==
  ASSUME NEW j, JournalOk(j), NEW from \in Nat, NEW K \in Nat, from + K <= j.last,
         from >= j.last - Limit, NEW places \in SUBSET (1..K),
         Keeps(EventsFrom(j, from, K), places), NEW id, NEW m \in 0..K
  PROVE  /\ LastUpto(PlacesAbout(EventsFrom(j, from, K), places, id), m, K)
              => (m = 0 \/ At(j, from + m) \in About(id))
                 /\ \A i \in m + 1..K : At(j, from + i) \notin About(id)
         /\ LastUpto(PlacesOfOrder(EventsFrom(j, from, K), places), m, K)
              => (m = 0 \/ At(j, from + m) \in Structurals)
                 /\ \A i \in m + 1..K : At(j, from + i) \notin Structurals
<1> DEFINE seq == EventsFrom(j, from, K)
           all == {i \in 1..K : seq[i].id = id /\ seq[i].kind \in AboutKinds}
<1>1. /\ Len(seq) = K
      /\ \A n \in 1..K : seq[n] = At(j, from + n) /\ seq[n] \in JournalEvent
  BY EventsAre
<1> HIDE DEF seq
<1>2. \A n \in 1..K : /\ At(j, from + n) \in About(id) <=> seq[n].id = id /\ seq[n].kind \in AboutKinds
                      /\ At(j, from + n) \in Structurals <=> seq[n].kind \in Structural
  <2> TAKE n \in 1..K
  <2>1. seq[n] = At(j, from + n) /\ seq[n] \in JournalEvent
    BY <1>1
  <2>2. /\ seq[n] \in About(id) <=> seq[n].id = id /\ seq[n].kind \in AboutKinds
        /\ seq[n] \in Structurals <=> seq[n].kind \in Structural
    BY <2>1, AboutIs
  <2> QED BY <2>1, <2>2, Zenon
<1>3. "outputs_changed" \in AboutKinds /\ "outputs_changed" \notin Structural
  BY DEF AboutKinds, ContentKinds, Structural
<1>4. ASSUME LastUpto(PlacesAbout(seq, places, id), m, K)
      PROVE  (m = 0 \/ At(j, from + m) \in About(id))
             /\ \A i \in m + 1..K : At(j, from + i) \notin About(id)
  <2>1. m = 0 \/ At(j, from + m) \in About(id)
    <3> SUFFICES ASSUME m # 0 PROVE At(j, from + m) \in About(id)
      OBVIOUS
    <3>1. m \in PlacesAbout(seq, places, id) /\ m \in 1..K
      BY <1>4 DEF LastUpto
    <3> QED BY <3>1, <1>2 DEF PlacesAbout
  <2>2. ASSUME NEW i \in m + 1..K, At(j, from + i) \in About(id)
        PROVE  FALSE
    <3>1. i \in 1..K /\ i \in all
      BY <2>2, <1>2
    <3>2. PICK n \in all : \A q \in all : q <= n
      <4>1. all \in SUBSET (1..K) /\ all # {} /\ 1 \in Int /\ K \in Int
        BY <3>1
      <4> HIDE DEF all
      <4>2. \E n \in all : \A q \in all : q <= n
        BY <4>1, LastOf
      <4> QED BY <4>2
    <3>3. n \in m + 1..K /\ n \in 1..K
      BY <3>1, <3>2
    <3>4. n \notin places
      BY <1>4, <3>2, <3>3 DEF LastUpto, PlacesAbout
    <3>5. PICK q \in n + 1..K : seq[q].kind = "outputs_changed" /\ seq[q].id = seq[n].id
      BY <1>1, <3>3, <3>4 DEF Keeps, seq
    <3>6. q \in all /\ ~(q <= n)
      BY <3>2, <3>3, <3>5, <1>3
    <3> QED BY <3>2, <3>6
  <2> QED BY <2>1, <2>2
<1>5. ASSUME LastUpto(PlacesOfOrder(seq, places), m, K)
      PROVE  (m = 0 \/ At(j, from + m) \in Structurals)
             /\ \A i \in m + 1..K : At(j, from + i) \notin Structurals
  <2>1. m = 0 \/ At(j, from + m) \in Structurals
    <3> SUFFICES ASSUME m # 0 PROVE At(j, from + m) \in Structurals
      OBVIOUS
    <3>1. m \in PlacesOfOrder(seq, places) /\ m \in 1..K
      BY <1>5 DEF LastUpto
    <3> QED BY <3>1, <1>2 DEF PlacesOfOrder
  <2>2. ASSUME NEW i \in m + 1..K, At(j, from + i) \in Structurals
        PROVE  FALSE
    <3>1. i \in 1..K /\ seq[i].kind \in Structural
      BY <2>2, <1>2
    <3>2. i \notin places
      BY <1>5, <3>1, <2>2 DEF LastUpto, PlacesOfOrder
    <3> QED BY <3>1, <3>2, <1>1, <1>3 DEF Keeps, seq
  <2> QED BY <2>1, <2>2
<1> QED BY <1>4, <1>5 DEF seq

\* A caller that is right stays right when it is given the next events; once it has
\* been given all of them, it knows.
LEMMA GivenIsRight ==
  ASSUME NEW j, NEW x, NEW D \in Seq(EntryType), NEW c, Right(j, x, D, c),
         x.known \in [Ids -> Knowledge], x.order \in Seq(Ids), Served(j, x),
         NEW K \in Nat, x.from + K <= j.last, NEW places \in SUBSET (1..K),
         Keeps(EventsFrom(j, x.from, K), places)
  PROVE  LET s == Hear([known |-> x.known, order |-> x.order], EventsFrom(j, x.from, K), places)
             y == [from |-> x.from + K, known |-> s.known, order |-> s.order]
         IN  s \in Heard /\ Right(j, y, D, c)
<1> DEFINE seq == EventsFrom(j, x.from, K)
           st == [known |-> x.known, order |-> x.order]
           s == Hear(st, seq, places)
           y == [from |-> x.from + K, known |-> s.known, order |-> s.order]
<1>1. /\ JournalOk(j) /\ Owned(j, D) /\ x.from \in Nat /\ x.from <= j.last
      /\ WellTold(j, x, D, c, {}) /\ Ordered(j, x, IdsOf(D))
  BY DEF Right, WellTold
<1>2. j.last \in Nat /\ x.from >= j.last - Limit /\ Limit \in Nat
  BY <1>1, LastIsNat, JournalBounds DEF JournalOk, Served
<1>3. Len(seq) = K /\ \A n \in 1..K : seq[n] = At(j, x.from + n) /\ Sayable(seq[n])
                                      /\ At(j, x.from + n) \in JournalEvent
  BY <1>1, <1>2, EventsAre
<1>4. s \in Heard /\ HeardUpto(st, seq, places, K, s)
  <2>1. st \in Heard
    BY DEF Heard
  <2> HIDE DEF st, seq
  <2> QED BY <2>1, <1>3, HearIs
<1>5. \A m \in 0..K :
        /\ \A id : LastUpto(PlacesAbout(seq, places, id), m, K)
                 => (m = 0 \/ At(j, x.from + m) \in About(id))
                    /\ \A i \in m + 1..K : At(j, x.from + i) \notin About(id)
        /\ LastUpto(PlacesOfOrder(seq, places), m, K)
                 => (m = 0 \/ At(j, x.from + m) \in Structurals)
                    /\ \A i \in m + 1..K : At(j, x.from + i) \notin Structurals
  BY <1>1, <1>2, LastHeard
<1>6. y.from = x.from + K /\ y.known = s.known /\ y.order = s.order
      /\ st.known = x.known /\ st.order = x.order
  OBVIOUS
<1>20. y = [from |-> x.from + K, known |-> s.known, order |-> s.order]
  OBVIOUS
<1> HIDE DEF seq, st, s, y
<1>7. \A n \in x.from..j.last : n <= x.from + K => n - x.from \in 0..K /\ x.from + (n - x.from) = n
  BY <1>1, <1>2
\* Places of the sequence and numbers of the journal.
<1>8. ASSUME NEW m \in 0..K, NEW T, \A i \in m + 1..K : At(j, x.from + i) \notin T,
             \A n \in x.from + K + 1..j.last : At(j, n) \notin T
      PROVE  /\ x.from + m \in x.from..j.last
             /\ \A n \in x.from + m + 1..j.last : At(j, n) \notin T
  <2>1. x.from + m \in x.from..j.last
    BY <1>1, <1>2
  <2>2. ASSUME NEW n \in x.from + m + 1..j.last
        PROVE  At(j, n) \notin T
    <3>1. CASE n \in x.from + K + 1..j.last
      BY <3>1, <1>8
    <3>2. CASE n <= x.from + K
      <4>1. n - x.from \in m + 1..K /\ x.from + (n - x.from) = n
        BY <3>2, <1>1
      <4> QED BY <4>1, <1>8
    <3> QED BY <3>1, <3>2, <1>1
  <2> QED BY <2>1, <2>2
<1>9. ASSUME NEW id \in IdSet(D)
      PROVE  Aware(j, y, id, ContentsOf(D, c, id))
  <2> DEFINE S == ContentsOf(D, c, id)
  <2>0. id \in Ids
    BY ObjsAre DEF IdSet
  <2>1. Aware(j, x, id, S)
    BY <1>1 DEF WellTold
  <2>2. CASE IsPending(j, id)
    BY <2>2 DEF Aware
  <2>3. CASE Informed(j, x, id, S)
    <3> HIDE DEF S
    <3>1. Latest(j, x.from, About(id), GoodFor(S), x.known[id], KnowsAnyOf(S))
      BY <2>3 DEF Informed
    <3>2. SUFFICES ASSUME NEW n \in y.from..j.last,
                          \A m \in n + 1..j.last : At(j, m) \notin About(id),
                          n = y.from \/ At(j, n) \in About(id)
                   PROVE  IF n = y.from THEN y.known[id] \in KnowsAnyOf(S)
                                        ELSE At(j, n) \in GoodFor(S)
      <4> HIDE DEF y
      <4> QED BY DEF Informed, Latest, Aware, S
    <3>3. n \in x.from..j.last /\ n >= x.from + K /\ n \in Nat
      BY <1>1, <1>2, <1>6, <3>2
    <3>4. CASE n # y.from
      <4>1. n # x.from
        BY <3>3, <3>4, <1>1, <1>6
      <4> QED BY <3>1, <3>2, <3>3, <3>4, <4>1 DEF Latest
    <3>5. CASE n = y.from
      <4>1. PICK m \in 0..K : /\ LastUpto(PlacesAbout(seq, places, id), m, K)
                              /\ s.known[id] = IF m = 0 THEN x.known[id] ELSE KnowledgeOf(seq[m])
        BY <2>0, <1>4, <1>6 DEF HeardUpto, HeardOf
      <4>2. /\ m = 0 \/ At(j, x.from + m) \in About(id)
            /\ \A i \in m + 1..K : At(j, x.from + i) \notin About(id)
        BY <4>1, <1>5
      <4>3. \A i \in x.from + K + 1..j.last : At(j, i) \notin About(id)
        BY <3>2, <3>5, <1>6
      <4>4. /\ x.from + m \in x.from..j.last
            /\ \A i \in x.from + m + 1..j.last : At(j, i) \notin About(id)
        BY <4>2, <4>3, <1>8
      <4>5. CASE m = 0
        <5>1. x.from \in x.from..j.last /\ x.from + 0 = x.from
          BY <1>1, <1>2
        <5>2. x.known[id] \in KnowsAnyOf(S)
          BY <4>4, <4>5, <5>1, <3>1 DEF Latest
        <5> QED BY <5>2, <4>1, <4>5, <3>5, <1>6
      <4>6. CASE m # 0
        <5>1. x.from + m # x.from /\ m \in 1..K
          BY <4>6, <1>1
        <5>2. At(j, x.from + m) \in GoodFor(S)
          BY <4>2, <4>4, <4>6, <5>1, <3>1 DEF Latest
        <5>3. KnowledgeOf(seq[m]) \in KnowsAnyOf(S)
          BY <5>1, <5>2, <1>3, AboutIs
        <5> QED BY <5>3, <4>1, <4>6, <3>5, <1>6
      <4> QED BY <4>5, <4>6
    <3> QED BY <3>4, <3>5
  <2> QED BY <2>1, <2>2, <2>3 DEF Aware
<1>10. Ordered(j, y, IdsOf(D))
  <2>1. Latest(j, x.from, Structurals, Ordering(IdsOf(D)), x.order, {IdsOf(D)})
    BY <1>1 DEF Ordered
  <2>2. SUFFICES ASSUME NEW n \in y.from..j.last,
                        \A m \in n + 1..j.last : At(j, m) \notin Structurals,
                        n = y.from \/ At(j, n) \in Structurals
                 PROVE  IF n = y.from THEN y.order \in {IdsOf(D)}
                                      ELSE At(j, n) \in Ordering(IdsOf(D))
    <3> QED BY DEF Ordered, Latest
  <2>3. n \in x.from..j.last /\ n >= x.from + K /\ n \in Nat
    BY <1>1, <1>2, <1>6, <2>2
  <2>4. CASE n # y.from
    <3>1. n # x.from
      BY <2>3, <2>4, <1>1, <1>6
    <3> QED BY <2>1, <2>2, <2>3, <2>4, <3>1 DEF Latest
  <2>5. CASE n = y.from
    <3>1. PICK m \in 0..K : /\ LastUpto(PlacesOfOrder(seq, places), m, K)
                            /\ s.order = IF m = 0 THEN x.order ELSE seq[m].ids
      BY <1>4, <1>6 DEF HeardUpto, HeardOrder
    <3>2. /\ m = 0 \/ At(j, x.from + m) \in Structurals
          /\ \A i \in m + 1..K : At(j, x.from + i) \notin Structurals
      BY <3>1, <1>5
    <3>3. \A i \in x.from + K + 1..j.last : At(j, i) \notin Structurals
      BY <2>2, <2>5, <1>6
    <3>4. /\ x.from + m \in x.from..j.last
          /\ \A i \in x.from + m + 1..j.last : At(j, i) \notin Structurals
      BY <3>2, <3>3, <1>8
    <3>5. CASE m = 0
      <4>1. x.from \in x.from..j.last /\ x.from + 0 = x.from
        BY <1>1, <1>2
      <4>2. x.order \in {IdsOf(D)}
        BY <3>4, <3>5, <4>1, <2>1 DEF Latest
      <4> QED BY <4>2, <3>1, <3>5, <2>5, <1>6
    <3>6. CASE m # 0
      <4>1. x.from + m # x.from /\ m \in 1..K
        BY <3>6, <1>1
      <4>2. At(j, x.from + m) \in Ordering(IdsOf(D))
        BY <3>2, <3>4, <3>6, <4>1, <2>1 DEF Latest
      <4>3. seq[m].ids = IdsOf(D)
        BY <4>1, <4>2, <1>3 DEF Ordering
      <4> QED BY <4>3, <3>1, <3>6, <2>5, <1>6
    <3> QED BY <3>5, <3>6
  <2> QED BY <2>4, <2>5
<1>11. y.from \in Nat /\ y.from <= j.last
  BY <1>1, <1>6
<1>12. Right(j, y, D, c)
  BY <1>1, <1>9, <1>10, <1>11 DEF Right, WellTold
<1> QED BY <1>4, <1>12, <1>20 DEF s, st, seq

-------------------------------------------------------------------------------
(* Polls.                                                                   *)

LEMMA SinceIs ==
  ASSUME NEW j, j.last \in Nat, NEW from \in Nat, from <= j.last, NEW limit \in Nat
  PROVE  LET K == Min({limit, j.last - from})
         IN  /\ K \in Nat /\ K <= j.last - from
             /\ Since(j, from, limit) = EventsFrom(j, from, K)
<1> DEFINE K == Min({limit, j.last - from})
<1>1. limit \in Int /\ j.last - from \in Int
  OBVIOUS
<1>2. K = IF limit <= j.last - from THEN limit ELSE j.last - from
  BY <1>1, MaxOfPair
<1>3. Since(j, from, limit) = [n \in 1..K |-> j.ring[(from + n - 1) % Limit]]
  BY DEF Since
<1> HIDE DEF K
<1>4. K \in Nat /\ K <= j.last - from
  BY <1>2
<1>5. Since(j, from, limit) = EventsFrom(j, from, K)
  <2>1. \A n \in 1..K : from + (n - 1) = (from + n) - 1
    BY <1>4
  <2>2. EventsFrom(j, from, K) = [n \in 1..K |-> j.ring[(from + n - 1) % Limit]]
    BY <2>1 DEF EventsFrom, At
  <2> QED BY <1>3, <2>2, Zenon
<1> QED BY <1>4, <1>5 DEF K

LEMMA CoalesceKeeps ==
  ASSUME NEW seq, NEW K \in Nat, DOMAIN seq = 1..K, Len(seq) = K
  PROVE  /\ CoalesceOutputEvents(seq) \in SUBSET (1..K)
         /\ Keeps(seq, CoalesceOutputEvents(seq))
BY DEF CoalesceOutputEvents, Keeps

LEMMA NotExpiredIsServed ==
  ASSUME NEW j, JournalOk(j), NEW from \in Nat, ~IsExpired(j, from)
  PROVE  from >= j.last - Limit
<1>1. j.last \in Nat /\ Limit \in Nat
  BY LastIsNat, JournalBounds DEF JournalOk
<1>2. OldestSequence(j) = IF 1 >= j.last - Limit + 1 THEN 1 ELSE j.last - Limit + 1
  BY <1>1, MaxOfPair DEF OldestSequence
<1>3. CASE j.last > 0
  BY <1>1, <1>2, <1>3 DEF IsExpired
<1>4. CASE ~(j.last > 0)
  BY <1>1, <1>4
<1> QED BY <1>3, <1>4

\* The caller alone changes.
LEMMA CallerStepKeeps ==
  ASSUME NotebookInv, UNCHANGED <<document, journal>>, CallerSound'
  PROVE  NotebookInv'
BY DEF NotebookInv, DocumentSound, JournalSound, document

LEMMA StartOverKeeps ==
  ASSUME NotebookInv, StartOver
  PROVE  NotebookInv'
<1>1. journal.last \in Nat
  BY LastIsNat DEF NotebookInv, JournalSound, JournalOk
<1>2. KnowsNothing \in [Ids -> Knowledge]
  BY DEF KnowsNothing, Knowledge, NoRevision, Revisions
<1>3. CallerSound'
  BY <1>1, <1>2 DEF StartOver, CallerSound
<1> QED BY <1>3, CallerStepKeeps DEF StartOver

LEMMA PollKeeps ==
  ASSUME NotebookInv, Poll
  PROVE  NotebookInv'
<1>1. CASE IsExpired(journal, changes)
  BY <1>1, StartOverKeeps DEF Poll
<1>2. CASE ~IsExpired(journal, changes)
  <2>1. PICK limit \in PollLimits :
          LET page   == Since(journal, changes, limit)
              after  == Hear([known |-> known, order |-> order], page,
                             CoalesceOutputEvents(page))
          IN  /\ changes' = IF page = <<>> THEN changes ELSE page[Len(page)].seq
              /\ known' = after.known /\ order' = after.order
              /\ UNCHANGED <<document, journal, phase>>
    BY <1>2 DEF Poll
  <2> DEFINE K == Min({limit, journal.last - changes})
             page == EventsFrom(journal, changes, K)
             places == CoalesceOutputEvents(page)
             after == Hear([known |-> known, order |-> order], page, places)
  <2>3. /\ JournalOk(journal) /\ changes \in Nat /\ changes <= journal.last
        /\ phase = "following" /\ Right(journal, Reader, index, cell)
        /\ known \in [Ids -> Knowledge] /\ order \in Seq(Ids)
        /\ index \in Seq(EntryType)
    BY EntriesAre DEF NotebookInv, JournalSound, CallerSound, DocumentSound, Poll
  <2>4. journal.last \in Nat /\ limit \in Nat
    BY <2>3, LastIsNat, ReaderBounds DEF JournalOk
  <2>13. K \in Nat /\ K <= journal.last - changes /\ Since(journal, changes, limit) = page
    BY <2>3, <2>4, SinceIs
  <2>2. /\ changes' = IF page = <<>> THEN changes ELSE page[Len(page)].seq
        /\ known' = after.known /\ order' = after.order
        /\ UNCHANGED <<document, journal, phase>>
    BY <2>1, <2>13
  <2> HIDE DEF K
  <2>5. K \in Nat /\ changes + K <= journal.last
    BY <2>3, <2>4, <2>13
  <2>6. changes >= journal.last - Limit
    BY <1>2, <2>3, NotExpiredIsServed
  <2>7. /\ Len(page) = K /\ DOMAIN page = 1..K
        /\ \A n \in 1..K : page[n].seq = changes + n
    <3>1. DOMAIN page = 1..K
      BY DEF EventsFrom
    <3>2. /\ Len(page) = K
          /\ \A n \in 1..K : page[n] = At(journal, changes + n)
                              /\ At(journal, changes + n).seq = changes + n
      BY <2>3, <2>5, <2>6, EventsAre
    <3> HIDE DEF page
    <3> QED BY <3>1, <3>2
  <2>8. places \in SUBSET (1..K) /\ Keeps(page, places)
    <3> HIDE DEF page
    <3> QED BY <2>5, <2>7, CoalesceKeeps
  <2>9. changes' = changes + K
    <3>1. page = <<>> <=> K = 0
      BY <2>5, <2>7
    <3> HIDE DEF page, after
    <3>2. CASE K = 0
      BY <3>1, <3>2, <2>2, <2>3
    <3>3. CASE K # 0
      <4>1. K \in 1..K
        BY <3>3, <2>5
      <4>2. page[Len(page)].seq = changes + K
        BY <4>1, <2>7
      <4> QED BY <4>2, <3>1, <3>3, <2>2
    <3> QED BY <3>2, <3>3
  <2> DEFINE y == [from |-> changes + K, known |-> after.known, order |-> after.order]
  <2>10. after \in Heard /\ Right(journal, y, index, cell)
    <3>1. Reader.from = changes /\ Reader.known = known /\ Reader.order = order
      BY DEF Reader
    <3>2. Served(journal, Reader)
      BY <3>1, <2>6 DEF Served
    <3> HIDE DEF places
    <3> QED BY <3>1, <3>2, <2>3, <2>5, <2>8, GivenIsRight
  <2>11. Reader' = y
    <3> HIDE DEF after
    <3> QED BY <2>2, <2>9 DEF Reader
  <2> HIDE DEF page, after, places, y
  <2>12. CallerSound'
    <3>1. changes' \in Nat /\ changes' <= journal'.last
      BY <2>2, <2>3, <2>5, <2>9
    <3>2. known' \in [Ids -> Knowledge] /\ order' \in Seq(Ids)
      BY <2>2, <2>10 DEF Heard
    <3>3. Right(journal', Reader', index', cell')
      BY <2>2, <2>10, <2>11 DEF document
    <3>4. phase' = "following"
      BY <2>2, <2>3
    <3> QED BY <3>1, <3>2, <3>3, <3>4 DEF CallerSound
  <2> QED BY <2>2, <2>12, CallerStepKeeps
<1> QED BY <1>1, <1>2

-------------------------------------------------------------------------------
(* Nothing is missed.                                                       *)

LEMMA InvMissesNothing ==
  ASSUME NotebookInv
  PROVE  NothingMissed
<1> SUFFICES ASSUME phase = "following", changes >= journal.last - Limit
             PROVE  LET final == Hear([known |-> known, order |-> order], Undelivered,
                                      DOMAIN Undelivered)
                    IN  /\ final.order = IdsOf(Entries(doc, idOf))
                        /\ \A i \in DOMAIN doc :
                             LET id == idOf[doc[i]]
                             IN  \/ IsPending(journal, id)
                                 \/ ~final.known[id].told
                                 \/ final.known[id].rev
                                      \in {cell[o] : o \in {x \in ToSet(doc) : idOf[x] = id}}
  BY DEF NothingMissed
<1> DEFINE K == journal.last - changes
           seq == EventsFrom(journal, changes, K)
           final == Hear([known |-> known, order |-> order], seq, 1..K)
           y == [from |-> changes + K, known |-> final.known, order |-> final.order]
<1>1. /\ JournalOk(journal) /\ changes \in Nat /\ changes <= journal.last
      /\ Right(journal, Reader, index, cell)
      /\ known \in [Ids -> Knowledge] /\ order \in Seq(Ids)
      /\ doc \in Seq(Objects) /\ NoTwice(doc) /\ idOf \in [Objects -> Ids]
      /\ index = Entries(doc, idOf)
  BY DEF NotebookInv, JournalSound, CallerSound, DocumentSound
<1>2. journal.last \in Nat /\ K \in Nat /\ changes + K = journal.last
  <2>1. journal.last \in Nat
    BY <1>1, LastIsNat DEF JournalOk
  <2> QED BY <2>1, <1>1
<1>3. Undelivered = seq /\ DOMAIN Undelivered = 1..K
  <2>1. Undelivered = [n \in 1..K |-> journal.ring[(changes + n - 1) % Limit]]
    BY DEF Undelivered
  <2> HIDE DEF K
  <2>4. \A n \in 1..K : changes + (n - 1) = (changes + n) - 1
    BY <1>1, <1>2
  <2>2. Undelivered = seq
    <3>1. seq = [n \in 1..K |-> journal.ring[(changes + n - 1) % Limit]]
      BY <2>4 DEF EventsFrom, At
    <3> HIDE DEF seq
    <3> QED BY <2>1, <3>1, Zenon
  <2>3. DOMAIN seq = 1..K
    BY DEF EventsFrom
  <2> HIDE DEF seq
  <2> QED BY <2>2, <2>3
<1>4. /\ index \in Seq(EntryType) /\ DOMAIN index = DOMAIN doc
      /\ \A i \in DOMAIN doc : index[i] = [obj |-> doc[i], id |-> idOf[doc[i]]]
  BY <1>1, EntriesAre
<1> HIDE DEF K
<1>5. final \in Heard /\ Right(journal, y, index, cell)
  <2>1. Reader.from = changes /\ Reader.known = known /\ Reader.order = order
    BY DEF Reader
  <2>2. Served(journal, Reader)
    BY <2>1 DEF Served
  <2>3. Len(seq) = K
    BY <1>1, <1>2, EventsAre
  <2>4. Keeps(seq, 1..K)
    BY <2>3 DEF Keeps
  <2>5. changes + K <= journal.last
    BY <1>2
  <2> HIDE DEF seq
  <2> QED BY <2>1, <2>2, <2>4, <2>5, <1>1, <1>2, <1>4, GivenIsRight DEF seq
<1> HIDE DEF seq, final
<1>6. y.from = journal.last /\ y.known = final.known /\ y.order = final.order
  BY <1>2
<1> HIDE DEF y
<1>7. Served(journal, y) /\ journal.last \in journal.last..journal.last
      /\ \A m \in journal.last + 1..journal.last : FALSE
  BY <1>2, <1>6, JournalBounds DEF Served
<1>8. y.order = IdsOf(index)
  <2>1. Latest(journal, journal.last, Structurals, Ordering(IdsOf(index)), y.order, {IdsOf(index)})
    BY <1>5, <1>6, <1>7 DEF Right, Ordered
  <2>2. y.order \in {IdsOf(index)}
    BY <2>1, <1>7 DEF Latest
  <2> QED BY <2>2
<1>9. ASSUME NEW i \in DOMAIN doc
      PROVE  LET id == idOf[doc[i]]
             IN  \/ IsPending(journal, id)
                 \/ ~final.known[id].told
                 \/ final.known[id].rev \in {cell[o] : o \in {x \in ToSet(doc) : idOf[x] = id}}
  <2> DEFINE id == idOf[doc[i]]
             S == ContentsOf(index, cell, id)
  <2>1. id \in IdSet(index)
    BY <1>4 DEF IdSet
  <2>2. Aware(journal, y, id, S)
    BY <2>1, <1>5 DEF Right, WellTold
  <2>3. S \subseteq {cell[o] : o \in {x \in ToSet(doc) : idOf[x] = id}}
    BY <1>4 DEF ContentsOf, ToSet
  <2>4. CASE Informed(journal, y, id, S)
    <3> HIDE DEF S, id
    <3>1. Latest(journal, journal.last, About(id), GoodFor(S), y.known[id], KnowsAnyOf(S))
      BY <2>4, <1>6, <1>7 DEF Informed
    <3>2. y.known[id] \in KnowsAnyOf(S)
      BY <3>1, <1>7 DEF Latest
    <3>3. ~final.known[id].told \/ final.known[id].rev \in S
      BY <3>2, <1>6 DEF KnowsAnyOf
    <3> QED BY <3>3, <2>3 DEF id
  <2> HIDE DEF S
  <2> QED BY <2>2, <2>4 DEF Aware
<1>10. final.order = IdsOf(Entries(doc, idOf))
  BY <1>1, <1>6, <1>8
<1> QED BY <1>3, <1>9, <1>10 DEF final

-------------------------------------------------------------------------------
(* The pages.                                                               *)

LEMMA TruncateIs ==
  ASSUME NEW obj \in Objects, NEW from \in Boundaries[obj], NEW budget \in Nat
  PROVE  TruncateUtf8(obj, from, budget) \in Nat /\ TruncateUtf8(obj, from, budget) >= from
<1> DEFINE T == {b \in Boundaries[obj] : b <= from + budget}
<1>1. Boundaries[obj] \in SUBSET Nat
  BY ReadBounds, ReaderBounds
<1>2. T \in SUBSET (0..from + budget) /\ from \in T /\ 0 \in Int /\ from + budget \in Int
  BY <1>1
<1>3. TruncateUtf8(obj, from, budget) = Max(T)
  BY DEF TruncateUtf8
<1> HIDE DEF T
<1>4. \E n \in T : \A m \in T : m <= n
  BY <1>2, LastOf
<1>5. T \in SUBSET Nat
  BY <1>2
<1>6. \E n \in T : \A m \in T : n >= m
  BY <1>4, <1>5
<1>7. Max(T) \in T /\ \A m \in T : Max(T) >= m
  BY <1>6 DEF Max
<1> QED BY <1>2, <1>3, <1>5, <1>7

PartType == [obj : Objects, src : Nat, from : Nat, to : Nat]
SourceCursors(D) == {SourceCursor(D, o, s, b) : o \in Objects, s \in Nat, b \in Nat \ {0}}
PageType(D) == [used : Nat, parts : Seq(PartType), ended : BOOLEAN, refused : BOOLEAN,
                next : {NoCursor} \union SourceCursors(D)]

\* The first n cells of a page that starts at a place: those taken are the cells
\* there, in order, from their beginning but for the first; and a cursor that is
\* not of a page is of the last of them.
Follows(D, c, start, given) ==
  \A m \in 1..Len(given) :
    /\ given[m].obj = D[start.offset + m].obj
    /\ given[m].src = c[D[start.offset + m].obj].src
    /\ given[m].from = IF m = 1 THEN start.byte ELSE 0
CutAt(D, c, start, given, next) ==
  /\ Len(given) > 0
  /\ LET o == D[start.offset + Len(given)].obj
     IN  \E b \in Nat \ {0} : next = SourceCursor(D, o, c[o].src, b)
Taken(D, c, start, n, page) ==
  /\ Len(page.parts) <= n
  /\ ~page.ended => Len(page.parts) = n /\ page.next = NoCursor
  /\ Len(page.parts) = 0 => page.refused \/ ~page.ended
  /\ Follows(D, c, start, page.parts)
  /\ page.next # NoCursor => CutAt(D, c, start, page.parts, page.next)
StartsWell(D, start) ==
  /\ start.offset \in 0..Len(D) /\ start.byte \in Nat
  /\ start.offset < Len(D) => start.byte \in Boundaries[D[start.offset + 1].obj]

LEMMA PageFields ==
  ASSUME NEW D, NEW page \in PageType(D)
  PROVE  /\ page.used \in Nat /\ page.parts \in Seq(PartType) /\ page.ended \in BOOLEAN
         /\ page.refused \in BOOLEAN /\ page.next \in {NoCursor} \union SourceCursors(D)
         /\ page = [used |-> page.used, parts |-> page.parts, ended |-> page.ended,
                    refused |-> page.refused, next |-> page.next]
<1> DEFINE S == Seq(PartType)
           C == {NoCursor} \union SourceCursors(D)
<1>1. page \in [used : Nat, parts : S, ended : BOOLEAN, refused : BOOLEAN, next : C]
  BY DEF PageType
<1> HIDE DEF S, C
<1>2. /\ page.used \in Nat /\ page.parts \in S /\ page.ended \in BOOLEAN
      /\ page.refused \in BOOLEAN /\ page.next \in C
      /\ page = [used |-> page.used, parts |-> page.parts, ended |-> page.ended,
                    refused |-> page.refused, next |-> page.next]
  BY <1>1
<1> QED BY <1>2 DEF S, C

\* A page that is ended keeps what it has.
LEMMA EndedKeeps ==
  ASSUME NEW D, NEW c, NEW start, NEW n \in Nat, NEW page \in PageType(D),
         Taken(D, c, start, n, page), NEW q,
         \/ q = [page EXCEPT !.ended = TRUE] /\ (Len(page.parts) = 0 => page.refused)
         \/ q = [page EXCEPT !.ended = TRUE, !.refused = TRUE]
  PROVE  q \in PageType(D) /\ Taken(D, c, start, n + 1, q)
<1> DEFINE S == Seq(PartType)
           C == {NoCursor} \union SourceCursors(D)
<1>1. /\ page.used \in Nat /\ page.parts \in S /\ page.ended \in BOOLEAN
      /\ page.refused \in BOOLEAN /\ page.next \in C
      /\ page = [used |-> page.used, parts |-> page.parts, ended |-> page.ended,
                    refused |-> page.refused, next |-> page.next]
  BY PageFields
<1>5. Len(page.parts) \in Nat
  BY <1>1
<1> HIDE DEF S, C
<1>2. q = [used |-> page.used, parts |-> page.parts, ended |-> TRUE,
           refused |-> q.refused, next |-> page.next] /\ q.refused \in BOOLEAN
      /\ (Len(page.parts) = 0 => q.refused)
  <2>1. CASE q = [page EXCEPT !.ended = TRUE] /\ (Len(page.parts) = 0 => page.refused)
    BY <2>1, <1>1
  <2>2. CASE q = [page EXCEPT !.ended = TRUE, !.refused = TRUE]
    BY <2>2, <1>1
  <2> QED BY <2>1, <2>2
<1>3. q \in [used : Nat, parts : S, ended : BOOLEAN, refused : BOOLEAN, next : C]
  BY <1>1, <1>2
<1>4. q.parts = page.parts /\ q.next = page.next /\ q.ended = TRUE
  BY <1>2
<1>6. Taken(D, c, start, n + 1, q)
  BY <1>2, <1>4, <1>5 DEF Taken
<1> QED BY <1>3, <1>6 DEF PageType, S, C

LEMMA TakeCellTakes ==
  ASSUME NEW D \in Seq(EntryType), NEW c \in CellContents, NEW start, StartsWell(D, start),
         NEW n \in 1..Len(D) - start.offset, NEW page \in PageType(D),
         Taken(D, c, start, n - 1, page)
  PROVE  LET q == TakeCell(page, D, c, start, start.offset + n)
         IN  q \in PageType(D) /\ Taken(D, c, start, n, q)
<1> DEFINE i == start.offset + n
           obj == D[i].obj
           from == IF i = start.offset + 1 THEN start.byte ELSE 0
           room == Max({0, MaxBytes - page.used})
           to == TruncateUtf8(obj, from, room)
           full == \/ page.ended
                   \/ Len(page.parts) >= MaxCells
                   \/ page.used >= MaxBytes /\ page.parts # <<>>
           more == to < Utf8Length(obj)
           next == IF more THEN SourceCursor(PageBinding(D), obj, c[obj].src,
                                             start.byte + to - from)
                   ELSE NoCursor
           part == [obj |-> obj, src |-> c[obj].src, from |-> from, to |-> to]
           q == TakeCell(page, D, c, start, i)
<1>0. /\ start.offset \in Nat /\ n \in Nat \ {0} /\ i \in 1..Len(D) /\ Len(D) \in Nat
      /\ start.byte \in Nat /\ n - 1 \in Nat /\ (n - 1) + 1 = n
      /\ start.byte \in Boundaries[D[start.offset + 1].obj]
      /\ (i = start.offset + 1 <=> n = 1)
  BY DEF StartsWell
<1>1. /\ page.used \in Nat /\ page.parts \in Seq(PartType) /\ Len(page.parts) \in Nat
  BY PageFields
<1>2. obj \in Objects /\ c[obj].src \in Nat
  <2>1. D[i] \in EntryType
    BY <1>0
  <2>2. obj \in Objects
    BY <2>1 DEF EntryType
  <2> HIDE DEF obj
  <2> QED BY <2>2 DEF CellContents, Revisions
<1>3. from \in Nat /\ from \in Boundaries[obj] /\ from = (IF n = 1 THEN start.byte ELSE 0)
  BY <1>0, <1>2, ReadBounds, ReaderBounds
<1>4. room \in Nat
  <2>1. MaxBytes - page.used \in Int /\ 0 \in Int
    BY <1>1, ReadBounds
  <2>2. room = IF 0 >= MaxBytes - page.used THEN 0 ELSE MaxBytes - page.used
    BY <2>1, MaxOfPair
  <2> QED BY <2>1, <2>2
<1>5. to \in Nat /\ to >= from
  BY <1>2, <1>3, <1>4, TruncateIs
<1>6. q = IF full THEN [page EXCEPT !.ended = TRUE]
          ELSE IF to = from /\ more
          THEN [page EXCEPT !.ended = TRUE, !.refused = TRUE]
          ELSE [used |-> page.used + to - from, parts |-> Append(page.parts, part),
                ended |-> more, refused |-> FALSE, next |-> next]
  BY DEF TakeCell
<1>7. full /\ Len(page.parts) = 0 => page.refused
  BY <1>1, ReadBounds DEF Taken
<1>20. i = start.offset + n /\ obj = D[i].obj /\ PageBinding(D) = D
  BY DEF PageBinding
<1>21. ~full => ~page.ended
  OBVIOUS
<1>22. part = [obj |-> obj, src |-> c[obj].src, from |-> from, to |-> to]
  OBVIOUS
<1>23. next = IF more THEN SourceCursor(PageBinding(D), obj, c[obj].src,
                                             start.byte + to - from)
                   ELSE NoCursor
  OBVIOUS
<1>24. more \in BOOLEAN
  OBVIOUS
<1> HIDE DEF i, obj, from, room, to, full, more, next, part, q
<1>8. ASSUME full \/ (to = from /\ more)
      PROVE  q \in PageType(D) /\ Taken(D, c, start, n, q)
  <2>1. \/ q = [page EXCEPT !.ended = TRUE] /\ (Len(page.parts) = 0 => page.refused)
        \/ q = [page EXCEPT !.ended = TRUE, !.refused = TRUE]
    BY <1>6, <1>7, <1>8
  <2>2. q \in PageType(D) /\ Taken(D, c, start, (n - 1) + 1, q)
    BY <2>1, <1>0, EndedKeeps
  <2> QED BY <2>2, <1>0
<1>10. ASSUME ~full, ~(to = from /\ more)
       PROVE  q \in PageType(D) /\ Taken(D, c, start, n, q)
  <2> DEFINE given == Append(page.parts, part)
             u == page.used + to - from
             S == Seq(PartType)
             C == {NoCursor} \union SourceCursors(D)
  <2>1. q = [used |-> u, parts |-> given, ended |-> more, refused |-> FALSE, next |-> next]
    BY <1>6, <1>10
  <2>2. Len(page.parts) = n - 1 /\ page.next = NoCursor
    BY <1>10, <1>21 DEF Taken
  <2>3. part \in PartType /\ part.obj = obj /\ part.src = c[obj].src /\ part.from = from
    BY <1>2, <1>3, <1>5, <1>22 DEF PartType
  <2>4. /\ given \in S /\ Len(given) = n /\ given[n] = part
        /\ \A m \in 1..n - 1 : given[m] = page.parts[m]
    BY <1>0, <1>1, <2>2, <2>3
  <2>5. u \in Nat
    BY <1>1, <1>3, <1>5
  <2>6. more => \E b \in Nat \ {0} : next = SourceCursor(D, obj, c[obj].src, b)
    <3> SUFFICES ASSUME more PROVE \E b \in Nat \ {0} : next = SourceCursor(D, obj, c[obj].src, b)
      OBVIOUS
    <3> DEFINE b == start.byte + to - from
    <3>1. b \in Nat \ {0}
      BY <1>0, <1>3, <1>5, <1>10
    <3>2. next = SourceCursor(D, obj, c[obj].src, b)
      BY <1>20, <1>23
    <3> HIDE DEF b
    <3> QED BY <3>1, <3>2
  <2>7. next \in C /\ (~more => next = NoCursor)
    <3>1. CASE more
      BY <3>1, <2>6, <1>2 DEF SourceCursors
    <3>2. CASE ~more
      BY <3>2, <1>23
    <3> QED BY <3>1, <3>2
  <2>8. Follows(D, c, start, given)
    <3> SUFFICES ASSUME NEW m \in 1..n
                 PROVE  /\ given[m].obj = D[start.offset + m].obj
                        /\ given[m].src = c[D[start.offset + m].obj].src
                        /\ given[m].from = IF m = 1 THEN start.byte ELSE 0
      BY <2>4 DEF Follows
    <3>1. CASE m = n
      BY <3>1, <2>3, <2>4, <1>3, <1>20
    <3>2. CASE m # n
      <4>1. m \in 1..n - 1
        BY <3>2, <1>0
      <4> HIDE DEF given
      <4>2. m \in 1..Len(page.parts) /\ given[m] = page.parts[m]
        BY <4>1, <2>2, <2>4
      <4> QED BY <4>2 DEF Taken, Follows
    <3> QED BY <3>1, <3>2
  <2> HIDE DEF given, u, S, C
  <2>9. q \in [used : Nat, parts : S, ended : BOOLEAN, refused : BOOLEAN, next : C]
    BY <2>1, <2>4, <2>5, <2>7, <1>24
  <2>10. q.parts = given /\ q.ended = more /\ q.next = next
    BY <2>1
  <2>11. next # NoCursor => CutAt(D, c, start, given, next)
    BY <2>4, <2>6, <2>7, <1>0, <1>20 DEF CutAt
  <2>12. Taken(D, c, start, n, q)
    BY <1>0, <2>4, <2>7, <2>8, <2>10, <2>11 DEF Taken
  <2> QED BY <2>9, <2>12 DEF PageType, S, C
<1>11. q \in PageType(D) /\ Taken(D, c, start, n, q)
  BY <1>8, <1>10
<1> QED BY <1>11 DEF q, i

\* What one page of cells is.
LEMMA CellsPageIs ==
  ASSUME NEW D \in Seq(EntryType), NEW c \in CellContents, NEW cur,
         StartsWell(D, Selected(D, cur))
  PROVE  LET start == Selected(D, cur)
             p == CellsPage(D, c, cur)
             end == start.offset + Len(p.parts)
         IN  /\ p.parts \in Seq(PartType) /\ end <= Len(D)
             /\ ~p.refused /\ start.offset < Len(D) => Len(p.parts) > 0
             /\ Follows(D, c, start, p.parts)
             /\ \/ p.next = NoCursor /\ end = Len(D)
                \/ p.next = PageCursor(D, end) /\ end < Len(D)
                \/ CutAt(D, c, start, p.parts, p.next)
<1> DEFINE start == Selected(D, cur)
           N == Len(D) - start.offset
           empty == [used |-> 0, parts |-> <<>>, ended |-> FALSE, refused |-> FALSE,
                     next |-> NoCursor]
           X == [n \in 0..N |-> {p \in PageType(D) : Taken(D, c, start, n, p)}]
           Step(n, p) == TakeCell(p, D, c, start, start.offset + n)
           g == [n \in 1..N |-> [p \in X[n - 1] |-> Step(n, p)]]
<1> HIDE DEF start
<1>1. /\ start.offset \in Nat /\ N \in Nat /\ StartsWell(D, start) /\ Len(D) \in Nat
      /\ start.offset <= Len(D)
  <2>1. StartsWell(D, start)
    BY DEF start
  <2> QED BY <2>1 DEF StartsWell
<1>15. \A n \in 0..N : X[n] = {p \in PageType(D) : Taken(D, c, start, n, p)}
  <2> HIDE DEF N
  <2> QED OBVIOUS
<1>16. N = Len(D) - start.offset
  OBVIOUS
<1> HIDE DEF X, N
<1>4. empty \in X[0]
  <2> DEFINE S == Seq(PartType)
             C == {NoCursor} \union SourceCursors(D)
  <2>1. <<>> \in S /\ NoCursor \in C
    OBVIOUS
  <2> HIDE DEF S, C
  <2>2. empty \in [used : Nat, parts : S, ended : BOOLEAN, refused : BOOLEAN, next : C]
    BY <2>1
  <2>3. empty.parts = <<>> /\ empty.next = NoCursor /\ empty.ended = FALSE
    OBVIOUS
  <2> HIDE DEF empty
  <2>4. Taken(D, c, start, 0, empty)
    BY <2>3 DEF Taken, Follows
  <2> QED BY <2>2, <2>4, <1>1, <1>15 DEF PageType, S, C
<1>5. \A n \in 1..N : \A p \in X[n - 1] : g[n][p] = Step(n, p) /\ Step(n, p) \in X[n]
  <2> TAKE n \in 1..N
  <2> TAKE p \in X[n - 1]
  <2>1. n - 1 \in 0..N /\ n \in 0..N /\ n \in 1..Len(D) - start.offset
    BY <1>1, <1>16
  <2>2. p \in PageType(D) /\ Taken(D, c, start, n - 1, p)
    BY <2>1, <1>15
  <2>3. Step(n, p) \in PageType(D) /\ Taken(D, c, start, n, Step(n, p))
    BY <1>1, <2>1, <2>2, TakeCellTakes
  <2>4. g[n][p] = Step(n, p)
    <3> HIDE DEF Step
    <3> QED OBVIOUS
  <2> HIDE DEF Step, g
  <2> QED BY <2>1, <2>3, <2>4, <1>15
<1> DEFINE R(f) == f = [n \in 0..N |-> IF n = 0 THEN empty ELSE Step(n, f[n - 1])]
<1>17. \A f : R(f) <=> f = [n \in 0..N |-> IF n = 0 THEN empty ELSE Step(n, f[n - 1])]
  OBVIOUS
<1> HIDE DEF g, Step
<1>6. PICK h : StepsThrough(h, N, X, empty, g)
  <2>1. \A n \in 1..N : \A i \in X[n - 1] : g[n][i] \in X[n]
    BY <1>5
  <2> HIDE DEF empty
  <2> QED BY <1>1, <1>4, <2>1, Recursion
<1>7. R(h)
  <2> HIDE DEF empty
  <2>1. \A n \in 0..N : n # 0 => n \in 1..N /\ n - 1 \in 0..N
    BY <1>1
  <2>2. \A n \in 0..N : n # 0 => h[n] = Step(n, h[n - 1])
    BY <2>1, <1>5, <1>6 DEF StepsThrough
  <2>3. \A n \in 0..N : h[n] = IF n = 0 THEN empty ELSE Step(n, h[n - 1])
    BY <2>2, <1>6 DEF StepsThrough
  <2> QED BY <1>6, <2>3 DEF StepsThrough
<1> DEFINE k == CHOOSE f : R(f)
<1>8. R(k)
  <2> HIDE DEF R
  <2> QED BY <1>7
<1> DEFINE page == k[N]
           p == CellsPage(D, c, cur)
           end == start.offset + Len(page.parts)
<1>9. /\ p.parts = page.parts /\ p.refused = page.refused
      /\ p.next = IF page.next = NoCursor /\ end < Len(D)
                  THEN PageCursor(PageBinding(D), end) ELSE page.next
  BY DEF CellsPage, start, N, Step
<1> HIDE DEF k, p
<1>10. k[0] \in X[0] /\ \A n \in 1..N : k[n - 1] \in X[n - 1] => k[n] \in X[n]
  <2>1. k[0] = empty
    BY <1>1, <1>8
  <2>2. ASSUME NEW n \in 1..N, k[n - 1] \in X[n - 1]
        PROVE  k[n] \in X[n]
    <3>1. n \in 0..N /\ n # 0
      BY <1>1
    <3>2. k[n] = Step(n, k[n - 1])
      BY <3>1, <1>8
    <3> QED BY <3>2, <2>2, <1>5
  <2> QED BY <2>1, <2>2, <1>4
<1>11. \A n \in 0..N : k[n] \in X[n]
  BY <1>1, <1>10, Inductive
<1>12. page \in PageType(D) /\ Taken(D, c, start, N, page)
  BY <1>1, <1>11, <1>15
<1> HIDE DEF page
<1>13. page.parts \in Seq(PartType) /\ Len(page.parts) \in Nat /\ Len(page.parts) <= N
  BY <1>12, PageFields DEF Taken
<1>14. end <= Len(D) /\ end \in Nat
  BY <1>1, <1>13, <1>16
<1> HIDE DEF end
<1>18. \/ p.next = NoCursor /\ end = Len(D)
       \/ p.next = PageCursor(D, end) /\ end < Len(D)
       \/ CutAt(D, c, start, page.parts, p.next)
  <2>1. CASE page.next = NoCursor /\ end < Len(D)
    BY <2>1, <1>9 DEF PageBinding
  <2>2. CASE page.next = NoCursor /\ ~(end < Len(D))
    BY <2>2, <1>9, <1>14, <1>1
  <2>3. CASE page.next # NoCursor
    BY <2>3, <1>9, <1>12 DEF Taken
  <2> QED BY <2>1, <2>2, <2>3
<1>19. Follows(D, c, start, page.parts)
  BY <1>12 DEF Taken
<1>21. ~page.refused /\ start.offset < Len(D) => Len(page.parts) > 0
  BY <1>1, <1>12, <1>13, <1>16 DEF Taken
<1> QED BY <1>9, <1>13, <1>14, <1>18, <1>19, <1>21 DEF start, p, end

-------------------------------------------------------------------------------
(* The rows of pages.                                                       *)

ObjsUpto(D, k) == [i \in 1..k |-> D[i].obj]

LEMMA OneMoreObj ==
  ASSUME NEW D, NEW k \in Nat
  PROVE  Append(ObjsUpto(D, k), D[k + 1].obj) = ObjsUpto(D, k + 1)
<1> DEFINE a == ObjsUpto(D, k)
           b == ObjsUpto(D, k + 1)
           o == D[k + 1].obj
<1>1. Len(a) = k /\ DOMAIN a = 1..k /\ \A i \in 1..k : a[i] = D[i].obj
  BY DEF ObjsUpto
<1>2. DOMAIN b = 1..k + 1 /\ b = [i \in 1..k + 1 |-> b[i]] /\ \A i \in 1..k + 1 : b[i] = D[i].obj
  BY DEF ObjsUpto
<1>3. Append(a, o) = [i \in 1..Len(a) + 1 |-> IF i <= Len(a) THEN a[i] ELSE o]
  BY DEF Append
<1> HIDE DEF a, b
<1>4. \A i \in 1..k + 1 : b[i] = IF i <= k THEN a[i] ELSE o
  <2> TAKE i \in 1..k + 1
  <2>1. CASE i <= k
    BY <2>1, <1>1, <1>2
  <2>2. CASE ~(i <= k)
    <3>1. i = k + 1
      BY <2>2
    <3> QED BY <3>1, <2>2, <1>2
  <2> QED BY <2>1, <2>2
<1>5. Append(a, o) = [i \in 1..k + 1 |-> IF i <= k THEN a[i] ELSE o]
  BY <1>1, <1>3
<1>6. b = [i \in 1..k + 1 |-> IF i <= k THEN a[i] ELSE o]
  BY <1>2, <1>4
<1>7. Append(a, o) = b
  BY <1>5, <1>6, Zenon
<1> QED BY <1>7 DEF a, b

\* The rows of every beginning of what was given.
RowsBy(f, given) ==
  /\ f[0] = <<>>
  /\ \A n \in 1..Len(given) :
       f[n] = IF given[n].from = 0 THEN Append(f[n - 1], given[n].obj) ELSE f[n - 1]
  /\ Rows(given) = f[Len(given)]

LEMMA RowsAre ==
  ASSUME NEW given \in Seq(PartType)
  PROVE  \E f : RowsBy(f, given)
<1> DEFINE N == Len(given)
           X == [n \in 0..N |-> Seq(Objects)]
           Step(n, r) == IF given[n].from = 0 THEN Append(r, given[n].obj) ELSE r
           g == [n \in 1..N |-> [r \in X[n - 1] |-> Step(n, r)]]
<1>1. N \in Nat /\ \A n \in 1..N : given[n].obj \in Objects
  <2>1. \A n \in 1..N : given[n] \in PartType
    OBVIOUS
  <2> QED BY <2>1 DEF PartType
<1>2. \A n \in 0..N : X[n] = Seq(Objects)
  <2> HIDE DEF N
  <2> QED OBVIOUS
<1>16. N = Len(given)
  OBVIOUS
<1> HIDE DEF X, N
<1>3. <<>> \in X[0]
  <2>1. <<>> \in Seq(Objects) /\ 0 \in 0..N
    BY <1>1
  <2> QED BY <2>1, <1>2
<1>4. \A n \in 1..N : \A r \in X[n - 1] : g[n][r] = Step(n, r) /\ g[n][r] \in X[n]
  <2> TAKE n \in 1..N
  <2> TAKE r \in X[n - 1]
  <2>1. n - 1 \in 0..N /\ n \in 0..N
    BY <1>1
  <2>2. r \in Seq(Objects) /\ given[n].obj \in Objects
    BY <2>1, <1>1, <1>2
  <2>3. Step(n, r) \in Seq(Objects)
    BY <2>2
  <2>4. g[n][r] = Step(n, r)
    <3> HIDE DEF Step
    <3> QED OBVIOUS
  <2> HIDE DEF Step, g
  <2> QED BY <2>1, <2>3, <2>4, <1>2
<1> DEFINE R(f) == f = [n \in 0..N |-> IF n = 0 THEN <<>> ELSE Step(n, f[n - 1])]
<1> HIDE DEF g, Step
<1>6. PICK h : StepsThrough(h, N, X, <<>>, g)
  <2>1. \A n \in 1..N : \A i \in X[n - 1] : g[n][i] \in X[n]
    BY <1>4
  <2> QED BY <1>1, <1>3, <2>1, Recursion
<1>7. R(h)
  <2>1. \A n \in 0..N : n # 0 => n \in 1..N /\ n - 1 \in 0..N
    BY <1>1
  <2>2. \A n \in 0..N : n # 0 => h[n] = Step(n, h[n - 1])
    BY <2>1, <1>4, <1>6 DEF StepsThrough
  <2>3. \A n \in 0..N : h[n] = IF n = 0 THEN <<>> ELSE Step(n, h[n - 1])
    BY <2>2, <1>6 DEF StepsThrough
  <2> QED BY <1>6, <2>3 DEF StepsThrough
<1> DEFINE k == CHOOSE f : R(f)
<1>8. R(k)
  <2> HIDE DEF R
  <2> QED BY <1>7
<1>9. Rows(given) = k[N]
  BY DEF Rows, N, Step
<1> HIDE DEF k
<1>10. k[0] = <<>> /\ \A n \in 1..N : k[n] = Step(n, k[n - 1])
  <2>1. \A n \in 1..N : n \in 0..N /\ n # 0
    BY <1>1
  <2> QED BY <2>1, <1>1, <1>8
<1>11. RowsBy(k, given)
  BY <1>9, <1>10, <1>16 DEF RowsBy, Step
<1> QED BY <1>11

LEMMA RowsOfNothing == Rows(<<>>) = <<>>
<1>1. <<>> \in Seq(PartType)
  OBVIOUS
<1>2. PICK f : RowsBy(f, <<>>)
  BY <1>1, RowsAre
<1> QED BY <1>2 DEF RowsBy

LEMMA ConcatIs ==
  ASSUME NEW T, NEW a \in Seq(T), NEW b \in Seq(T)
  PROVE  /\ a \o b \in Seq(T) /\ Len(a \o b) = Len(a) + Len(b)
         /\ Len(a) \in Nat /\ Len(b) \in Nat
         /\ \A n \in 1..Len(a) : (a \o b)[n] = a[n]
         /\ \A n \in 1..Len(b) : (a \o b)[Len(a) + n] = b[n]
<1>1. Len(a) \in Nat /\ Len(b) \in Nat
  OBVIOUS
<1>2. a \o b \in Seq(T) /\ Len(a \o b) = Len(a) + Len(b)
  BY ConcatProperties
<1>3. \A n \in 1..Len(a) + Len(b) : (a \o b)[n] = IF n <= Len(a) THEN a[n] ELSE b[n - Len(a)]
  OBVIOUS
<1> DEFINE t == a \o b
<1> HIDE DEF t
<1>4. \A n \in 1..Len(a) : t[n] = a[n]
  <2> TAKE n \in 1..Len(a)
  <2>1. n \in 1..Len(a) + Len(b) /\ n <= Len(a)
    BY <1>1
  <2> QED BY <2>1, <1>3 DEF t
<1>5. \A n \in 1..Len(b) : t[Len(a) + n] = b[n]
  <2> TAKE n \in 1..Len(b)
  <2>1. Len(a) + n \in 1..Len(a) + Len(b) /\ ~(Len(a) + n <= Len(a)) /\ (Len(a) + n) - Len(a) = n
    BY <1>1
  <2> QED BY <2>1, <1>3 DEF t
<1> QED BY <1>1, <1>2, <1>4, <1>5 DEF t

\* The cells of a page go on where the rows ended.
LEMMA RowsGoOn ==
  ASSUME NEW D, NEW a \in Seq(PartType), NEW b \in Seq(PartType), NEW s \in Nat, NEW k \in Nat,
         k = s \/ k = s + 1, Rows(a) = ObjsUpto(D, k),
         \A m \in 1..Len(b) : b[m].obj = D[s + m].obj /\ (b[m].from = 0 <=> s + m > k)
  PROVE  Rows(a \o b) = ObjsUpto(D, IF s + Len(b) >= k THEN s + Len(b) ELSE k)
<1> DEFINE t == a \o b
           A == Len(a)
           B == Len(b)
<1>1. /\ t \in Seq(PartType) /\ Len(t) = A + B /\ A \in Nat /\ B \in Nat
      /\ \A n \in 1..A : t[n] = a[n]
      /\ \A n \in 1..B : t[A + n] = b[n]
  BY ConcatIs
<1>20. A = Len(a) /\ B = Len(b)
  OBVIOUS
<1> HIDE DEF t, A, B
<1>2. PICK e : RowsBy(e, a)
  BY RowsAre
<1>3. PICK f : RowsBy(f, t)
  BY <1>1, RowsAre
<1>4. f[A] = e[A]
  <2> DEFINE X == [n \in 0..A |-> {e[n]}]
  <2>1. f[0] \in X[0]
    BY <1>1, <1>2, <1>3 DEF RowsBy
  <2>2. ASSUME NEW n \in 1..A, f[n - 1] \in X[n - 1]
        PROVE  f[n] \in X[n]
    <3>1. n - 1 \in 0..A /\ n \in 0..A /\ n \in 1..Len(t) /\ n \in 1..Len(a)
      BY <1>1, <1>20
    <3>2. f[n - 1] = e[n - 1]
      BY <2>2, <3>1
    <3>3. f[n] = IF t[n].from = 0 THEN Append(f[n - 1], t[n].obj) ELSE f[n - 1]
      BY <3>1, <1>3 DEF RowsBy
    <3>4. e[n] = IF a[n].from = 0 THEN Append(e[n - 1], a[n].obj) ELSE e[n - 1]
      BY <3>1, <1>2 DEF RowsBy
    <3>5. t[n] = a[n]
      BY <1>1
    <3>6. f[n] = e[n]
      BY <3>2, <3>3, <3>4, <3>5, Zenon
    <3> QED BY <3>1, <3>6
  <2>3. \A n \in 0..A : f[n] \in X[n]
    <3> HIDE DEF X
    <3> QED BY <1>1, <2>1, <2>2, Inductive
  <2>4. f[A] \in {e[A]}
    BY <1>1, <2>3
  <2> QED BY <2>4
<1>5. f[A] = ObjsUpto(D, k)
  BY <1>2, <1>4, <1>20 DEF RowsBy
<1> DEFINE upto(m) == IF s + m >= k THEN s + m ELSE k
           h == [m \in 0..B |-> f[A + m]]
           Y == [m \in 0..B |-> {ObjsUpto(D, upto(m))}]
<1>6. h[0] \in Y[0]
  <2>1. upto(0) = k /\ h[0] = f[A] /\ 0 \in 0..B
    BY <1>1
  <2>2. Y[0] = {ObjsUpto(D, k)}
    BY <2>1
  <2> QED BY <2>1, <2>2, <1>5
<1>7. ASSUME NEW m \in 1..B, h[m - 1] \in Y[m - 1]
      PROVE  h[m] \in Y[m]
  <2>1. /\ m - 1 \in 0..B /\ m \in 0..B /\ A + m \in 1..Len(t) /\ (A + m) - 1 = A + (m - 1)
        /\ m \in 1..Len(b)
    BY <1>1, <1>20
  <2>2. h[m] = f[A + m] /\ h[m - 1] = f[A + (m - 1)]
    BY <2>1
  <2>3. f[A + m] = IF t[A + m].from = 0 THEN Append(f[(A + m) - 1], t[A + m].obj)
                   ELSE f[(A + m) - 1]
    BY <2>1, <1>3 DEF RowsBy
  <2>4. t[A + m] = b[m] /\ b[m].obj = D[s + m].obj /\ (b[m].from = 0 <=> s + m > k)
    BY <2>1, <1>1
  <2>5. h[m - 1] = ObjsUpto(D, upto(m - 1))
    <3>1. Y[m - 1] = {ObjsUpto(D, upto(m - 1))}
      BY <2>1
    <3> QED BY <3>1, <1>7
  <2> HIDE DEF h
  <2>6. h[m] = IF s + m > k THEN Append(h[m - 1], D[s + m].obj) ELSE h[m - 1]
    BY <2>1, <2>2, <2>3, <2>4
  <2>7. h[m] = ObjsUpto(D, upto(m))
    <3>1. CASE s + m > k
      <4>1. upto(m - 1) = s + (m - 1) /\ upto(m) = s + m /\ s + (m - 1) \in Nat
            /\ (s + (m - 1)) + 1 = s + m
        BY <3>1
      <4>2. Append(ObjsUpto(D, s + (m - 1)), D[s + m].obj) = ObjsUpto(D, s + m)
        <5>1. Append(ObjsUpto(D, s + (m - 1)), D[(s + (m - 1)) + 1].obj)
              = ObjsUpto(D, (s + (m - 1)) + 1)
          BY <4>1, OneMoreObj
        <5> QED BY <5>1, <4>1
      <4> HIDE DEF upto
      <4> QED BY <3>1, <2>5, <2>6, <4>1, <4>2
    <3>2. CASE ~(s + m > k)
      <4>1. upto(m - 1) = k /\ upto(m) = k
        BY <3>2
      <4> HIDE DEF upto
      <4> QED BY <3>2, <2>5, <2>6, <4>1
    <3> QED BY <3>1, <3>2
  <2> HIDE DEF upto
  <2>8. Y[m] = {ObjsUpto(D, upto(m))}
    BY <2>1
  <2> HIDE DEF Y
  <2> QED BY <2>7, <2>8
<1> HIDE DEF Y
<1>8. \A m \in 0..B : h[m] \in Y[m]
  <2> HIDE DEF h
  <2> QED BY <1>1, <1>6, <1>7, Inductive
<1>9. h[B] = ObjsUpto(D, upto(B)) /\ h[B] = f[A + B]
  <2>1. B \in 0..B
    BY <1>1
  <2>2. h[B] = f[A + B]
    BY <2>1
  <2> HIDE DEF h, upto
  <2>3. Y[B] = {ObjsUpto(D, upto(B))}
    BY <2>1 DEF Y
  <2> QED BY <2>1, <2>2, <2>3, <1>8
<1>10. Rows(t) = f[A + B]
  BY <1>1, <1>3 DEF RowsBy
<1> HIDE DEF h
<1>11. Rows(t) = ObjsUpto(D, upto(B))
  BY <1>9, <1>10
<1> QED BY <1>11, <1>20 DEF t

-------------------------------------------------------------------------------
(* A read of several pages.                                                 *)

\* Parts are of the first k cells of a list: every cell has one row there, in
\* order, and what is given of one source is of one revision.
GivenUpto(given, D, k) ==
  /\ Rows(given) = ObjsUpto(D, k)
  /\ \A m \in DOMAIN given : \E i \in 1..k : given[m].obj = D[i].obj
  /\ \A m, n \in DOMAIN given : given[m].obj = given[n].obj => given[m].src = given[n].src

\* What a page gives goes on from where it starts.
Continues(D, start, given) ==
  \A m \in 1..Len(given) :
    /\ given[m].obj = D[start.offset + m].obj
    /\ given[m].from = IF m = 1 THEN start.byte ELSE 0

LEMMA NothingGiven ==
  ASSUME NEW D
  PROVE  GivenUpto(<<>>, D, 0)
<1>1. ObjsUpto(D, 0) = <<>>
  BY DEF ObjsUpto
<1> QED BY <1>1, RowsOfNothing DEF GivenUpto

LEMMA MoreGiven ==
  ASSUME NEW D \in Seq(EntryType), Distinct(D), NEW start, StartsWell(D, start),
         NEW a \in Seq(PartType), NEW b \in Seq(PartType), Continues(D, start, b),
         NEW k \in 0..Len(D), GivenUpto(a, D, k),
         \/ k = start.offset /\ start.byte = 0
         \/ /\ k = start.offset + 1 /\ start.byte # 0 /\ Len(b) > 0
            /\ \A m \in DOMAIN a : a[m].obj = D[k].obj => a[m].src = b[1].src,
         start.offset + Len(b) <= Len(D)
  PROVE  LET end == start.offset + Len(b)
         IN  /\ a \o b \in Seq(PartType) /\ GivenUpto(a \o b, D, end)
             /\ Len(b) > 0 => \A m \in DOMAIN (a \o b) :
                  (a \o b)[m].obj = D[end].obj => (a \o b)[m].src = b[Len(b)].src
<1> DEFINE s == start.offset
           t == a \o b
           end == s + Len(b)
           A == Len(a)
           B == Len(b)
<1>1. /\ t \in Seq(PartType) /\ Len(t) = A + B /\ A \in Nat /\ B \in Nat
      /\ \A n \in 1..A : t[n] = a[n]
      /\ \A n \in 1..B : t[A + n] = b[n]
      /\ DOMAIN t = 1..Len(t) /\ DOMAIN a = 1..A
  <2>1. t \in Seq(PartType)
    BY ConcatIs
  <2> HIDE DEF t
  <2> QED BY <2>1, ConcatIs DEF t
<1>2. /\ s \in Nat /\ Len(D) \in Nat /\ k \in Nat /\ (k = s \/ k = s + 1) /\ k <= Len(D)
      /\ start.byte \in Nat
  BY DEF StartsWell
<1>3. end >= k /\ end \in Nat /\ end <= Len(D) /\ s + B = end
  BY <1>1, <1>2
<1>4. \A m \in 1..B : b[m].obj = D[s + m].obj /\ (b[m].from = 0 <=> s + m > k)
  <2> TAKE m \in 1..B
  <2>1. b[m].obj = D[s + m].obj /\ b[m].from = IF m = 1 THEN start.byte ELSE 0
    BY DEF Continues
  <2>2. CASE k = s /\ start.byte = 0
    BY <2>1, <2>2, <1>1, <1>2
  <2>3. CASE k = s + 1 /\ start.byte # 0
    BY <2>1, <2>3, <1>1, <1>2
  <2> QED BY <2>1, <2>2, <2>3
<1>5. Rows(t) = ObjsUpto(D, end)
  <2>1. Rows(a) = ObjsUpto(D, k)
    BY DEF GivenUpto
  <2>2. Rows(a \o b) = ObjsUpto(D, IF s + Len(b) >= k THEN s + Len(b) ELSE k)
    <3> HIDE DEF s
    <3> QED BY <2>1, <1>2, <1>4, RowsGoOn
  <2> QED BY <2>2, <1>3
\* A part is of the pages before, or of this one.
<1>6. ASSUME NEW m \in DOMAIN t
      PROVE  \/ m \in 1..A /\ m \in DOMAIN a /\ t[m] = a[m]
             \/ \E n \in 1..B : m = A + n /\ t[m] = b[n]
  <2>1. CASE m <= A
    BY <2>1, <1>1
  <2>2. CASE ~(m <= A)
    <3>1. m - A \in 1..B /\ A + (m - A) = m
      BY <2>2, <1>1
    <3> QED BY <3>1, <1>1
  <2> QED BY <2>1, <2>2
<1>20. GivenUpto(a, D, k) /\ DOMAIN D = 1..Len(D)
  OBVIOUS
<1>21. \/ k = s /\ start.byte = 0
       \/ /\ k = s + 1 /\ start.byte # 0 /\ Len(b) > 0
          /\ \A m \in DOMAIN a : a[m].obj = D[k].obj => a[m].src = b[1].src
  OBVIOUS
<1>22. B = Len(b)
  OBVIOUS
<1> HIDE DEF t, s, end, A, B
<1>7. ASSUME NEW m \in 1..A, NEW n \in 1..B, a[m].obj = b[n].obj
      PROVE  a[m].src = b[n].src
  <2>0. m \in DOMAIN a
    BY <1>1
  <2>1. PICK i \in 1..k : a[m].obj = D[i].obj
    BY <2>0, <1>20 DEF GivenUpto
  <2>2. i \in DOMAIN D /\ s + n \in DOMAIN D
    BY <1>1, <1>2, <1>3, <1>20
  <2>3. i = s + n
    BY <2>1, <2>2, <1>4, <1>7 DEF Distinct
  <2>4. k = s + 1 /\ n = 1 /\ i = k
    BY <2>1, <2>3, <1>1, <1>2
  <2>5. k # s
    BY <2>4, <1>2
  <2>6. a[m].obj = D[k].obj
    BY <2>1, <2>4
  <2> QED BY <2>0, <2>4, <2>5, <2>6, <1>21
<1>8. ASSUME NEW m \in 1..B, NEW n \in 1..B, b[m].obj = b[n].obj
      PROVE  m = n
  <2>1. s + m \in DOMAIN D /\ s + n \in DOMAIN D
    BY <1>1, <1>2, <1>3, <1>20
  <2>2. s + m = s + n
    BY <2>1, <1>4, <1>8 DEF Distinct
  <2> QED BY <2>2, <1>1, <1>2
<1>9. \A m \in DOMAIN t : \E i \in 1..end : t[m].obj = D[i].obj
  <2> TAKE m \in DOMAIN t
  <2>1. CASE m \in DOMAIN a /\ t[m] = a[m]
    <3>1. PICK i \in 1..k : a[m].obj = D[i].obj
      BY <2>1, <1>20 DEF GivenUpto
    <3>2. i \in 1..end
      BY <1>2, <1>3
    <3> QED BY <3>1, <3>2, <2>1
  <2>2. CASE \E n \in 1..B : m = A + n /\ t[m] = b[n]
    <3>1. PICK n \in 1..B : t[m] = b[n]
      BY <2>2
    <3>2. s + n \in 1..end
      BY <1>1, <1>2, <1>3
    <3> QED BY <3>1, <3>2, <1>4
  <2> QED BY <2>1, <2>2, <1>6
<1>10. \A m, n \in DOMAIN t : t[m].obj = t[n].obj => t[m].src = t[n].src
  <2> TAKE m \in DOMAIN t, n \in DOMAIN t
  <2> HAVE t[m].obj = t[n].obj
  <2>1. CASE m \in 1..A /\ m \in DOMAIN a /\ t[m] = a[m]
    <3>1. CASE n \in 1..A /\ n \in DOMAIN a /\ t[n] = a[n]
      BY <2>1, <3>1, <1>20 DEF GivenUpto
    <3>2. CASE \E q \in 1..B : n = A + q /\ t[n] = b[q]
      BY <2>1, <3>2, <1>7
    <3> QED BY <3>1, <3>2, <1>6
  <2>2. CASE \E q \in 1..B : m = A + q /\ t[m] = b[q]
    <3>1. CASE n \in 1..A /\ n \in DOMAIN a /\ t[n] = a[n]
      BY <2>2, <3>1, <1>7
    <3>2. CASE \E q \in 1..B : n = A + q /\ t[n] = b[q]
      BY <2>2, <3>2, <1>8
    <3> QED BY <3>1, <3>2, <1>6
  <2> QED BY <2>1, <2>2, <1>6
<1>11. GivenUpto(t, D, end)
  BY <1>5, <1>9, <1>10 DEF GivenUpto
<1>12. ASSUME B > 0, NEW m \in DOMAIN t, t[m].obj = D[end].obj
       PROVE  t[m].src = b[B].src
  <2>1. B \in 1..B /\ A + B \in DOMAIN t
    BY <1>1, <1>12
  <2>2. t[A + B] = b[B] /\ b[B].obj = D[end].obj
    BY <2>1, <1>1, <1>3, <1>4
  <2> QED BY <2>1, <2>2, <1>10, <1>12
<1>13. B > 0 => \A m \in DOMAIN t : t[m].obj = D[end].obj => t[m].src = b[B].src
  BY <1>12
<1> QED BY <1>1, <1>11, <1>13, <1>22 DEF t, end, s

\* Where a cursor that is accepted takes a read up.
UptoOf(cur) == IF cur.kind = "page" THEN cur.offset ELSE PositionOf(cur.bind, cur.obj)
CursorSound(cur) ==
  \/ cur = NoCursor
  \/ \E bind \in Seq(EntryType) : \E n \in 0..Len(bind) : cur = PageCursor(bind, n)
  \/ \E bind \in Seq(EntryType) : \E i \in DOMAIN bind, s \in Nat, b \in Nat \ {0} :
       cur = SourceCursor(bind, bind[i].obj, s, b)

LEMMA PositionIs ==
  ASSUME NEW D \in Seq(EntryType), Distinct(D), NEW i \in DOMAIN D
  PROVE  PositionOf(D, D[i].obj) = i
BY DEF PositionOf, Distinct

LEMMA CursorIs ==
  ASSUME NEW D \in Seq(EntryType), Distinct(D), NEW c \in CellContents, NEW cur,
         CursorSound(cur), ~CursorExpired(D, c, cur)
  PROVE  LET start == Selected(D, cur)
         IN  /\ StartsWell(D, start)
             /\ \/ cur = NoCursor /\ cur.kind = "none" /\ start.offset = 0 /\ start.byte = 0
                \/ /\ cur.kind = "page" /\ cur.bind = D /\ start.byte = 0
                   /\ start.offset = UptoOf(cur)
                \/ /\ cur.kind = "source" /\ cur.bind = D /\ start.byte # 0
                   /\ UptoOf(cur) = start.offset + 1 /\ start.offset < Len(D)
                   /\ cur.obj = D[UptoOf(cur)].obj /\ cur.src = c[cur.obj].src
<1>0. DOMAIN D = 1..Len(D) /\ Len(D) \in Nat /\ \A i \in 1..Len(D) : 0 \in Boundaries[D[i].obj]
  <2>1. \A i \in DOMAIN D : D[i].obj \in Objects
    BY ObjsAre
  <2> QED BY <2>1, ReadBounds, ReaderBounds
<1>1. CASE cur = NoCursor
  <2>1. cur.kind = "none"
    BY <1>1 DEF NoCursor
  <2>2. Selected(D, cur) = [offset |-> 0, byte |-> 0]
    BY <2>1 DEF Selected
  <2>3. StartsWell(D, Selected(D, cur))
    BY <1>0, <2>2 DEF StartsWell
  <2> QED BY <1>1, <2>1, <2>2, <2>3
<1>2. CASE \E bind \in Seq(EntryType) : \E n \in 0..Len(bind) : cur = PageCursor(bind, n)
  <2>1. PICK bind \in Seq(EntryType) : \E n \in 0..Len(bind) : cur = PageCursor(bind, n)
    BY <1>2
  <2>2. PICK n \in 0..Len(bind) : cur = PageCursor(bind, n)
    BY <2>1
  <2>3. cur.kind = "page" /\ cur.bind = bind /\ cur.offset = n
    BY <2>2 DEF PageCursor
  <2>4. bind = D
    BY <2>3 DEF CursorExpired, PageBinding
  <2>5. Selected(D, cur) = [offset |-> cur.offset, byte |-> 0]
    BY <2>3 DEF Selected
  <2>6. StartsWell(D, Selected(D, cur))
    BY <1>0, <2>3, <2>4, <2>5 DEF StartsWell
  <2> QED BY <2>3, <2>4, <2>5, <2>6 DEF UptoOf
<1>3. CASE \E bind \in Seq(EntryType) : \E i \in DOMAIN bind, s \in Nat, b \in Nat \ {0} :
             cur = SourceCursor(bind, bind[i].obj, s, b)
  <2>0. PICK bind \in Seq(EntryType) : \E i \in DOMAIN bind, s \in Nat, b \in Nat \ {0} :
             cur = SourceCursor(bind, bind[i].obj, s, b)
    BY <1>3
  <2>1. PICK i \in DOMAIN bind, s \in Nat, b \in Nat \ {0} :
             cur = SourceCursor(bind, bind[i].obj, s, b)
    BY <2>0
  <2>2. cur.kind = "source" /\ cur.bind = bind /\ cur.obj = bind[i].obj /\ cur.byte = b
        /\ cur.src = s
    BY <2>1 DEF SourceCursor
  <2>3. bind = D /\ cur.byte \in Boundaries[cur.obj] /\ c[cur.obj].src = cur.src
    BY <2>2 DEF CursorExpired, PageBinding
  <2>4. PositionOf(D, cur.obj) = i
    BY <2>2, <2>3, PositionIs
  <2>5. Selected(D, cur) = [offset |-> i - 1, byte |-> b] /\ UptoOf(cur) = i
    BY <2>2, <2>3, <2>4 DEF Selected, UptoOf
  <2>6. i \in 1..Len(D) /\ i - 1 \in 0..Len(D) /\ (i - 1) + 1 = i /\ i - 1 < Len(D) /\ b # 0
    BY <1>0, <2>3
  <2>7. StartsWell(D, Selected(D, cur))
    BY <2>2, <2>3, <2>5, <2>6 DEF StartsWell
  <2> QED BY <2>2, <2>3, <2>5, <2>6, <2>7
<1> QED BY <1>1, <1>2, <1>3 DEF CursorSound

-------------------------------------------------------------------------------
(* What a page tells.                                                       *)

RowsOf(D, rows) ==
  /\ Len(rows) \in Nat /\ DOMAIN rows = 1..Len(rows)
  /\ \A i \in 1..Len(rows) :
       \E n \in DOMAIN D : rows[i].obj = D[n].obj /\ rows[i].id = D[n].id

\* The rows of a page leave a caller with what it knew of a cell, or with what
\* the cell has.
LEMMA RowsTeach ==
  ASSUME index \in Seq(EntryType), cell \in CellContents, NEW rows, RowsOf(index, rows),
         NEW st \in Heard
  PROVE  LET s == Hear(st, [i \in DOMAIN rows |-> Row(rows[i])], DOMAIN rows)
         IN  /\ s \in Heard
             /\ \A id \in Ids : \/ s.known[id] = st.known[id]
                                \/ s.known[id] \in KnowsAnyOf(ContentsOf(index, cell, id))
<1> DEFINE seq == [i \in DOMAIN rows |-> Row(rows[i])]
           N == Len(rows)
           s == Hear(st, seq, DOMAIN rows)
<1>1. /\ N \in Nat /\ DOMAIN rows = 1..N
      /\ \A i \in 1..N : \E n \in DOMAIN index : rows[i].obj = index[n].obj /\ rows[i].id = index[n].id
  BY DEF RowsOf
<1>2. \A i \in 1..N : seq[i] = Row(rows[i])
  BY <1>1
<1>3. Len(seq) = N
  BY <1>1
<1> HIDE DEF N, seq
<1>4. ASSUME NEW i \in 1..N
      PROVE  /\ Sayable(seq[i]) /\ seq[i].kind \in ContentKinds
             /\ \E n \in DOMAIN index : seq[i].id = index[n].id /\ seq[i].rev = cell[index[n].obj]
  <2>1. PICK n \in DOMAIN index : rows[i].obj = index[n].obj /\ rows[i].id = index[n].id
    BY <1>1
  <2>2. index[n].obj \in Objects
    BY <2>1, ObjsAre
  <2>3. seq[i] = [kind |-> "source_changed", id |-> index[n].id, rev |-> cell[index[n].obj],
                  ids |-> <<>>]
    BY <1>2, <2>1 DEF Row
  <2>4. cell[index[n].obj] \in Revisions
    BY <2>2 DEF CellContents
  <2>5. /\ seq[i].kind = "source_changed" /\ seq[i].id = index[n].id
        /\ seq[i].rev = cell[index[n].obj] /\ seq[i].ids = <<>>
    BY <2>3
  <2>6. "source_changed" \in ContentKinds /\ "source_changed" \in Kinds
    BY DEF ContentKinds, Kinds
  <2> QED BY <2>4, <2>5, <2>6 DEF Sayable
<1>5. s \in Heard /\ HeardUpto(st, seq, DOMAIN rows, N, s)
  <2>1. \A i \in 1..Len(seq) : Sayable(seq[i])
    BY <1>3, <1>4
  <2> QED BY <1>1, <1>3, <2>1, HearIs
<1> HIDE DEF s
<1>6. ASSUME NEW id \in Ids, s.known[id] # st.known[id]
      PROVE  s.known[id] \in KnowsAnyOf(ContentsOf(index, cell, id))
  <2>1. PICK m \in 0..N : /\ LastUpto(PlacesAbout(seq, DOMAIN rows, id), m, N)
                          /\ s.known[id] = IF m = 0 THEN st.known[id] ELSE KnowledgeOf(seq[m])
    BY <1>5 DEF HeardUpto, HeardOf
  <2>2. m # 0 /\ m \in PlacesAbout(seq, DOMAIN rows, id) /\ s.known[id] = KnowledgeOf(seq[m])
    BY <2>1, <1>6 DEF LastUpto
  <2>3. m \in 1..N /\ seq[m].id = id
    BY <2>1, <2>2, <1>1 DEF PlacesAbout
  <2>4. PICK n \in DOMAIN index : seq[m].id = index[n].id /\ seq[m].rev = cell[index[n].obj]
    BY <2>3, <1>4
  <2>5. seq[m].kind \in ContentKinds /\ Sayable(seq[m])
    BY <2>3, <1>4
  <2>6. s.known[id] = [told |-> TRUE, rev |-> cell[index[n].obj]]
    BY <2>2, <2>4, <2>5 DEF KnowledgeOf
  <2>7. cell[index[n].obj] \in ContentsOf(index, cell, id)
    BY <2>3, <2>4 DEF ContentsOf
  <2>8. s.known[id] \in Knowledge
    BY <1>5 DEF Heard
  <2>9. s.known[id].rev = cell[index[n].obj]
    BY <2>6
  <2> QED BY <2>7, <2>8, <2>9 DEF KnowsAnyOf
<1> QED BY <1>5, <1>6 DEF s, seq

\* A caller that is right stays so when it is told what the cells have.
LEMMA TaughtIsRight ==
  ASSUME NEW j, NEW x, NEW y, NEW D \in Seq(EntryType), NEW c, Right(j, x, D, c),
         y.from = x.from, y.order = x.order,
         \A id \in Ids : \/ y.known[id] = x.known[id]
                         \/ y.known[id] \in KnowsAnyOf(ContentsOf(D, c, id))
  PROVE  Right(j, y, D, c)
<1>1. /\ JournalOk(j) /\ x.from \in Nat /\ x.from <= j.last /\ Owned(j, D)
      /\ \A id \in IdSet(D) : Aware(j, x, id, ContentsOf(D, c, id))
      /\ Ordered(j, x, IdsOf(D))
  BY DEF Right, WellTold
<1>2. Served(j, y) <=> Served(j, x)
  BY DEF Served
<1>3. Ordered(j, y, IdsOf(D))
  BY <1>1, <1>2 DEF Ordered
<1>4. ASSUME NEW id \in IdSet(D)
      PROVE  Aware(j, y, id, ContentsOf(D, c, id))
  <2> DEFINE S == ContentsOf(D, c, id)
  <2>1. id \in Ids
    BY ObjsAre DEF IdSet
  <2>2. y.known[id] = x.known[id] \/ y.known[id] \in KnowsAnyOf(S)
    BY <2>1
  <2> HIDE DEF S
  <2>3. Informed(j, x, id, S) => Informed(j, y, id, S)
    BY <1>2, <2>2 DEF Informed, Latest
  <2>4. Aware(j, x, id, S)
    BY <1>1 DEF S
  <2> QED BY <2>3, <2>4 DEF Aware, S
<1> QED BY <1>1, <1>3, <1>4 DEF Right, WellTold

LEMMA AcceptKeeps ==
  ASSUME NotebookInv, NEW v, NEW first \in BOOLEAN, first \/ phase # "idle",
         NEW rows, RowsOf(index, rows), NEW given, NEW next, Accept(v, first, rows, given, next)
  PROVE  NotebookInv'
<1> DEFINE st == [known |-> IF first THEN KnowsNothing ELSE known, order |-> order]
           s == Hear(st, [i \in DOMAIN rows |-> Row(rows[i])], DOMAIN rows)
<1>1. /\ journal' = IF v = "summary" THEN Flush(journal, cell) ELSE journal
      /\ phase' \in {"paging", "following"}
      /\ changes' = IF first THEN journal'.last ELSE changes
      /\ order' = IF first THEN IdsOf(index) ELSE order
      /\ known' = s.known
      /\ UNCHANGED document
  BY DEF Accept
<1>2. /\ JournalOk(journal) /\ Owned(journal, index) /\ changes \in Nat /\ changes <= journal.last
      /\ known \in [Ids -> Knowledge] /\ order \in Seq(Ids)
      /\ cell \in CellContents /\ index \in Seq(EntryType)
      /\ (phase # "idle" => Right(journal, Reader, index, cell))
  BY EntriesAre DEF NotebookInv, JournalSound, CallerSound, DocumentSound
<1>3. \A x : Right(journal, x, index, cell) => Right(journal', x, index, cell)
  <2>1. \A x : Right(journal, x, index, cell) => Right(Flush(journal, cell), x, index, cell)
    BY <1>2, FlushTold DEF Right
  <2> QED BY <1>1, <2>1
<1>4. KnowsNothing \in [Ids -> Knowledge]
  BY DEF KnowsNothing, Knowledge, NoRevision, Revisions
<1>5. /\ s \in Heard
      /\ \A id \in Ids : \/ s.known[id] = st.known[id]
                         \/ s.known[id] \in KnowsAnyOf(ContentsOf(index, cell, id))
  <2>1. st \in Heard
    BY <1>2, <1>4 DEF Heard
  <2> HIDE DEF st
  <2> QED BY <1>2, <2>1, RowsTeach
<1>6. st.known = IF first THEN KnowsNothing ELSE known
  OBVIOUS
<1> HIDE DEF st, s
<1>7. Right(journal', Newcomer(journal, index), index, cell)
  BY <1>2, <1>3, NewcomerIsRight
<1>8. JournalOk(journal') /\ Owned(journal', index) /\ journal.last <= journal'.last
  BY <1>7, RightIsSound DEF Newcomer
<1>9. journal.last \in Nat /\ journal'.last \in Nat
  BY <1>2, <1>8, LastIsNat DEF JournalOk
<1>10. known' \in [Ids -> Knowledge] /\ order' \in Seq(Ids)
  BY <1>1, <1>2, <1>5, IdsAreSeq DEF Heard
<1>11. changes' \in Nat /\ changes' <= journal'.last
  BY <1>1, <1>2, <1>8, <1>9
<1>12. /\ Reader'.from = changes' /\ Reader'.known = known' /\ Reader'.order = order'
       /\ Reader.from = changes /\ Reader.known = known /\ Reader.order = order
  BY DEF Reader
<1>13. Right(journal', Reader', index, cell)
  <2>1. CASE first
    <3>1. \A id \in IdSet(index) : Reader'.known[id] \in KnowsAnyOf(ContentsOf(index, cell, id))
      <4> TAKE id \in IdSet(index)
      <4>1. id \in Ids
        BY <1>2, ObjsAre DEF IdSet
      <4>2. KnowsNothing[id] \in Knowledge /\ ~KnowsNothing[id].told
        BY <4>1 DEF KnowsNothing, Knowledge, NoRevision, Revisions
      <4>3. KnowsNothing[id] \in KnowsAnyOf(ContentsOf(index, cell, id))
        BY <4>2 DEF KnowsAnyOf
      <4> QED BY <2>1, <4>1, <4>3, <1>1, <1>5, <1>6, <1>12
    <3>2. Reader'.from = journal'.last /\ Reader'.order = IdsOf(index)
      BY <2>1, <1>1, <1>12
    <3> QED BY <3>1, <3>2, <1>8, FreshCaller DEF Right
  <2>2. CASE ~first
    <3>1. Right(journal', Reader, index, cell)
      BY <2>2, <1>2, <1>3
    <3>2. Reader'.from = Reader.from /\ Reader'.order = Reader.order
      BY <2>2, <1>1, <1>12
    <3>3. \A id \in Ids : \/ Reader'.known[id] = Reader.known[id]
                          \/ Reader'.known[id] \in KnowsAnyOf(ContentsOf(index, cell, id))
      BY <2>2, <1>1, <1>5, <1>6, <1>12
    <3> QED BY <3>1, <3>2, <3>3, <1>2, TaughtIsRight
  <2> QED BY <2>1, <2>2
<1>14. CallerSound'
  BY <1>1, <1>10, <1>11, <1>13 DEF CallerSound, document
<1>15. JournalSound'
  BY <1>1, <1>8 DEF JournalSound, document
<1>16. DocumentSound'
  BY <1>1 DEF DocumentSound, document, NotebookInv
<1> QED BY <1>14, <1>15, <1>16 DEF NotebookInv

-------------------------------------------------------------------------------
(* A read goes on from page to page.                                        *)

\* What was given reaches up to the cursor, and of a source that is cut, it is of
\* the revision the cursor has.
ReadUpto(given, cur) ==
  /\ GivenUpto(given, cur.bind, UptoOf(cur))
  /\ cur.kind = "source" =>
       \A m \in DOMAIN given : given[m].obj = cur.obj => given[m].src = cur.src

\* After a page of the document D: the cursor of the next, or all of it.
PagesNow(D, given, next) ==
  /\ given \in Seq(PartType) /\ CursorSound(next)
  /\ next = NoCursor => GivenUpto(given, D, Len(D))
  /\ next # NoCursor => /\ next.kind \in {"page", "source"} /\ ReadUpto(given, next)
                        /\ next.bind = D /\ UptoOf(next) \in 0..Len(D)

LEMMA PageGoesOn ==
  ASSUME NEW D \in Seq(EntryType), Distinct(D), NEW c \in CellContents,
         NEW base \in Seq(PartType), NEW cur, CursorSound(cur), ~CursorExpired(D, c, cur),
         cur = NoCursor => base = <<>>, cur # NoCursor => ReadUpto(base, cur),
         NEW b \in Seq(PartType), NEW start, start = Selected(D, cur),
         NEW end, end = start.offset + Len(b), end <= Len(D), Continues(D, start, b),
         cur.kind = "source" => Len(b) > 0 /\ b[1].src = c[cur.obj].src,
         NEW next,
         \/ next = NoCursor /\ end = Len(D)
         \/ next = PageCursor(D, end) /\ end < Len(D)
         \/ CutAt(D, c, start, b, next) /\ b[Len(b)].src = c[D[end].obj].src
  PROVE  PagesNow(D, base \o b, next)
<1> DEFINE t == base \o b
<1>1. /\ StartsWell(D, start)
      /\ \/ cur = NoCursor /\ cur.kind = "none" /\ start.offset = 0 /\ start.byte = 0
         \/ /\ cur.kind = "page" /\ cur.bind = D /\ start.byte = 0
            /\ start.offset = UptoOf(cur)
         \/ /\ cur.kind = "source" /\ cur.bind = D /\ start.byte # 0
            /\ UptoOf(cur) = start.offset + 1 /\ start.offset < Len(D)
            /\ cur.obj = D[UptoOf(cur)].obj /\ cur.src = c[cur.obj].src
  BY CursorIs
<1>2. Len(D) \in Nat /\ DOMAIN D = 1..Len(D) /\ start.offset \in 0..Len(D) /\ Len(b) \in Nat
  BY <1>1 DEF StartsWell
<1>3. end \in 0..Len(D)
  BY <1>2
<1>8. PICK k \in 0..Len(D) :
        /\ GivenUpto(base, D, k)
        /\ \/ k = start.offset /\ start.byte = 0
           \/ /\ k = start.offset + 1 /\ start.byte # 0 /\ Len(b) > 0
              /\ \A m \in DOMAIN base : base[m].obj = D[k].obj => base[m].src = b[1].src
  <2>1. CASE cur = NoCursor
    <3>1. base = <<>> /\ start.offset = 0 /\ start.byte = 0
      BY <2>1, <1>1 DEF NoCursor
    <3>2. 0 \in 0..Len(D) /\ GivenUpto(base, D, 0)
      BY <3>1, <1>2, NothingGiven
    <3> QED BY <3>1, <3>2
  <2>2. CASE cur # NoCursor /\ cur.kind = "page"
    <3>1. GivenUpto(base, D, start.offset) /\ start.byte = 0
      BY <2>2, <1>1 DEF ReadUpto
    <3> QED BY <3>1, <1>2
  <2>3. CASE cur # NoCursor /\ cur.kind = "source"
    <3>1. /\ GivenUpto(base, D, UptoOf(cur)) /\ start.byte # 0 /\ UptoOf(cur) = start.offset + 1
          /\ cur.obj = D[UptoOf(cur)].obj /\ cur.src = c[cur.obj].src
          /\ start.offset < Len(D)
      BY <2>3, <1>1 DEF ReadUpto
    <3>2. Len(b) > 0 /\ b[1].src = cur.src
      BY <2>3, <3>1
    <3>3. \A m \in DOMAIN base : base[m].obj = cur.obj => base[m].src = cur.src
      BY <2>3 DEF ReadUpto
    <3>4. UptoOf(cur) \in 0..Len(D)
      BY <3>1, <1>2
    <3> QED BY <3>1, <3>2, <3>3, <3>4
  <2> QED BY <2>1, <2>2, <2>3, <1>1
<1>4. /\ t \in Seq(PartType) /\ GivenUpto(t, D, end)
      /\ Len(b) > 0 => \A m \in DOMAIN t : t[m].obj = D[end].obj => t[m].src = b[Len(b)].src
  <2>1. start.offset + Len(b) <= Len(D)
    OBVIOUS
  <2>2. /\ base \o b \in Seq(PartType) /\ GivenUpto(base \o b, D, start.offset + Len(b))
        /\ Len(b) > 0 => \A m \in DOMAIN (base \o b) :
             (base \o b)[m].obj = D[start.offset + Len(b)].obj => (base \o b)[m].src = b[Len(b)].src
    BY ONLY <1>1, <1>8, <2>1, MoreGiven, D \in Seq(EntryType), Distinct(D),
            base \in Seq(PartType), b \in Seq(PartType), Continues(D, start, b)
  <2> QED BY <2>2
<1> HIDE DEF t
<1>5. CASE next = NoCursor /\ end = Len(D)
  BY <1>4, <1>5 DEF PagesNow, CursorSound, t
<1>6. CASE next = PageCursor(D, end) /\ end < Len(D)
  <2>1. next.kind = "page" /\ next.bind = D /\ UptoOf(next) = end
    BY <1>6 DEF PageCursor, UptoOf
  <2>2. CursorSound(next) /\ next # NoCursor
    <3>1. next.kind # NoCursor.kind
      BY <2>1 DEF NoCursor
    <3>2. CursorSound(next)
      BY <1>3, <1>6 DEF CursorSound
    <3> QED BY <3>1, <3>2
  <2>3. ReadUpto(t, next)
    BY <2>1, <1>4 DEF ReadUpto
  <2> QED BY <2>1, <2>2, <2>3, <1>3, <1>4 DEF PagesNow, t
<1>7. CASE CutAt(D, c, start, b, next) /\ b[Len(b)].src = c[D[end].obj].src
  <2> DEFINE o == D[end].obj
  <2>1. Len(b) > 0 /\ \E n \in Nat \ {0} : next = SourceCursor(D, o, c[o].src, n)
    BY <1>7 DEF CutAt
  <2>2. PICK n \in Nat \ {0} : next = SourceCursor(D, o, c[o].src, n)
    BY <2>1
  <2>3. end \in DOMAIN D
    BY <2>1, <1>2, <1>3
  <2>4. next.kind = "source" /\ next.bind = D /\ next.obj = o /\ next.src = c[o].src
    BY <2>2 DEF SourceCursor
  <2>5. UptoOf(next) = end
    BY <2>3, <2>4, PositionIs DEF UptoOf
  <2>6. CursorSound(next) /\ next # NoCursor
    <3>1. next.kind # NoCursor.kind
      BY <2>4 DEF NoCursor
    <3>2. D[end].obj \in Objects
      BY <2>3, ObjsAre
    <3>3. c[o].src \in Nat
      BY <3>2 DEF CellContents, Revisions
    <3>4. CursorSound(next)
      BY <2>2, <2>3, <3>3 DEF CursorSound
    <3> QED BY <3>1, <3>4
  <2>7. ReadUpto(t, next)
    BY <2>1, <2>4, <2>5, <1>4, <1>7 DEF ReadUpto
  <2> HIDE DEF o
  <2> QED BY <2>4, <2>5, <2>6, <2>7, <1>3, <1>4 DEF PagesNow, t
<1> QED BY <1>5, <1>6, <1>7

\* What the caller was given, and the cursor it goes on with.
PagesSound ==
  /\ parts \in Seq(PartType) /\ CursorSound(cursor)
  /\ phase \in {"idle", "paging", "following"}
  /\ phase = "idle" => parts = <<>> /\ cursor = NoCursor
  /\ phase = "paging" => /\ cursor # NoCursor /\ ReadUpto(parts, cursor)
                         /\ view = "summary" => cursor.kind = "page"

\* The property, of one page: what was given up to it is the document so far.
PageShows(D, given, next) ==
  /\ IsPrefix(Rows(given), ObjsOf(D))
  /\ next = NoCursor => Rows(given) = ObjsOf(D)
  /\ \A m, n \in DOMAIN given : given[m].obj = given[n].obj => given[m].src = given[n].src

LEMMA PagesShow ==
  ASSUME NEW D \in Seq(EntryType), NEW given, NEW next, PagesNow(D, given, next)
  PROVE  PageShows(D, given, next)
<1>1. Len(D) \in Nat /\ DOMAIN D = 1..Len(D)
  OBVIOUS
<1>2. PICK k \in 0..Len(D) : GivenUpto(given, D, k) /\ (next = NoCursor => k = Len(D))
  <2>1. CASE next = NoCursor
    <3>1. Len(D) \in 0..Len(D)
      BY <1>1
    <3> QED BY <2>1, <3>1 DEF PagesNow
  <2>2. CASE next # NoCursor
    BY <2>2, <1>1 DEF PagesNow, ReadUpto
  <2> QED BY <2>1, <2>2
<1> DEFINE a == ObjsUpto(D, k)
           d == ObjsOf(D)
<1>3. Rows(given) = a
  BY <1>2 DEF GivenUpto
<1>4. a = [i \in 1..k |-> D[i].obj] /\ d = [i \in 1..Len(D) |-> D[i].obj]
  BY <1>1 DEF ObjsUpto, ObjsOf
<1>5. k = Len(D) => a = d
  BY <1>4
<1> HIDE DEF a, d
<1>6. Len(a) = k /\ Len(d) = Len(D) /\ k \in Nat /\ k <= Len(D)
  BY <1>1, <1>4
<1>7. SubSeq(a, 1, k) = SubSeq(d, 1, k)
  <2>1. SubSeq(a, 1, k) = [i \in 1..k |-> a[i]] /\ SubSeq(d, 1, k) = [i \in 1..k |-> d[i]]
    BY <1>6
  <2>2. \A i \in 1..k : a[i] = d[i]
    BY <1>1, <1>4, <1>6
  <2> QED BY <2>1, <2>2
<1>8. IsPrefix(a, d)
  BY <1>6, <1>7 DEF IsPrefix
<1> QED BY <1>2, <1>3, <1>5, <1>8 DEF PageShows, GivenUpto, d

-------------------------------------------------------------------------------
(* The reads.                                                               *)

LEMMA SummaryPageIs ==
  ASSUME NEW D \in Seq(EntryType), NEW cur, NEW start, start = Selected(D, cur),
         StartsWell(D, start)
  PROVE  LET p == SummaryPage(D, cur)
             end == start.offset + Len(p.rows)
         IN  /\ RowsOf(D, p.rows) /\ end <= Len(D)
             /\ \A i \in 1..Len(p.rows) : p.rows[i] = D[start.offset + i]
             /\ \/ p.next = NoCursor /\ end = Len(D)
                \/ p.next = PageCursor(D, end) /\ end < Len(D)
<1> DEFINE s == start.offset
           e == Min({s + MaxCells, Len(D)})
           p == SummaryPage(D, cur)
           r == SubSeq(D, s + 1, e)
<1>1. /\ s \in Nat /\ Len(D) \in Nat /\ s <= Len(D) /\ MaxCells \in Nat /\ MaxCells > 0
      /\ DOMAIN D = 1..Len(D)
  BY ReadBounds DEF StartsWell
<1>2. e = IF s + MaxCells <= Len(D) THEN s + MaxCells ELSE Len(D)
  <2>1. s + MaxCells \in Int /\ Len(D) \in Int
    BY <1>1
  <2> QED BY <2>1, MaxOfPair
<1>3. /\ p.rows = r
      /\ p.next = IF e < Len(D) THEN PageCursor(D, e) ELSE NoCursor
  BY DEF SummaryPage, PageBinding
<1> HIDE DEF p, e
<1>4. e \in Nat /\ s <= e /\ e <= Len(D)
  <2> HIDE DEF s
  <2>1. CASE s + MaxCells <= Len(D)
    <3>1. e = s + MaxCells
      BY <2>1, <1>2
    <3> QED BY <2>1, <3>1, <1>1
  <2>2. CASE ~(s + MaxCells <= Len(D))
    <3>1. e = Len(D)
      BY <2>2, <1>2
    <3> QED BY <3>1, <1>1
  <2> QED BY <2>1, <2>2
<1>5. r = [i \in 1..e - s |-> D[s + i]]
  <2>1. r = [i \in 1..(e - (s + 1)) + 1 |-> D[i + (s + 1) - 1]]
    BY <1>1, <1>4
  <2>2. (e - (s + 1)) + 1 = e - s
    BY <1>1, <1>4
  <2>3. \A i \in 1..e - s : i + (s + 1) - 1 = s + i
    BY <1>1, <1>4
  <2> QED BY <2>1, <2>2, <2>3
<1> HIDE DEF r
<1>6. Len(r) = e - s /\ DOMAIN r = 1..e - s /\ \A i \in 1..e - s : r[i] = D[s + i]
  BY <1>1, <1>4, <1>5
<1>7. s + Len(r) = e /\ Len(r) \in Nat
  BY <1>1, <1>4, <1>6
<1>8. RowsOf(D, r)
  <2>1. \A i \in 1..e - s : s + i \in DOMAIN D
    BY <1>1, <1>4
  <2> QED BY <1>6, <1>7, <2>1 DEF RowsOf
<1>9. /\ RowsOf(D, p.rows) /\ s + Len(p.rows) <= Len(D)
      /\ \A i \in 1..Len(p.rows) : p.rows[i] = D[s + i]
      /\ \/ p.next = NoCursor /\ s + Len(p.rows) = Len(D)
         \/ p.next = PageCursor(D, s + Len(p.rows)) /\ s + Len(p.rows) < Len(D)
  BY <1>1, <1>3, <1>4, <1>6, <1>7, <1>8
<1> QED BY <1>9 DEF p

\* A page that is accepted is the next of a sound read.
LEMMA AcceptedIsSound ==
  ASSUME NotebookInv, NEW v, NEW first \in BOOLEAN, NEW rows, NEW given, NEW next,
         Accept(v, first, rows, given, next),
         PagesNow(index, (IF first THEN <<>> ELSE parts) \o given, next),
         v = "summary" => next.kind \in {"none", "page"}
  PROVE  PagesSound' /\ PageShows(index, parts', cursor')
<1> DEFINE t == (IF first THEN <<>> ELSE parts) \o given
<1>1. /\ parts' = t /\ cursor' = next /\ view' = v
      /\ phase' = IF next = NoCursor THEN "following" ELSE "paging"
  BY DEF Accept
<1>2. PagesNow(index, t, next)
  OBVIOUS
<1>3. index \in Seq(EntryType)
  BY EntriesAre DEF NotebookInv, DocumentSound
<1>4. PageShows(index, t, next)
  BY <1>2, <1>3, PagesShow
<1> HIDE DEF t
<1>5. /\ t \in Seq(PartType) /\ CursorSound(next)
      /\ next # NoCursor => next.kind \in {"page", "source"} /\ ReadUpto(t, next)
  BY <1>2 DEF PagesNow
<1>6. v = "summary" /\ next # NoCursor => next.kind = "page"
  BY <1>5
<1>7. /\ parts' \in Seq(PartType) /\ CursorSound(cursor')
      /\ phase' \in {"idle", "paging", "following"} /\ phase' # "idle"
      /\ phase' = "paging" => /\ cursor' # NoCursor /\ ReadUpto(parts', cursor')
                              /\ view' = "summary" => cursor'.kind = "page"
  BY <1>1, <1>5, <1>6
<1>8. PagesSound'
  BY <1>7 DEF PagesSound
<1> QED BY <1>1, <1>4, <1>8

\* Where a call takes up: at the beginning, or at a cursor that is accepted.
Resumes(first, from) ==
  /\ CursorSound(from) /\ ~CursorExpired(index, cell, from)
  /\ first => from = NoCursor
  /\ ~first => from = cursor /\ from # NoCursor /\ ReadUpto(parts, from) /\ phase # "idle"

LEMMA ReadSummaryKeeps ==
  ASSUME NotebookInv, PagesSound, NEW first \in BOOLEAN, NEW from, Resumes(first, from),
         from.kind # "source", ReadSummary(first, from)
  PROVE  NotebookInv' /\ PagesSound' /\ PageShows(index, parts', cursor')
<1> DEFINE page == SummaryPage(index, from)
           start == Selected(index, from)
           given == [i \in DOMAIN page.rows |->
                       [obj |-> page.rows[i].obj, src |-> 0, from |-> 0, to |-> 0]]
           base == IF first THEN <<>> ELSE parts
<1>1. /\ index \in Seq(EntryType) /\ Distinct(index) /\ cell \in CellContents
  BY EntriesAre DEF NotebookInv, DocumentSound
<1>2. Accept("summary", first, page.rows, given, page.next)
  BY DEF ReadSummary
<1>3. StartsWell(index, start) /\ start.byte = 0
  BY <1>1, CursorIs DEF Resumes
<1>4. /\ RowsOf(index, page.rows) /\ start.offset + Len(page.rows) <= Len(index)
      /\ \A i \in 1..Len(page.rows) : page.rows[i] = index[start.offset + i]
      /\ \/ page.next = NoCursor /\ start.offset + Len(page.rows) = Len(index)
         \/ /\ page.next = PageCursor(index, start.offset + Len(page.rows))
            /\ start.offset + Len(page.rows) < Len(index)
  BY <1>1, <1>3, SummaryPageIs
<1> DEFINE N == Len(page.rows)
<1>5. N \in Nat /\ DOMAIN page.rows = 1..N /\ DOMAIN index = 1..Len(index) /\ Len(index) \in Nat
      /\ start.offset \in Nat
  BY <1>1, <1>3, <1>4 DEF RowsOf, StartsWell
<1>6. \A i \in 1..N : start.offset + i \in DOMAIN index
  BY <1>4, <1>5
<1> HIDE DEF page, start
<1>7. \A i \in 1..N : given[i] = [obj |-> index[start.offset + i].obj, src |-> 0, from |-> 0, to |-> 0]
  BY <1>4, <1>5
<1>8. \A i \in 1..N : given[i] \in PartType
  <2> TAKE i \in 1..N
  <2>1. index[start.offset + i].obj \in Objects
    BY <1>1, <1>6, ObjsAre
  <2>2. given[i] = [obj |-> index[start.offset + i].obj, src |-> 0, from |-> 0, to |-> 0]
    BY <1>7
  <2> HIDE DEF given
  <2> QED BY <2>1, <2>2 DEF PartType
<1>9. given = [i \in 1..N |-> given[i]]
  BY <1>5
<1> HIDE DEF given
<1>18. \A i \in 1..N : given[i].obj = index[start.offset + i].obj /\ given[i].from = 0
  <2> TAKE i \in 1..N
  <2>1. given[i] = [obj |-> index[start.offset + i].obj, src |-> 0, from |-> 0, to |-> 0]
    BY <1>7
  <2> QED BY <2>1
<1>10. given \in Seq(PartType) /\ Len(given) = N
  <2>1. given \in [1..N -> PartType]
    BY <1>8, <1>9
  <2> QED BY <1>5, <2>1
<1>11. Continues(index, start, given)
  BY <1>3, <1>10, <1>18 DEF Continues
<1>12. base \in Seq(PartType) /\ (from = NoCursor => base = <<>>)
       /\ (from # NoCursor => ReadUpto(base, from))
  BY DEF Resumes, PagesSound
<1> HIDE DEF base
<1>14. CursorSound(from) /\ ~CursorExpired(index, cell, from)
  BY DEF Resumes
<1>13. PagesNow(index, base \o given, page.next)
  <2> DEFINE end == start.offset + Len(given)
  <2>1. end <= Len(index) /\ start = Selected(index, from)
    BY <1>4, <1>10 DEF start
  <2>2. \/ page.next = NoCursor /\ end = Len(index)
        \/ page.next = PageCursor(index, end) /\ end < Len(index)
    BY <1>4, <1>10
  <2>3. end = start.offset + Len(given)
    OBVIOUS
  <2> HIDE DEF end
  <2> QED BY <1>1, <1>10, <1>11, <1>12, <1>14, <2>1, <2>2, <2>3, PageGoesOn
<1>15. page.next.kind \in {"none", "page"}
  BY <1>4 DEF NoCursor, PageCursor
<1>16. PagesSound' /\ PageShows(index, parts', cursor')
  BY <1>2, <1>13, <1>15, AcceptedIsSound DEF base
<1>17. NotebookInv'
  BY <1>2, <1>4, AcceptKeeps DEF Resumes
<1> QED BY <1>16, <1>17

LEMMA ReadCellsKeeps ==
  ASSUME NotebookInv, PagesSound, NEW first \in BOOLEAN, NEW from, Resumes(first, from),
         ReadCells(first, from), ~StartOver
  PROVE  NotebookInv' /\ PagesSound' /\ PageShows(index, parts', cursor')
<1> DEFINE page == CellsPage(index, cell, from)
           start == Selected(index, from)
           given == page.parts
           rows == [i \in DOMAIN given |-> [obj |-> given[i].obj, id |-> idOf[given[i].obj]]]
           base == IF first THEN <<>> ELSE parts
           end == start.offset + Len(given)
<1>1. /\ index \in Seq(EntryType) /\ Distinct(index) /\ cell \in CellContents
      /\ \A n \in DOMAIN index : index[n].id = idOf[index[n].obj]
  <2>1. /\ doc \in Seq(Objects) /\ NoTwice(doc) /\ idOf \in [Objects -> Ids]
        /\ cell \in CellContents /\ index = Entries(doc, idOf)
    BY DEF NotebookInv, DocumentSound
  <2>2. /\ index \in Seq(EntryType) /\ Distinct(index) /\ DOMAIN index = DOMAIN doc
        /\ \A i \in DOMAIN doc : index[i] = [obj |-> doc[i], id |-> idOf[doc[i]]]
    BY <2>1, EntriesAre
  <2>3. \A i \in DOMAIN doc : index[i].obj = doc[i] /\ index[i].id = idOf[doc[i]]
    BY <2>2
  <2> QED BY <2>1, <2>2, <2>3
<1>2. ~page.refused /\ Accept("cells", first, rows, given, page.next)
  BY DEF ReadCells
<1>3. /\ StartsWell(index, start)
      /\ from.kind = "source" => start.offset < Len(index)
                                 /\ cell[from.obj].src = cell[index[start.offset + 1].obj].src
  BY <1>1, CursorIs DEF Resumes
<1>4. /\ given \in Seq(PartType) /\ end <= Len(index)
      /\ start.offset < Len(index) => Len(given) > 0
      /\ Follows(index, cell, start, given)
      /\ \/ page.next = NoCursor /\ end = Len(index)
         \/ page.next = PageCursor(index, end) /\ end < Len(index)
         \/ CutAt(index, cell, start, given, page.next)
  BY <1>1, <1>2, <1>3, CellsPageIs
<1>20. start = Selected(index, from) /\ end = start.offset + Len(given)
  OBVIOUS
<1> HIDE DEF page, start, end
<1>5. /\ Len(given) \in Nat /\ DOMAIN given = 1..Len(given) /\ DOMAIN index = 1..Len(index)
      /\ Len(index) \in Nat /\ start.offset \in Nat
  BY <1>1, <1>3, <1>4 DEF StartsWell
<1>6. \A i \in 1..Len(given) : start.offset + i \in DOMAIN index
  BY <1>4, <1>5, <1>20
<1>7. \A i \in 1..Len(given) : /\ given[i].obj = index[start.offset + i].obj
                               /\ given[i].src = cell[index[start.offset + i].obj].src
  BY <1>4 DEF Follows
<1>8. RowsOf(index, rows)
  <2>1. DOMAIN rows = 1..Len(given) /\ Len(rows) = Len(given)
    BY <1>5
  <2>2. ASSUME NEW i \in 1..Len(given)
        PROVE  \E n \in DOMAIN index : rows[i].obj = index[n].obj /\ rows[i].id = index[n].id
    <3>1. rows[i].obj = given[i].obj /\ rows[i].id = idOf[given[i].obj]
      BY <1>5
    <3>2. start.offset + i \in DOMAIN index /\ given[i].obj = index[start.offset + i].obj
      BY <1>6, <1>7
    <3> HIDE DEF rows, given
    <3>3. index[start.offset + i].id = idOf[index[start.offset + i].obj]
      BY <3>2, <1>1
    <3> QED BY <3>1, <3>2, <3>3
  <2> HIDE DEF rows, given
  <2> QED BY <2>1, <2>2, <1>5 DEF RowsOf
<1>9. Continues(index, start, given)
  BY <1>4 DEF Continues, Follows
<1>10. from.kind = "source" => Len(given) > 0 /\ given[1].src = cell[from.obj].src
  <2> SUFFICES ASSUME from.kind = "source"
               PROVE  Len(given) > 0 /\ given[1].src = cell[from.obj].src
    OBVIOUS
  <2>1. Len(given) > 0
    BY <1>3, <1>4
  <2>2. 1 \in 1..Len(given)
    BY <2>1, <1>5
  <2> QED BY <2>1, <2>2, <1>3, <1>7
<1>11. CutAt(index, cell, start, given, page.next) =>
         given[Len(given)].src = cell[index[end].obj].src
  <2> SUFFICES ASSUME Len(given) > 0
               PROVE  given[Len(given)].src = cell[index[end].obj].src
    BY DEF CutAt
  <2>1. Len(given) \in 1..Len(given)
    BY <1>5
  <2> QED BY <2>1, <1>7, <1>20
<1>12. base \in Seq(PartType) /\ (from = NoCursor => base = <<>>)
       /\ (from # NoCursor => ReadUpto(base, from))
  BY DEF Resumes, PagesSound
<1>14. CursorSound(from) /\ ~CursorExpired(index, cell, from)
  BY DEF Resumes
<1> HIDE DEF base, given, rows
<1>13. PagesNow(index, base \o given, page.next)
  BY <1>1, <1>4, <1>9, <1>10, <1>11, <1>12, <1>14, <1>20, PageGoesOn
<1>16. PagesSound' /\ PageShows(index, parts', cursor')
  BY <1>2, <1>13, AcceptedIsSound DEF base
<1>17. NotebookInv'
  BY <1>2, <1>8, AcceptKeeps DEF Resumes
<1> QED BY <1>16, <1>17

-------------------------------------------------------------------------------
(* Every behaviour.                                                         *)

ReaderInv == NotebookInv /\ PagesSound

\* A page that the step gives continues the document.
PageStep == parts' # parts /\ parts' # <<>> => PageShows(index, parts', cursor') /\ UNCHANGED document

LEMMA EmptyJournalIsOk == JournalOk(EmptyJournal)
<1> DEFINE ring == [slot \in 0..Limit - 1 |-> [seq |-> 0]]
           age == [id \in Ids |-> Window]
           none == <<>>
<1>1. ring \in [0..Limit - 1 -> JournalEvent \union {NoEvent}]
  BY DEF NoEvent
<1>2. age \in [Ids -> 0..Window]
  BY JournalBounds
<1>3. none \in Seq(HeldBack) /\ DOMAIN none = {}
  OBVIOUS
<1>4. EmptyJournal = [ring |-> ring, last |-> 0, pending |-> none, age |-> age, timer |-> NoTimer]
  BY DEF EmptyJournal
<1> HIDE DEF ring, age, none
<1>5. EmptyJournal.last = 0 /\ EmptyJournal.pending = none
  BY <1>4
<1>6. EmptyJournal \in JournalType
  BY <1>1, <1>2, <1>3, <1>4 DEF JournalType
<1>7. Recent(EmptyJournal) = {}
  BY <1>5 DEF Recent
<1> QED BY <1>3, <1>5, <1>6, <1>7 DEF JournalOk, RingSound, TimerSound

LEMMA InitIsSound == RInit => ReaderInv
<1> SUFFICES ASSUME RInit PROVE ReaderInv
  OBVIOUS
<1>1. /\ doc = InitialDoc /\ cell = [obj \in Objects |-> NoRevision] /\ idOf = InitialId
      /\ index = Entries(InitialDoc, InitialId) /\ journal = EmptyJournal /\ born = Len(InitialDoc)
      /\ phase = "idle" /\ cursor = NoCursor /\ parts = <<>> /\ changes = 0 /\ order = <<>>
      /\ known = KnowsNothing
  BY DEF RInit, NotReading
<1>2. Len(InitialDoc) \in Nat /\ DOMAIN InitialDoc = 1..Len(InitialDoc)
      /\ \A i \in DOMAIN InitialDoc : InitialDoc[i] \in 1..Len(InitialDoc)
  BY ReaderBounds
<1>3. InitialDoc \in Seq(Objects)
  <2>1. \A i \in 1..Len(InitialDoc) : InitialDoc[i] \in Objects
    BY <1>2, ReaderBounds
  <2>2. InitialDoc = [i \in 1..Len(InitialDoc) |-> InitialDoc[i]]
    BY <1>2, ReaderBounds
  <2>3. InitialDoc \in [1..Len(InitialDoc) -> Objects]
    BY <2>1, <2>2
  <2> QED BY <2>3, <1>2
<1>4. NoRevision \in Revisions
  BY DEF NoRevision, Revisions
<1>5. DocumentSound
  <2>1. NoTwice(InitialDoc)
    BY ReaderBounds DEF NoTwice
  <2>2. cell \in CellContents
    BY <1>1, <1>4 DEF CellContents
  <2>3. idOf \in [Objects -> Ids]
    BY <1>1, ReaderBounds
  <2> QED BY <1>1, <1>2, <1>3, <2>1, <2>2, <2>3 DEF DocumentSound
<1>6. JournalSound
  <2>1. journal.pending = <<>>
    BY <1>1 DEF EmptyJournal
  <2>2. Owned(journal, index)
    BY <2>1 DEF Owned, ToSet
  <2> QED BY <1>1, <2>2, EmptyJournalIsOk DEF JournalSound
<1>7. CallerSound
  <2>1. KnowsNothing \in [Ids -> Knowledge]
    BY <1>4 DEF KnowsNothing, Knowledge
  <2>2. journal.last = 0
    BY <1>1 DEF EmptyJournal
  <2> QED BY <1>1, <2>1, <2>2 DEF CallerSound
<1>8. PagesSound
  BY <1>1 DEF PagesSound, CursorSound
<1> QED BY <1>5, <1>6, <1>7, <1>8 DEF ReaderInv, NotebookInv

LEMMA PagesStay ==
  ASSUME PagesSound, UNCHANGED <<phase, view, cursor, parts>>
  PROVE  PagesSound' /\ PageStep
BY DEF PagesSound, PageStep

LEMMA StartOverPages ==
  ASSUME StartOver
  PROVE  PagesSound' /\ PageStep
<1>1. phase' = "idle" /\ cursor' = NoCursor /\ parts' = <<>>
  BY DEF StartOver
<1> QED BY <1>1 DEF PagesSound, PageStep, CursorSound

LEMMA PollPages ==
  ASSUME PagesSound, Poll
  PROVE  PagesSound' /\ PageStep
<1>1. CASE IsExpired(journal, changes)
  BY <1>1, StartOverPages DEF Poll
<1>2. CASE ~IsExpired(journal, changes)
  <2>1. phase = "following" /\ parts' = <<>> /\ phase' = phase /\ cursor' = cursor
    BY <1>2 DEF Poll
  <2> QED BY <2>1 DEF PagesSound, PageStep
<1> QED BY <1>1, <1>2

LEMMA StartReadingKeeps ==
  ASSUME ReaderInv, StartReading
  PROVE  ReaderInv' /\ PageStep
<1>1. Resumes(TRUE, NoCursor) /\ NoCursor.kind # "source"
  BY DEF Resumes, CursorSound, CursorExpired, NoCursor
<1>2. PICK v \in Views : IF v = "summary" THEN ReadSummary(TRUE, NoCursor)
                                          ELSE ReadCells(TRUE, NoCursor)
  BY DEF StartReading
<1>3. CASE StartOver
  BY <1>3, StartOverKeeps, StartOverPages DEF ReaderInv
<1>4. CASE ~StartOver
  <2>1. NotebookInv' /\ PagesSound' /\ PageShows(index, parts', cursor')
    BY <1>1, <1>2, <1>4, ReadSummaryKeeps, ReadCellsKeeps DEF ReaderInv
  <2>2. UNCHANGED document
    BY <1>2, <1>4 DEF ReadSummary, ReadCells, Accept
  <2> QED BY <2>1, <2>2 DEF ReaderInv, PageStep
<1> QED BY <1>3, <1>4

LEMMA ContinueReadingKeeps ==
  ASSUME ReaderInv, ContinueReading
  PROVE  ReaderInv' /\ PageStep
<1>1. CASE StartOver
  BY <1>1, StartOverKeeps, StartOverPages DEF ReaderInv
<1>2. CASE ~StartOver
  <2>1. /\ phase = "paging" /\ ~CursorExpired(index, cell, cursor)
        /\ IF view = "summary" THEN ReadSummary(FALSE, cursor) ELSE ReadCells(FALSE, cursor)
    BY <1>2 DEF ContinueReading
  <2>2. Resumes(FALSE, cursor) /\ (view = "summary" => cursor.kind # "source")
    BY <2>1 DEF Resumes, ReaderInv, PagesSound
  <2>3. NotebookInv' /\ PagesSound' /\ PageShows(index, parts', cursor')
    BY <1>2, <2>1, <2>2, ReadSummaryKeeps, ReadCellsKeeps DEF ReaderInv
  <2>4. UNCHANGED document
    BY <1>2, <2>1 DEF ReadSummary, ReadCells, Accept
  <2> QED BY <2>3, <2>4 DEF ReaderInv, PageStep
<1> QED BY <1>1, <1>2

\* Everything else leaves the caller as it is.
LEMMA OthersKeep ==
  ASSUME ReaderInv, NotebookInv', UNCHANGED caller
  PROVE  ReaderInv' /\ PageStep
<1>1. UNCHANGED <<phase, view, cursor, parts>>
  BY DEF caller
<1> QED BY <1>1, PagesStay DEF ReaderInv

LEMMA ReaderStutters ==
  ASSUME ReaderInv, UNCHANGED rvars
  PROVE  ReaderInv' /\ PageStep
<1>1. UNCHANGED <<document, caller, journal>>
  BY DEF rvars, document, caller
<1>2. CallerSound'
  BY <1>1 DEF CallerSound, ReaderInv, NotebookInv, Reader, document, caller
<1>3. NotebookInv'
  BY <1>1, <1>2, CallerStepKeeps DEF ReaderInv
<1> QED BY <1>1, <1>3, OthersKeep

LEMMA StepKeeps ==
  ASSUME ReaderInv, [RNext]_rvars
  PROVE  ReaderInv' /\ PageStep
<1>0. NotebookInv /\ PagesSound
  BY DEF ReaderInv
<1>1. ASSUME NEW local \in BOOLEAN, EditCell(local)
      PROVE  ReaderInv' /\ PageStep
  <2>1. UNCHANGED caller
    BY <1>1 DEF EditCell, Commit
  <2> QED BY <1>0, <1>1, <2>1, EditCellKeeps, OthersKeep
<1>2. ASSUME NEW local \in BOOLEAN, DeleteCell(local)
      PROVE  ReaderInv' /\ PageStep
  <2>1. UNCHANGED caller
    BY <1>2 DEF DeleteCell, Commit
  <2> QED BY <1>0, <1>2, <2>1, DeleteCellKeeps, OthersKeep
<1>3. CASE InsertCell
  <2>1. UNCHANGED caller
    BY <1>3 DEF InsertCell, Commit
  <2> QED BY <1>0, <1>3, <2>1, InsertCellKeeps, OthersKeep
<1>4. CASE MoveCell
  <2>1. UNCHANGED caller
    BY <1>4 DEF MoveCell, Commit
  <2> QED BY <1>0, <1>4, <2>1, MoveCellKeeps, OthersKeep
<1>5. CASE RenameCell
  <2>1. UNCHANGED caller
    BY <1>5 DEF RenameCell, Commit
  <2> QED BY <1>0, <1>5, <2>1, RenameCellKeeps, OthersKeep
<1>6. CASE RecordOther
  <2>1. UNCHANGED caller
    BY <1>6 DEF RecordOther
  <2> QED BY <1>0, <1>6, <2>1, RecordOtherKeeps, OthersKeep
<1>7. CASE Tick
  <2>1. UNCHANGED caller
    BY <1>7 DEF Tick
  <2> QED BY <1>0, <1>7, <2>1, TickKeeps, OthersKeep
<1>8. CASE TimerFires
  <2>1. UNCHANGED caller
    BY <1>8 DEF TimerFires
  <2> QED BY <1>0, <1>8, <2>1, TimerFiresKeeps, OthersKeep
<1>9. CASE StartReading
  BY <1>9, StartReadingKeeps
<1>10. CASE ContinueReading
  BY <1>10, ContinueReadingKeeps
<1>11. CASE Poll
  BY <1>0, <1>11, PollKeeps, PollPages DEF ReaderInv
<1>12. CASE UNCHANGED rvars
  BY <1>12, ReaderStutters
<1> QED BY <1>1, <1>2, <1>3, <1>4, <1>5, <1>6, <1>7, <1>8, <1>9, <1>10, <1>11, <1>12 DEF RNext

LEMMA ReaderInvHolds == RSpec => []ReaderInv
BY InitIsSound, StepKeeps, PTL DEF RSpec

LEMMA InvHoldsTheJournal == ReaderInv => JournalInvariant
<1> SUFFICES ASSUME ReaderInv PROVE JournalInvariant
  OBVIOUS
<1>1. /\ \A i \in DOMAIN doc : doc[i] \in 1..born
      /\ idOf \in [Objects -> Ids] /\ index = Entries(doc, idOf)
      /\ journal \in JournalType /\ TimerSound(journal)
      /\ phase \in {"idle", "paging", "following"}
      /\ changes \in Nat /\ changes <= journal.last
  BY DEF ReaderInv, NotebookInv, DocumentSound, JournalSound, CallerSound, JournalOk
<1>2. journal.last \in Nat /\ journal.pending \in Seq(HeldBack)
  BY <1>1 DEF JournalType
<1>3. ASSUME NEW i \in DOMAIN journal.pending
      PROVE  journal.pending[i].id \in Ids /\ journal.pending[i].due <= Window
  <2>1. journal.pending[i] \in HeldBack
    BY <1>2, ElementOfSeq, LenProperties
  <2> QED BY <2>1, JournalBounds DEF HeldBack
<1>4. IndexOK
  BY <1>1, <1>2, <1>3 DEF IndexOK
<1>5. HeldBackIsDue
  BY <1>1, <1>3 DEF HeldBackIsDue, TimerSound
<1> QED BY <1>4, <1>5 DEF JournalInvariant

LEMMA PageStepFollows ==
  ASSUME ReaderInv, PageStep
  PROVE  parts' # parts /\ parts' # <<>> =>
           /\ IsPrefix(Rows(parts'), doc')
           /\ cursor' = NoCursor => Rows(parts') = doc'
           /\ \A m, n \in DOMAIN parts' :
                parts'[m].obj = parts'[n].obj => parts'[m].src = parts'[n].src
<1> SUFFICES ASSUME parts' # parts, parts' # <<>>
             PROVE  /\ IsPrefix(Rows(parts'), doc')
                    /\ cursor' = NoCursor => Rows(parts') = doc'
                    /\ \A m, n \in DOMAIN parts' :
                         parts'[m].obj = parts'[n].obj => parts'[m].src = parts'[n].src
  OBVIOUS
<1>1. PageShows(index, parts', cursor') /\ doc' = doc
  BY DEF PageStep, document
<1>2. /\ doc \in Seq(Objects) /\ NoTwice(doc) /\ idOf \in [Objects -> Ids]
      /\ index = Entries(doc, idOf)
  BY DEF ReaderInv, NotebookInv, DocumentSound
<1>3. /\ DOMAIN index = DOMAIN doc
      /\ \A i \in DOMAIN doc : index[i] = [obj |-> doc[i], id |-> idOf[doc[i]]]
  BY <1>2, EntriesAre
<1>4. ObjsOf(index) = doc
  <2>1. \A i \in DOMAIN doc : index[i].obj = doc[i]
    BY <1>3
  <2>2. ObjsOf(index) = [i \in DOMAIN doc |-> doc[i]]
    BY <1>3, <2>1 DEF ObjsOf
  <2> QED BY <1>2, <2>2
<1> QED BY <1>1, <1>4 DEF PageShows

(* Whatever other clients do to the shared notebook, the index has every cell at its place and *)
(* under its id, and the timer is armed for the output change held back that is due first,     *)
(* within one window.                                                                          *)
THEOREM JournalHolds == RSpec => []JournalInvariant
BY ReaderInvHolds, InvHoldsTheJournal, PTL

(* A caller of notebook_changes whose cursor has not expired knows, once it is given what it is *)
(* still to be given, the order of the cells and of each the content it has, or that it must be *)
(* read again; only outputs still held back may be missing.                                     *)
THEOREM NothingIsMissed == RSpec => []NothingMissed
<1>1. ReaderInv => NothingMissed
  BY InvMissesNothing DEF ReaderInv
<1> QED BY <1>1, ReaderInvHolds, PTL

(* The pages of one read are one document: every cell once and in order, and of one source, *)
(* one revision.                                                                            *)
THEOREM PagesFollow == RSpec => PagesFollowTheDocument
<1>1. ReaderInv /\ [RNext]_rvars =>
        [parts' # parts /\ parts' # <<>> =>
           /\ IsPrefix(Rows(parts'), doc')
           /\ cursor' = NoCursor => Rows(parts') = doc'
           /\ \A m, n \in DOMAIN parts' :
                parts'[m].obj = parts'[n].obj => parts'[m].src = parts'[n].src]_rvars
  BY StepKeeps, PageStepFollows
<1> QED BY <1>1, ReaderInvHolds, PTL DEF RSpec, PagesFollowTheDocument
=============================================================================
