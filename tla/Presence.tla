------------------------------ MODULE Presence ------------------------------
(***************************************************************************)
(* What other people see of an agent (service/presence.ts, jupyter/        *)
(* awareness-room.ts): every notebook it has open publishes its user in    *)
(* the room of that document, and the global awareness room of the server  *)
(* shows its user, its documents and the one it used last, exactly while   *)
(* at least one document is open.                                          *)
(*                                                                         *)
(* The bindings are those of one context to its servers: of the MCP        *)
(* connection, or of one library session.  A file that is deleted and      *)
(* created again is a new file at the same path.                           *)
(***************************************************************************)
EXTENDS Integers, FiniteSets, SequencesExt

CONSTANTS Bindings,   \* server bindings of the context
          Files,      \* file ids of notebooks
          PathOf,     \* [Files -> paths]
          Names,      \* names the agent declares
          MaxTalks,   \* bound: declarations, and MCP client infos
          MaxOpened,  \* bound: notebooks ever opened
          MaxRooms    \* bound: global rooms ever joined, and sockets ever lost

ASSUME PresenceAssumption == MaxTalks \in Nat /\ MaxOpened \in Nat /\ MaxRooms \in Nat

VARIABLES context,    \* the declared name and the client info
          presence,   \* each ServerPresence
          handles,    \* each file of each binding: no handle, an open replica on its
                      \* way, or a registered handle, with the user it publishes
          rooms,      \* the awareness rooms, in the order they were joined
          visible,    \* what the server shows of each of them
          shared,     \* paths that two handles had at once
          ended,      \* the sessions are torn down
          talks, opens, losses
pvars == <<context, presence, handles, rooms, visible, shared, ended, talks, opens, losses>>

None     == "none"
NoState  == [user |-> <<>>, current |-> None, documents |-> <<>>]
NoHandle == [state |-> "none", user |-> <<>>]

PInit ==
  /\ context = [declared |-> None, client |-> None]
  /\ presence = [b \in Bindings |->
       [made |-> FALSE, owner |-> "process", user |-> <<>>, documents |-> <<>>, room |-> 0,
        pending |-> FALSE, settled |-> FALSE, refused |-> FALSE]]
  /\ handles = [b \in Bindings |-> [f \in Files |-> NoHandle]]
  /\ rooms = <<>>
  /\ visible = <<>>
  /\ shared = {}
  /\ ended = FALSE
  /\ talks = 0 /\ opens = 0 /\ losses = 0

\* The owner, and the name: declared, or of the client, or the operator's.
UserFor(owner, ctx) == <<owner, IF ctx.declared # None THEN ctx.declared ELSE ctx.client>>

LocalState(p) == [user |-> p.user, current |-> Last(p.documents), documents |-> p.documents]

Registered(b) == {f \in Files : handles[b][f].state = "open"}
OpenPaths(b) == {PathOf[f] : f \in Registered(b)}

\* The room that a presence has, if any, gets its state; and what a connected
\* room publishes is what the server shows.
Publish(rs, p) ==
  IF p.room = 0 THEN rs ELSE [rs EXCEPT ![p.room].local = LocalState(p)]

\* No two presences have the same room.
Holds(ps, r) == \E b \in Bindings : ps[b].room = r
Holder(ps, r) == CHOOSE b \in Bindings : ps[b].room = r
PublishAll(ps) ==
  [r \in DOMAIN rooms |->
     IF Holds(ps, r) THEN [rooms[r] EXCEPT !.local = LocalState(ps[Holder(ps, r)])]
     ELSE rooms[r]]
Show(rs) ==
  visible' = [r \in DOMAIN rs |->
             IF rs[r].link = "up" THEN rs[r].local
             ELSE IF r \in DOMAIN visible THEN visible[r] ELSE NoState]

\* AwarenessRoom.dispose: the null state goes out while the socket is there.
Left == [local |-> NoState, link |-> "down", timer |-> FALSE, disposed |-> TRUE]
Leave(rs, p) == IF p.room = 0 THEN rs ELSE [rs EXCEPT ![p.room] = Left]
ShownAfterLeaving(left) ==
  visible' = [r \in DOMAIN rooms |-> IF r \in left /\ rooms[r].link = "up" THEN NoState ELSE visible[r]]

-------------------------------------------------------------------------------
(* The user. *)

\* refreshUser: every registered handle gets the user, then the room.
Refreshed(p, ctx) == IF p.made THEN [p EXCEPT !.user = UserFor(p.owner, ctx)] ELSE p
Republish(ps) ==
  /\ presence' = ps
  /\ handles' = [b \in Bindings |-> [f \in Files |->
       IF handles[b][f].state = "open" THEN [handles[b][f] EXCEPT !.user = ps[b].user]
       ELSE handles[b][f]]]
  /\ rooms' = PublishAll(ps)
  /\ Show(rooms')

\* session_identify, and the clientInfo of the MCP client.
Talk(ctx) ==
  /\ ~ended /\ talks < MaxTalks
  /\ talks' = talks + 1
  /\ context' = ctx
  /\ Republish([b \in Bindings |-> Refreshed(presence[b], ctx)])
  /\ UNCHANGED <<shared, ended, opens, losses>>

Identify == \E n \in Names : Talk([context EXCEPT !.declared = n])
ObserveClientInfo == \E n \in Names : context.client # n /\ Talk([context EXCEPT !.client = n])

\* The server names its owner, or nobody; a failure keeps the provisional one.
OwnerSettles(b) ==
  /\ LET p == [presence[b] EXCEPT !.settled = TRUE]
     IN /\ p.made /\ ~presence[b].settled
        /\ \/ Republish([presence EXCEPT ![b] = p])
           \/ Republish([presence EXCEPT ![b] =
                IF ended THEN p ELSE Refreshed([p EXCEPT !.owner = "jupyter"], context)])
  /\ UNCHANGED <<context, shared, ended, talks, opens, losses>>

-------------------------------------------------------------------------------
(* Notebooks.  Opens of one file coalesce (ReplicaOpen). *)

\* The presence is made with the first use; the replica is opened with the
\* user of that moment.
OpenReplica(b, f) ==
  /\ ~ended /\ opens < MaxOpened
  /\ handles[b][f].state = "none"
  /\ opens' = opens + 1
  /\ LET p == IF presence[b].made THEN presence[b]
              ELSE Refreshed([presence[b] EXCEPT !.made = TRUE], context)
     IN /\ presence' = [presence EXCEPT ![b] = p]
        /\ handles' = [handles EXCEPT ![b][f] = [state |-> "opening", user |-> p.user]]
  /\ UNCHANGED <<context, rooms, visible, shared, ended, talks, losses>>

\* The splice at indexOf; a path is there at most once.
IndexOf(documents, path) == CHOOSE i \in DOMAIN documents : documents[i] = path
Without(documents, path) == RemoveAt(documents, IndexOf(documents, path))
MoveToFront(documents, path) ==
  Append(IF Contains(documents, path) THEN Without(documents, path) ELSE documents, path)

\* Mutant: the user is not set again.
UserOnceOpen_Stale(b, f) == handles[b][f].user

\* The user may have changed while the room was syncing.
UserOnceOpen(b, f) == presence[b].user

\* opened: the document comes first, the room is joined once the owner is known.
Register(b, f) ==
  /\ handles[b][f].state = "opening"
  /\ IF ended
     THEN /\ handles' = [handles EXCEPT ![b][f] = NoHandle]
          /\ UNCHANGED <<presence, rooms, visible, shared>>
     ELSE /\ handles' = [handles EXCEPT ![b][f] = [state |-> "open", user |-> UserOnceOpen(b, f)]]
          /\ presence' = [presence EXCEPT
               ![b].documents = MoveToFront(@, PathOf[f]),
               ![b].pending = @ \/ presence[b].room = 0]
          /\ rooms' = Publish(rooms, presence'[b])
          /\ Show(rooms')
          /\ shared' = IF PathOf[f] \in OpenPaths(b) THEN shared \cup {PathOf[f]} ELSE shared
  /\ UNCHANGED <<context, ended, talks, opens, losses>>

\* The room or the file could not be opened.
OpenFails(b, f) ==
  /\ handles[b][f].state = "opening"
  /\ handles' = [handles EXCEPT ![b][f] = NoHandle]
  /\ UNCHANGED <<context, presence, rooms, visible, shared, ended, talks, opens, losses>>

\* #ensureRoom, once the owner is settled; the room may not be openable.
JoinRoom(b) ==
  /\ presence[b].pending /\ presence[b].settled
  /\ LET p == [presence[b] EXCEPT !.pending = FALSE]
     IN IF ended \/ p.room # 0 \/ p.documents = <<>>
        THEN presence' = [presence EXCEPT ![b] = p] /\ UNCHANGED <<rooms, visible>>
        ELSE \/ /\ presence' = [presence EXCEPT ![b] = [p EXCEPT !.refused = TRUE]]
                /\ UNCHANGED <<rooms, visible>>
             \/ /\ Len(rooms) < MaxRooms
                /\ presence' = [presence EXCEPT ![b] = [p EXCEPT !.refused = FALSE,
                                                               !.room = Len(rooms) + 1]]
                /\ rooms' = Append(rooms, [local |-> LocalState(p), link |-> "trying",
                                           timer |-> FALSE, disposed |-> FALSE])
                /\ Show(rooms')
  /\ UNCHANGED <<context, handles, shared, ended, talks, opens, losses>>

\* The agent reads, edits or executes an open notebook.
Touch(b, f) ==
  /\ f \in Registered(b)
  /\ LET documents == presence[b].documents
     IN /\ Contains(documents, PathOf[f]) /\ Last(documents) # PathOf[f]
        /\ presence' = [presence EXCEPT ![b].documents = MoveToFront(@, PathOf[f])]
  /\ rooms' = Publish(rooms, presence'[b])
  /\ Show(rooms')
  /\ UNCHANGED <<context, handles, shared, ended, talks, opens, losses>>

\* The last document that is closed leaves the room.
Close(b, f) ==
  /\ f \in Registered(b)
  /\ handles' = [handles EXCEPT ![b][f] = NoHandle]
  /\ LET p == presence[b]
         documents == Without(p.documents, PathOf[f])
     IN IF ~Contains(p.documents, PathOf[f])
        THEN UNCHANGED <<presence, rooms, visible>>
        ELSE IF documents = <<>>
        THEN /\ presence' = [presence EXCEPT ![b] = [p EXCEPT !.documents = <<>>, !.room = 0]]
             /\ rooms' = Leave(rooms, p)
             /\ ShownAfterLeaving({p.room})
        ELSE /\ presence' = [presence EXCEPT ![b].documents = documents]
             /\ rooms' = Publish(rooms, presence'[b])
             /\ Show(rooms')
  /\ UNCHANGED <<context, shared, ended, talks, opens, losses>>

\* The sessions of the context end: shutdown, or the close of its one session.
TearDown ==
  /\ ~ended
  /\ ended' = TRUE
  /\ handles' = [b \in Bindings |-> [f \in Files |->
       IF handles[b][f].state = "open" THEN NoHandle
       ELSE handles[b][f]]]
  /\ presence' = [b \in Bindings |-> [presence[b] EXCEPT !.documents = <<>>, !.room = 0]]
  /\ rooms' = [r \in DOMAIN rooms |-> IF Holds(presence, r) THEN Left ELSE rooms[r]]
  /\ ShownAfterLeaving({presence[b].room : b \in Bindings})
  /\ UNCHANGED <<context, shared, talks, opens, losses>>

-------------------------------------------------------------------------------
(* The socket of a global room. *)

Connected(r) ==
  /\ rooms[r].link = "trying"
  /\ rooms' = [rooms EXCEPT ![r].link = "up"]
  /\ Show(rooms')
  /\ UNCHANGED <<context, presence, handles, shared, ended, talks, opens, losses>>

\* Every close is retried, after a delay.
ConnectionClosed(r) ==
  /\ rooms[r].link # "down" /\ losses < MaxRooms
  /\ losses' = losses + 1
  /\ rooms' = [rooms EXCEPT ![r].link = "down", ![r].timer = TRUE]
  /\ UNCHANGED <<context, presence, handles, visible, shared, ended, talks, opens>>

Reconnect(r) ==
  /\ rooms[r].timer
  /\ rooms' = [rooms EXCEPT ![r].timer = FALSE, ![r].link = "trying"]
  /\ UNCHANGED <<context, presence, handles, visible, shared, ended, talks, opens, losses>>

\* The server forgets a client that is gone.
ServerForgets(r) ==
  /\ rooms[r].link # "up" /\ visible[r] # NoState
  /\ visible' = [visible EXCEPT ![r] = NoState]
  /\ UNCHANGED <<context, presence, handles, rooms, shared, ended, talks, opens, losses>>

PNext ==
  \/ Identify \/ ObserveClientInfo \/ TearDown
  \/ \E b \in Bindings :
       \/ OwnerSettles(b) \/ JoinRoom(b)
       \/ \E f \in Files :
            \/ OpenReplica(b, f) \/ Register(b, f) \/ OpenFails(b, f)
            \/ Touch(b, f) \/ Close(b, f)
  \/ \E r \in DOMAIN rooms :
       Connected(r) \/ ConnectionClosed(r) \/ Reconnect(r) \/ ServerForgets(r)

PSpec == PInit /\ [][PNext]_pvars

-------------------------------------------------------------------------------
Users == {<<>>} \cup {<<o, n>> : o \in {"process", "jupyter"}, n \in Names \cup {None}}
DocumentPaths == {PathOf[f] : f \in Files}
LocalStates == [user : Users, current : DocumentPaths \cup {None}, documents : Seq(DocumentPaths)]
PresenceType == [made : BOOLEAN, owner : {"process", "jupyter"}, user : Users,
                 documents : Seq(DocumentPaths), room : 0..Len(rooms),
                 pending : BOOLEAN, settled : BOOLEAN, refused : BOOLEAN]
RoomType == [local : LocalStates, link : {"trying", "up", "down"}, timer : BOOLEAN,
             disposed : BOOLEAN]

PTypeOK ==
  /\ context \in [declared : Names \cup {None}, client : Names \cup {None}]
  /\ presence \in [Bindings -> PresenceType]
  /\ handles \in [Bindings -> [Files -> [state : {"none", "opening", "open"}, user : Users]]]
  /\ rooms \in Seq(RoomType) /\ Len(rooms) <= MaxRooms
  /\ visible \in [DOMAIN rooms -> LocalStates]
  /\ shared \subseteq DocumentPaths /\ ended \in BOOLEAN
  /\ talks \in 0..MaxTalks /\ opens \in 0..MaxOpened /\ losses \in 0..MaxRooms

(* Everywhere the agent shows the same user, and it is the one of now,     *)
(* also in a document room that was opened while the user changed.         *)
OneUser(b) ==
  presence[b].made /\ ~ended =>
    /\ presence[b].user = UserFor(presence[b].owner, context)
    /\ \A f \in Registered(b) : handles[b][f].user = presence[b].user

(* The documents are those that are open; a path that two handles had at   *)
(* once may be missing.                                                    *)
DocumentsAreOpen(b) ==
  LET documents == ToSet(presence[b].documents)
  IN /\ documents \subseteq OpenPaths(b)
     /\ OpenPaths(b) \ documents \subseteq shared
     /\ Len(presence[b].documents) = Cardinality(documents)

(* The room is there while there are documents, unless it could not be     *)
(* opened, or the owner is not known yet: no other name is ever shown      *)
(* first.  It says what is true, and every room but this one is left.      *)
OneRoom(b) ==
  LET p == presence[b]
  IN /\ p.documents # <<>> => p.room # 0 \/ p.pending \/ p.refused
     /\ p.room # 0 => /\ p.documents # <<>> /\ p.settled /\ ~ended
                      /\ ~rooms[p.room].disposed
                      /\ rooms[p.room].local = LocalState(p)

RoomsAreTrue ==
  /\ Cardinality({b \in Bindings : presence[b].room # 0}) =
       Cardinality({r \in DOMAIN rooms : ~rooms[r].disposed})
  /\ \A r \in DOMAIN rooms :
       /\ rooms[r].link = "up" => visible[r] = rooms[r].local
       /\ rooms[r].disposed => rooms[r].link = "down" /\ ~rooms[r].timer
       /\ ~rooms[r].disposed => rooms[r].link # "down" \/ rooms[r].timer

(* What others see of an agent is true, whatever changes while a notebook  *)
(* is being opened, a lookup is under way or a socket is lost.             *)
(* (service/presence.ts, ServerPresence; service.ts, #openHandle)          *)
PresenceIsTrue ==
  /\ PTypeOK /\ RoomsAreTrue
  /\ \A b \in Bindings : OneUser(b) /\ DocumentsAreOpen(b) /\ OneRoom(b)
=============================================================================
