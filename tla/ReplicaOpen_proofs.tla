-------------------------- MODULE ReplicaOpen_proofs --------------------------
(***************************************************************************)
(* Proofs about ReplicaOpen for every set of callers, sessions and paths,   *)
(* every budget and every bound; and about Presence, what the notebooks     *)
(* that are open show to other people, for every set of servers, files and  *)
(* names.                                                                  *)
(***************************************************************************)
EXTENDS ReplicaOpen, Presence, SequenceTheorems, FiniteSetTheorems, TLAPS

Building == {"room", "baseline"}

ReplicaType(n) == [session : Sessions, path : Paths, file : 1..n,
                   by : {"open", "create"}, live : BOOLEAN]

\* A call that builds a replica has one of its own, up, not registered yet, of
\* the session and path it is about; an open that builds is in session.opening
\* unless the session was closed under it.
BuildingInv ==
  \A c \in Callers :
    pc[c] \in Building =>
      /\ mine[c] \in DOMAIN replica
      /\ replica[mine[c]].live
      /\ replica[mine[c]].session = arg[c].session
      /\ replica[mine[c]].path = arg[c].path
      /\ \A s \in Sessions : mine[c] \notin notebooks[s]
      /\ replica[mine[c]].by = "open" =>
           opening[arg[c].session][arg[c].path] = c \/ arg[c].session \in closed

\* No two calls build the same replica.
NotShared ==
  \A c, d \in Callers :
    pc[c] \in Building /\ pc[d] \in Building /\ mine[c] = mine[d] => c = d

\* A call that neither builds nor closes has no replica in its hands.
EmptyHands == \A c \in Callers : pc[c] \notin Building \cup {"closing"} => mine[c] = 0

\* Only a call that joined another's open has a leader.
FollowersJoined == \A c \in Callers : leader[c] # NoCaller => pc[c] = "joined"

IInv ==
  /\ TypeOK
  /\ BuildingInv
  /\ NotShared
  /\ EmptyHands
  /\ FollowersJoined
  /\ OpeningIsRunning
  /\ RegisteredIsLive
  /\ ReplicasAreOwned
  /\ OpensCoalesce

LEMMA InitIInv == Init => IInv
<1> SUFFICES ASSUME Init PROVE IInv
  OBVIOUS
<1>1. TypeOK
  <2>1. files \in Nat /\ fileAt \in [Paths -> 0..files]
    <3>1. Cardinality(Paths) \in Nat
      BY ConstantsAssumption, FS_CardinalityType
    <3>2. PICK n \in 0..Cardinality(Paths) : files = n /\ fileAt \in [Paths -> 0..n]
      BY DEF Init
    <3> QED BY <3>1, <3>2
  <2>2. arg \in [Callers -> [session : Sessions, path : Paths]]
    BY DEF Init
  <2>3. /\ mine \in [Callers -> 0..Len(replica)]
        /\ Len(replica) \in 0..MaxReplicas
        /\ moves \in 0..MaxMoves
        /\ replica \in Seq(ReplicaType(files))
    BY ConstantsAssumption DEF Init
  <2>4. /\ notebooks \in [Sessions -> SUBSET DOMAIN replica]
        /\ opening \in [Sessions -> [Paths -> Callers \cup {NoCaller}]]
        /\ lock \in [Sessions -> Seq(Callers)]
        /\ leader \in [Callers -> Callers \cup {NoCaller}]
    BY DEF Init
  <2> QED BY <2>1, <2>2, <2>3, <2>4 DEF Init, TypeOK, ReplicaType
<1>2. Live = {}
  BY DEF Init, Live
<1>3. /\ BuildingInv /\ NotShared /\ EmptyHands /\ FollowersJoined
      /\ OpeningIsRunning /\ RegisteredIsLive
  BY DEF Init, BuildingInv, Building, NotShared, EmptyHands, FollowersJoined,
         OpeningIsRunning, RegisteredIsLive
<1>4. ReplicasAreOwned /\ OpensCoalesce
  BY <1>2 DEF ReplicasAreOwned, OpensCoalesce
<1> QED BY <1>1, <1>3, <1>4 DEF IInv

-----------------------------------------------------------------------------
(* What the operators do. *)

LEMMA SettleFacts ==
  ASSUME TypeOK, NEW c \in Callers, Settle(c),
         \A d \in Callers : leader[d] # NoCaller => pc[d] = "joined"
  PROVE  /\ pc' \in [Callers -> {"idle", "joined", "queued", "untitled", "stat",
                                 "collaboration", "room", "baseline", "closing"}]
         /\ leader' \in [Callers -> Callers \cup {NoCaller}]
         /\ mine' \in [Callers -> 0..Len(replica)]
         /\ opening' \in [Sessions -> [Paths -> Callers \cup {NoCaller}]]
         /\ lock' \in [Sessions -> Seq(Callers)]
         /\ pc'[c] = "idle" /\ mine'[c] = 0
         /\ \A d \in Callers \ {c} :
              mine'[d] = mine[d] /\ (pc'[d] = pc[d] \/ (pc[d] = "joined" /\ pc'[d] = "idle"))
         /\ \A d \in Callers : leader'[d] # NoCaller => pc'[d] = "joined"
         /\ \A s \in Sessions, p \in Paths :
              opening'[s][p] = IF opening[s][p] = c /\ s = arg[c].session /\ p = arg[c].path
                               THEN NoCaller ELSE opening[s][p]
<1>0. NoCaller \notin Callers
  BY ConstantsAssumption
<1>1. /\ pc' \in [Callers -> {"idle", "joined", "queued", "untitled", "stat",
                              "collaboration", "room", "baseline", "closing"}]
      /\ leader' \in [Callers -> Callers \cup {NoCaller}]
      /\ pc'[c] = "idle"
      /\ \A d \in Callers \ {c} : pc'[d] = pc[d] \/ (pc[d] = "joined" /\ pc'[d] = "idle")
      /\ \A d \in Callers : leader'[d] # NoCaller => pc'[d] = "joined"
  <2>1. /\ pc' = [d \in Callers |-> IF d \in Answered(c) THEN "idle" ELSE pc[d]]
        /\ leader' = [d \in Callers |-> IF d \in Answered(c) THEN NoCaller ELSE leader[d]]
    BY DEF Settle
  <2>2. \A d \in Callers : d \in Answered(c) <=> d = c \/ leader[d] = c
    BY DEF Answered
  <2>3. \A d \in Callers : d \in Answered(c) => d = c \/ pc[d] = "joined"
    BY <1>0, <2>2
  <2>4. /\ pc \in [Callers -> {"idle", "joined", "queued", "untitled", "stat",
                              "collaboration", "room", "baseline", "closing"}]
        /\ leader \in [Callers -> Callers \cup {NoCaller}]
    BY DEF TypeOK
  <2>5. c \in Answered(c)
    BY <2>2
  <2> QED BY <2>1, <2>3, <2>4, <2>5
<1>2. /\ mine' \in [Callers -> 0..Len(replica)]
      /\ mine'[c] = 0
      /\ \A d \in Callers \ {c} : mine'[d] = mine[d]
  BY DEF Settle, TypeOK
<1>3. arg[c].session \in Sessions /\ arg[c].path \in Paths
  BY DEF TypeOK
<1>4. /\ opening' \in [Sessions -> [Paths -> Callers \cup {NoCaller}]]
      /\ \A s \in Sessions, p \in Paths :
           opening'[s][p] = IF opening[s][p] = c /\ s = arg[c].session /\ p = arg[c].path
                            THEN NoCaller ELSE opening[s][p]
  BY <1>3 DEF Settle, OpeningAfter, TypeOK
<1>5. lock' \in [Sessions -> Seq(Callers)]
  <2>1. lock[arg[c].session] \in Seq(Callers)
    BY <1>3 DEF TypeOK
  <2>2. lock[arg[c].session] # << >> => Tail(lock[arg[c].session]) \in Seq(Callers)
    BY <2>1
  <2> QED BY <1>3, <2>2 DEF Settle, LockAfter, TypeOK
<1> QED BY <1>1, <1>2, <1>4, <1>5

LEMMA ProceedFacts ==
  ASSUME TypeOK, NEW c \in Callers, NEW w, Proceed(c, w),
         w \in {"idle", "joined", "queued", "untitled", "stat",
                "collaboration", "room", "baseline", "closing"}
  PROVE  /\ pc' \in [Callers -> {"idle", "joined", "queued", "untitled", "stat",
                                 "collaboration", "room", "baseline", "closing"}]
         /\ pc'[c] = w /\ \A d \in Callers \ {c} : pc'[d] = pc[d]
         /\ UNCHANGED <<mine, leader, opening, lock>>
  BY DEF Proceed, Await, TypeOK

LEMMA DisposeFacts ==
  ASSUME TypeOK, NEW ns, Dispose(ns)
  PROVE  /\ replica' \in Seq(ReplicaType(files)) /\ Len(replica') = Len(replica)
         /\ DOMAIN replica' = DOMAIN replica
         /\ \A n \in DOMAIN replica :
              /\ replica'[n].session = replica[n].session
              /\ replica'[n].path = replica[n].path
              /\ replica'[n].file = replica[n].file
              /\ replica'[n].by = replica[n].by
              /\ replica'[n].live <=> replica[n].live /\ n \notin ns
         /\ \A n \in DOMAIN replica : n \notin ns => replica'[n] = replica[n]
<1>0. replica \in Seq(ReplicaType(files)) /\ DOMAIN replica = 1..Len(replica) /\ Len(replica) \in Nat
  BY DEF TypeOK, ReplicaType
<1>1. \A n \in DOMAIN replica : replica[n] \in ReplicaType(files)
  BY <1>0
<1>2. \A n \in DOMAIN replica :
        replica'[n] = IF n \in ns THEN [replica[n] EXCEPT !.live = FALSE] ELSE replica[n]
  BY DEF Dispose
<1>3. \A n \in DOMAIN replica :
        /\ replica'[n] \in ReplicaType(files)
        /\ replica'[n].session = replica[n].session
        /\ replica'[n].path = replica[n].path
        /\ replica'[n].file = replica[n].file
        /\ replica'[n].by = replica[n].by
        /\ replica'[n].live <=> replica[n].live /\ n \notin ns
  BY <1>1, <1>2 DEF ReplicaType
<1>4. replica' \in [1..Len(replica) -> ReplicaType(files)]
  BY <1>0, <1>3 DEF Dispose
<1>5. replica' \in Seq(ReplicaType(files)) /\ Len(replica') = Len(replica)
  <2>1. replica' \in Seq(ReplicaType(files))
    BY <1>0, <1>4, SeqDef
  <2> QED BY <1>0, <1>4, <2>1, LenProperties
<1> QED BY <1>0, <1>2, <1>3, <1>4, <1>5

LEMMA RegisteredFacts ==
  ASSUME TypeOK, NEW s \in Sessions, NEW n \in notebooks[s]
  PROVE  n \in DOMAIN replica /\ n \in 1..Len(replica) /\ replica[n] \in ReplicaType(files)
                             /\ replica[n].path \in Paths
<1>1. replica \in Seq(ReplicaType(files)) /\ notebooks \in [Sessions -> SUBSET DOMAIN replica]
  BY DEF TypeOK, ReplicaType
<1>2. n \in DOMAIN replica
  BY <1>1
<1>3. n \in 1..Len(replica) /\ replica[n] \in ReplicaType(files)
  BY <1>1, <1>2
<1> QED BY <1>2, <1>3 DEF ReplicaType

LEMMA FilesGrow ==
  ASSUME TypeOK, NEW n \in Nat, n >= files, replica' = replica
  PROVE  replica' \in Seq(ReplicaType(n))
<1>1. ReplicaType(files) \subseteq ReplicaType(n)
  BY DEF ReplicaType, TypeOK
<1>2. replica \in Seq(ReplicaType(files))
  BY DEF TypeOK, ReplicaType
<1> QED BY <1>1, <1>2

-----------------------------------------------------------------------------
(* Steps that neither build, register nor drop a replica. *)

\* The call c moves on, and with it the calls that joined it.
LEMMA BookkeepingIInv ==
  ASSUME IInv, TypeOK', NEW c \in Callers,
         UNCHANGED <<replica, notebooks, closed>>,
         \A d \in Callers \ {c} :
           mine'[d] = mine[d] /\ arg'[d] = arg[d]
             /\ (pc'[d] = pc[d] \/ (pc[d] = "joined" /\ pc'[d] = "idle")),
         \A d \in Callers : leader'[d] # NoCaller => pc'[d] = "joined",
         \A s \in Sessions, p \in Paths :
           IF opening'[s][p] = c
           THEN /\ opening[s][p] \in {c, NoCaller}
                /\ pc'[c] \in {"stat", "collaboration", "room", "baseline"}
                /\ arg'[c] = [session |-> s, path |-> p]
           ELSE opening'[s][p] = opening[s][p] \/ (opening'[s][p] = NoCaller /\ opening[s][p] = c),
         pc'[c] \in Building => opening' = opening /\ mine'[c] = mine[c] /\ arg'[c] = arg[c],
         pc[c] \in Building <=> pc'[c] \in Building,
         pc'[c] \notin Building \cup {"closing"} => mine'[c] = 0
  PROVE  IInv'
<1>0. /\ NoCaller \notin Callers
      /\ arg \in [Callers -> [session : Sessions, path : Paths]]
      /\ "joined" \notin Building /\ "idle" \notin Building
  BY ConstantsAssumption DEF IInv, TypeOK, Building
<1>1. \A d \in Callers : pc'[d] \in Building <=> pc[d] \in Building
  BY <1>0
<1>2. \A d \in Callers : pc'[d] \in Building => mine'[d] = mine[d] /\ arg'[d] = arg[d]
  OBVIOUS
<1>3. ASSUME NEW d \in Callers, pc'[d] \in Building,
             opening[arg[d].session][arg[d].path] = d
      PROVE  opening'[arg[d].session][arg[d].path] = d
  <2>1. arg[d].session \in Sessions /\ arg[d].path \in Paths
    BY <1>0
  <2>2. CASE d = c
    BY <1>3, <2>2
  <2>3. CASE d # c
    BY <1>0, <1>3, <2>1, <2>3
  <2> QED BY <2>2, <2>3
<1>4. BuildingInv'
  BY <1>1, <1>2, <1>3 DEF IInv, BuildingInv
<1>5. NotShared'
  BY <1>1, <1>2 DEF IInv, NotShared
<1>6. EmptyHands'
  BY <1>0 DEF IInv, EmptyHands
<1>7. FollowersJoined'
  BY DEF FollowersJoined
<1>8. OpeningIsRunning'
  <2> SUFFICES ASSUME NEW s \in Sessions, NEW p \in Paths, opening'[s][p] # NoCaller
               PROVE  /\ opening'[s][p] \in InOpenHandle'
                      /\ arg'[opening'[s][p]] = [session |-> s, path |-> p]
    BY DEF OpeningIsRunning
  <2>1. CASE opening'[s][p] = c
    BY <2>1 DEF InOpenHandle
  <2>2. CASE opening'[s][p] # c
    <3>1. opening'[s][p] = opening[s][p]
      BY <2>2
    <3>2. /\ opening[s][p] \in InOpenHandle
          /\ arg[opening[s][p]] = [session |-> s, path |-> p]
      BY <3>1 DEF IInv, OpeningIsRunning
    <3>3. pc'[opening[s][p]] = pc[opening[s][p]] /\ arg'[opening[s][p]] = arg[opening[s][p]]
      BY <2>2, <3>1, <3>2 DEF InOpenHandle
    <3> QED BY <3>1, <3>2, <3>3 DEF InOpenHandle
  <2> QED BY <2>1, <2>2
<1>9. RegisteredIsLive' /\ OpensCoalesce'
  BY DEF IInv, RegisteredIsLive, OpensCoalesce, Live
<1>10. ReplicasAreOwned'
  BY <1>1, <1>2 DEF IInv, ReplicasAreOwned, Live, Building
<1> QED BY <1>4, <1>5, <1>6, <1>7, <1>8, <1>9, <1>10 DEF IInv

LEMMA NotebookOpenIInv ==
  ASSUME IInv, NEW c \in Callers, NEW s \in Sessions, NEW p \in Paths, NotebookOpen(c, s, p)
  PROVE  IInv'
<1>0. NoCaller \notin Callers
  BY ConstantsAssumption
<1>1. /\ pc[c] = "idle" /\ mine[c] = 0
      /\ arg' = [arg EXCEPT ![c] = [session |-> s, path |-> p]]
      /\ UNCHANGED <<mine, replica, notebooks, lock, closed, stopping, server>>
  BY DEF NotebookOpen, IInv, EmptyHands, Building
<1>2. \/ /\ opening[s][p] # NoCaller
         /\ pc' = [pc EXCEPT ![c] = "joined"]
         /\ leader' = [leader EXCEPT ![c] = opening[s][p]]
         /\ opening' = opening
      \/ /\ opening[s][p] = NoCaller
         /\ pc' = [pc EXCEPT ![c] = "stat"]
         /\ leader' = leader
         /\ opening' = [opening EXCEPT ![s][p] = c]
  BY DEF NotebookOpen, Joins, Await
<1>3. TypeOK'
  <2>1. pc' \in [Callers -> {"idle", "joined", "queued", "untitled", "stat",
                             "collaboration", "room", "baseline", "closing"}]
    BY <1>2 DEF IInv, TypeOK
  <2>2. leader' \in [Callers -> Callers \cup {NoCaller}]
    <3>1. opening[s][p] \in Callers \cup {NoCaller} /\ leader \in [Callers -> Callers \cup {NoCaller}]
      BY DEF IInv, TypeOK
    <3>2. leader' = leader \/ leader' = [leader EXCEPT ![c] = opening[s][p]]
      BY <1>2
    <3> QED BY <3>1, <3>2
  <2>3. opening' \in [Sessions -> [Paths -> Callers \cup {NoCaller}]]
    <3>1. opening \in [Sessions -> [Paths -> Callers \cup {NoCaller}]]
      BY DEF IInv, TypeOK
    <3>2. opening' = opening \/ opening' = [opening EXCEPT ![s][p] = c]
      BY <1>2
    <3> QED BY <3>1, <3>2
  <2>4. arg' \in [Callers -> [session : Sessions, path : Paths]]
    BY <1>1 DEF IInv, TypeOK
  <2> QED BY <1>1, <2>1, <2>2, <2>3, <2>4 DEF IInv, TypeOK, server
<1>4. \A x \in Sessions, y \in Paths : opening[x][y] # c
  BY <1>0, <1>1 DEF IInv, OpeningIsRunning, InOpenHandle
<1>5. \A d \in Callers \ {c} :
        mine'[d] = mine[d] /\ arg'[d] = arg[d] /\ pc'[d] = pc[d] /\ leader'[d] = leader[d]
  BY <1>1, <1>2 DEF IInv, TypeOK
<1>6. pc'[c] \in {"joined", "stat"} /\ arg'[c] = [session |-> s, path |-> p]
  BY <1>1, <1>2 DEF IInv, TypeOK
<1>7. \A d \in Callers : leader'[d] # NoCaller => pc'[d] = "joined"
  <2>1. leader'[c] # NoCaller => pc'[c] = "joined"
    BY <1>1, <1>2 DEF IInv, TypeOK, FollowersJoined
  <2> QED BY <1>5, <2>1 DEF IInv, FollowersJoined
<1>8. ASSUME NEW x \in Sessions, NEW y \in Paths
      PROVE  IF opening'[x][y] = c
             THEN /\ opening[x][y] \in {c, NoCaller}
                  /\ pc'[c] \in {"stat", "collaboration", "room", "baseline"}
                  /\ arg'[c] = [session |-> x, path |-> y]
             ELSE opening'[x][y] = opening[x][y] \/ (opening'[x][y] = NoCaller /\ opening[x][y] = c)
  <2>1. CASE opening' = opening
    BY <1>4, <2>1
  <2>2. CASE /\ opening[s][p] = NoCaller
             /\ pc' = [pc EXCEPT ![c] = "stat"]
             /\ opening' = [opening EXCEPT ![s][p] = c]
    <3>1. pc'[c] = "stat"
      BY <2>2 DEF IInv, TypeOK
    <3>2. opening'[x][y] = IF x = s /\ y = p THEN c ELSE opening[x][y]
      BY <2>2 DEF IInv, TypeOK
    <3> QED BY <1>4, <1>6, <2>2, <3>1, <3>2
  <2> QED BY <1>2, <2>1, <2>2
<1>9. pc[c] \notin Building /\ pc'[c] \notin Building
  BY <1>1, <1>6 DEF Building
<1> QED BY <1>1, <1>3, <1>5, <1>7, <1>8, <1>9, BookkeepingIInv

LEMMA SettleIInv ==
  ASSUME IInv, NEW c \in Callers, Settle(c), pc[c] \notin Building,
         UNCHANGED <<arg, replica, notebooks, closed, stopping>>,
         files' \in Nat, moves' \in 0..MaxMoves, fileAt' \in [Paths -> 0..files'], files' >= files
  PROVE  IInv'
<1>1. TypeOK /\ \A d \in Callers : leader[d] # NoCaller => pc[d] = "joined"
  BY DEF IInv, FollowersJoined
<1>2. replica' \in Seq(ReplicaType(files'))
  BY <1>1, FilesGrow
<1>3. TypeOK'
  BY <1>1, <1>2, SettleFacts DEF TypeOK, ReplicaType
<1>4. pc'[c] \notin Building /\ mine'[c] = 0
  BY <1>1, SettleFacts DEF Building
<1>5. \A s \in Sessions, p \in Paths :
        opening'[s][p] # c
        /\ (opening'[s][p] = opening[s][p] \/ (opening'[s][p] = NoCaller /\ opening[s][p] = c))
  <2> SUFFICES ASSUME NEW s \in Sessions, NEW p \in Paths
               PROVE  opening'[s][p] # c
                      /\ (opening'[s][p] = opening[s][p] \/ (opening'[s][p] = NoCaller /\ opening[s][p] = c))
    OBVIOUS
  <2>1. opening'[s][p] = IF opening[s][p] = c /\ s = arg[c].session /\ p = arg[c].path
                         THEN NoCaller ELSE opening[s][p]
    BY <1>1, SettleFacts
  <2>2. opening[s][p] = c => arg[c] = [session |-> s, path |-> p]
    BY ConstantsAssumption DEF IInv, OpeningIsRunning
  <2>3. opening[s][p] = c => s = arg[c].session /\ p = arg[c].path
    BY <2>2
  <2> QED BY <2>1, <2>3, ConstantsAssumption
<1>6. /\ \A d \in Callers \ {c} :
           mine'[d] = mine[d] /\ (pc'[d] = pc[d] \/ (pc[d] = "joined" /\ pc'[d] = "idle"))
      /\ \A d \in Callers : leader'[d] # NoCaller => pc'[d] = "joined"
  BY <1>1, SettleFacts
<1> QED BY <1>3, <1>4, <1>5, <1>6, BookkeepingIInv

LEMMA ProceedIInv ==
  ASSUME IInv, NEW c \in Callers, NEW w, Proceed(c, w),
         w \in {"untitled", "stat", "collaboration", "baseline"},
         pc[c] \in {"queued", "untitled", "stat", "room"},
         w = "baseline" <=> pc[c] = "room",
         pc[c] = "stat" => w = "collaboration",
         UNCHANGED <<arg, replica, notebooks, closed, stopping>>,
         files' \in Nat, moves' \in 0..MaxMoves, fileAt' \in [Paths -> 0..files'], files' >= files
  PROVE  IInv'
<1>1. TypeOK
  BY DEF IInv
<1>2. replica' \in Seq(ReplicaType(files'))
  BY <1>1, FilesGrow
<1>3. /\ pc' \in [Callers -> {"idle", "joined", "queued", "untitled", "stat",
                              "collaboration", "room", "baseline", "closing"}]
      /\ pc'[c] = w /\ \A d \in Callers \ {c} : pc'[d] = pc[d]
      /\ UNCHANGED <<mine, leader, opening, lock>>
  BY <1>1, ProceedFacts
<1>4. TypeOK'
  BY <1>1, <1>2, <1>3 DEF TypeOK, ReplicaType
<1>5. pc[c] \in Building <=> pc'[c] \in Building
  BY <1>3 DEF Building
<1>6. pc'[c] \notin Building \cup {"closing"} => mine'[c] = 0
  BY <1>3 DEF IInv, EmptyHands, Building
<1>7. \A d \in Callers : leader'[d] # NoCaller => pc'[d] = "joined"
  BY <1>3 DEF IInv, FollowersJoined
<1>8. ASSUME NEW s \in Sessions, NEW p \in Paths, opening'[s][p] = c
      PROVE  /\ pc'[c] \in {"stat", "collaboration", "room", "baseline"}
             /\ arg'[c] = [session |-> s, path |-> p]
  <2>1. c \in InOpenHandle /\ arg[c] = [session |-> s, path |-> p]
    BY <1>3, <1>8, ConstantsAssumption DEF IInv, OpeningIsRunning
  <2> QED BY <1>3, <2>1 DEF InOpenHandle
<1> QED BY <1>3, <1>4, <1>5, <1>6, <1>7, <1>8, BookkeepingIInv

LEMMA NotebookCreateIInv ==
  ASSUME IInv, NEW c \in Callers, NEW s \in Sessions, NEW p \in Paths, NotebookCreate(c, s, p)
  PROVE  IInv'
<1>1. /\ pc[c] = "idle" /\ mine[c] = 0
      /\ arg' = [arg EXCEPT ![c] = [session |-> s, path |-> p]]
      /\ lock' = [lock EXCEPT ![s] = Append(@, c)]
      /\ pc' = [pc EXCEPT ![c] = "queued"]
      /\ UNCHANGED <<mine, leader, replica, notebooks, opening, closed, stopping, server>>
  BY DEF NotebookCreate, Await, IInv, EmptyHands, Building
<1>2. TypeOK'
  <2>1. /\ pc' \in [Callers -> {"idle", "joined", "queued", "untitled", "stat",
                                "collaboration", "room", "baseline", "closing"}]
        /\ arg' \in [Callers -> [session : Sessions, path : Paths]]
    BY <1>1 DEF IInv, TypeOK
  <2>2. lock' \in [Sessions -> Seq(Callers)]
    BY <1>1 DEF IInv, TypeOK
  <2> QED BY <1>1, <2>1, <2>2 DEF IInv, TypeOK, server
<1>3. /\ pc'[c] = "queued"
      /\ \A d \in Callers \ {c} : pc'[d] = pc[d] /\ arg'[d] = arg[d]
  BY <1>1 DEF IInv, TypeOK
<1>4. \A x \in Sessions, y \in Paths : opening[x][y] # c
  BY <1>1, ConstantsAssumption DEF IInv, OpeningIsRunning, InOpenHandle
<1>5. \A d \in Callers : leader'[d] # NoCaller => pc'[d] = "joined"
  BY <1>1, <1>3 DEF IInv, FollowersJoined
<1>6. pc[c] \notin Building /\ pc'[c] \notin Building
  BY <1>1, <1>3 DEF Building
<1> QED BY <1>1, <1>2, <1>3, <1>4, <1>5, <1>6, BookkeepingIInv

LEMMA NotebookCloseIInv ==
  ASSUME IInv, NEW c \in Callers, NEW s \in Sessions, NEW n \in notebooks[s], NotebookClose(c, s, n)
  PROVE  IInv'
<1>1. /\ pc[c] = "idle"
      /\ arg' = [arg EXCEPT ![c] = [session |-> s, path |-> replica[n].path]]
      /\ mine' = [mine EXCEPT ![c] = n]
      /\ pc' = [pc EXCEPT ![c] = "closing"]
      /\ UNCHANGED <<leader, replica, notebooks, opening, lock, closed, stopping, server>>
  BY DEF NotebookClose, Await
<1>2. n \in DOMAIN replica /\ n \in 0..Len(replica) /\ replica[n].path \in Paths
  BY RegisteredFacts DEF IInv
<1>3. TypeOK'
  <2>1. /\ pc' \in [Callers -> {"idle", "joined", "queued", "untitled", "stat",
                                "collaboration", "room", "baseline", "closing"}]
        /\ arg' \in [Callers -> [session : Sessions, path : Paths]]
        /\ mine' \in [Callers -> 0..Len(replica)]
    BY <1>1, <1>2 DEF IInv, TypeOK
  <2> QED BY <1>1, <2>1 DEF IInv, TypeOK, server
<1>4. /\ pc'[c] = "closing"
      /\ \A d \in Callers \ {c} : pc'[d] = pc[d] /\ arg'[d] = arg[d] /\ mine'[d] = mine[d]
  BY <1>1 DEF IInv, TypeOK
<1>5. \A x \in Sessions, y \in Paths : opening[x][y] # c
  BY <1>1, ConstantsAssumption DEF IInv, OpeningIsRunning, InOpenHandle
<1>6. \A d \in Callers : leader'[d] # NoCaller => pc'[d] = "joined"
  BY <1>1, <1>4 DEF IInv, FollowersJoined
<1>7. pc[c] \notin Building /\ pc'[c] \notin Building
  BY <1>1, <1>4 DEF Building
<1> QED BY <1>1, <1>3, <1>4, <1>5, <1>6, <1>7, BookkeepingIInv

-----------------------------------------------------------------------------
(* Steps that drop a replica, or register one. *)

\* A call that returns keeps what is known of the calls that go on.
LEMMA SettleKeeps ==
  ASSUME IInv, NEW c \in Callers, Settle(c), arg' = arg
  PROVE  /\ OpeningIsRunning' /\ FollowersJoined' /\ EmptyHands'
         /\ \A d \in Callers :
              pc'[d] \in Building <=> d # c /\ pc[d] \in Building
         /\ \A d \in Callers \ {c} : mine'[d] = mine[d]
         /\ \A d \in Callers \ {c} : \A s \in Sessions, p \in Paths :
              opening[s][p] = d => opening'[s][p] = d
<1>1. TypeOK /\ \A d \in Callers : leader[d] # NoCaller => pc[d] = "joined"
  BY DEF IInv, FollowersJoined
<1>2. /\ pc'[c] = "idle" /\ mine'[c] = 0
      /\ \A d \in Callers \ {c} :
           mine'[d] = mine[d] /\ (pc'[d] = pc[d] \/ (pc[d] = "joined" /\ pc'[d] = "idle"))
      /\ \A d \in Callers : leader'[d] # NoCaller => pc'[d] = "joined"
      /\ \A s \in Sessions, p \in Paths :
           opening'[s][p] = IF opening[s][p] = c /\ s = arg[c].session /\ p = arg[c].path
                            THEN NoCaller ELSE opening[s][p]
  BY <1>1, SettleFacts
<1>3. FollowersJoined'
  BY <1>2 DEF FollowersJoined
<1>4. EmptyHands'
  BY <1>2 DEF IInv, EmptyHands, Building
<1>5. \A d \in Callers : pc'[d] \in Building <=> d # c /\ pc[d] \in Building
  BY <1>2 DEF Building
<1>6. OpeningIsRunning'
  <2> SUFFICES ASSUME NEW s \in Sessions, NEW p \in Paths, opening'[s][p] # NoCaller
               PROVE  /\ opening'[s][p] \in InOpenHandle'
                      /\ arg'[opening'[s][p]] = [session |-> s, path |-> p]
    BY DEF OpeningIsRunning
  <2>1. opening'[s][p] = opening[s][p]
    BY <1>2
  <2>2. /\ opening[s][p] \in InOpenHandle
        /\ arg[opening[s][p]] = [session |-> s, path |-> p]
    BY <2>1 DEF IInv, OpeningIsRunning
  <2>3. opening[s][p] # c
    <3>1. opening[s][p] = c => s = arg[c].session /\ p = arg[c].path
      BY <2>2
    <3> QED BY <1>2, <2>1, <3>1
  <2>4. pc'[opening[s][p]] = pc[opening[s][p]]
    BY <1>2, <2>2, <2>3 DEF InOpenHandle
  <2> QED BY <2>1, <2>2, <2>4 DEF InOpenHandle
<1> QED BY <1>2, <1>3, <1>4, <1>5, <1>6

LEMMA DiscardIInv ==
  ASSUME IInv, NEW c \in Callers, Discard(c), Settle(c), pc[c] # "closing",
         UNCHANGED <<arg, notebooks, closed, stopping, server>>
  PROVE  IInv'
<1> DEFINE mc == mine[c]
<1>1. TypeOK /\ \A d \in Callers : leader[d] # NoCaller => pc[d] = "joined"
  BY DEF IInv, FollowersJoined
<1>2. Dispose({mc})
  BY DEF Discard
<1>3. /\ replica' \in Seq(ReplicaType(files)) /\ Len(replica') = Len(replica)
      /\ DOMAIN replica' = DOMAIN replica
      /\ \A n \in DOMAIN replica :
           /\ replica'[n].session = replica[n].session
           /\ replica'[n].path = replica[n].path
           /\ replica'[n].file = replica[n].file
           /\ replica'[n].by = replica[n].by
           /\ replica'[n].live <=> replica[n].live /\ n # mc
      /\ \A n \in DOMAIN replica : n # mc => replica'[n] = replica[n]
  BY <1>1, <1>2, DisposeFacts
<1>4. TypeOK'
  BY <1>1, <1>3, SettleFacts DEF TypeOK, ReplicaType, server
<1>5. pc[c] \in Building \/ (mc = 0 /\ mc \notin DOMAIN replica)
  BY <1>1 DEF IInv, EmptyHands, TypeOK
<1>6. \A s \in Sessions : mc \notin notebooks[s]
  BY <1>1, <1>5, RegisteredFacts DEF IInv, BuildingInv
<1>7. \A d \in Callers \ {c} : pc[d] \in Building => mine[d] # mc /\ mine[d] \in DOMAIN replica
  BY <1>5 DEF IInv, BuildingInv, NotShared
<1> HIDE DEF mc
<1>8. /\ OpeningIsRunning' /\ FollowersJoined' /\ EmptyHands'
      /\ \A d \in Callers : pc'[d] \in Building <=> d # c /\ pc[d] \in Building
      /\ \A d \in Callers \ {c} : mine'[d] = mine[d]
      /\ \A d \in Callers \ {c} : \A s \in Sessions, p \in Paths :
           opening[s][p] = d => opening'[s][p] = d
  BY SettleKeeps
<1>9. BuildingInv'
  <2> SUFFICES ASSUME NEW d \in Callers, pc'[d] \in Building
               PROVE  /\ mine'[d] \in DOMAIN replica'
                      /\ replica'[mine'[d]].live
                      /\ replica'[mine'[d]].session = arg'[d].session
                      /\ replica'[mine'[d]].path = arg'[d].path
                      /\ \A s \in Sessions : mine'[d] \notin notebooks'[s]
                      /\ replica'[mine'[d]].by = "open" =>
                           \/ opening'[arg'[d].session][arg'[d].path] = d
                           \/ arg'[d].session \in closed'
    BY DEF BuildingInv
  <2>1. d # c /\ pc[d] \in Building /\ mine'[d] = mine[d] /\ replica'[mine[d]] = replica[mine[d]]
    BY <1>3, <1>7, <1>8
  <2>2. arg[d].session \in Sessions /\ arg[d].path \in Paths
    BY <1>1 DEF TypeOK
  <2> QED BY <1>3, <1>8, <2>1, <2>2 DEF IInv, BuildingInv
<1>10. NotShared'
  BY <1>8 DEF IInv, NotShared
<1>11. RegisteredIsLive'
  BY <1>1, <1>3, <1>6, RegisteredFacts DEF IInv, RegisteredIsLive
<1>12. Live' = Live \ {mc}
  BY <1>3 DEF Live
<1>13. ReplicasAreOwned'
  <2> SUFFICES ASSUME NEW n \in Live', \A s \in Sessions \ closed' : n \notin notebooks'[s]
               PROVE  \E d \in Callers : pc'[d] \in Building /\ mine'[d] = n
    BY DEF ReplicasAreOwned, Building
  <2>1. PICK d \in Callers : pc[d] \in Building /\ mine[d] = n
    BY <1>12 DEF IInv, ReplicasAreOwned, Building
  <2>2. d # c
    BY <1>12, <2>1 DEF mc
  <2> QED BY <1>8, <2>1, <2>2
<1>14. OpensCoalesce'
  BY <1>3, <1>12 DEF IInv, OpensCoalesce, Live
<1> QED BY <1>4, <1>8, <1>9, <1>10, <1>11, <1>13, <1>14 DEF IInv

\* Registered replicas are dropped and their entries removed, by notebook_close
\* or by a teardown, which also empties session.opening.
LEMMA DropIInv ==
  ASSUME IInv, TypeOK', NEW ns, Dispose(ns),
         \A s \in Sessions : notebooks'[s] = notebooks[s] \ ns,
         \A n \in ns : \E s \in Sessions : n \in notebooks[s],
         closed \subseteq closed',
         \A s \in closed' : notebooks'[s] = {},
         arg' = arg, leader' = leader,
         \A d \in Callers :
           (pc'[d] = pc[d] /\ mine'[d] = mine[d])
             \/ (pc[d] = "closing" /\ pc'[d] = "idle" /\ mine'[d] = 0),
         \A s \in Sessions, p \in Paths :
           opening'[s][p] = opening[s][p] \/ (opening'[s][p] = NoCaller /\ s \in closed')
  PROVE  IInv'
<1>1. TypeOK
  BY DEF IInv
<1>2. /\ DOMAIN replica' = DOMAIN replica
      /\ \A n \in DOMAIN replica :
           /\ replica'[n].session = replica[n].session
           /\ replica'[n].path = replica[n].path
           /\ replica'[n].file = replica[n].file
           /\ replica'[n].by = replica[n].by
           /\ replica'[n].live <=> replica[n].live /\ n \notin ns
      /\ \A n \in DOMAIN replica : n \notin ns => replica'[n] = replica[n]
  BY <1>1, DisposeFacts
<1>3. \A d \in Callers :
        pc'[d] \in Building =>
          pc[d] \in Building /\ mine'[d] = mine[d] /\ mine[d] \in DOMAIN replica /\ mine[d] \notin ns
  BY DEF IInv, BuildingInv, Building
<1>4. \A d \in Callers : pc[d] \in Building => pc'[d] \in Building /\ mine'[d] = mine[d]
  BY DEF Building
<1>5. BuildingInv'
  <2> SUFFICES ASSUME NEW d \in Callers, pc'[d] \in Building
               PROVE  /\ mine'[d] \in DOMAIN replica'
                      /\ replica'[mine'[d]].live
                      /\ replica'[mine'[d]].session = arg'[d].session
                      /\ replica'[mine'[d]].path = arg'[d].path
                      /\ \A s \in Sessions : mine'[d] \notin notebooks'[s]
                      /\ replica'[mine'[d]].by = "open" =>
                           \/ opening'[arg'[d].session][arg'[d].path] = d
                           \/ arg'[d].session \in closed'
    BY DEF BuildingInv
  <2>1. pc[d] \in Building /\ mine'[d] = mine[d] /\ replica'[mine[d]] = replica[mine[d]]
    BY <1>2, <1>3
  <2>2. arg[d].session \in Sessions /\ arg[d].path \in Paths
    BY <1>1 DEF TypeOK
  <2>3. \/ opening'[arg[d].session][arg[d].path] = opening[arg[d].session][arg[d].path]
        \/ arg[d].session \in closed'
    BY <2>2
  <2> QED BY <1>2, <2>1, <2>3 DEF IInv, BuildingInv
<1>6. NotShared' /\ EmptyHands' /\ FollowersJoined'
  <2>1. NotShared'
    BY <1>3 DEF IInv, NotShared
  <2>2. EmptyHands'
    BY DEF IInv, EmptyHands, Building
  <2>3. FollowersJoined'
    BY DEF IInv, FollowersJoined
  <2> QED BY <2>1, <2>2, <2>3
<1>7. OpeningIsRunning'
  <2> SUFFICES ASSUME NEW s \in Sessions, NEW p \in Paths, opening'[s][p] # NoCaller
               PROVE  /\ opening'[s][p] \in InOpenHandle'
                      /\ arg'[opening'[s][p]] = [session |-> s, path |-> p]
    BY DEF OpeningIsRunning
  <2>1. /\ opening'[s][p] = opening[s][p]
        /\ opening[s][p] \in InOpenHandle
        /\ arg[opening[s][p]] = [session |-> s, path |-> p]
    BY DEF IInv, OpeningIsRunning
  <2> QED BY <2>1 DEF InOpenHandle
<1>8. RegisteredIsLive'
  BY <1>1, <1>2, RegisteredFacts DEF IInv, RegisteredIsLive
<1>9. Live' = Live \ ns
  BY <1>2 DEF Live
<1>10. ReplicasAreOwned'
  <2> SUFFICES ASSUME NEW n \in Live', \A d \in Callers : ~(pc'[d] \in Building /\ mine'[d] = n)
               PROVE  \E s \in Sessions \ closed' : n \in notebooks'[s]
    BY DEF ReplicasAreOwned, Building
  <2>1. PICK s \in Sessions \ closed : n \in notebooks[s]
    BY <1>4, <1>9 DEF IInv, ReplicasAreOwned, Building
  <2>2. n \in notebooks'[s]
    BY <1>9, <2>1
  <2> QED BY <2>1, <2>2
<1>11. OpensCoalesce'
  BY <1>2, <1>9 DEF IInv, OpensCoalesce, Live
<1> QED BY <1>5, <1>6, <1>7, <1>8, <1>10, <1>11 DEF IInv

LEMMA CloseAnsweredIInv ==
  ASSUME IInv, NEW c \in Callers, CloseAnswered(c)
  PROVE  IInv'
<1> DEFINE s == arg[c].session
<1>0. s \in Sessions
  BY DEF IInv, TypeOK
<1>1. /\ pc[c] = "closing"
      /\ pc' = [pc EXCEPT ![c] = "idle"] /\ mine' = [mine EXCEPT ![c] = 0]
      /\ UNCHANGED <<arg, leader, opening, lock, closed, stopping, server>>
  BY DEF CloseAnswered
<1>2. \A d \in Callers :
        (pc'[d] = pc[d] /\ mine'[d] = mine[d])
          \/ (pc[d] = "closing" /\ pc'[d] = "idle" /\ mine'[d] = 0)
  BY <1>1 DEF IInv, TypeOK
<1>3. /\ pc' \in [Callers -> {"idle", "joined", "queued", "untitled", "stat",
                              "collaboration", "room", "baseline", "closing"}]
      /\ mine' \in [Callers -> 0..Len(replica)]
  BY <1>1 DEF IInv, TypeOK
<1>4. CASE mine[c] \in notebooks[s]
  <2>1. /\ notebooks' = [notebooks EXCEPT ![s] = @ \ {mine[c]}]
        /\ Dispose({mine[c]})
    BY <1>4 DEF CloseAnswered
  <2>2. /\ replica' \in Seq(ReplicaType(files)) /\ Len(replica') = Len(replica)
        /\ DOMAIN replica' = DOMAIN replica
    BY <2>1, DisposeFacts DEF IInv
  <2>3. TypeOK'
    <3>1. notebooks' \in [Sessions -> SUBSET DOMAIN replica]
      BY <2>1 DEF IInv, TypeOK
    <3> QED BY <1>1, <1>3, <2>2, <3>1 DEF IInv, TypeOK, ReplicaType, server
  <2>4. \A t \in Sessions : notebooks'[t] = notebooks[t] \ {mine[c]}
    <3>1. \A t \in Sessions \ {s} : mine[c] \notin notebooks[t]
      BY <1>0, <1>4 DEF IInv, RegisteredIsLive
    <3>2. notebooks \in [Sessions -> SUBSET DOMAIN replica]
      BY DEF IInv, TypeOK
    <3> HIDE DEF s
    <3> QED BY <1>0, <2>1, <3>1, <3>2
  <2>5. \A t \in closed' : notebooks'[t] = {}
    BY <1>1, <2>4 DEF IInv, TypeOK, RegisteredIsLive
  <2> QED BY <1>0, <1>1, <1>2, <1>4, <2>1, <2>3, <2>4, <2>5, DropIInv
<1>5. CASE mine[c] \notin notebooks[s]
  <2>1. UNCHANGED <<notebooks, replica>>
    BY <1>5 DEF CloseAnswered
  <2>2. TypeOK'
    BY <1>1, <1>3, <2>1 DEF IInv, TypeOK, server
  <2>3. /\ pc'[c] = "idle" /\ mine'[c] = 0
        /\ \A d \in Callers \ {c} : pc'[d] = pc[d] /\ mine'[d] = mine[d]
    BY <1>1 DEF IInv, TypeOK
  <2>4. \A d \in Callers : leader'[d] # NoCaller => pc'[d] = "joined"
    BY <1>1, <2>3 DEF IInv, FollowersJoined
  <2>5. \A x \in Sessions, y \in Paths : opening[x][y] # c
    BY <1>1, ConstantsAssumption DEF IInv, OpeningIsRunning, InOpenHandle
  <2>6. pc[c] \notin Building /\ pc'[c] \notin Building
    BY <1>1, <2>3 DEF Building
  <2> QED BY <1>1, <2>1, <2>2, <2>3, <2>4, <2>5, <2>6, BookkeepingIInv
<1> QED BY <1>4, <1>5

LEMMA TeardownIInv ==
  ASSUME IInv, NEW ss \in SUBSET Sessions, Teardown(ss), stopping' \in BOOLEAN,
         UNCHANGED <<pc, arg, mine, leader, lock, server>>
  PROVE  IInv'
<1> DEFINE ns == UNION {notebooks[s] : s \in ss}
<1>1. /\ closed' = closed \cup ss
      /\ opening' = [s \in Sessions |-> IF s \in ss THEN [p \in Paths |-> NoCaller] ELSE opening[s]]
      /\ Dispose(ns)
      /\ notebooks' = [s \in Sessions |-> IF s \in ss THEN {} ELSE notebooks[s]]
  BY DEF Teardown
<1>2. /\ replica' \in Seq(ReplicaType(files)) /\ Len(replica') = Len(replica)
      /\ DOMAIN replica' = DOMAIN replica
  BY <1>1, DisposeFacts DEF IInv
<1>3. TypeOK'
  <2>1. /\ notebooks' \in [Sessions -> SUBSET DOMAIN replica]
        /\ closed' \subseteq Sessions
    BY <1>1 DEF IInv, TypeOK
  <2>2. opening' \in [Sessions -> [Paths -> Callers \cup {NoCaller}]]
    BY <1>1 DEF IInv, TypeOK
  <2> QED BY <1>2, <2>1, <2>2 DEF IInv, TypeOK, ReplicaType, server
<1>4. \A n : n \in ns <=> \E s \in ss : n \in notebooks[s]
  OBVIOUS
<1> HIDE DEF ns
<1>5. \A s \in Sessions : notebooks'[s] = notebooks[s] \ ns
  <2>1. \A s \in Sessions, t \in ss : \A n \in notebooks[s] : n \in notebooks[t] => s = t
    BY DEF IInv, RegisteredIsLive
  <2> QED BY <1>1, <1>4, <2>1
<1>6. \A s \in closed' : notebooks'[s] = {}
  BY <1>1 DEF IInv, TypeOK, RegisteredIsLive
<1>7. \A s \in Sessions, p \in Paths :
        opening'[s][p] = opening[s][p] \/ (opening'[s][p] = NoCaller /\ s \in closed')
  BY <1>1
<1> QED BY <1>1, <1>3, <1>4, <1>5, <1>6, <1>7, DropIInv

\* The call registers the replica it built.
LEMMA RegisterIInv ==
  ASSUME IInv, NEW c \in Callers, pc[c] = "baseline", SessionOpen(c), Settle(c),
         notebooks' = [notebooks EXCEPT ![arg[c].session] = @ \cup {mine[c]}],
         UNCHANGED <<replica, arg, closed, stopping, server>>
  PROVE  IInv'
<1> DEFINE s == arg[c].session
<1>0. s \in Sessions \ closed
  BY DEF IInv, TypeOK, SessionOpen
<1>1. TypeOK /\ \A d \in Callers : leader[d] # NoCaller => pc[d] = "joined"
  BY DEF IInv, FollowersJoined
<1>2. /\ mine[c] \in DOMAIN replica /\ replica[mine[c]].live /\ replica[mine[c]].session = s
      /\ pc[c] \in Building
  BY DEF IInv, BuildingInv, Building
<1>3. \A t \in Sessions : notebooks'[t] = IF t = s THEN notebooks[s] \cup {mine[c]} ELSE notebooks[t]
  BY <1>0, <1>1 DEF TypeOK
<1>4. TypeOK'
  <2>1. notebooks' \in [Sessions -> SUBSET DOMAIN replica]
    BY <1>1, <1>2 DEF TypeOK
  <2> QED BY <1>1, <2>1, SettleFacts DEF TypeOK, server
<1>5. /\ OpeningIsRunning' /\ FollowersJoined' /\ EmptyHands'
      /\ \A d \in Callers : pc'[d] \in Building <=> d # c /\ pc[d] \in Building
      /\ \A d \in Callers \ {c} : mine'[d] = mine[d]
      /\ \A d \in Callers \ {c} : \A t \in Sessions, p \in Paths :
           opening[t][p] = d => opening'[t][p] = d
  BY SettleKeeps
<1>6. BuildingInv'
  <2> SUFFICES ASSUME NEW d \in Callers, pc'[d] \in Building
               PROVE  /\ mine'[d] \in DOMAIN replica'
                      /\ replica'[mine'[d]].live
                      /\ replica'[mine'[d]].session = arg'[d].session
                      /\ replica'[mine'[d]].path = arg'[d].path
                      /\ \A t \in Sessions : mine'[d] \notin notebooks'[t]
                      /\ replica'[mine'[d]].by = "open" =>
                           \/ opening'[arg'[d].session][arg'[d].path] = d
                           \/ arg'[d].session \in closed'
    BY DEF BuildingInv
  <2>1. d # c /\ pc[d] \in Building /\ mine'[d] = mine[d] /\ mine[d] # mine[c]
    BY <1>2, <1>5 DEF IInv, NotShared
  <2>2. arg[d].session \in Sessions /\ arg[d].path \in Paths
    BY <1>1 DEF TypeOK
  <2>3. \A t \in Sessions : mine[d] \notin notebooks'[t]
    BY <1>3, <2>1 DEF IInv, BuildingInv
  <2> QED BY <1>5, <2>1, <2>2, <2>3 DEF IInv, BuildingInv
<1>7. NotShared'
  BY <1>5 DEF IInv, NotShared
<1>8. RegisteredIsLive'
  BY <1>0, <1>2, <1>3 DEF IInv, RegisteredIsLive
<1>9. ReplicasAreOwned'
  <2> SUFFICES ASSUME NEW n \in Live, \A t \in Sessions \ closed : n \notin notebooks'[t]
               PROVE  \E d \in Callers : pc'[d] \in Building /\ mine'[d] = n
    BY DEF ReplicasAreOwned, Building, Live
  <2>1. n # mine[c] /\ \A t \in Sessions \ closed : n \notin notebooks[t]
    BY <1>0, <1>3
  <2>2. PICK d \in Callers : pc[d] \in Building /\ mine[d] = n
    BY <2>1 DEF IInv, ReplicasAreOwned, Building
  <2> QED BY <1>5, <2>1, <2>2
<1>10. OpensCoalesce'
  BY DEF IInv, OpensCoalesce, Live
<1> QED BY <1>4, <1>5, <1>6, <1>7, <1>8, <1>9, <1>10 DEF IInv

\* The call builds a replica: no other one of an open is of that file and path.
LEMMA BuildIInv ==
  ASSUME IInv, NEW c \in Callers, pc[c] = "collaboration", SessionOpen(c), HasFile(c),
         \A n \in notebooks[arg[c].session] : replica[n].file # fileAt[arg[c].path],
         Len(replica) < MaxReplicas,
         replica' = Append(replica, [session |-> arg[c].session, path |-> arg[c].path,
                                     file |-> fileAt[arg[c].path], by |-> Tool(c),
                                     live |-> TRUE]),
         mine' = [mine EXCEPT ![c] = Len(replica) + 1],
         Await(c, "room"),
         UNCHANGED <<leader, opening, lock, arg, notebooks, closed, stopping, server>>
  PROVE  IInv'
<1> DEFINE s == arg[c].session
           p == arg[c].path
           N == Len(replica) + 1
           new == [session |-> s, path |-> p, file |-> fileAt[p], by |-> Tool(c), live |-> TRUE]
<1>0. TypeOK /\ s \in Sessions \ closed /\ p \in Paths /\ Len(replica) \in Nat
  BY DEF IInv, TypeOK, SessionOpen
<1>1. new \in ReplicaType(files)
  BY <1>0 DEF TypeOK, HasFile, Tool, ReplicaType
<1>2. /\ replica' \in Seq(ReplicaType(files)) /\ Len(replica') = N
      /\ DOMAIN replica = 1..Len(replica) /\ DOMAIN replica' = 1..N
      /\ replica'[N] = new
      /\ \A n \in DOMAIN replica : replica'[n] = replica[n] /\ n # N
  <2>1. replica \in Seq(ReplicaType(files))
    BY <1>0 DEF TypeOK, ReplicaType
  <2>2. replica' = Append(replica, new)
    OBVIOUS
  <2> HIDE DEF new
  <2> QED BY <1>0, <1>1, <2>1, <2>2
<1>3. /\ pc' \in [Callers -> {"idle", "joined", "queued", "untitled", "stat",
                              "collaboration", "room", "baseline", "closing"}]
      /\ pc'[c] = "room" /\ \A d \in Callers \ {c} : pc'[d] = pc[d]
      /\ mine' \in [Callers -> 0..N]
      /\ mine'[c] = N /\ \A d \in Callers \ {c} : mine'[d] = mine[d]
  BY <1>0 DEF Await, TypeOK
<1>4. TypeOK'
  <2>1. Len(replica') \in 0..MaxReplicas
    BY <1>0, <1>2, ConstantsAssumption
  <2>2. notebooks' \in [Sessions -> SUBSET DOMAIN replica']
    <3>1. notebooks \in [Sessions -> SUBSET DOMAIN replica]
      BY <1>0 DEF TypeOK
    <3>2. DOMAIN replica \subseteq DOMAIN replica'
      BY <1>0, <1>2
    <3> QED BY <3>1, <3>2
  <2>3. mine' \in [Callers -> 0..Len(replica')]
    BY <1>2, <1>3
  <2> QED BY <1>0, <1>2, <1>3, <2>1, <2>2, <2>3 DEF TypeOK, ReplicaType, server
<1>5. \A t \in Sessions : N \notin notebooks[t]
  BY <1>0, <1>2 DEF TypeOK
<1> HIDE DEF N
<1>6. BuildingInv'
  <2> SUFFICES ASSUME NEW d \in Callers, pc'[d] \in Building
               PROVE  /\ mine'[d] \in DOMAIN replica'
                      /\ replica'[mine'[d]].live
                      /\ replica'[mine'[d]].session = arg'[d].session
                      /\ replica'[mine'[d]].path = arg'[d].path
                      /\ \A t \in Sessions : mine'[d] \notin notebooks'[t]
                      /\ replica'[mine'[d]].by = "open" =>
                           \/ opening'[arg'[d].session][arg'[d].path] = d
                           \/ arg'[d].session \in closed'
    BY DEF BuildingInv
  <2>1. CASE d = c
    <3>1. N \in DOMAIN replica'
      BY <1>0, <1>2 DEF N
    <3>2. new.by = "open" => opening[s][p] = c
      BY DEF Tool
    <3> QED BY <1>2, <1>3, <1>5, <2>1, <3>1, <3>2
  <2>2. CASE d # c
    <3>1. pc[d] \in Building /\ mine'[d] = mine[d]
      BY <1>3, <2>2
    <3>2. mine[d] \in DOMAIN replica /\ replica'[mine[d]] = replica[mine[d]]
      BY <1>2, <3>1 DEF IInv, BuildingInv
    <3>3. mine[d] \in DOMAIN replica'
      BY <1>0, <1>2, <3>2 DEF N
    <3> QED BY <3>1, <3>2, <3>3 DEF IInv, BuildingInv
  <2> QED BY <2>1, <2>2
<1>7. NotShared'
  <2>1. \A d \in Callers \ {c} : pc'[d] \in Building => pc[d] \in Building /\ mine'[d] # N
    BY <1>2, <1>3 DEF IInv, BuildingInv
  <2> QED BY <1>3, <2>1 DEF IInv, NotShared
<1>8. EmptyHands' /\ FollowersJoined'
  BY <1>3 DEF IInv, EmptyHands, FollowersJoined, Building
<1>9. OpeningIsRunning'
  BY <1>3 DEF IInv, OpeningIsRunning, InOpenHandle
<1>10. RegisteredIsLive'
  BY <1>0, <1>2, RegisteredFacts DEF IInv, RegisteredIsLive
<1>11. Live' = Live \cup {N}
  <2>1. DOMAIN replica' = DOMAIN replica \cup {N}
    BY <1>0, <1>2 DEF N
  <2> QED BY <1>2, <2>1 DEF Live
<1>12. ReplicasAreOwned'
  <2> SUFFICES ASSUME NEW n \in Live', \A t \in Sessions \ closed : n \notin notebooks[t]
               PROVE  \E d \in Callers : pc'[d] \in Building /\ mine'[d] = n
    BY DEF ReplicasAreOwned, Building
  <2>1. CASE n = N
    BY <1>3, <2>1 DEF Building
  <2>2. CASE n # N
    <3>1. PICK d \in Callers : pc[d] \in Building /\ mine[d] = n
      BY <1>11, <2>2 DEF IInv, ReplicasAreOwned, Building
    <3>2. d # c
      BY <3>1 DEF Building
    <3> QED BY <1>3, <3>1, <3>2
  <2> QED BY <2>1, <2>2
<1>13. ASSUME NEW m \in Live, replica[m].by = "open", new.by = "open",
              replica[m].session = s, replica[m].path = p, replica[m].file = fileAt[p]
       PROVE  FALSE
  <2>1. opening[s][p] = c
    BY <1>13 DEF Tool
  <2>2. m \notin notebooks[s]
    BY <1>13
  <2>3. \A t \in Sessions : m \notin notebooks[t]
    BY <1>13, <2>2 DEF IInv, RegisteredIsLive
  <2>4. PICK d \in Callers : pc[d] \in Building /\ mine[d] = m
    BY <2>3 DEF IInv, ReplicasAreOwned, Building
  <2>5. arg[d].session = s /\ arg[d].path = p
    BY <1>13, <2>4 DEF IInv, BuildingInv
  <2>6. opening[s][p] = d
    BY <1>0, <1>13, <2>4, <2>5 DEF IInv, BuildingInv
  <2> QED BY <2>1, <2>4, <2>6 DEF Building
<1>14. OpensCoalesce'
  <2>1. \A m \in Live : m \in DOMAIN replica /\ replica'[m] = replica[m]
    BY <1>2 DEF Live
  <2> HIDE DEF new
  <2>2. new.session = s /\ new.path = p /\ new.file = fileAt[p]
    BY DEF new
  <2> SUFFICES ASSUME NEW m \in Live', NEW n \in Live',
                      replica'[m].by = "open", replica'[n].by = "open",
                      replica'[m].session = replica'[n].session,
                      replica'[m].path = replica'[n].path,
                      replica'[m].file = replica'[n].file
               PROVE  m = n
    BY DEF OpensCoalesce
  <2>3. CASE m \in Live /\ n \in Live
    BY <2>1, <2>3 DEF IInv, OpensCoalesce
  <2>4. CASE m \in Live /\ n = N
    BY <1>2, <1>13, <2>1, <2>2, <2>4
  <2>5. CASE m = N /\ n \in Live
    BY <1>2, <1>13, <2>1, <2>2, <2>5
  <2> QED BY <1>11, <2>3, <2>4, <2>5
<1> QED BY <1>4, <1>6, <1>7, <1>8, <1>9, <1>10, <1>12, <1>14 DEF IInv

-----------------------------------------------------------------------------
(* Every step. *)

LEMMA CreateIInv ==
  ASSUME IInv, NEW c \in Callers, CreateGetsLock(c) \/ FileCreated(c) \/ StatAnswered(c)
  PROVE  IInv'
<1>0. files \in Nat /\ moves \in 0..MaxMoves /\ fileAt \in [Paths -> 0..files]
  BY DEF IInv, TypeOK
<1>1. CASE CreateGetsLock(c)
  <2>1. /\ pc[c] = "queued"
        /\ Proceed(c, "untitled") \/ Settle(c)
        /\ UNCHANGED <<arg, replica, notebooks, closed, stopping, server>>
    BY <1>1 DEF CreateGetsLock
  <2> QED BY <1>0, <2>1, ProceedIInv, SettleIInv DEF server, Building
<1>2. CASE FileCreated(c)
  <2>1. /\ pc[c] = "untitled"
        /\ Proceed(c, "stat") \/ Settle(c)
        /\ files' = files + 1 /\ fileAt' = [fileAt EXCEPT ![arg[c].path] = files + 1]
        /\ UNCHANGED <<arg, replica, notebooks, closed, stopping, moves>>
    BY <1>2 DEF FileCreated
  <2>2. files' \in Nat /\ files' >= files /\ moves' \in 0..MaxMoves
    BY <1>0, <2>1
  <2>3. fileAt' \in [Paths -> 0..files']
    <3> DEFINE ids == 0..files'
    <3>1. files + 1 \in ids /\ \A p \in Paths : fileAt[p] \in ids
      BY <1>0, <2>1
    <3> HIDE DEF ids
    <3>2. fileAt' \in [Paths -> ids]
      BY <1>0, <2>1, <3>1
    <3> QED BY <3>2 DEF ids
  <2>4. CASE Proceed(c, "stat")
    BY <2>1, <2>2, <2>3, <2>4, ProceedIInv
  <2>5. CASE Settle(c)
    BY <2>1, <2>2, <2>3, <2>5, SettleIInv DEF Building
  <2> QED BY <2>1, <2>4, <2>5
<1>3. CASE StatAnswered(c)
  <2>1. /\ pc[c] = "stat"
        /\ Proceed(c, "collaboration") \/ Settle(c)
        /\ UNCHANGED <<arg, replica, notebooks, closed, stopping, server>>
    BY <1>3 DEF StatAnswered
  <2> QED BY <1>0, <2>1, ProceedIInv, SettleIInv DEF server, Building
<1> QED BY <1>1, <1>2, <1>3

LEMMA OpenHandleIInv ==
  ASSUME IInv, NEW c \in Callers,
         \/ RequestFails(c) \/ CollaborationAnswered(c) \/ RoomReady(c) \/ BaselineRead(c)
  PROVE  IInv'
<1>0. files \in Nat /\ moves \in 0..MaxMoves /\ fileAt \in [Paths -> 0..files]
  BY DEF IInv, TypeOK
<1>1. CASE RequestFails(c)
  BY <1>1, DiscardIInv DEF RequestFails
<1>2. CASE CollaborationAnswered(c)
  <2>1. /\ pc[c] = "collaboration"
        /\ UNCHANGED <<arg, notebooks, closed, stopping, server>>
    BY <1>2 DEF CollaborationAnswered
  <2>2. CASE Settle(c) /\ UNCHANGED replica
    BY <1>0, <2>1, <2>2, SettleIInv DEF server, Building
  <2>3. CASE ~(Settle(c) /\ UNCHANGED replica)
    <3>1. /\ SessionOpen(c) /\ HasFile(c)
          /\ ~\E n \in notebooks[arg[c].session] : replica[n].file = fileAt[arg[c].path]
          /\ Len(replica) < MaxReplicas
          /\ replica' = Append(replica, [session |-> arg[c].session, path |-> arg[c].path,
                                         file |-> fileAt[arg[c].path], by |-> Tool(c),
                                         live |-> TRUE])
          /\ mine' = [mine EXCEPT ![c] = Len(replica) + 1]
          /\ Await(c, "room")
          /\ UNCHANGED <<leader, opening, lock>>
      BY <1>2, <2>3, Zenon DEF CollaborationAnswered
    <3> QED BY <2>1, <3>1, BuildIInv
  <2> QED BY <2>2, <2>3
<1>3. CASE RoomReady(c)
  <2>1. /\ pc[c] = "room"
        /\ \/ Proceed(c, "baseline") /\ UNCHANGED replica
           \/ Discard(c) /\ Settle(c)
        /\ UNCHANGED <<arg, notebooks, closed, stopping, server>>
    BY <1>3 DEF RoomReady
  <2> QED BY <1>0, <2>1, ProceedIInv, DiscardIInv DEF server
<1>4. CASE BaselineRead(c)
  <2>1. /\ pc[c] = "baseline"
        /\ \/ /\ SessionOpen(c)
              /\ notebooks' = [notebooks EXCEPT ![arg[c].session] = @ \cup {mine[c]}]
              /\ UNCHANGED replica
           \/ Discard(c) /\ UNCHANGED notebooks
        /\ Settle(c)
        /\ UNCHANGED <<arg, closed, stopping, server>>
    BY <1>4 DEF BaselineRead
  <2> QED BY <2>1, RegisterIInv, DiscardIInv
<1> QED BY <1>1, <1>2, <1>3, <1>4

\* What Jupyter's files and the shutdown flag do changes nothing the service has.
LEMMA ElsewhereIInv ==
  ASSUME IInv, stopping' \in BOOLEAN,
         UNCHANGED <<pc, arg, mine, leader, replica, notebooks, opening, lock, closed, files>>,
         moves' \in 0..MaxMoves, fileAt' \in [Paths -> 0..files]
  PROVE  IInv'
<1>1. TypeOK'
  BY DEF IInv, TypeOK
<1>2. BuildingInv' /\ NotShared' /\ EmptyHands' /\ FollowersJoined'
  BY DEF IInv, BuildingInv, NotShared, EmptyHands, FollowersJoined
<1>3. OpeningIsRunning' /\ RegisteredIsLive' /\ ReplicasAreOwned' /\ OpensCoalesce'
  BY DEF IInv, OpeningIsRunning, InOpenHandle, RegisteredIsLive, ReplicasAreOwned,
         OpensCoalesce, Live
<1> QED BY <1>1, <1>2, <1>3 DEF IInv

LEMMA StepIInv == IInv /\ [Next]_vars => IInv'
<1> SUFFICES ASSUME IInv, [Next]_vars PROVE IInv'
  OBVIOUS
<1>0. /\ files \in Nat /\ moves \in 0..MaxMoves /\ fileAt \in [Paths -> 0..files]
      /\ stopping \in BOOLEAN /\ closed \subseteq Sessions
  BY DEF IInv, TypeOK
<1>1. ASSUME NEW c \in Callers, Call(c) PROVE IInv'
  BY <1>1, NotebookOpenIInv, NotebookCreateIInv, NotebookCloseIInv DEF Call
<1>2. ASSUME NEW c \in Callers, Continue(c) PROVE IInv'
  BY <1>2, CreateIInv, OpenHandleIInv, CloseAnsweredIInv DEF Continue
<1>3. ASSUME NEW s \in Sessions, SessionClose(s) PROVE IInv'
  <2>1. /\ {s} \in SUBSET Sessions /\ Teardown({s}) /\ stopping' \in BOOLEAN
        /\ UNCHANGED <<pc, arg, mine, leader, lock, server>>
    BY <1>0, <1>3 DEF SessionClose
  <2> QED BY <2>1, TeardownIInv
<1>4. CASE ShutdownBegins
  BY <1>0, <1>4, ElsewhereIInv DEF ShutdownBegins, server
<1>5. CASE ShutdownEnds
  <2>1. /\ Sessions \ closed \in SUBSET Sessions /\ Teardown(Sessions \ closed)
        /\ stopping' \in BOOLEAN /\ UNCHANGED <<pc, arg, mine, leader, lock, server>>
    BY <1>0, <1>5 DEF ShutdownEnds
  <2> QED BY <2>1, TeardownIInv
<1>6. ASSUME NEW p \in Paths, NEW q \in Paths, FileMoved(p, q) PROVE IInv'
  <2>1. moves' \in 0..MaxMoves /\ fileAt' \in [Paths -> 0..files]
    BY <1>0, <1>6, ConstantsAssumption DEF FileMoved
  <2> QED BY <1>0, <1>6, <2>1, ElsewhereIInv DEF FileMoved
<1>7. CASE UNCHANGED vars
  BY <1>0, <1>7, ElsewhereIInv DEF vars, server
<1> QED BY <1>1, <1>2, <1>3, <1>4, <1>5, <1>6, <1>7 DEF Next

THEOREM InductiveInvariant == Spec => []IInv
<1> QED BY InitIInv, StepIInv, PTL DEF Spec

-----------------------------------------------------------------------------
(* What follows. *)

\* The variables of the service and of Jupyter's files keep their types.
THEOREM Typing == Spec => []TypeOK
<1>1. IInv => TypeOK
  BY DEF IInv
<1> QED BY <1>1, InductiveInvariant, PTL

\* No replica leaks, whatever fails, closes or shuts down while it is built.
THEOREM NoReplicaLeaks == Spec => []ReplicasAreOwned
<1>1. IInv => ReplicasAreOwned
  BY DEF IInv
<1> QED BY <1>1, InductiveInvariant, PTL

\* A closed session gets no replica from an open that was in flight.
THEOREM NoneRegisteredLate == Spec => []RegisteredIsLive
<1>1. IInv => RegisteredIsLive
  BY DEF IInv
<1> QED BY <1>1, InductiveInvariant, PTL

\* The failure of an open never answers a later open of its path.
THEOREM NoPoisonedPath == Spec => []OpeningIsRunning
<1>1. IInv => OpeningIsRunning
  BY DEF IInv
<1> QED BY <1>1, InductiveInvariant, PTL

\* Concurrent opens of one file at one path share one replica.
THEOREM ConcurrentOpensCoalesce == Spec => []OpensCoalesce
<1>1. IInv => OpensCoalesce
  BY DEF IInv
<1> QED BY <1>1, InductiveInvariant, PTL

\* A creation that waited for the lock creates nothing once its session is
\* closed or shutdown has begun.
THEOREM NoLateCreation == Spec => NothingCreatedAfterClose
<1>1. ASSUME IInv, [Next]_vars, NEW c \in Callers, pc[c] = "queued", pc'[c] = "untitled"
      PROVE  ~stopping /\ arg[c].session \notin closed
  <2>0. TypeOK /\ \A d \in Callers : leader[d] # NoCaller => pc[d] = "joined"
    BY <1>1 DEF IInv, FollowersJoined
  <2>1. ASSUME NEW d \in Callers, Settle(d) PROVE FALSE
    BY <1>1, <2>0, <2>1, SettleFacts
  <2>2. ASSUME NEW d \in Callers, NEW w, Await(d, w)
        PROVE  d = c /\ w = "untitled"
    BY <1>1, <2>0, <2>2 DEF TypeOK, Await
  <2>3. ASSUME NEW d \in Callers, Call(d) PROVE FALSE
    <3>1. ASSUME NEW s \in Sessions, NEW p \in Paths, NotebookOpen(d, s, p) PROVE FALSE
      BY <2>2, <3>1 DEF NotebookOpen
    <3>2. ASSUME NEW s \in Sessions, NEW p \in Paths, NotebookCreate(d, s, p) PROVE FALSE
      <4>1. Await(d, "queued")
        BY <3>2, Zenon DEF NotebookCreate
      <4> QED BY <2>2, <4>1
    <3>3. ASSUME NEW s \in Sessions, NEW n \in notebooks[s], NotebookClose(d, s, n) PROVE FALSE
      <4>1. Await(d, "closing")
        BY <3>3, Zenon DEF NotebookClose
      <4> QED BY <2>2, <4>1
    <3> QED BY <2>3, <3>1, <3>2, <3>3 DEF Call
  <2>4. ASSUME NEW d \in Callers, Continue(d) PROVE ~stopping /\ arg[c].session \notin closed
    <3>1. CASE CreateGetsLock(d)
      BY <2>1, <2>2, <3>1 DEF CreateGetsLock, MayCreate, SessionOpen, Proceed
    <3>2. ~FileCreated(d) /\ ~StatAnswered(d)
      BY <2>1, <2>2 DEF FileCreated, StatAnswered, Proceed
    <3>3. ~RequestFails(d) /\ ~BaselineRead(d)
      BY <2>1 DEF RequestFails, BaselineRead
    <3>4. ~CollaborationAnswered(d) /\ ~RoomReady(d)
      BY <2>1, <2>2 DEF CollaborationAnswered, RoomReady, Proceed
    <3>5. ~CloseAnswered(d)
      BY <2>2 DEF CloseAnswered, Await
    <3> QED BY <2>4, <3>1, <3>2, <3>3, <3>4, <3>5 DEF Continue
  <2>5. \/ \E d \in Callers : Call(d) \/ Continue(d)
        \/ UNCHANGED pc
    BY <1>1, Zenon DEF Next, SessionClose, ShutdownBegins, ShutdownEnds, FileMoved, vars
  <2> QED BY <1>1, <2>3, <2>4, <2>5
<1>2. IInv /\ [Next]_vars =>
      [\A c \in Callers : pc[c] = "queued" /\ pc'[c] = "untitled" =>
         ~stopping /\ arg[c].session \notin closed]_vars
  BY <1>1
<1> QED BY <1>2, InductiveInvariant, PTL DEF Spec, NothingCreatedAfterClose

\* The whole invariant of replicas, handles and opens in progress.
THEOREM ReplicasAreSound == Spec => []ReplicasInvariant
<1>1. TypeOK /\ ReplicasAreOwned /\ RegisteredIsLive /\ OpeningIsRunning => ReplicasInvariant
  BY DEF ReplicasInvariant
<1> QED BY <1>1, Typing, NoReplicaLeaks, NoneRegisteredLate, NoPoisonedPath, PTL

-------------------------------------------------------------------------------
(* Presence: the inductive invariant.  Types; every room that is not left   *)
(* is of one presence, and no room of two; and for each server, what makes  *)
(* its documents and its user those of the open handles.                    *)
\* What a presence has: a handle only once it was made, the documents each
\* once, and nothing after the sessions ended.
PresenceSound(b) ==
  /\ \A f \in Files : handles[b][f].state # "none" => presence[b].made
  /\ IsInjective(presence[b].documents)
  /\ ended => presence[b].documents = <<>>

\* Two open handles of one path are known to be at one path.
SharedKnown(b) ==
  \A f, g \in Registered(b) : f # g /\ PathOf[f] = PathOf[g] => PathOf[f] \in shared

\* A room is of one presence, and a room that is not left is of some presence.
RoomsAreHeld ==
  /\ \A b, c \in Bindings : presence[b].room = presence[c].room /\ presence[b].room # 0 => b = c
  /\ \A r \in DOMAIN rooms : ~rooms[r].disposed => Holds(presence, r)

\* RoomsAreTrue, room by room.
RoomSound(r) ==
  /\ rooms[r].link = "up" => visible[r] = rooms[r].local
  /\ rooms[r].disposed => rooms[r].link = "down" /\ ~rooms[r].timer
  /\ ~rooms[r].disposed => rooms[r].link # "down" \/ rooms[r].timer

\* DocumentsAreOpen, but for the count.
DocumentsOpen(b) ==
  /\ ToSet(presence[b].documents) \subseteq OpenPaths(b)
  /\ OpenPaths(b) \ ToSet(presence[b].documents) \subseteq shared

PIInv ==
  /\ PTypeOK
  /\ RoomsAreHeld
  /\ \A r \in DOMAIN rooms : RoomSound(r)
  /\ \A b \in Bindings : PresenceSound(b) /\ SharedKnown(b) /\ OneUser(b) /\ DocumentsOpen(b) /\ OneRoom(b)

-------------------------------------------------------------------------------
(* Lemmas about the documents of a presence. *)

LEMMA WithoutOne ==
  ASSUME NEW S, NEW s \in Seq(S), IsInjective(s), NEW e, Contains(s, e)
  PROVE  /\ Without(s, e) \in Seq(S)
         /\ Len(Without(s, e)) = Len(s) - 1
         /\ IsInjective(Without(s, e))
         /\ ToSet(Without(s, e)) = ToSet(s) \ {e}
<1> DEFINE k == IndexOf(s, e)
           a == SubSeq(s, 1, k - 1)
           z == SubSeq(s, k + 1, Len(s))
           w == Without(s, e)
<1>1. k \in 1..Len(s) /\ s[k] = e
  <2>1. \E i \in DOMAIN s : s[i] = e
    BY DEF Contains
  <2>2. k \in DOMAIN s /\ s[k] = e
    BY <2>1 DEF IndexOf
  <2> QED BY <2>2
<1>2. Len(s) \in Nat
  OBVIOUS
<1>3. \A i \in 1..Len(s) : s[i] \in S
  OBVIOUS
<1>4. w = a \o z
  BY DEF Without, RemoveAt
<1> HIDE DEF k, w
<1>5. /\ a \in Seq(S) /\ Len(a) = k - 1
      /\ \A i \in 1..k - 1 : a[i] = s[i]
  <2>1. \A i \in 1..k - 1 : s[i] \in S
    BY <1>1, <1>2, <1>3
  <2>2. /\ a \in Seq(S) /\ Len(a) = (IF 1 <= k - 1 THEN k - 1 - 1 + 1 ELSE 0)
        /\ \A i \in 1..k - 1 - 1 + 1 : a[i] = s[1 + i - 1]
    BY <2>1, <1>1, <1>2, SubSeqProperties
  <2> HIDE DEF a
  <2> QED BY <2>2, <1>1, <1>2
<1>6. /\ z \in Seq(S) /\ Len(z) = Len(s) - k
      /\ \A i \in 1..Len(s) - k : z[i] = s[k + i]
  <2>1. \A i \in k + 1..Len(s) : s[i] \in S
    BY <1>1, <1>2, <1>3
  <2>2. /\ z \in Seq(S)
        /\ Len(z) = (IF k + 1 <= Len(s) THEN Len(s) - (k + 1) + 1 ELSE 0)
        /\ \A i \in 1..Len(s) - (k + 1) + 1 : z[i] = s[(k + 1) + i - 1]
    BY <2>1, <1>1, <1>2, SubSeqProperties
  <2> HIDE DEF z
  <2> QED BY <2>2, <1>1, <1>2
<1> HIDE DEF a, z
<1>7. /\ w \in Seq(S) /\ Len(w) = Len(s) - 1
      /\ \A i \in 1..Len(s) - 1 : w[i] = IF i < k THEN s[i] ELSE s[i + 1]
  <2>1. /\ w \in Seq(S) /\ Len(w) = Len(a) + Len(z)
        /\ \A i \in 1..Len(a) + Len(z) : w[i] = IF i <= Len(a) THEN a[i] ELSE z[i - Len(a)]
    BY <1>4, <1>5, <1>6, ConcatProperties
  <2>2. ASSUME NEW i \in 1..Len(s) - 1
        PROVE  w[i] = IF i < k THEN s[i] ELSE s[i + 1]
    <3>0. w[i] = IF i <= Len(a) THEN a[i] ELSE z[i - Len(a)]
      <4>1. i \in 1..Len(a) + Len(z)
        BY <1>1, <1>2, <1>5, <1>6
      <4> QED BY <4>1, <2>1
    <3>1. CASE i < k
      <4>1. i <= Len(a) /\ i \in 1..k - 1
        BY <3>1, <1>1, <1>2, <1>5
      <4> QED BY <4>1, <3>0, <3>1, <1>5
    <3>2. CASE ~(i < k)
      <4>1. w[i] = z[i - (k - 1)] /\ i - (k - 1) \in 1..Len(s) - k
        <5>1. ~(i <= Len(a)) /\ Len(a) = k - 1
          BY <3>2, <1>1, <1>2, <1>5
        <5>2. i - (k - 1) \in 1..Len(s) - k
          BY <3>2, <1>1, <1>2
        <5> QED BY <5>1, <5>2, <3>0
      <4>2. z[i - (k - 1)] = s[k + (i - (k - 1))]
        BY <4>1, <1>6
      <4>3. k + (i - (k - 1)) = i + 1
        BY <1>1, <1>2
      <4> QED BY <4>1, <4>2, <4>3, <3>2
    <3> QED BY <3>1, <3>2
  <2> QED BY <2>1, <2>2, <1>1, <1>2, <1>5, <1>6
<1>8. \A i, j \in 1..Len(s) : s[i] = s[j] => i = j
  BY DEF IsInjective
<1>9. DOMAIN w = 1..Len(s) - 1
  BY <1>7
<1>10. IsInjective(w)
  <2> SUFFICES ASSUME NEW i \in 1..Len(s) - 1, NEW j \in 1..Len(s) - 1, w[i] = w[j]
               PROVE  i = j
    BY <1>9 DEF IsInjective
  <2> QED BY <1>1, <1>2, <1>7, <1>8
<1>11. ToSet(w) = ToSet(s) \ {e}
  <2>1. ASSUME NEW i \in 1..Len(s) - 1
        PROVE  w[i] \in ToSet(s) \ {e}
    <3>1. \E j \in 1..Len(s) : j # k /\ w[i] = s[j]
      <4>1. CASE i < k
        BY <4>1, <1>1, <1>2, <1>7
      <4>2. CASE ~(i < k)
        <5>1. i + 1 \in 1..Len(s) /\ i + 1 # k /\ w[i] = s[i + 1]
          BY <4>2, <1>1, <1>2, <1>7
        <5> QED BY <5>1
      <4> QED BY <4>1, <4>2
    <3> QED BY <3>1, <1>1, <1>8 DEF ToSet
  <2>2. ASSUME NEW j \in 1..Len(s), s[j] # e
        PROVE  s[j] \in ToSet(w)
    <3>1. \E i \in 1..Len(s) - 1 : w[i] = s[j]
      <4>1. CASE j < k
        BY <4>1, <1>1, <1>2, <1>7
      <4>2. CASE j > k
        <5>1. j - 1 \in 1..Len(s) - 1 /\ ~(j - 1 < k) /\ (j - 1) + 1 = j
          BY <4>2, <1>1, <1>2
        <5>2. w[j - 1] = s[j]
          BY <5>1, <1>7
        <5> QED BY <5>1, <5>2
      <4> QED BY <4>1, <4>2, <2>2, <1>1, <1>2
    <3> QED BY <3>1, <1>9 DEF ToSet
  <2>3. ToSet(w) \subseteq ToSet(s) \ {e}
    BY <2>1, <1>9 DEF ToSet
  <2>4. ToSet(s) \ {e} \subseteq ToSet(w)
    BY <2>2 DEF ToSet
  <2> QED BY <2>3, <2>4
<1> QED BY <1>7, <1>10, <1>11 DEF w

LEMMA AppendedLast ==
  ASSUME NEW S, NEW s \in Seq(S), IsInjective(s), NEW e \in S, e \notin ToSet(s)
  PROVE  /\ Append(s, e) \in Seq(S) /\ Append(s, e) # <<>>
         /\ IsInjective(Append(s, e))
         /\ ToSet(Append(s, e)) = ToSet(s) \cup {e}
<1> DEFINE w == Append(s, e)
<1>1. /\ w \in Seq(S) /\ Len(w) = Len(s) + 1 /\ Len(s) \in Nat
      /\ \A i \in 1..Len(s) : w[i] = s[i]
      /\ w[Len(s) + 1] = e
  OBVIOUS
<1>2. DOMAIN w = 1..Len(s) + 1 /\ DOMAIN s = 1..Len(s)
  BY <1>1
<1> HIDE DEF w
<1>3. \A i \in 1..Len(s) : s[i] # e
  BY <1>2 DEF ToSet
<1>4. IsInjective(w)
  <2> SUFFICES ASSUME NEW i \in 1..Len(s) + 1, NEW j \in 1..Len(s) + 1, w[i] = w[j]
               PROVE  i = j
    BY <1>2 DEF IsInjective
  <2>1. \A m, n \in 1..Len(s) : s[m] = s[n] => m = n
    BY <1>2 DEF IsInjective
  <2> QED BY <2>1, <1>1, <1>3
<1>5. ToSet(w) = ToSet(s) \cup {e}
  <2>1. ASSUME NEW i \in 1..Len(s) + 1
        PROVE  w[i] \in ToSet(s) \cup {e}
    BY <1>1, <1>2 DEF ToSet
  <2>2. ASSUME NEW i \in 1..Len(s)
        PROVE  s[i] \in ToSet(w)
    BY <1>1, <1>2 DEF ToSet
  <2>3. e \in ToSet(w)
    BY <1>1, <1>2 DEF ToSet
  <2>4. ToSet(w) \subseteq ToSet(s) \cup {e}
    BY <2>1, <1>2 DEF ToSet
  <2>5. ToSet(s) \subseteq ToSet(w)
    BY <2>2, <1>2 DEF ToSet
  <2> QED BY <2>3, <2>4, <2>5
<1>6. w # <<>>
  BY <1>1
<1> QED BY <1>1, <1>4, <1>5, <1>6 DEF w

LEMMA ContainsIsIn ==
  ASSUME NEW S, NEW s \in Seq(S), NEW e
  PROVE  Contains(s, e) <=> e \in ToSet(s)
BY DEF Contains, ToSet

LEMMA MovedToFront ==
  ASSUME NEW S, NEW s \in Seq(S), IsInjective(s), NEW e \in S
  PROVE  /\ MoveToFront(s, e) \in Seq(S) /\ MoveToFront(s, e) # <<>>
         /\ IsInjective(MoveToFront(s, e))
         /\ ToSet(MoveToFront(s, e)) = ToSet(s) \cup {e}
<1>1. CASE Contains(s, e)
  <2> DEFINE w == Without(s, e)
  <2>1. w \in Seq(S) /\ IsInjective(w) /\ ToSet(w) = ToSet(s) \ {e}
    BY <1>1, WithoutOne
  <2>2. MoveToFront(s, e) = Append(w, e)
    BY <1>1 DEF MoveToFront
  <2>3. e \in ToSet(s)
    BY <1>1, ContainsIsIn
  <2> HIDE DEF w
  <2>4. /\ Append(w, e) \in Seq(S) /\ Append(w, e) # <<>>
        /\ IsInjective(Append(w, e))
        /\ ToSet(Append(w, e)) = ToSet(w) \cup {e}
    BY <2>1, AppendedLast
  <2>5. ToSet(w) \cup {e} = ToSet(s) \cup {e}
    BY <2>1
  <2> QED BY <2>2, <2>4, <2>5
<1>2. CASE ~Contains(s, e)
  <2>1. MoveToFront(s, e) = Append(s, e)
    BY <1>2 DEF MoveToFront
  <2>2. e \notin ToSet(s)
    BY <1>2, ContainsIsIn
  <2> QED BY <2>1, <2>2, AppendedLast
<1> QED BY <1>1, <1>2

LEMMA CountOfDocuments ==
  ASSUME NEW S, NEW s \in Seq(S), IsInjective(s)
  PROVE  Len(s) = Cardinality(ToSet(s))
<1>1. s \in Bijection(1..Len(s), ToSet(s))
  <2>1. s \in [1..Len(s) -> ToSet(s)]
    BY DEF ToSet
  <2>2. \A i, j \in 1..Len(s) : s[i] = s[j] => i = j
    BY DEF IsInjective
  <2>3. \A y \in ToSet(s) : \E i \in 1..Len(s) : s[i] = y
    BY DEF ToSet
  <2> QED BY <2>1, <2>2, <2>3 DEF Bijection, Injection, Surjection
<1>2. ExistsBijection(1..Len(s), ToSet(s))
  BY <1>1 DEF ExistsBijection
<1>3. Len(s) \in Nat
  OBVIOUS
<1> QED BY <1>2, <1>3, FS_CountingElements

LEMMA EmptyOfNone ==
  ASSUME NEW S, NEW s \in Seq(S)
  PROVE  s = <<>> <=> ToSet(s) = {}
<1>1. s = <<>> <=> Len(s) = 0
  BY EmptySeq
<1>2. Len(s) \in Nat /\ DOMAIN s = 1..Len(s)
  OBVIOUS
<1>3. ToSet(s) = {} <=> Len(s) = 0
  <2>1. Len(s) = 0 => 1..Len(s) = {}
    BY <1>2
  <2>2. Len(s) # 0 => 1 \in 1..Len(s)
    BY <1>2
  <2> QED BY <1>2, <2>1, <2>2 DEF ToSet
<1> QED BY <1>1, <1>3

-------------------------------------------------------------------------------
(* Lemmas about the rooms. *)

LEMMA LocalStateTyped ==
  ASSUME NEW p \in PresenceType, p.documents # <<>>
  PROVE  LocalState(p) \in LocalStates
<1>1. p.user \in Users /\ p.documents \in Seq(DocumentPaths)
  BY Zenon DEF PresenceType
<1>2. Last(p.documents) \in DocumentPaths
  BY <1>1 DEF Last
<1> QED BY <1>1, <1>2 DEF LocalState, LocalStates

LEMMA RoomTyped ==
  ASSUME PTypeOK, NEW r \in DOMAIN rooms
  PROVE  rooms[r] \in RoomType /\ r \in 1..Len(rooms) /\ Len(rooms) \in Nat
BY DEF PTypeOK

LEMMA LocalSet ==
  ASSUME NEW x \in RoomType, NEW l \in LocalStates
  PROVE  /\ [x EXCEPT !.local = l] \in RoomType
         /\ [x EXCEPT !.local = l].local = l
         /\ [x EXCEPT !.local = l].link = x.link
         /\ [x EXCEPT !.local = l].timer = x.timer
         /\ [x EXCEPT !.local = l].disposed = x.disposed
BY DEF RoomType

\* The rooms but for what they publish.
SameButLocal ==
  /\ rooms' \in Seq(RoomType) /\ Len(rooms') = Len(rooms) /\ DOMAIN rooms' = DOMAIN rooms
  /\ \A r \in DOMAIN rooms : /\ rooms'[r].link = rooms[r].link
                             /\ rooms'[r].timer = rooms[r].timer
                             /\ rooms'[r].disposed = rooms[r].disposed

LEMMA Publishing ==
  ASSUME PTypeOK, NEW p, p.room \in 0..Len(rooms),
         p.room # 0 => LocalState(p) \in LocalStates,
         rooms' = Publish(rooms, p)
  PROVE  /\ SameButLocal
         /\ p.room # 0 => rooms'[p.room].local = LocalState(p)
         /\ \A r \in DOMAIN rooms : r # p.room => rooms'[r] = rooms[r]
<1>1. CASE p.room = 0
  <2>1. rooms' = rooms
    BY <1>1 DEF Publish
  <2> QED BY <2>1, <1>1 DEF SameButLocal, PTypeOK
<1>2. CASE p.room # 0
  <2> DEFINE l == LocalState(p)
             x == [rooms[p.room] EXCEPT !.local = l]
  <2>1. l \in LocalStates
    BY <1>2
  <2>2. p.room \in 1..Len(rooms) /\ p.room \in DOMAIN rooms
    BY <1>2 DEF PTypeOK
  <2>3. rooms[p.room] \in RoomType
    BY <2>2, RoomTyped
  <2>4. rooms' = [rooms EXCEPT ![p.room] = x]
    BY <1>2 DEF Publish
  <2> HIDE DEF l
  <2>5. /\ x \in RoomType /\ x.local = l /\ x.link = rooms[p.room].link
        /\ x.timer = rooms[p.room].timer /\ x.disposed = rooms[p.room].disposed
    BY <2>1, <2>3, LocalSet
  <2> HIDE DEF x
  <2>6. /\ rooms' \in Seq(RoomType) /\ Len(rooms') = Len(rooms) /\ DOMAIN rooms' = DOMAIN rooms
    BY <2>2, <2>4, <2>5 DEF PTypeOK
  <2>7. rooms'[p.room] = x /\ \A r \in DOMAIN rooms : r # p.room => rooms'[r] = rooms[r]
    BY <2>2, <2>4
  <2>8. \A r \in DOMAIN rooms : /\ rooms'[r].link = rooms[r].link
                                /\ rooms'[r].timer = rooms[r].timer
                                /\ rooms'[r].disposed = rooms[r].disposed
    BY <2>5, <2>7
  <2>9. rooms'[p.room].local = LocalState(p)
    BY <2>5, <2>7 DEF l
  <2> QED BY <2>6, <2>7, <2>8, <2>9 DEF SameButLocal
<1> QED BY <1>1, <1>2

LEMMA HolderIsOne ==
  ASSUME NEW ps, NEW r, NEW b \in Bindings, ps[b].room = r,
         \A c \in Bindings : ps[c].room = r => c = b
  PROVE  Holds(ps, r) /\ Holder(ps, r) = b
<1>1. Holder(ps, r) \in Bindings /\ ps[Holder(ps, r)].room = r
  BY DEF Holder
<1> QED BY <1>1 DEF Holds

LEMMA PublishingAll ==
  ASSUME PTypeOK, NEW ps \in [Bindings -> PresenceType],
         \A b, c \in Bindings : ps[b].room = ps[c].room /\ ps[b].room # 0 => b = c,
         \A b \in Bindings : ps[b].room # 0 => ps[b].documents # <<>>,
         rooms' = PublishAll(ps)
  PROVE  /\ SameButLocal
         /\ \A b \in Bindings : ps[b].room # 0 => rooms'[ps[b].room].local = LocalState(ps[b])
<1>1. DOMAIN rooms = 1..Len(rooms) /\ Len(rooms) \in Nat
  BY DEF PTypeOK
<1>2. ASSUME NEW r \in DOMAIN rooms, NEW b \in Bindings, ps[b].room = r
      PROVE  /\ rooms'[r] \in RoomType
             /\ rooms'[r].link = rooms[r].link
             /\ rooms'[r].timer = rooms[r].timer
             /\ rooms'[r].disposed = rooms[r].disposed
             /\ rooms'[r].local = LocalState(ps[b])
  <2>1. r # 0
    BY <1>1
  <2>2. Holds(ps, r) /\ Holder(ps, r) = b
    BY <1>2, <2>1, HolderIsOne
  <2>3. rooms'[r] = [rooms[r] EXCEPT !.local = LocalState(ps[b])]
    BY <2>2 DEF PublishAll
  <2>4. LocalState(ps[b]) \in LocalStates
    BY <1>2, <2>1, LocalStateTyped
  <2>5. rooms[r] \in RoomType
    BY RoomTyped
  <2> QED BY <2>3, <2>4, <2>5, LocalSet
<1>3. ASSUME NEW r \in DOMAIN rooms, ~Holds(ps, r)
      PROVE  rooms'[r] = rooms[r] /\ rooms[r] \in RoomType
  BY <1>3, RoomTyped DEF PublishAll
<1>4. \A r \in DOMAIN rooms :
        /\ rooms'[r] \in RoomType
        /\ rooms'[r].link = rooms[r].link
        /\ rooms'[r].timer = rooms[r].timer
        /\ rooms'[r].disposed = rooms[r].disposed
  BY <1>2, <1>3 DEF Holds
<1>5. DOMAIN rooms' = 1..Len(rooms)
  BY <1>1 DEF PublishAll
<1>6. rooms' \in [1..Len(rooms) -> RoomType]
  <2> DEFINE e(r) == IF Holds(ps, r) THEN [rooms[r] EXCEPT !.local = LocalState(ps[Holder(ps, r)])]
                     ELSE rooms[r]
  <2>1. rooms' = [r \in 1..Len(rooms) |-> e(r)]
    BY <1>1 DEF PublishAll
  <2> HIDE DEF e
  <2> QED BY <2>1, <1>1, <1>4
<1>7. rooms' \in Seq(RoomType) /\ Len(rooms') = Len(rooms)
  BY <1>1, <1>6
<1>8. SameButLocal
  BY <1>1, <1>4, <1>5, <1>7 DEF SameButLocal
<1>9. ASSUME NEW b \in Bindings, ps[b].room # 0
      PROVE  rooms'[ps[b].room].local = LocalState(ps[b])
  <2>1. ps[b].room \in 0..Len(rooms)
    BY Zenon DEF PresenceType
  <2>2. ps[b].room \in DOMAIN rooms
    BY <2>1, <1>1, <1>9
  <2> QED BY <2>2, <1>2
<1> QED BY <1>8, <1>9

LEMMA Publication ==
  ASSUME PTypeOK, RoomsAreHeld, \A r \in DOMAIN rooms : RoomSound(r),
         SameButLocal, Show(rooms'),
         \A b \in Bindings : presence'[b].room = presence[b].room
  PROVE  /\ visible' \in [DOMAIN rooms' -> LocalStates]
         /\ RoomsAreHeld'
         /\ \A r \in DOMAIN rooms' : RoomSound(r)'
<1>1. DOMAIN visible = DOMAIN rooms /\ DOMAIN rooms' = DOMAIN rooms
  BY DEF PTypeOK, SameButLocal
<1>2. \A r \in DOMAIN rooms : visible'[r] = IF rooms'[r].link = "up" THEN rooms'[r].local ELSE visible[r]
  BY <1>1 DEF Show
<1>3. \A r \in DOMAIN rooms : rooms'[r].local \in LocalStates /\ visible[r] \in LocalStates
  <2>1. \A r \in DOMAIN rooms' : rooms'[r] \in RoomType
    BY DEF SameButLocal
  <2> QED BY <2>1, <1>1 DEF RoomType, PTypeOK
<1>4. visible' \in [DOMAIN rooms' -> LocalStates]
  <2>1. visible' = [r \in DOMAIN rooms' |-> visible'[r]]
    BY DEF Show
  <2>2. \A r \in DOMAIN rooms' : visible'[r] \in LocalStates
    BY <1>1, <1>2, <1>3
  <2> QED BY <2>1, <2>2
<1>5. RoomsAreHeld'
  <2>1. \A r \in DOMAIN rooms' : Holds(presence, r) => Holds(presence', r)
    BY DEF Holds
  <2> QED BY <2>1, <1>1 DEF RoomsAreHeld, SameButLocal
<1>6. ASSUME NEW r \in DOMAIN rooms'
      PROVE  RoomSound(r)'
  BY <1>1, <1>2 DEF RoomSound, SameButLocal
<1> QED BY <1>4, <1>5, <1>6

-------------------------------------------------------------------------------
(* The steps. *)

LEMMA TypesFollowLength ==
  ASSUME Len(rooms') = Len(rooms)
  PROVE  PresenceType' = PresenceType
BY DEF PresenceType

LEMMA PresenceTyped ==
  ASSUME PTypeOK, NEW b \in Bindings
  PROVE  /\ presence[b] \in PresenceType
         /\ presence[b].documents \in Seq(DocumentPaths)
         /\ presence[b].room \in 0..Len(rooms) /\ Len(rooms) \in Nat
<1>1. presence[b] \in PresenceType
  BY DEF PTypeOK
<1>2. presence[b].documents \in Seq(DocumentPaths) /\ presence[b].room \in 0..Len(rooms)
  BY <1>1, Zenon DEF PresenceType
<1> QED BY <1>1, <1>2 DEF PTypeOK

LEMMA SameHandles ==
  ASSUME NEW b \in Bindings,
         \A f \in Files : handles'[b][f].state = handles[b][f].state
  PROVE  Registered(b)' = Registered(b) /\ OpenPaths(b)' = OpenPaths(b)
BY DEF Registered, OpenPaths

LEMMA UserTyped ==
  ASSUME NEW o \in {"process", "jupyter"},
         NEW ctx \in [declared : Names \cup {None}, client : Names \cup {None}]
  PROVE  UserFor(o, ctx) \in Users
<1>1. (IF ctx.declared # None THEN ctx.declared ELSE ctx.client) \in Names \cup {None}
  OBVIOUS
<1> QED BY <1>1 DEF UserFor, Users

\* What a presence keeps when only its user or the owner changes.
SameButUser(p, q) ==
  /\ q.made = p.made /\ q.documents = p.documents /\ q.room = p.room
  /\ q.pending = p.pending /\ q.refused = p.refused
  /\ p.settled => q.settled

LEMMA RefreshedPresence ==
  ASSUME NEW p \in PresenceType,
         NEW ctx \in [declared : Names \cup {None}, client : Names \cup {None}]
  PROVE  /\ Refreshed(p, ctx) \in PresenceType
         /\ SameButUser(p, Refreshed(p, ctx))
         /\ Refreshed(p, ctx).owner = p.owner
         /\ p.made => Refreshed(p, ctx).user = UserFor(p.owner, ctx)
<1>1. p.owner \in {"process", "jupyter"}
  BY Zenon DEF PresenceType
<1>2. UserFor(p.owner, ctx) \in Users
  BY <1>1, UserTyped
<1> DEFINE u == UserFor(p.owner, ctx)
           q == [p EXCEPT !.user = u]
<1>3. u \in Users
  BY <1>2
<1> HIDE DEF u
<1>4. /\ q \in PresenceType
      /\ q.made = p.made /\ q.documents = p.documents /\ q.room = p.room
      /\ q.pending = p.pending /\ q.refused = p.refused
      /\ q.settled = p.settled /\ q.owner = p.owner /\ q.user = u
  BY <1>3 DEF PresenceType
<1>5. Refreshed(p, ctx) = IF p.made THEN q ELSE p
  BY DEF Refreshed, u
<1> HIDE DEF q
<1> QED BY <1>4, <1>5 DEF SameButUser, u

LEMMA Republishing ==
  ASSUME PIInv, NEW ps, ps \in [Bindings -> PresenceType],
         \A b \in Bindings : SameButUser(presence[b], ps[b]),
         \A b \in Bindings : ps[b].made /\ ~ended => ps[b].user = UserFor(ps[b].owner, context'),
         context' \in [declared : Names \cup {None}, client : Names \cup {None}],
         Republish(ps), talks' \in 0..MaxTalks,
         UNCHANGED <<shared, ended, opens, losses>>
  PROVE  PIInv'
<1>1. \A b \in Bindings : ps[b].room = presence[b].room /\ ps[b].documents = presence[b].documents
  BY DEF SameButUser
<1>2. /\ \A b, c \in Bindings : ps[b].room = ps[c].room /\ ps[b].room # 0 => b = c
      /\ \A b \in Bindings : ps[b].room # 0 => ps[b].documents # <<>>
  BY <1>1 DEF PIInv, RoomsAreHeld, OneRoom
<1>3. /\ SameButLocal
      /\ \A b \in Bindings : ps[b].room # 0 => rooms'[ps[b].room].local = LocalState(ps[b])
  BY <1>2, PublishingAll DEF PIInv, Republish
<1>4. \A b \in Bindings : presence'[b] = ps[b]
  BY DEF Republish
<1>5. /\ visible' \in [DOMAIN rooms' -> LocalStates]
      /\ RoomsAreHeld'
      /\ \A r \in DOMAIN rooms' : RoomSound(r)'
  BY <1>1, <1>3, <1>4, Publication DEF PIInv, Republish
<1>6. ASSUME NEW b \in Bindings, NEW f \in Files
      PROVE  /\ handles'[b][f] \in [state : {"none", "opening", "open"}, user : Users]
             /\ handles'[b][f].state = handles[b][f].state
             /\ handles'[b][f].state = "open" => handles'[b][f].user = ps[b].user
  <2>1. handles[b][f] \in [state : {"none", "opening", "open"}, user : Users]
    BY DEF PIInv, PTypeOK
  <2>2. handles'[b][f] = IF handles[b][f].state = "open"
                        THEN [handles[b][f] EXCEPT !.user = ps[b].user] ELSE handles[b][f]
    BY DEF Republish
  <2>3. ps[b].user \in Users
    BY Zenon DEF PresenceType
  <2> QED BY <2>1, <2>2, <2>3
<1>7. PTypeOK'
  <2>1. presence' \in [Bindings -> PresenceType']
    BY <1>3, TypesFollowLength DEF Republish, SameButLocal
  <2>2. handles' \in [Bindings -> [Files -> [state : {"none", "opening", "open"}, user : Users]]]
    <3>1. handles' = [b \in Bindings |-> [f \in Files |-> handles'[b][f]]]
      BY DEF Republish
    <3> QED BY <3>1, <1>6
  <2> QED BY <1>3, <1>5, <2>1, <2>2 DEF PTypeOK, PIInv, SameButLocal
<1>8. ASSUME NEW b \in Bindings
      PROVE  (PresenceSound(b) /\ SharedKnown(b) /\ OneUser(b) /\ DocumentsOpen(b) /\ OneRoom(b))'
  <2>1. Registered(b)' = Registered(b) /\ OpenPaths(b)' = OpenPaths(b)
    BY <1>6, SameHandles
  <2>2. presence'[b] = ps[b] /\ SameButUser(presence[b], ps[b]) /\ ended' = ended /\ shared' = shared
    BY <1>4
  <2>3. PresenceSound(b) /\ SharedKnown(b) /\ DocumentsOpen(b) /\ OneRoom(b)
    BY DEF PIInv
  <2>4. PresenceSound(b)'
    BY <2>2, <2>3, <1>6 DEF PresenceSound, SameButUser
  <2>5. SharedKnown(b)'
    BY <2>1, <2>2, <2>3 DEF SharedKnown
  <2>6. OneUser(b)'
    BY <2>2, <1>6 DEF OneUser, Registered
  <2>7. DocumentsOpen(b)'
    BY <2>1, <2>2, <2>3 DEF DocumentsOpen, SameButUser
  <2>8. OneRoom(b)'
    <3>1. presence'[b].room # 0 =>
            /\ ~rooms'[presence'[b].room].disposed
            /\ rooms'[presence'[b].room].local = LocalState(presence'[b])
      <4>1. ASSUME presence'[b].room # 0
            PROVE  presence'[b].room \in DOMAIN rooms
        BY <4>1, <2>2, PresenceTyped DEF SameButUser, PIInv, PTypeOK
      <4> QED BY <4>1, <1>3, <2>2, <2>3 DEF SameButLocal, OneRoom, SameButUser
    <3> QED BY <3>1, <2>2, <2>3 DEF OneRoom, SameButUser
  <2> QED BY <2>4, <2>5, <2>6, <2>7, <2>8
<1> QED BY <1>5, <1>7, <1>8 DEF PIInv

LEMMA TalkStep ==
  ASSUME PIInv, NEW ctx \in [declared : Names \cup {None}, client : Names \cup {None}],
         Talk(ctx)
  PROVE  PIInv'
<1> DEFINE ps == [b \in Bindings |-> Refreshed(presence[b], ctx)]
<1>1. ASSUME NEW b \in Bindings
      PROVE  /\ ps[b] \in PresenceType /\ SameButUser(presence[b], ps[b])
             /\ ps[b].made => ps[b].user = UserFor(ps[b].owner, ctx)
  <2>1. presence[b] \in PresenceType
    BY PresenceTyped DEF PIInv
  <2>2. ps[b] = Refreshed(presence[b], ctx)
    OBVIOUS
  <2> HIDE DEF ps
  <2> QED BY <2>1, <2>2, RefreshedPresence DEF SameButUser
<1>2. Republish(ps) /\ context' = ctx /\ UNCHANGED <<shared, ended, opens, losses>>
  BY DEF Talk
<1>3. talks' \in 0..MaxTalks
  BY PresenceAssumption DEF Talk, PIInv, PTypeOK
<1>4. ps \in [Bindings -> PresenceType]
  BY <1>1
<1> HIDE DEF ps
<1> QED BY <1>1, <1>2, <1>3, <1>4, Republishing

LEMMA IdentifyStep ==
  ASSUME PIInv, Identify \/ ObserveClientInfo
  PROVE  PIInv'
<1>1. \A n \in Names :
        /\ [context EXCEPT !.declared = n] \in [declared : Names \cup {None}, client : Names \cup {None}]
        /\ [context EXCEPT !.client = n] \in [declared : Names \cup {None}, client : Names \cup {None}]
  BY DEF PIInv, PTypeOK
<1> QED BY <1>1, TalkStep DEF Identify, ObserveClientInfo

LEMMA OwnerSettlesStep ==
  ASSUME PIInv, NEW b \in Bindings, OwnerSettles(b)
  PROVE  PIInv'
<1> DEFINE p == [presence[b] EXCEPT !.settled = TRUE]
           o == [p EXCEPT !.owner = "jupyter"]
           q == IF ended THEN p ELSE Refreshed(o, context)
<1>0. context \in [declared : Names \cup {None}, client : Names \cup {None}]
  BY DEF PIInv, PTypeOK
<1>1. presence[b] \in PresenceType
  BY PresenceTyped DEF PIInv
<1>2. p \in PresenceType /\ SameButUser(presence[b], p) /\ p.made = presence[b].made
      /\ p.user = presence[b].user /\ p.owner = presence[b].owner
  BY <1>1 DEF PresenceType, SameButUser
<1>3. /\ o \in PresenceType /\ SameButUser(presence[b], o) /\ o.made = presence[b].made
      /\ o.owner = "jupyter"
  BY <1>1 DEF PresenceType, SameButUser
<1>4. /\ presence[b].made /\ UNCHANGED <<context, shared, ended, talks, opens, losses>>
      /\ \/ Republish([presence EXCEPT ![b] = p])
         \/ Republish([presence EXCEPT ![b] = q])
  BY DEF OwnerSettles
<1> HIDE DEF p, o
<1>5. q \in PresenceType /\ SameButUser(presence[b], q)
      /\ (~ended => q.user = UserFor(q.owner, context))
  <2>1. CASE ended
    BY <2>1, <1>2
  <2>2. CASE ~ended
    <3>1. Refreshed(o, context) \in PresenceType /\ SameButUser(o, Refreshed(o, context))
          /\ Refreshed(o, context).user = UserFor(o.owner, context)
          /\ Refreshed(o, context).owner = o.owner
      BY <1>0, <1>3, <1>4, RefreshedPresence
    <3> QED BY <2>2, <3>1, <1>3 DEF SameButUser
  <2> QED BY <2>1, <2>2
<1>6. ~ended => p.user = UserFor(p.owner, context)
  BY <1>2, <1>4 DEF PIInv, OneUser
<1> HIDE DEF q
<1>7. ASSUME NEW x \in PresenceType, SameButUser(presence[b], x),
             ~ended => x.user = UserFor(x.owner, context),
             Republish([presence EXCEPT ![b] = x])
      PROVE  PIInv'
  <2> DEFINE ps == [presence EXCEPT ![b] = x]
  <2>1. ps \in [Bindings -> PresenceType]
    BY <1>7 DEF PIInv, PTypeOK
  <2>2. ps[b] = x /\ \A c \in Bindings : c # b => ps[c] = presence[c]
    BY DEF PIInv, PTypeOK
  <2>3. Republish(ps)
    BY <1>7
  <2> HIDE DEF ps
  <2>4. \A c \in Bindings : SameButUser(presence[c], ps[c])
    BY <1>7, <2>2 DEF SameButUser
  <2>5. \A c \in Bindings : ps[c].made /\ ~ended => ps[c].user = UserFor(ps[c].owner, context')
    BY <1>4, <1>7, <2>2 DEF PIInv, OneUser
  <2>6. talks' \in 0..MaxTalks
    BY <1>4 DEF PIInv, PTypeOK
  <2> QED BY <2>1, <2>3, <2>4, <2>5, <2>6, <1>0, <1>4, Republishing
<1> QED BY <1>2, <1>4, <1>5, <1>6, <1>7

LEMMA BindingFacts ==
  ASSUME PIInv, NEW b \in Bindings
  PROVE  /\ PresenceSound(b) /\ SharedKnown(b) /\ OneUser(b) /\ DocumentsOpen(b) /\ OneRoom(b)
         /\ presence[b] \in PresenceType
         /\ presence[b].documents \in Seq(DocumentPaths)
         /\ presence[b].room \in 0..Len(rooms) /\ Len(rooms) \in Nat
         /\ presence[b].room # 0 => presence[b].room \in DOMAIN rooms
         /\ IsInjective(presence[b].documents)
BY PresenceTyped DEF PIInv, PTypeOK, PresenceSound

\* A binding that the step leaves alone, and with it its room.
LEMMA OtherBinding ==
  ASSUME PIInv, NEW b \in Bindings,
         presence'[b] = presence[b], handles'[b] = handles[b],
         context' = context, ended' = ended, shared \subseteq shared',
         presence[b].room # 0 =>
           /\ rooms'[presence[b].room].disposed = rooms[presence[b].room].disposed
           /\ rooms'[presence[b].room].local = rooms[presence[b].room].local
  PROVE  (PresenceSound(b) /\ SharedKnown(b) /\ OneUser(b) /\ DocumentsOpen(b) /\ OneRoom(b))'
<1>1. PresenceSound(b) /\ SharedKnown(b) /\ OneUser(b) /\ DocumentsOpen(b) /\ OneRoom(b)
  BY BindingFacts
<1>2. Registered(b)' = Registered(b) /\ OpenPaths(b)' = OpenPaths(b)
  BY SameHandles
<1>3. PresenceSound(b)'
  BY <1>1 DEF PresenceSound
<1>4. SharedKnown(b)'
  BY <1>1, <1>2 DEF SharedKnown
<1>5. OneUser(b)'
  BY <1>1, <1>2 DEF OneUser
<1>6. DocumentsOpen(b)'
  BY <1>1, <1>2 DEF DocumentsOpen
<1>7. OneRoom(b)'
  BY <1>1 DEF OneRoom
<1> QED BY <1>3, <1>4, <1>5, <1>6, <1>7

LEMMA HandleTyped ==
  ASSUME PTypeOK, NEW b \in Bindings, NEW f \in Files,
         NEW h \in [state : {"none", "opening", "open"}, user : Users],
         handles' = [handles EXCEPT ![b][f] = h]
  PROVE  /\ handles' \in [Bindings -> [Files -> [state : {"none", "opening", "open"}, user : Users]]]
         /\ handles'[b][f] = h
         /\ \A g \in Files : g # f => handles'[b][g] = handles[b][g]
         /\ \A c \in Bindings : c # b => handles'[c] = handles[c]
<1>1. handles \in [Bindings -> [Files -> [state : {"none", "opening", "open"}, user : Users]]]
  BY DEF PTypeOK
<1> QED BY <1>1

LEMMA NoHandleTyped == NoHandle \in [state : {"none", "opening", "open"}, user : Users]
BY DEF NoHandle, Users

\* Nothing of the rooms changes, nor who has which.
LEMMA RoomsAlone ==
  ASSUME PIInv, UNCHANGED <<rooms, visible>>,
         \A b \in Bindings : presence'[b].room = presence[b].room
  PROVE  /\ visible' \in [DOMAIN rooms' -> LocalStates]
         /\ RoomsAreHeld'
         /\ \A r \in DOMAIN rooms' : RoomSound(r)'
         /\ PresenceType' = PresenceType
<1>1. \A r \in DOMAIN rooms' : Holds(presence, r) => Holds(presence', r)
  BY DEF Holds
<1> QED BY <1>1, TypesFollowLength DEF PIInv, PTypeOK, RoomsAreHeld, RoomSound

LEMMA OpenReplicaStep ==
  ASSUME PIInv, NEW b \in Bindings, NEW f \in Files, OpenReplica(b, f)
  PROVE  PIInv'
<1> DEFINE m == [presence[b] EXCEPT !.made = TRUE]
           p == IF presence[b].made THEN presence[b] ELSE Refreshed(m, context)
           h == [state |-> "opening", user |-> p.user]
<1>1. /\ ~ended /\ opens < MaxOpened /\ handles[b][f].state = "none" /\ opens' = opens + 1
      /\ presence' = [presence EXCEPT ![b] = p]
      /\ handles' = [handles EXCEPT ![b][f] = h]
      /\ UNCHANGED <<context, rooms, visible, shared, ended, talks, losses>>
  BY DEF OpenReplica
<1>2. presence[b] \in PresenceType
  BY BindingFacts
<1>3. context \in [declared : Names \cup {None}, client : Names \cup {None}]
  BY DEF PIInv, PTypeOK
<1>4. /\ p \in PresenceType /\ p.made /\ p.documents = presence[b].documents
      /\ p.room = presence[b].room /\ p.pending = presence[b].pending
      /\ p.refused = presence[b].refused /\ p.settled = presence[b].settled
      /\ presence[b].made => p = presence[b]
      /\ p.user = UserFor(p.owner, context)
  <2>1. CASE presence[b].made
    BY <2>1, <1>1, <1>2, BindingFacts DEF OneUser
  <2>2. CASE ~presence[b].made
    <3>1. /\ m \in PresenceType /\ m.made /\ m.documents = presence[b].documents
          /\ m.room = presence[b].room /\ m.pending = presence[b].pending
          /\ m.refused = presence[b].refused /\ m.settled = presence[b].settled
      BY <1>2 DEF PresenceType
    <3> HIDE DEF m
    <3>2. p = [m EXCEPT !.user = UserFor(m.owner, context)]
      BY <2>2, <3>1 DEF Refreshed
    <3>3. /\ p \in PresenceType /\ SameButUser(m, p) /\ p.owner = m.owner
          /\ p.user = UserFor(m.owner, context)
      BY <1>3, <2>2, <3>1, RefreshedPresence
    <3>4. p.settled = m.settled
      BY <3>2, <3>1 DEF PresenceType
    <3> QED BY <2>2, <3>1, <3>3, <3>4 DEF SameButUser
  <2> QED BY <2>1, <2>2
<1> HIDE DEF p
<1>5. p.user \in Users
  BY <1>4, Zenon DEF PresenceType
<1>6. /\ presence'[b] = p
      /\ \A c \in Bindings : c # b => presence'[c] = presence[c]
      /\ presence' \in [Bindings -> PresenceType]
  BY <1>1, <1>4 DEF PIInv, PTypeOK
<1>7. h \in [state : {"none", "opening", "open"}, user : Users]
  BY <1>5
<1>8. h.state = "opening"
  OBVIOUS
<1> HIDE DEF h
<1>9. /\ handles' \in [Bindings -> [Files -> [state : {"none", "opening", "open"}, user : Users]]]
      /\ handles'[b][f] = h
      /\ \A g \in Files : g # f => handles'[b][g] = handles[b][g]
      /\ \A c \in Bindings : c # b => handles'[c] = handles[c]
  BY <1>1, <1>7, HandleTyped DEF PIInv
<1>10. /\ visible' \in [DOMAIN rooms' -> LocalStates]
       /\ RoomsAreHeld'
       /\ \A r \in DOMAIN rooms' : RoomSound(r)'
       /\ PresenceType' = PresenceType
  BY <1>1, <1>4, <1>6, RoomsAlone
<1>11. PTypeOK'
  <2>1. opens' \in 0..MaxOpened
    BY <1>1, PresenceAssumption DEF PIInv, PTypeOK
  <2> QED BY <1>1, <1>6, <1>9, <1>10, <2>1 DEF PIInv, PTypeOK
<1>12. (PresenceSound(b) /\ SharedKnown(b) /\ OneUser(b) /\ DocumentsOpen(b) /\ OneRoom(b))'
  <2>1. PresenceSound(b) /\ SharedKnown(b) /\ OneUser(b) /\ DocumentsOpen(b) /\ OneRoom(b)
    BY BindingFacts
  <2>2. Registered(b)' = Registered(b) /\ OpenPaths(b)' = OpenPaths(b)
    BY <1>1, <1>8, <1>9 DEF Registered, OpenPaths
  <2>3. PresenceSound(b)'
    BY <1>1, <1>4, <1>6, <2>1 DEF PresenceSound
  <2>4. SharedKnown(b)'
    BY <1>1, <2>1, <2>2 DEF SharedKnown
  <2>5. OneUser(b)'
    <3>1. ASSUME NEW g \in Registered(b)'
          PROVE  handles'[b][g].user = presence'[b].user
      <4>1. g \in Registered(b) /\ g \in Files /\ g # f /\ handles[b][g].state = "open"
        BY <2>2, <1>1 DEF Registered
      <4>2. presence[b].made
        BY <4>1, <2>1 DEF PresenceSound
      <4> QED BY <4>1, <4>2, <2>1, <1>1, <1>4, <1>6, <1>9 DEF OneUser
    <3> QED BY <3>1, <1>1, <1>4, <1>6 DEF OneUser
  <2>6. DocumentsOpen(b)'
    BY <1>1, <1>4, <1>6, <2>1, <2>2 DEF DocumentsOpen
  <2>7. OneRoom(b)'
    <3>1. CASE presence[b].made
      BY <3>1, <1>1, <1>4, <1>6, <2>1 DEF OneRoom
    <3>2. CASE ~presence[b].made
      <4>1. presence[b].documents = <<>>
        <5>1. OpenPaths(b) = {}
          BY <3>2, <2>1 DEF OpenPaths, Registered, PresenceSound
        <5>2. ToSet(presence[b].documents) = {}
          BY <5>1, <2>1 DEF DocumentsOpen
        <5> QED BY <5>2, BindingFacts, EmptyOfNone
      <4>2. presence[b].room = 0
        BY <4>1, <2>1 DEF OneRoom
      <4> QED BY <4>1, <4>2, <1>4, <1>6 DEF OneRoom
    <3> QED BY <3>1, <3>2
  <2> QED BY <2>3, <2>4, <2>5, <2>6, <2>7
<1>13. ASSUME NEW c \in Bindings, c # b
       PROVE  (PresenceSound(c) /\ SharedKnown(c) /\ OneUser(c) /\ DocumentsOpen(c) /\ OneRoom(c))'
  <2>1. presence'[c] = presence[c] /\ handles'[c] = handles[c]
    BY <1>6, <1>9, <1>13
  <2> QED BY <2>1, <1>1, OtherBinding
<1> QED BY <1>10, <1>11, <1>12, <1>13 DEF PIInv

\* Only one handle changes: it is gone, or was never there.
LEMMA HandleGone ==
  ASSUME PIInv, NEW b \in Bindings, NEW f \in Files,
         handles[b][f].state = "opening" \/ PathOf[f] \notin ToSet(presence[b].documents),
         handles' = [handles EXCEPT ![b][f] = NoHandle],
         UNCHANGED <<context, presence, rooms, visible, shared, ended, talks, opens, losses>>
  PROVE  PIInv'
<1>1. /\ handles' \in [Bindings -> [Files -> [state : {"none", "opening", "open"}, user : Users]]]
      /\ handles'[b][f] = NoHandle
      /\ \A g \in Files : g # f => handles'[b][g] = handles[b][g]
      /\ \A c \in Bindings : c # b => handles'[c] = handles[c]
  BY NoHandleTyped, HandleTyped DEF PIInv
<1>2. /\ visible' \in [DOMAIN rooms' -> LocalStates]
      /\ RoomsAreHeld'
      /\ \A r \in DOMAIN rooms' : RoomSound(r)'
      /\ PresenceType' = PresenceType
  BY RoomsAlone
<1>3. PTypeOK'
  BY <1>1, <1>2 DEF PIInv, PTypeOK
<1>4. (PresenceSound(b) /\ SharedKnown(b) /\ OneUser(b) /\ DocumentsOpen(b) /\ OneRoom(b))'
  <2>1. PresenceSound(b) /\ SharedKnown(b) /\ OneUser(b) /\ DocumentsOpen(b) /\ OneRoom(b)
    BY BindingFacts
  <2>2. Registered(b)' = Registered(b) \ {f}
    BY <1>1 DEF Registered, NoHandle
  <2>3. OpenPaths(b)' \subseteq OpenPaths(b) /\ OpenPaths(b) \subseteq OpenPaths(b)' \cup {PathOf[f]}
    BY <2>2 DEF OpenPaths
  <2>4. PresenceSound(b)'
    BY <1>1, <2>1 DEF PresenceSound, NoHandle
  <2>5. SharedKnown(b)'
    BY <2>1, <2>2 DEF SharedKnown
  <2>6. OneUser(b)'
    BY <1>1, <2>1, <2>2 DEF OneUser
  <2>7. DocumentsOpen(b)'
    <3>1. CASE PathOf[f] \notin ToSet(presence[b].documents)
      BY <3>1, <2>1, <2>3 DEF DocumentsOpen
    <3>2. CASE handles[b][f].state = "opening"
      <4>1. Registered(b)' = Registered(b)
        BY <3>2, <2>2 DEF Registered
      <4>2. OpenPaths(b)' = OpenPaths(b)
        BY <4>1 DEF OpenPaths
      <4> QED BY <4>2, <2>1 DEF DocumentsOpen
    <3> QED BY <3>1, <3>2
  <2>8. OneRoom(b)'
    BY <2>1 DEF OneRoom
  <2> QED BY <2>4, <2>5, <2>6, <2>7, <2>8
<1>5. ASSUME NEW c \in Bindings, c # b
      PROVE  (PresenceSound(c) /\ SharedKnown(c) /\ OneUser(c) /\ DocumentsOpen(c) /\ OneRoom(c))'
  <2>1. presence'[c] = presence[c] /\ handles'[c] = handles[c]
    BY <1>1, <1>5
  <2> QED BY <2>1, OtherBinding
<1> QED BY <1>2, <1>3, <1>4, <1>5 DEF PIInv

LEMMA OpenFailsStep ==
  ASSUME PIInv, NEW b \in Bindings, NEW f \in Files, OpenFails(b, f)
  PROVE  PIInv'
BY HandleGone DEF OpenFails

LEMMA MovedDocuments ==
  ASSUME PIInv, NEW b \in Bindings, NEW e \in DocumentPaths
  PROVE  /\ MoveToFront(presence[b].documents, e) \in Seq(DocumentPaths)
         /\ MoveToFront(presence[b].documents, e) # <<>>
         /\ IsInjective(MoveToFront(presence[b].documents, e))
         /\ ToSet(MoveToFront(presence[b].documents, e)) = ToSet(presence[b].documents) \cup {e}
<1> DEFINE s == presence[b].documents
<1>1. s \in Seq(DocumentPaths) /\ IsInjective(s)
  BY BindingFacts
<1> HIDE DEF s
<1>2. /\ MoveToFront(s, e) \in Seq(DocumentPaths)
      /\ MoveToFront(s, e) # <<>>
      /\ IsInjective(MoveToFront(s, e))
      /\ ToSet(MoveToFront(s, e)) = ToSet(s) \cup {e}
  BY <1>1, MovedToFront
<1> QED BY <1>2 DEF s

\* One presence changes, and its room, if it has one, shows it.
LEMMA OnePublished ==
  ASSUME PIInv, NEW b \in Bindings, NEW q \in PresenceType,
         q.room = presence[b].room, q.documents # <<>>,
         presence' = [presence EXCEPT ![b] = q],
         rooms' = Publish(rooms, q), Show(rooms')
  PROVE  /\ presence' \in [Bindings -> PresenceType']
         /\ presence'[b] = q
         /\ \A c \in Bindings : c # b => presence'[c] = presence[c]
         /\ rooms' \in Seq(RoomType) /\ Len(rooms') = Len(rooms)
         /\ visible' \in [DOMAIN rooms' -> LocalStates]
         /\ RoomsAreHeld'
         /\ \A r \in DOMAIN rooms' : RoomSound(r)'
         /\ q.room # 0 => /\ ~rooms'[q.room].disposed
                          /\ rooms'[q.room].local = LocalState(q)
         /\ \A c \in Bindings : c # b /\ presence[c].room # 0 =>
              rooms'[presence[c].room] = rooms[presence[c].room]
<1>1. presence'[b] = q /\ \A c \in Bindings : c # b => presence'[c] = presence[c]
  BY DEF PIInv, PTypeOK
<1>2. q.room \in 0..Len(rooms)
  BY BindingFacts
<1>3. LocalState(q) \in LocalStates
  BY LocalStateTyped
<1>4. /\ SameButLocal
      /\ q.room # 0 => rooms'[q.room].local = LocalState(q)
      /\ \A r \in DOMAIN rooms : r # q.room => rooms'[r] = rooms[r]
  BY <1>2, <1>3, Publishing DEF PIInv
<1>5. \A c \in Bindings : presence'[c].room = presence[c].room
  BY <1>1
<1>6. /\ visible' \in [DOMAIN rooms' -> LocalStates]
      /\ RoomsAreHeld'
      /\ \A r \in DOMAIN rooms' : RoomSound(r)'
  BY <1>4, <1>5, Publication DEF PIInv
<1>7. presence' \in [Bindings -> PresenceType']
  <2>1. presence' \in [Bindings -> PresenceType]
    BY DEF PIInv, PTypeOK
  <2> QED BY <2>1, <1>4, TypesFollowLength DEF SameButLocal
<1>8. q.room # 0 => ~rooms'[q.room].disposed
  BY <1>4, BindingFacts DEF SameButLocal, OneRoom
<1>9. ASSUME NEW c \in Bindings, c # b, presence[c].room # 0
      PROVE  rooms'[presence[c].room] = rooms[presence[c].room]
  <2>1. presence[c].room \in DOMAIN rooms
    BY <1>9, BindingFacts
  <2>2. presence[c].room # q.room
    BY <1>9 DEF PIInv, RoomsAreHeld
  <2> QED BY <2>1, <2>2, <1>4
<1> QED BY <1>1, <1>4, <1>6, <1>7, <1>8, <1>9 DEF SameButLocal

LEMMA RegisterStep ==
  ASSUME PIInv, NEW b \in Bindings, NEW f \in Files, Register(b, f)
  PROVE  PIInv'
<1>1. CASE ended
  BY <1>1, HandleGone DEF Register
<1>2. CASE ~ended
  <2> DEFINE d == MoveToFront(presence[b].documents, PathOf[f])
             n == presence[b].pending \/ presence[b].room = 0
             q == [presence[b] EXCEPT !.documents = d, !.pending = n]
             h == [state |-> "open", user |-> presence[b].user]
  <2>1. presence[b] \in PresenceType /\ presence[b].documents \in Seq(DocumentPaths)
        /\ IsInjective(presence[b].documents)
    BY BindingFacts
  <2>2. PathOf[f] \in DocumentPaths
    BY DEF DocumentPaths
  <2>3. /\ d \in Seq(DocumentPaths) /\ d # <<>> /\ IsInjective(d)
        /\ ToSet(d) = ToSet(presence[b].documents) \cup {PathOf[f]}
    BY <2>2, MovedDocuments
  <2>4. /\ handles[b][f].state = "opening"
        /\ handles' = [handles EXCEPT ![b][f] = h]
        /\ shared' = IF PathOf[f] \in OpenPaths(b) THEN shared \cup {PathOf[f]} ELSE shared
        /\ UNCHANGED <<context, ended, talks, opens, losses>>
        /\ presence' = [presence EXCEPT ![b].documents = MoveToFront(@, PathOf[f]),
                                        ![b].pending = @ \/ presence[b].room = 0]
        /\ rooms' = Publish(rooms, presence'[b]) /\ Show(rooms')
    BY <1>2 DEF Register, UserOnceOpen
  <2>5. presence' = [presence EXCEPT ![b] = q]
    BY <2>4
  <2> HIDE DEF d
  <2>6. n \in BOOLEAN
    OBVIOUS
  <2> HIDE DEF n
  <2>7. /\ q \in PresenceType /\ q.documents = d /\ q.pending = n
        /\ q.room = presence[b].room /\ q.made = presence[b].made
        /\ q.user = presence[b].user /\ q.owner = presence[b].owner
        /\ q.settled = presence[b].settled /\ q.refused = presence[b].refused
    BY <2>1, <2>3, <2>6 DEF PresenceType
  <2> HIDE DEF q
  <2>8. presence'[b] = q
    BY <2>5 DEF PIInv, PTypeOK
  <2>9. /\ presence' \in [Bindings -> PresenceType']
        /\ \A c \in Bindings : c # b => presence'[c] = presence[c]
        /\ rooms' \in Seq(RoomType) /\ Len(rooms') = Len(rooms)
        /\ visible' \in [DOMAIN rooms' -> LocalStates]
        /\ RoomsAreHeld'
        /\ \A r \in DOMAIN rooms' : RoomSound(r)'
        /\ q.room # 0 => /\ ~rooms'[q.room].disposed
                         /\ rooms'[q.room].local = LocalState(q)
        /\ \A c \in Bindings : c # b /\ presence[c].room # 0 =>
             rooms'[presence[c].room] = rooms[presence[c].room]
    <3>1. rooms' = Publish(rooms, q) /\ Show(rooms') /\ q.documents # <<>>
      BY <2>3, <2>4, <2>7, <2>8
    <3> QED BY <3>1, <2>5, <2>7, OnePublished
  <2>10. h \in [state : {"none", "opening", "open"}, user : Users]
    <3>1. presence[b].user \in Users
      BY <2>1, Zenon DEF PresenceType
    <3> QED BY <3>1
  <2>11. h.state = "open" /\ h.user = presence[b].user
    OBVIOUS
  <2> HIDE DEF h
  <2>12. /\ handles' \in [Bindings -> [Files -> [state : {"none", "opening", "open"}, user : Users]]]
         /\ handles'[b][f] = h
         /\ \A g \in Files : g # f => handles'[b][g] = handles[b][g]
         /\ \A c \in Bindings : c # b => handles'[c] = handles[c]
    BY <2>4, <2>10, HandleTyped DEF PIInv
  <2>13. PTypeOK'
    <3>1. shared' \subseteq DocumentPaths
      BY <2>2, <2>4 DEF PIInv, PTypeOK
    <3> QED BY <2>4, <2>9, <2>12, <3>1 DEF PIInv, PTypeOK
  <2>14. (PresenceSound(b) /\ SharedKnown(b) /\ OneUser(b) /\ DocumentsOpen(b) /\ OneRoom(b))'
    <3>1. PresenceSound(b) /\ SharedKnown(b) /\ OneUser(b) /\ DocumentsOpen(b) /\ OneRoom(b)
      BY BindingFacts
    <3>2. Registered(b)' = Registered(b) \cup {f} /\ f \notin Registered(b)
      BY <2>4, <2>11, <2>12 DEF Registered
    <3>3. OpenPaths(b)' = OpenPaths(b) \cup {PathOf[f]}
      BY <3>2 DEF OpenPaths
    <3>4. PresenceSound(b)'
      BY <1>2, <2>3, <2>4, <2>7, <2>8, <2>12, <3>1 DEF PresenceSound
    <3>5. SharedKnown(b)'
      <4> SUFFICES ASSUME NEW x \in Registered(b)', NEW y \in Registered(b)',
                          x # y, PathOf[x] = PathOf[y]
                   PROVE  PathOf[x] \in shared'
        BY DEF SharedKnown
      <4>1. CASE x \in Registered(b) /\ y \in Registered(b)
        BY <4>1, <2>4, <3>1 DEF SharedKnown
      <4>2. CASE ~(x \in Registered(b) /\ y \in Registered(b))
        <5>1. PathOf[x] = PathOf[f] /\ PathOf[f] \in OpenPaths(b)
          BY <4>2, <3>2 DEF OpenPaths
        <5> QED BY <5>1, <2>4
      <4> QED BY <4>1, <4>2
    <3>6. OneUser(b)'
      BY <2>4, <2>7, <2>8, <2>11, <2>12, <3>1, <3>2 DEF OneUser, Registered
    <3>7. DocumentsOpen(b)'
      BY <2>3, <2>4, <2>7, <2>8, <3>1, <3>3 DEF DocumentsOpen
    <3>8. OneRoom(b)'
      BY <1>2, <2>3, <2>4, <2>7, <2>8, <2>9, <3>1 DEF OneRoom, n
    <3> QED BY <3>4, <3>5, <3>6, <3>7, <3>8
  <2>15. ASSUME NEW c \in Bindings, c # b
         PROVE  (PresenceSound(c) /\ SharedKnown(c) /\ OneUser(c) /\ DocumentsOpen(c) /\ OneRoom(c))'
    <3>1. presence'[c] = presence[c] /\ handles'[c] = handles[c]
      BY <2>9, <2>12, <2>15
    <3>2. presence[c].room # 0 => rooms'[presence[c].room] = rooms[presence[c].room]
      BY <2>9, <2>15
    <3>3. shared \subseteq shared' /\ context' = context /\ ended' = ended
      BY <2>4
    <3> QED BY <3>1, <3>2, <3>3, OtherBinding
  <2> QED BY <2>9, <2>13, <2>14, <2>15 DEF PIInv
<1> QED BY <1>1, <1>2

LEMMA TouchStep ==
  ASSUME PIInv, NEW b \in Bindings, NEW f \in Files, Touch(b, f)
  PROVE  PIInv'
<1> DEFINE d == MoveToFront(presence[b].documents, PathOf[f])
           q == [presence[b] EXCEPT !.documents = d]
<1>1. presence[b] \in PresenceType /\ presence[b].documents \in Seq(DocumentPaths)
      /\ IsInjective(presence[b].documents)
  BY BindingFacts
<1>2. /\ Contains(presence[b].documents, PathOf[f])
      /\ presence' = [presence EXCEPT ![b].documents = MoveToFront(@, PathOf[f])]
      /\ rooms' = Publish(rooms, presence'[b]) /\ Show(rooms')
      /\ UNCHANGED <<context, handles, shared, ended, talks, opens, losses>>
  BY DEF Touch
<1>3. PathOf[f] \in ToSet(presence[b].documents)
  BY <1>1, <1>2, ContainsIsIn
<1>4. PathOf[f] \in DocumentPaths
  BY DEF DocumentPaths
<1>5. /\ d \in Seq(DocumentPaths) /\ d # <<>> /\ IsInjective(d)
      /\ ToSet(d) = ToSet(presence[b].documents)
  <2>1. /\ d \in Seq(DocumentPaths) /\ d # <<>> /\ IsInjective(d)
        /\ ToSet(d) = ToSet(presence[b].documents) \cup {PathOf[f]}
    BY <1>4, MovedDocuments
  <2> QED BY <2>1, <1>3
<1>6. presence' = [presence EXCEPT ![b] = q]
  BY <1>2
<1> HIDE DEF d
<1>7. /\ q \in PresenceType /\ q.documents = d /\ q.pending = presence[b].pending
      /\ q.room = presence[b].room /\ q.made = presence[b].made
      /\ q.user = presence[b].user /\ q.owner = presence[b].owner
      /\ q.settled = presence[b].settled /\ q.refused = presence[b].refused
  BY <1>1, <1>5 DEF PresenceType
<1> HIDE DEF q
<1>8. presence'[b] = q
  BY <1>6 DEF PIInv, PTypeOK
<1>9. /\ presence' \in [Bindings -> PresenceType']
      /\ \A c \in Bindings : c # b => presence'[c] = presence[c]
      /\ rooms' \in Seq(RoomType) /\ Len(rooms') = Len(rooms)
      /\ visible' \in [DOMAIN rooms' -> LocalStates]
      /\ RoomsAreHeld'
      /\ \A r \in DOMAIN rooms' : RoomSound(r)'
      /\ q.room # 0 => /\ ~rooms'[q.room].disposed
                       /\ rooms'[q.room].local = LocalState(q)
      /\ \A c \in Bindings : c # b /\ presence[c].room # 0 =>
           rooms'[presence[c].room] = rooms[presence[c].room]
  <2>1. rooms' = Publish(rooms, q) /\ Show(rooms') /\ q.documents # <<>>
    BY <1>2, <1>5, <1>7, <1>8
  <2> QED BY <2>1, <1>6, <1>7, OnePublished
<1>10. PTypeOK'
  BY <1>2, <1>9 DEF PIInv, PTypeOK
<1>11. (PresenceSound(b) /\ SharedKnown(b) /\ OneUser(b) /\ DocumentsOpen(b) /\ OneRoom(b))'
  <2>1. PresenceSound(b) /\ SharedKnown(b) /\ OneUser(b) /\ DocumentsOpen(b) /\ OneRoom(b)
    BY BindingFacts
  <2>2. Registered(b)' = Registered(b) /\ OpenPaths(b)' = OpenPaths(b)
    BY <1>2, SameHandles
  <2>3. presence[b].documents # <<>>
    BY <1>1, <1>3, EmptyOfNone
  <2>4. PresenceSound(b)'
    BY <1>2, <1>5, <1>7, <1>8, <2>1, <2>3 DEF PresenceSound
  <2>5. SharedKnown(b)'
    BY <1>2, <2>1, <2>2 DEF SharedKnown
  <2>6. OneUser(b)'
    BY <1>2, <1>7, <1>8, <2>1, <2>2 DEF OneUser
  <2>7. DocumentsOpen(b)'
    BY <1>2, <1>5, <1>7, <1>8, <2>1, <2>2 DEF DocumentsOpen
  <2>8. OneRoom(b)'
    BY <1>2, <1>5, <1>7, <1>8, <1>9, <2>1, <2>3 DEF OneRoom
  <2> QED BY <2>4, <2>5, <2>6, <2>7, <2>8
<1>12. ASSUME NEW c \in Bindings, c # b
       PROVE  (PresenceSound(c) /\ SharedKnown(c) /\ OneUser(c) /\ DocumentsOpen(c) /\ OneRoom(c))'
  <2>1. presence'[c] = presence[c] /\ handles'[c] = handles[c]
    BY <1>2, <1>9, <1>12
  <2>2. presence[c].room # 0 => rooms'[presence[c].room] = rooms[presence[c].room]
    BY <1>9, <1>12
  <2> QED BY <2>1, <2>2, <1>2, OtherBinding
<1> QED BY <1>9, <1>10, <1>11, <1>12 DEF PIInv

\* Rooms that are left, and those who had them have none.
LEMMA Leaving ==
  ASSUME PIInv, NEW L, L \subseteq {presence[b].room : b \in Bindings},
         rooms' = [r \in DOMAIN rooms |-> IF r \in L THEN Left ELSE rooms[r]],
         ShownAfterLeaving(L),
         \A b \in Bindings : presence'[b].room = IF presence[b].room \in L THEN 0
                                                 ELSE presence[b].room
  PROVE  /\ rooms' \in Seq(RoomType) /\ Len(rooms') = Len(rooms)
         /\ visible' \in [DOMAIN rooms' -> LocalStates]
         /\ RoomsAreHeld'
         /\ \A r \in DOMAIN rooms' : RoomSound(r)'
<1>1. DOMAIN rooms = 1..Len(rooms) /\ Len(rooms) \in Nat /\ DOMAIN rooms' = DOMAIN rooms
  BY DEF PIInv, PTypeOK
<1>2. NoState \in LocalStates
  <2>1. <<>> \in Users /\ None \in DocumentPaths \cup {None} /\ <<>> \in Seq(DocumentPaths)
    BY DEF Users
  <2> QED BY <2>1 DEF NoState, LocalStates
<1>3. Left \in RoomType /\ Left.link = "down" /\ ~Left.timer /\ Left.disposed
  BY <1>2 DEF Left, RoomType
<1>4. \A r \in DOMAIN rooms : rooms[r] \in RoomType
  BY RoomTyped DEF PIInv
<1>5. \A r \in DOMAIN rooms : rooms'[r] = IF r \in L THEN Left ELSE rooms[r]
  OBVIOUS
<1>6. \A r \in DOMAIN rooms : rooms'[r] \in RoomType
  BY <1>3, <1>4, <1>5
<1>7. rooms' \in [1..Len(rooms) -> RoomType]
  <2>1. rooms' = [r \in 1..Len(rooms) |-> rooms'[r]]
    BY <1>1
  <2> QED BY <2>1, <1>1, <1>6
<1>8. rooms' \in Seq(RoomType) /\ Len(rooms') = Len(rooms)
  BY <1>1, <1>7
<1>9. \A r \in DOMAIN rooms :
        visible'[r] = IF r \in L /\ rooms[r].link = "up" THEN NoState ELSE visible[r]
  BY DEF ShownAfterLeaving
<1>10. visible' \in [DOMAIN rooms' -> LocalStates]
  <2>1. visible' = [r \in DOMAIN rooms |-> visible'[r]]
    BY DEF ShownAfterLeaving
  <2>2. \A r \in DOMAIN rooms : visible'[r] \in LocalStates
    BY <1>2, <1>9 DEF PIInv, PTypeOK
  <2> QED BY <2>1, <2>2, <1>1
<1>11. RoomsAreHeld'
  <2>1. ASSUME NEW b \in Bindings, NEW c \in Bindings,
               presence'[b].room = presence'[c].room, presence'[b].room # 0
        PROVE  b = c
    BY <2>1 DEF PIInv, RoomsAreHeld
  <2>2. ASSUME NEW r \in DOMAIN rooms', ~rooms'[r].disposed
        PROVE  Holds(presence', r)
    <3>1. r \notin L /\ ~rooms[r].disposed
      BY <2>2, <1>1, <1>3, <1>5
    <3>2. PICK b \in Bindings : presence[b].room = r
      BY <3>1, <1>1 DEF PIInv, RoomsAreHeld, Holds
    <3> QED BY <3>1, <3>2 DEF Holds
  <2> QED BY <2>1, <2>2 DEF RoomsAreHeld
<1>12. ASSUME NEW r \in DOMAIN rooms'
       PROVE  RoomSound(r)'
  <2>1. RoomSound(r)
    BY <1>1 DEF PIInv
  <2> QED BY <2>1, <1>1, <1>3, <1>5, <1>9 DEF RoomSound
<1> QED BY <1>8, <1>10, <1>11, <1>12

LEMMA CloseStep ==
  ASSUME PIInv, NEW b \in Bindings, NEW f \in Files, Close(b, f)
  PROVE  PIInv'
<1> DEFINE p == presence[b]
           d == Without(p.documents, PathOf[f])
<1>1. p \in PresenceType /\ p.documents \in Seq(DocumentPaths) /\ IsInjective(p.documents)
  BY BindingFacts
<1>2. f \in Registered(b) /\ handles' = [handles EXCEPT ![b][f] = NoHandle]
      /\ UNCHANGED <<context, shared, ended, talks, opens, losses>>
  BY DEF Close
<1>3. CASE ~Contains(p.documents, PathOf[f])
  <2>1. UNCHANGED <<presence, rooms, visible>>
    BY <1>3 DEF Close
  <2>2. PathOf[f] \notin ToSet(p.documents)
    BY <1>1, <1>3, ContainsIsIn
  <2> QED BY <2>1, <2>2, <1>2, HandleGone
<1>4. CASE Contains(p.documents, PathOf[f])
  <2>1. d \in Seq(DocumentPaths) /\ IsInjective(d) /\ ToSet(d) = ToSet(p.documents) \ {PathOf[f]}
    BY <1>1, <1>4, WithoutOne
  <2>2. PathOf[f] \in ToSet(p.documents)
    BY <1>1, <1>4, ContainsIsIn
  <2>3. p.documents # <<>>
    BY <1>1, <2>2, EmptyOfNone
  <2>4. /\ handles' \in [Bindings -> [Files -> [state : {"none", "opening", "open"}, user : Users]]]
        /\ handles'[b][f] = NoHandle
        /\ \A g \in Files : g # f => handles'[b][g] = handles[b][g]
        /\ \A c \in Bindings : c # b => handles'[c] = handles[c]
    BY <1>2, NoHandleTyped, HandleTyped DEF PIInv
  <2>5. PresenceSound(b) /\ SharedKnown(b) /\ OneUser(b) /\ DocumentsOpen(b) /\ OneRoom(b)
    BY BindingFacts
  <2>6. Registered(b)' = Registered(b) \ {f}
    BY <2>4 DEF Registered, NoHandle
  <2>7. OpenPaths(b)' \subseteq OpenPaths(b) /\ OpenPaths(b) \subseteq OpenPaths(b)' \cup {PathOf[f]}
    BY <2>6 DEF OpenPaths
  <2>8. SharedKnown(b)'
    BY <1>2, <2>5, <2>6 DEF SharedKnown
  <2>9. ~ended
    BY <2>3, <2>5 DEF PresenceSound
  <2>10. PathOf[f] \in OpenPaths(b)' => PathOf[f] \in shared
    BY <1>2, <2>5, <2>6 DEF OpenPaths, SharedKnown
  \* What every new presence without the document has.
  <2>11. ASSUME NEW q, presence'[b] = q, q.documents = d, q.made = p.made,
                q.user = p.user, q.owner = p.owner
         PROVE  PresenceSound(b)' /\ OneUser(b)' /\ DocumentsOpen(b)'
    <3>1. PresenceSound(b)'
      BY <1>2, <2>1, <2>4, <2>5, <2>9, <2>11 DEF PresenceSound, NoHandle
    <3>2. OneUser(b)'
      BY <1>2, <2>4, <2>5, <2>6, <2>11 DEF OneUser
    <3>3. DocumentsOpen(b)'
      BY <1>2, <2>1, <2>5, <2>7, <2>10, <2>11 DEF DocumentsOpen
    <3> QED BY <3>1, <3>2, <3>3
  <2> HIDE DEF d
  <2>12. CASE d = <<>>
    <3> DEFINE q == [p EXCEPT !.documents = <<>>, !.room = 0]
    <3>1. /\ presence' = [presence EXCEPT ![b] = q]
          /\ rooms' = Leave(rooms, p) /\ ShownAfterLeaving({p.room})
      BY <1>4, <2>12 DEF Close, d
    <3>2. /\ q \in PresenceType /\ q.documents = <<>> /\ q.room = 0 /\ q.made = p.made
          /\ q.user = p.user /\ q.owner = p.owner
      <4>1. <<>> \in Seq(DocumentPaths) /\ 0 \in 0..Len(rooms)
        BY BindingFacts
      <4> QED BY <4>1, <1>1 DEF PresenceType
    <3> HIDE DEF q
    <3>3. presence'[b] = q /\ (\A c \in Bindings : c # b => presence'[c] = presence[c])
          /\ presence' \in [Bindings -> PresenceType]
      BY <3>1, <3>2 DEF PIInv, PTypeOK
    <3>4. rooms' = [r \in DOMAIN rooms |-> IF r \in {p.room} THEN Left ELSE rooms[r]]
      <4>1. DOMAIN rooms = 1..Len(rooms) /\ Len(rooms) \in Nat
        BY DEF PIInv, PTypeOK
      <4>2. CASE p.room = 0
        <5>1. rooms' = rooms
          BY <4>2, <3>1 DEF Leave
        <5>2. \A r \in DOMAIN rooms : r # p.room
          BY <4>1, <4>2
        <5>3. rooms = [r \in DOMAIN rooms |-> rooms[r]]
          BY DEF PIInv, PTypeOK
        <5> QED BY <5>1, <5>2, <5>3
      <4>3. CASE p.room # 0
        <5>1. rooms' = [rooms EXCEPT ![p.room] = Left]
          BY <4>3, <3>1 DEF Leave
        <5> HIDE DEF p
        <5>2. rooms' = [r \in DOMAIN rooms |-> IF r = p.room THEN Left ELSE rooms[r]]
          BY <5>1
        <5> QED BY <5>2
      <4> QED BY <4>2, <4>3
    <3>5. \A c \in Bindings : presence'[c].room = IF presence[c].room \in {p.room} THEN 0
                                                  ELSE presence[c].room
      BY <3>2, <3>3 DEF PIInv, RoomsAreHeld
    <3>6. /\ rooms' \in Seq(RoomType) /\ Len(rooms') = Len(rooms)
          /\ visible' \in [DOMAIN rooms' -> LocalStates]
          /\ RoomsAreHeld'
          /\ \A r \in DOMAIN rooms' : RoomSound(r)'
      BY <3>1, <3>4, <3>5, Leaving
    <3>7. PTypeOK'
      <4>1. presence' \in [Bindings -> PresenceType']
        BY <3>3, <3>6, TypesFollowLength
      <4> QED BY <1>2, <2>4, <3>6, <4>1 DEF PIInv, PTypeOK
    <3>8. PresenceSound(b)' /\ OneUser(b)' /\ DocumentsOpen(b)'
      BY <2>11, <2>12, <3>2, <3>3
    <3>9. OneRoom(b)'
      BY <3>2, <3>3 DEF OneRoom
    <3>10. ASSUME NEW c \in Bindings, c # b
           PROVE  (PresenceSound(c) /\ SharedKnown(c) /\ OneUser(c) /\ DocumentsOpen(c) /\ OneRoom(c))'
      <4>1. presence'[c] = presence[c] /\ handles'[c] = handles[c]
        BY <2>4, <3>3, <3>10
      <4>2. ASSUME presence[c].room # 0
            PROVE  rooms'[presence[c].room] = rooms[presence[c].room]
        <5>1. presence[c].room \in DOMAIN rooms /\ presence[c].room # p.room
          BY <3>10, <4>2, BindingFacts DEF PIInv, RoomsAreHeld
        <5> HIDE DEF p
        <5> QED BY <5>1, <3>4
      <4> QED BY <4>1, <4>2, <1>2, OtherBinding
    <3> QED BY <2>8, <3>6, <3>7, <3>8, <3>9, <3>10 DEF PIInv
  <2>13. CASE d # <<>>
    <3> DEFINE q == [p EXCEPT !.documents = d]
    <3>1. /\ presence' = [presence EXCEPT ![b] = q]
          /\ rooms' = Publish(rooms, presence'[b]) /\ Show(rooms')
      <4>1. /\ presence' = [presence EXCEPT ![b].documents = d]
            /\ rooms' = Publish(rooms, presence'[b]) /\ Show(rooms')
        BY <1>4, <2>13 DEF Close, d
      <4> QED BY <4>1
    <3>2. /\ q \in PresenceType /\ q.documents = d /\ q.room = p.room /\ q.made = p.made
          /\ q.user = p.user /\ q.owner = p.owner /\ q.pending = p.pending
          /\ q.refused = p.refused /\ q.settled = p.settled
      BY <1>1, <2>1 DEF PresenceType
    <3> HIDE DEF q
    <3>3. presence'[b] = q
      BY <3>1 DEF PIInv, PTypeOK
    <3>4. /\ presence' \in [Bindings -> PresenceType']
          /\ \A c \in Bindings : c # b => presence'[c] = presence[c]
          /\ rooms' \in Seq(RoomType) /\ Len(rooms') = Len(rooms)
          /\ visible' \in [DOMAIN rooms' -> LocalStates]
          /\ RoomsAreHeld'
          /\ \A r \in DOMAIN rooms' : RoomSound(r)'
          /\ q.room # 0 => /\ ~rooms'[q.room].disposed
                           /\ rooms'[q.room].local = LocalState(q)
          /\ \A c \in Bindings : c # b /\ presence[c].room # 0 =>
               rooms'[presence[c].room] = rooms[presence[c].room]
      <4>1. rooms' = Publish(rooms, q) /\ Show(rooms') /\ q.documents # <<>> /\ q.room = presence[b].room
        BY <2>13, <3>1, <3>2, <3>3
      <4> QED BY <4>1, <3>1, <3>2, OnePublished
    <3>5. PTypeOK'
      BY <1>2, <2>4, <3>4 DEF PIInv, PTypeOK
    <3>6. PresenceSound(b)' /\ OneUser(b)' /\ DocumentsOpen(b)'
      BY <2>11, <3>2, <3>3
    <3>7. OneRoom(b)'
      BY <1>2, <2>3, <2>5, <2>13, <3>2, <3>3, <3>4 DEF OneRoom
    <3>8. ASSUME NEW c \in Bindings, c # b
          PROVE  (PresenceSound(c) /\ SharedKnown(c) /\ OneUser(c) /\ DocumentsOpen(c) /\ OneRoom(c))'
      <4>1. presence'[c] = presence[c] /\ handles'[c] = handles[c]
        BY <2>4, <3>4, <3>8
      <4>2. presence[c].room # 0 => rooms'[presence[c].room] = rooms[presence[c].room]
        BY <3>4, <3>8
      <4> QED BY <4>1, <4>2, <1>2, OtherBinding
    <3> QED BY <2>8, <3>4, <3>5, <3>6, <3>7, <3>8 DEF PIInv
  <2> QED BY <2>12, <2>13
<1> QED BY <1>3, <1>4

\* A step that changes neither the documents, the users nor the handles of anybody.
LEMMA OnlyRooms ==
  ASSUME PIInv, NEW b \in Bindings,
         presence'[b].documents = presence[b].documents,
         presence'[b].made = presence[b].made, presence'[b].user = presence[b].user,
         presence'[b].owner = presence[b].owner,
         UNCHANGED <<context, handles, shared, ended>>
  PROVE  (PresenceSound(b) /\ SharedKnown(b) /\ OneUser(b) /\ DocumentsOpen(b))'
<1>1. PresenceSound(b) /\ SharedKnown(b) /\ OneUser(b) /\ DocumentsOpen(b)
  BY BindingFacts
<1>2. Registered(b)' = Registered(b) /\ OpenPaths(b)' = OpenPaths(b)
  BY SameHandles
<1>3. PresenceSound(b)'
  BY <1>1 DEF PresenceSound
<1>4. SharedKnown(b)'
  BY <1>1, <1>2 DEF SharedKnown
<1>5. OneUser(b)'
  BY <1>1, <1>2 DEF OneUser
<1>6. DocumentsOpen(b)'
  BY <1>1, <1>2 DEF DocumentsOpen
<1> QED BY <1>3, <1>4, <1>5, <1>6

LEMMA JoinRoomStep ==
  ASSUME PIInv, NEW b \in Bindings, JoinRoom(b)
  PROVE  PIInv'
<1> DEFINE p == [presence[b] EXCEPT !.pending = FALSE]
<1>1. presence[b] \in PresenceType /\ presence[b].documents \in Seq(DocumentPaths)
  BY BindingFacts
<1>2. /\ p \in PresenceType /\ p.documents = presence[b].documents
      /\ p.room = presence[b].room /\ p.made = presence[b].made
      /\ p.user = presence[b].user /\ p.owner = presence[b].owner
      /\ p.settled = presence[b].settled /\ p.refused = presence[b].refused
  BY <1>1 DEF PresenceType
<1>3. presence[b].settled /\ UNCHANGED <<context, handles, shared, ended, talks, opens, losses>>
  BY DEF JoinRoom
<1>4. PresenceSound(b) /\ OneRoom(b)
  BY BindingFacts
<1>5. \/ /\ ended \/ p.room # 0 \/ p.documents = <<>>
         /\ presence' = [presence EXCEPT ![b] = p] /\ UNCHANGED <<rooms, visible>>
      \/ /\ presence' = [presence EXCEPT ![b] = [p EXCEPT !.refused = TRUE]]
         /\ UNCHANGED <<rooms, visible>>
      \/ /\ ~ended /\ p.room = 0 /\ p.documents # <<>>
         /\ Len(rooms) < MaxRooms
         /\ presence' = [presence EXCEPT ![b] = [p EXCEPT !.refused = FALSE,
                                                        !.room = Len(rooms) + 1]]
         /\ rooms' = Append(rooms, [local |-> LocalState(p), link |-> "trying",
                                    timer |-> FALSE, disposed |-> FALSE])
         /\ Show(rooms')
  BY DEF JoinRoom
<1> HIDE DEF p
\* The room is not joined.
<1>6. ASSUME NEW q \in PresenceType, presence' = [presence EXCEPT ![b] = q],
             q.documents = presence[b].documents, q.room = presence[b].room,
             q.made = presence[b].made, q.user = presence[b].user,
             q.owner = presence[b].owner, q.settled = presence[b].settled,
             q.documents # <<>> => q.room # 0 \/ q.refused,
             UNCHANGED <<rooms, visible>>
      PROVE  PIInv'
  <2>1. presence'[b] = q /\ (\A c \in Bindings : c # b => presence'[c] = presence[c])
        /\ presence' \in [Bindings -> PresenceType]
    BY <1>6 DEF PIInv, PTypeOK
  <2>2. \A c \in Bindings : presence'[c].room = presence[c].room
    BY <1>6, <2>1
  <2>3. /\ visible' \in [DOMAIN rooms' -> LocalStates]
        /\ RoomsAreHeld'
        /\ \A r \in DOMAIN rooms' : RoomSound(r)'
        /\ PresenceType' = PresenceType
    BY <1>6, <2>2, RoomsAlone
  <2>4. PTypeOK'
    BY <1>3, <1>6, <2>1, <2>3 DEF PIInv, PTypeOK
  <2>5. (PresenceSound(b) /\ SharedKnown(b) /\ OneUser(b) /\ DocumentsOpen(b))'
    BY <1>3, <1>6, <2>1, OnlyRooms
  <2>6. OneRoom(b)'
    <3>1. LocalState(q) = LocalState(presence[b])
      BY <1>6 DEF LocalState
    <3> QED BY <1>3, <1>4, <1>6, <2>1, <3>1 DEF OneRoom
  <2>7. ASSUME NEW c \in Bindings, c # b
        PROVE  (PresenceSound(c) /\ SharedKnown(c) /\ OneUser(c) /\ DocumentsOpen(c) /\ OneRoom(c))'
    <3>1. presence'[c] = presence[c] /\ handles'[c] = handles[c]
      BY <1>3, <2>1, <2>7
    <3> QED BY <3>1, <1>3, <1>6, OtherBinding
  <2> QED BY <2>3, <2>4, <2>5, <2>6, <2>7 DEF PIInv
<1>7. CASE /\ ended \/ p.room # 0 \/ p.documents = <<>>
           /\ presence' = [presence EXCEPT ![b] = p] /\ UNCHANGED <<rooms, visible>>
  <2>1. p.documents # <<>> => p.room # 0 \/ p.refused
    BY <1>2, <1>4, <1>7 DEF PresenceSound
  <2> QED BY <1>2, <1>6, <1>7, <2>1
<1>8. CASE /\ presence' = [presence EXCEPT ![b] = [p EXCEPT !.refused = TRUE]]
           /\ UNCHANGED <<rooms, visible>>
  <2> DEFINE q == [p EXCEPT !.refused = TRUE]
  <2>1. /\ q \in PresenceType /\ q.documents = p.documents /\ q.room = p.room
        /\ q.made = p.made /\ q.user = p.user /\ q.owner = p.owner
        /\ q.settled = p.settled /\ q.refused
    BY <1>2 DEF PresenceType
  <2>2. presence' = [presence EXCEPT ![b] = q]
    BY <1>8
  <2> HIDE DEF q
  <2> QED BY <1>2, <1>6, <1>8, <2>1, <2>2
<1>9. CASE /\ ~ended /\ p.room = 0 /\ p.documents # <<>>
           /\ Len(rooms) < MaxRooms
           /\ presence' = [presence EXCEPT ![b] = [p EXCEPT !.refused = FALSE,
                                                          !.room = Len(rooms) + 1]]
           /\ rooms' = Append(rooms, [local |-> LocalState(p), link |-> "trying",
                                      timer |-> FALSE, disposed |-> FALSE])
           /\ Show(rooms')
  <2> DEFINE n == Len(rooms) + 1
             q == [p EXCEPT !.refused = FALSE, !.room = n]
             x == [local |-> LocalState(p), link |-> "trying", timer |-> FALSE, disposed |-> FALSE]
  <2>1. Len(rooms) \in Nat /\ DOMAIN rooms = 1..Len(rooms) /\ rooms \in Seq(RoomType)
    BY DEF PIInv, PTypeOK
  <2>2. x \in RoomType /\ x.link = "trying" /\ ~x.disposed /\ x.local = LocalState(p)
    <3>1. LocalState(p) \in LocalStates
      BY <1>2, <1>9, LocalStateTyped
    <3> QED BY <3>1 DEF RoomType
  <2>3. /\ rooms' = Append(rooms, x) /\ presence' = [presence EXCEPT ![b] = q]
        /\ ~ended /\ p.room = 0 /\ p.documents # <<>> /\ Len(rooms) < MaxRooms
        /\ Show(rooms')
    BY <1>9
  <2> HIDE DEF x
  <2>4. /\ rooms' \in Seq(RoomType) /\ Len(rooms') = n /\ DOMAIN rooms' = 1..n
        /\ rooms'[n] = x /\ \A r \in DOMAIN rooms : rooms'[r] = rooms[r]
    BY <2>1, <2>2, <2>3
  <2>5. n \in Nat /\ n # 0 /\ n \notin DOMAIN rooms /\ DOMAIN rooms' = DOMAIN rooms \cup {n}
    BY <2>1, <2>4
  <2>6. 0..Len(rooms) \subseteq 0..Len(rooms') /\ n \in 0..Len(rooms')
    BY <2>1, <2>4
  <2> HIDE DEF n
  <2>7. PresenceType \subseteq PresenceType'
    BY <2>6 DEF PresenceType
  <2>8. /\ q \in PresenceType' /\ q.documents = p.documents /\ q.room = n
        /\ q.made = p.made /\ q.user = p.user /\ q.owner = p.owner
        /\ q.settled = p.settled
    <3>1. p \in PresenceType'
      BY <1>2, <2>7
    <3> QED BY <1>2, <2>6, <3>1 DEF PresenceType
  <2>9. LocalState(q) = LocalState(p)
    BY <2>8 DEF LocalState
  <2> HIDE DEF q
  <2>10. presence'[b] = q /\ (\A c \in Bindings : c # b => presence'[c] = presence[c])
         /\ presence' \in [Bindings -> PresenceType']
    BY <2>3, <2>7, <2>8 DEF PIInv, PTypeOK
  <2>11. \A c \in Bindings : presence[c].room # n
    <3>1. \A c \in Bindings : presence[c].room \in 0..Len(rooms)
      BY BindingFacts
    <3> QED BY <3>1, <2>1 DEF n
  <2>12. DOMAIN visible = DOMAIN rooms /\ \A r \in DOMAIN rooms : RoomSound(r)
    BY DEF PIInv, PTypeOK
  <2>13. \A r \in DOMAIN rooms' :
           visible'[r] = IF rooms'[r].link = "up" THEN rooms'[r].local
                      ELSE IF r \in DOMAIN visible THEN visible[r] ELSE NoState
    BY <2>3 DEF Show
  <2>14. visible' \in [DOMAIN rooms' -> LocalStates]
    <3>1. NoState \in LocalStates
      <4>1. <<>> \in Users /\ None \in DocumentPaths \cup {None} /\ <<>> \in Seq(DocumentPaths)
        BY DEF Users
      <4> QED BY <4>1 DEF NoState, LocalStates
    <3>2. \A r \in DOMAIN rooms' : rooms'[r].local \in LocalStates
      <4>1. \A r \in DOMAIN rooms' : rooms'[r] \in RoomType
        BY <2>4
      <4> QED BY <4>1 DEF RoomType
    <3>3. \A r \in DOMAIN visible : visible[r] \in LocalStates
      BY DEF PIInv, PTypeOK
    <3>4. \A r \in DOMAIN rooms' : visible'[r] \in LocalStates
      BY <2>13, <3>1, <3>2, <3>3
    <3>5. visible' = [r \in DOMAIN rooms' |-> visible'[r]]
      BY <2>3 DEF Show
    <3> QED BY <3>4, <3>5
  <2>15. RoomsAreHeld'
    <3>1. ASSUME NEW c \in Bindings, NEW d \in Bindings,
                 presence'[c].room = presence'[d].room, presence'[c].room # 0
          PROVE  c = d
      BY <3>1, <2>8, <2>10, <2>11 DEF PIInv, RoomsAreHeld
    <3>2. ASSUME NEW r \in DOMAIN rooms', ~rooms'[r].disposed
          PROVE  Holds(presence', r)
      <4>1. CASE r = n
        BY <4>1, <2>8, <2>10 DEF Holds
      <4>2. CASE r # n
        <5>1. r \in DOMAIN rooms /\ ~rooms[r].disposed
          BY <3>2, <4>2, <2>4, <2>5
        <5>2. PICK c \in Bindings : presence[c].room = r
          BY <5>1 DEF PIInv, RoomsAreHeld, Holds
        <5>3. r # 0
          BY <5>1, <2>1
        <5>4. c # b
          BY <5>2, <5>3, <1>2, <2>3
        <5> QED BY <5>2, <5>4, <2>10 DEF Holds
      <4> QED BY <4>1, <4>2
    <3> QED BY <3>1, <3>2 DEF RoomsAreHeld
  <2>16. ASSUME NEW r \in DOMAIN rooms'
         PROVE  RoomSound(r)'
    <3>1. CASE r = n
      BY <3>1, <2>2, <2>4 DEF RoomSound
    <3>2. CASE r # n
      <4>1. r \in DOMAIN rooms /\ RoomSound(r) /\ rooms'[r] = rooms[r] /\ r \in DOMAIN visible
        BY <3>2, <2>4, <2>5, <2>12
      <4> QED BY <4>1, <2>13 DEF RoomSound
    <3> QED BY <3>1, <3>2
  <2>17. PTypeOK'
    <3>1. Len(rooms') <= MaxRooms
      BY <2>1, <2>3, <2>4, PresenceAssumption DEF n
    <3> QED BY <1>3, <2>4, <2>10, <2>14, <3>1 DEF PIInv, PTypeOK
  <2>18. (PresenceSound(b) /\ SharedKnown(b) /\ OneUser(b) /\ DocumentsOpen(b))'
    BY <1>2, <1>3, <2>8, <2>10, OnlyRooms
  <2>19. OneRoom(b)'
    <3>1. ~rooms'[q.room].disposed /\ rooms'[q.room].local = LocalState(q)
      BY <2>2, <2>4, <2>8, <2>9
    <3>2. q.room # 0 /\ q.documents # <<>> /\ q.settled /\ ~ended'
      BY <1>2, <1>3, <2>3, <2>5, <2>8
    <3> QED BY <2>10, <3>1, <3>2 DEF OneRoom
  <2>20. ASSUME NEW c \in Bindings, c # b
         PROVE  (PresenceSound(c) /\ SharedKnown(c) /\ OneUser(c) /\ DocumentsOpen(c) /\ OneRoom(c))'
    <3>1. presence'[c] = presence[c] /\ handles'[c] = handles[c]
      BY <1>3, <2>10, <2>20
    <3>2. presence[c].room # 0 => rooms'[presence[c].room] = rooms[presence[c].room]
      BY <2>4, BindingFacts
    <3> QED BY <3>1, <3>2, <1>3, OtherBinding
  <2> QED BY <2>15, <2>16, <2>17, <2>18, <2>19, <2>20 DEF PIInv
<1> QED BY <1>5, <1>7, <1>8, <1>9

LEMMA TearDownStep ==
  ASSUME PIInv, TearDown
  PROVE  PIInv'
<1> DEFINE L == {presence[b].room : b \in Bindings}
<1>1. /\ ended' = TRUE
      /\ handles' = [b \in Bindings |-> [f \in Files |->
           IF handles[b][f].state = "open" THEN NoHandle ELSE handles[b][f]]]
      /\ presence' = [b \in Bindings |-> [presence[b] EXCEPT !.documents = <<>>, !.room = 0]]
      /\ rooms' = [r \in DOMAIN rooms |-> IF Holds(presence, r) THEN Left ELSE rooms[r]]
      /\ ShownAfterLeaving(L)
      /\ UNCHANGED <<context, shared, talks, opens, losses>>
  BY DEF TearDown
<1>2. rooms' = [r \in DOMAIN rooms |-> IF r \in L THEN Left ELSE rooms[r]]
  <2>1. \A r \in DOMAIN rooms : Holds(presence, r) <=> r \in L
    BY DEF Holds
  <2> HIDE DEF L
  <2> QED BY <1>1, <2>1
<1>3. ASSUME NEW b \in Bindings
      PROVE  /\ presence'[b] \in PresenceType
             /\ presence'[b].documents = <<>> /\ presence'[b].room = 0
             /\ presence'[b].made = presence[b].made
  <2>1. presence'[b] = [presence[b] EXCEPT !.documents = <<>>, !.room = 0]
    BY <1>1
  <2>2. presence[b] \in PresenceType /\ <<>> \in Seq(DocumentPaths) /\ 0 \in 0..Len(rooms)
    BY BindingFacts
  <2> QED BY <2>1, <2>2 DEF PresenceType
<1>4. \A b \in Bindings : presence'[b].room = IF presence[b].room \in L THEN 0
                                              ELSE presence[b].room
  BY <1>3
<1>5. /\ rooms' \in Seq(RoomType) /\ Len(rooms') = Len(rooms)
      /\ visible' \in [DOMAIN rooms' -> LocalStates]
      /\ RoomsAreHeld'
      /\ \A r \in DOMAIN rooms' : RoomSound(r)'
  <2>1. L \subseteq {presence[b].room : b \in Bindings} /\ ShownAfterLeaving(L)
    BY <1>1
  <2> HIDE DEF L
  <2> QED BY <2>1, <1>2, <1>4, Leaving
<1>6. ASSUME NEW b \in Bindings, NEW f \in Files
      PROVE  /\ handles'[b][f] \in [state : {"none", "opening", "open"}, user : Users]
             /\ handles'[b][f].state # "open"
             /\ handles'[b][f].state # "none" => handles[b][f].state # "none"
  <2>1. handles'[b][f] = IF handles[b][f].state = "open" THEN NoHandle ELSE handles[b][f]
    BY <1>1
  <2>2. handles[b][f] \in [state : {"none", "opening", "open"}, user : Users]
    BY DEF PIInv, PTypeOK
  <2>3. NoHandle.state = "none"
    BY DEF NoHandle
  <2> QED BY <2>1, <2>2, <2>3, NoHandleTyped
<1>7. PTypeOK'
  <2>1. presence' \in [Bindings -> PresenceType']
    <3>1. presence' = [b \in Bindings |-> presence'[b]]
      BY <1>1
    <3> QED BY <3>1, <1>3, <1>5, TypesFollowLength
  <2>2. handles' \in [Bindings -> [Files -> [state : {"none", "opening", "open"}, user : Users]]]
    <3>1. handles' = [b \in Bindings |-> [f \in Files |-> handles'[b][f]]]
      BY <1>1
    <3> QED BY <3>1, <1>6
  <2> QED BY <1>1, <1>5, <2>1, <2>2 DEF PIInv, PTypeOK
<1>8. ASSUME NEW b \in Bindings
      PROVE  (PresenceSound(b) /\ SharedKnown(b) /\ OneUser(b) /\ DocumentsOpen(b) /\ OneRoom(b))'
  <2>1. Registered(b)' = {} /\ OpenPaths(b)' = {}
    BY <1>6 DEF Registered, OpenPaths
  <2>2. PresenceSound(b)
    BY BindingFacts
  <2>3. PresenceSound(b)'
    <3>1. IsInjective(<<>>)
      BY DEF IsInjective
    <3> QED BY <1>3, <1>6, <2>2, <3>1 DEF PresenceSound
  <2>4. SharedKnown(b)'
    BY <2>1 DEF SharedKnown
  <2>5. OneUser(b)'
    BY <1>1 DEF OneUser
  <2>6. DocumentsOpen(b)'
    <3>1. ToSet(<<>>) = {}
      BY DEF ToSet
    <3> QED BY <1>3, <2>1, <3>1 DEF DocumentsOpen
  <2>7. OneRoom(b)'
    BY <1>3 DEF OneRoom
  <2> QED BY <2>3, <2>4, <2>5, <2>6, <2>7
<1> QED BY <1>5, <1>7, <1>8 DEF PIInv

\* The socket of a room: what it publishes and whether it was left stay.
LEMMA SocketStep ==
  ASSUME PIInv, NEW r \in DOMAIN rooms, NEW x \in RoomType,
         x.local = rooms[r].local, x.disposed = rooms[r].disposed,
         rooms' = [rooms EXCEPT ![r] = x],
         visible' \in [DOMAIN rooms -> LocalStates],
         \A s \in DOMAIN rooms : s # r /\ rooms[s].link = "up" => visible'[s] = rooms[s].local,
         x.link = "up" => visible'[r] = x.local,
         x.disposed => x.link = "down" /\ ~x.timer,
         ~x.disposed => x.link # "down" \/ x.timer,
         losses' \in 0..MaxRooms,
         UNCHANGED <<context, presence, handles, shared, ended, talks, opens>>
  PROVE  PIInv'
<1>1. /\ rooms' \in Seq(RoomType) /\ Len(rooms') = Len(rooms) /\ DOMAIN rooms' = DOMAIN rooms
      /\ rooms'[r] = x /\ \A s \in DOMAIN rooms : s # r => rooms'[s] = rooms[s]
  BY DEF PIInv, PTypeOK
<1>2. \A s \in DOMAIN rooms : rooms'[s].local = rooms[s].local /\ rooms'[s].disposed = rooms[s].disposed
  BY <1>1
<1>3. PTypeOK'
  BY <1>1, TypesFollowLength DEF PIInv, PTypeOK
<1>4. RoomsAreHeld'
  BY <1>1, <1>2 DEF PIInv, RoomsAreHeld, Holds
<1>5. ASSUME NEW s \in DOMAIN rooms'
      PROVE  RoomSound(s)'
  BY <1>1 DEF PIInv, RoomSound
<1>6. ASSUME NEW b \in Bindings
      PROVE  (PresenceSound(b) /\ SharedKnown(b) /\ OneUser(b) /\ DocumentsOpen(b) /\ OneRoom(b))'
  <2>1. presence[b].room # 0 => presence[b].room \in DOMAIN rooms
    BY BindingFacts
  <2> QED BY <2>1, <1>2, OtherBinding
<1> QED BY <1>3, <1>4, <1>5, <1>6 DEF PIInv

LEMMA RoomSteps ==
  ASSUME PIInv, NEW r \in DOMAIN rooms,
         Connected(r) \/ ConnectionClosed(r) \/ Reconnect(r) \/ ServerForgets(r)
  PROVE  PIInv'
<1>1. rooms[r] \in RoomType /\ RoomSound(r) /\ rooms[r].local \in LocalStates
  BY RoomTyped DEF PIInv, RoomType
<1>2. /\ visible \in [DOMAIN rooms -> LocalStates] /\ losses \in 0..MaxRooms
      /\ \A s \in DOMAIN rooms : rooms[s].link = "up" => visible[s] = rooms[s].local
  BY DEF PIInv, PTypeOK, RoomSound
<1>3. CASE Connected(r)
  <2> DEFINE x == [rooms[r] EXCEPT !.link = "up"]
  <2>1. /\ rooms[r].link = "trying" /\ rooms' = [rooms EXCEPT ![r].link = "up"]
        /\ Show(rooms')
        /\ UNCHANGED <<context, presence, handles, shared, ended, talks, opens, losses>>
    BY <1>3 DEF Connected
  <2>2. rooms' = [rooms EXCEPT ![r] = x]
    BY <2>1
  <2>3. /\ x \in RoomType /\ x.local = rooms[r].local /\ x.disposed = rooms[r].disposed
        /\ x.link = "up"
    BY <1>1 DEF RoomType
  <2>4. ~x.disposed
    BY <1>1, <2>1, <2>3 DEF RoomSound
  <2> HIDE DEF x
  <2>5. /\ DOMAIN rooms' = DOMAIN rooms /\ rooms'[r] = x
        /\ \A s \in DOMAIN rooms : s # r => rooms'[s] = rooms[s]
    BY <2>2
  <2>6. \A s \in DOMAIN rooms : visible'[s] = IF rooms'[s].link = "up" THEN rooms'[s].local ELSE visible[s]
    BY <1>2, <2>1, <2>5 DEF Show
  <2>7. \A s \in DOMAIN rooms : rooms[s].local \in LocalStates
    BY RoomTyped DEF PIInv, RoomType
  <2>8. visible' \in [DOMAIN rooms -> LocalStates]
    <3>1. \A s \in DOMAIN rooms : visible'[s] \in LocalStates
      BY <1>2, <2>3, <2>5, <2>6, <2>7
    <3>2. visible' = [s \in DOMAIN rooms |-> visible'[s]]
      BY <2>1, <2>5 DEF Show
    <3> QED BY <3>1, <3>2
  <2>9. \A s \in DOMAIN rooms : s # r /\ rooms[s].link = "up" => visible'[s] = rooms[s].local
    BY <2>5, <2>6
  <2>10. x.link = "up" => visible'[r] = x.local
    BY <2>5, <2>6
  <2>11. losses' \in 0..MaxRooms
    BY <1>2, <2>1
  <2> QED BY <2>1, <2>2, <2>3, <2>4, <2>8, <2>9, <2>10, <2>11, SocketStep
<1>4. CASE ConnectionClosed(r)
  <2> DEFINE x == [rooms[r] EXCEPT !.link = "down", !.timer = TRUE]
  <2>1. /\ rooms[r].link # "down" /\ losses < MaxRooms /\ losses' = losses + 1
        /\ rooms' = [rooms EXCEPT ![r].link = "down", ![r].timer = TRUE]
        /\ UNCHANGED <<context, presence, handles, visible, shared, ended, talks, opens>>
    BY <1>4 DEF ConnectionClosed
  <2>2. rooms' = [rooms EXCEPT ![r] = x]
    BY <2>1
  <2>3. /\ x \in RoomType /\ x.local = rooms[r].local /\ x.disposed = rooms[r].disposed
        /\ x.link = "down" /\ x.timer
    BY <1>1 DEF RoomType
  <2>4. ~x.disposed
    BY <1>1, <2>1, <2>3 DEF RoomSound
  <2>5. losses' \in 0..MaxRooms
    BY <1>2, <2>1, PresenceAssumption
  <2> HIDE DEF x
  <2> QED BY <1>2, <2>1, <2>2, <2>3, <2>4, <2>5, SocketStep
<1>5. CASE Reconnect(r)
  <2> DEFINE x == [rooms[r] EXCEPT !.timer = FALSE, !.link = "trying"]
  <2>1. /\ rooms[r].timer
        /\ rooms' = [rooms EXCEPT ![r].timer = FALSE, ![r].link = "trying"]
        /\ UNCHANGED <<context, presence, handles, visible, shared, ended, talks, opens, losses>>
    BY <1>5 DEF Reconnect
  <2>2. rooms' = [rooms EXCEPT ![r] = x]
    BY <2>1
  <2>3. /\ x \in RoomType /\ x.local = rooms[r].local /\ x.disposed = rooms[r].disposed
        /\ x.link = "trying" /\ ~x.timer
    BY <1>1 DEF RoomType
  <2>4. ~x.disposed
    BY <1>1, <2>1, <2>3 DEF RoomSound
  <2> HIDE DEF x
  <2> QED BY <1>2, <2>1, <2>2, <2>3, <2>4, SocketStep
<1>6. CASE ServerForgets(r)
  <2>1. /\ rooms[r].link # "up" /\ visible' = [visible EXCEPT ![r] = NoState]
        /\ UNCHANGED <<context, presence, handles, rooms, shared, ended, talks, opens, losses>>
    BY <1>6 DEF ServerForgets
  <2>2. NoState \in LocalStates
    <3>1. <<>> \in Users /\ None \in DocumentPaths \cup {None} /\ <<>> \in Seq(DocumentPaths)
      BY DEF Users
    <3> QED BY <3>1 DEF NoState, LocalStates
  <2>3. /\ visible' \in [DOMAIN rooms -> LocalStates]
        /\ \A s \in DOMAIN rooms : s # r => visible'[s] = visible[s]
    BY <1>2, <2>1, <2>2
  <2>4. rooms' = [rooms EXCEPT ![r] = rooms[r]]
    <3>1. rooms = [s \in DOMAIN rooms |-> rooms[s]]
      BY DEF PIInv, PTypeOK
    <3>2. [rooms EXCEPT ![r] = rooms[r]] = [s \in DOMAIN rooms |-> rooms[s]]
      OBVIOUS
    <3> QED BY <2>1, <3>1, <3>2
  <2>5. \A s \in DOMAIN rooms : s # r /\ rooms[s].link = "up" => visible'[s] = rooms[s].local
    BY <1>2, <2>3
  <2>6. /\ rooms[r].link = "up" => visible'[r] = rooms[r].local
        /\ rooms[r].disposed => rooms[r].link = "down" /\ ~rooms[r].timer
        /\ ~rooms[r].disposed => rooms[r].link # "down" \/ rooms[r].timer
    BY <1>1, <2>1 DEF RoomSound
  <2> QED BY <1>1, <1>2, <2>1, <2>3, <2>4, <2>5, <2>6, SocketStep
<1> QED BY <1>3, <1>4, <1>5, <1>6

-------------------------------------------------------------------------------

LEMMA PresenceInit == PInit => PIInv
<1> SUFFICES ASSUME PInit PROVE PIInv
  OBVIOUS
<1>0. rooms = <<>> /\ visible = <<>> /\ shared = {} /\ ended = FALSE
  BY DEF PInit
<1>1. Len(rooms) = 0 /\ DOMAIN rooms = {} /\ rooms \in Seq(RoomType)
  BY <1>0
<1>2. ASSUME NEW b \in Bindings
      PROVE  /\ presence[b] \in PresenceType
             /\ presence[b].made = FALSE /\ presence[b].documents = <<>> /\ presence[b].room = 0
  <2>1. presence[b] = [made |-> FALSE, owner |-> "process", user |-> <<>>, documents |-> <<>>,
                       room |-> 0, pending |-> FALSE, settled |-> FALSE, refused |-> FALSE]
    BY DEF PInit
  <2>2. <<>> \in Users /\ <<>> \in Seq(DocumentPaths) /\ 0 \in 0..Len(rooms)
    BY <1>1 DEF Users
  <2> QED BY <2>1, <2>2 DEF PresenceType
<1>3. \A b \in Bindings, f \in Files : handles[b][f] = NoHandle
  BY DEF PInit
<1>4. PTypeOK
  <2>1. presence \in [Bindings -> PresenceType]
    <3>1. presence = [b \in Bindings |-> presence[b]]
      BY DEF PInit
    <3> QED BY <3>1, <1>2
  <2>2. handles \in [Bindings -> [Files -> [state : {"none", "opening", "open"}, user : Users]]]
    BY NoHandleTyped DEF PInit
  <2>3. context \in [declared : Names \cup {None}, client : Names \cup {None}]
    BY DEF PInit
  <2>4. Len(rooms) <= MaxRooms /\ talks \in 0..MaxTalks /\ opens \in 0..MaxOpened /\ losses \in 0..MaxRooms
    BY <1>1, PresenceAssumption DEF PInit
  <2>5. visible \in [DOMAIN rooms -> LocalStates]
    BY <1>0
  <2> QED BY <1>0, <1>1, <2>1, <2>2, <2>3, <2>4, <2>5 DEF PTypeOK
<1>5. RoomsAreHeld
  BY <1>1, <1>2 DEF RoomsAreHeld
<1>6. ASSUME NEW b \in Bindings
      PROVE  PresenceSound(b) /\ SharedKnown(b) /\ OneUser(b) /\ DocumentsOpen(b) /\ OneRoom(b)
  <2>1. Registered(b) = {} /\ OpenPaths(b) = {}
    BY <1>3 DEF Registered, OpenPaths, NoHandle
  <2>2. IsInjective(<<>>) /\ ToSet(<<>>) = {}
    BY DEF IsInjective, ToSet
  <2>3. PresenceSound(b)
    <3>1. \A f \in Files : handles[b][f].state = "none"
      BY <1>3 DEF NoHandle
    <3>2. ended = FALSE /\ IsInjective(presence[b].documents)
      BY <1>0, <1>2, <2>2
    <3> QED BY <3>1, <3>2 DEF PresenceSound
  <2>4. SharedKnown(b) /\ OneUser(b)
    BY <1>2, <2>1 DEF SharedKnown, OneUser
  <2>5. DocumentsOpen(b)
    BY <1>2, <2>1, <2>2 DEF DocumentsOpen
  <2>6. OneRoom(b)
    BY <1>2 DEF OneRoom
  <2> QED BY <2>3, <2>4, <2>5, <2>6
<1> QED BY <1>1, <1>4, <1>5, <1>6 DEF PIInv

LEMMA PresenceStep == PIInv /\ [PNext]_pvars => PIInv'
<1> SUFFICES ASSUME PIInv, [PNext]_pvars PROVE PIInv'
  OBVIOUS
<1>1. CASE Identify \/ ObserveClientInfo
  BY <1>1, IdentifyStep
<1>2. CASE TearDown
  BY <1>2, TearDownStep
<1>3. ASSUME NEW b \in Bindings, OwnerSettles(b) \/ JoinRoom(b)
      PROVE  PIInv'
  BY <1>3, OwnerSettlesStep, JoinRoomStep
<1>4. ASSUME NEW b \in Bindings, NEW f \in Files,
             \/ OpenReplica(b, f) \/ Register(b, f) \/ OpenFails(b, f)
             \/ Touch(b, f) \/ Close(b, f)
      PROVE  PIInv'
  BY <1>4, OpenReplicaStep, RegisterStep, OpenFailsStep, TouchStep, CloseStep
<1>5. ASSUME NEW r \in DOMAIN rooms,
             Connected(r) \/ ConnectionClosed(r) \/ Reconnect(r) \/ ServerForgets(r)
      PROVE  PIInv'
  BY <1>5, RoomSteps
<1>6. CASE UNCHANGED pvars
  <2>1. /\ context' = context /\ presence' = presence /\ handles' = handles /\ rooms' = rooms
        /\ visible' = visible /\ shared' = shared /\ ended' = ended
        /\ talks' = talks /\ opens' = opens /\ losses' = losses
    BY <1>6 DEF pvars
  <2>2. PTypeOK'
    BY <2>1, TypesFollowLength DEF PIInv, PTypeOK
  <2>3. RoomsAreHeld' /\ \A r \in DOMAIN rooms' : RoomSound(r)'
    BY <2>1 DEF PIInv, RoomsAreHeld, RoomSound, Holds
  <2>4. \A b \in Bindings :
          (PresenceSound(b) /\ SharedKnown(b) /\ OneUser(b) /\ DocumentsOpen(b) /\ OneRoom(b))'
    BY <2>1, OtherBinding
  <2> QED BY <2>2, <2>3, <2>4 DEF PIInv
<1> QED BY <1>1, <1>2, <1>3, <1>4, <1>5, <1>6 DEF PNext

\* As many rooms are there as presences have one.
LEMMA RoomsCounted ==
  ASSUME PIInv
  PROVE  Cardinality({b \in Bindings : presence[b].room # 0}) =
           Cardinality({r \in DOMAIN rooms : ~rooms[r].disposed})
<1> DEFINE R == {r \in DOMAIN rooms : ~rooms[r].disposed}
           B == {b \in Bindings : presence[b].room # 0}
           h == [r \in R |-> Holder(presence, r)]
<1>1. DOMAIN rooms = 1..Len(rooms) /\ Len(rooms) \in Nat
  BY DEF PIInv, PTypeOK
<1>2. IsFiniteSet(R)
  <2>1. IsFiniteSet(1..Len(rooms))
    BY <1>1, FS_Interval
  <2> QED BY <2>1, <1>1, FS_Subset
<1>3. ASSUME NEW r \in R
      PROVE  h[r] \in B /\ presence[h[r]].room = r
  <2>1. \E b \in Bindings : presence[b].room = r
    BY DEF PIInv, RoomsAreHeld, Holds
  <2>2. Holder(presence, r) \in Bindings /\ presence[Holder(presence, r)].room = r
    BY <2>1 DEF Holder
  <2>3. r # 0
    BY <1>1
  <2> QED BY <2>2, <2>3
<1>4. ASSUME NEW b \in B
      PROVE  presence[b].room \in R /\ h[presence[b].room] = b
  <2>1. presence[b].room \in R
    BY BindingFacts DEF OneRoom
  <2>2. h[presence[b].room] \in B /\ presence[h[presence[b].room]].room = presence[b].room
    BY <2>1, <1>3
  <2> QED BY <2>1, <2>2 DEF PIInv, RoomsAreHeld
<1>5. h \in Bijection(R, B)
  <2>1. h \in [R -> B]
    BY <1>3
  <2>2. \A r, s \in R : h[r] = h[s] => r = s
    BY <1>3
  <2>3. \A b \in B : \E r \in R : h[r] = b
    BY <1>4
  <2> HIDE DEF h, R, B
  <2> QED BY <2>1, <2>2, <2>3 DEF Bijection, Injection, Surjection, IsInjective
<1>6. ExistsBijection(R, B)
  BY <1>5 DEF ExistsBijection
<1> HIDE DEF h, R, B
<1>7. Cardinality(R) = Cardinality(B)
  BY <1>2, <1>6, FS_Bijection
<1> QED BY <1>7 DEF R, B

LEMMA PresenceImplied == PIInv => PresenceIsTrue
<1> SUFFICES ASSUME PIInv PROVE PresenceIsTrue
  OBVIOUS
<1>1. RoomsAreTrue
  BY RoomsCounted DEF PIInv, RoomsAreTrue, RoomSound
<1>2. ASSUME NEW b \in Bindings
      PROVE  OneUser(b) /\ DocumentsAreOpen(b) /\ OneRoom(b)
  <2>1. OneUser(b) /\ DocumentsOpen(b) /\ OneRoom(b)
    BY BindingFacts
  <2>2. Len(presence[b].documents) = Cardinality(ToSet(presence[b].documents))
    BY BindingFacts, CountOfDocuments
  <2> QED BY <2>1, <2>2 DEF DocumentsOpen, DocumentsAreOpen
<1> QED BY <1>1, <1>2 DEF PIInv, PresenceIsTrue

\* What other people see of an agent is true (service/presence.ts,
\* ServerPresence): its user is the same everywhere, its documents are those
\* that are open, and it is in one room while it has any, for any number of
\* servers, notebooks, names, rooms and lost sockets.
THEOREM PresenceHolds == PSpec => []PresenceIsTrue
<1>1. PSpec => []PIInv
  BY PresenceInit, PresenceStep, PTL DEF PSpec
<1> QED BY <1>1, PresenceImplied, PTL
===============================================================================
