------------------------- MODULE KernelLeases_proofs -------------------------
(***************************************************************************)
(* Proofs about the leases of the kernel hub and the jobs on its           *)
(* connections, for any number of calls, handles, sessions, kernels and    *)
(* connections.                                                            *)
(***************************************************************************)
EXTENDS KernelLeases, FiniteSetTheorems, SequenceTheorems, TLAPS

Clients == [kernel : Kernels, refs : Nat, live : BOOLEAN]

\* Who leases connection b.
Lessees(L, b) == {n \in Notebooks : L.binding[n] = b}

\* What leases are made of.
WellFormed(L) ==
  /\ L \in [binding : [Notebooks -> Nat], client : Seq(Clients), hub : [Kernels -> Nat]]
  /\ \A n \in Notebooks : L.binding[n] # None => L.binding[n] \in DOMAIN L.client
  /\ \A k \in Kernels : L.hub[k] # None => L.hub[k] \in DOMAIN L.client

\* References are exact, and the hub has the live connection of each kernel.
Sound(L) ==
  /\ WellFormed(L)
  /\ \A b \in DOMAIN L.client :
       /\ L.client[b].refs = Cardinality(Lessees(L, b))
       /\ L.client[b].live => L.client[b].refs > 0 /\ L.hub[L.client[b].kernel] = b
  /\ \A k \in Kernels :
       L.hub[k] # None => L.client[L.hub[k]].live /\ L.client[L.hub[k]].kernel = k

\* M comes after L: connections are added, and those that went stay away.
Later(L, M) ==
  /\ DOMAIN L.client \subseteq DOMAIN M.client
  /\ \A b \in DOMAIN L.client : M.client[b].live => L.client[b].live

PastLock == {"lookup", "specs", "effect", "status"}

\* A call past the lock has it.
HoldInv == \A c \in Callers : pc[c] \in PastLock => HasLock(c)

\* A call that goes to execute found no job, and none was submitted since.
IdleInv ==
  \A c \in Callers :
    pc[c] = "lookup" /\ arg[c].tool = "execute" => ~Active(arg[c].notebook)

\* The types, apart from those of the leases.
CallTypes ==
  /\ pc \in [Callers -> {"idle", "queued", "lookup", "specs", "effect", "status", "closing"}]
  /\ arg \in [Callers -> [notebook : Notebooks, tool : Tools]]
  /\ saw \in [Callers -> {None} \cup Kernels]
  /\ open \subseteq Notebooks /\ closed \subseteq Sessions
  /\ stopping \in BOOLEAN /\ stopped \in BOOLEAN
  /\ lock \in [Sessions -> Seq(Callers)]
  /\ kernelAt \in [Paths -> {None} \cup Kernels] /\ kernels \in Kernels

JobInv == jobs \subseteq [notebook : Notebooks, client : DOMAIN client] /\ JobsInvariant

IInv == CallTypes /\ Sound(Leases) /\ HoldInv /\ IdleInv /\ JobInv

-----------------------------------------------------------------------------
(* The leases.                                                             *)

\* The clients of leases, one by one.
LEMMA ClientsOf ==
  ASSUME NEW L, WellFormed(L)
  PROVE  /\ DOMAIN L.client = 1..Len(L.client) /\ Len(L.client) \in Nat
         /\ \A b \in DOMAIN L.client : L.client[b] \in Clients /\ b \in Nat /\ b # None
BY DEF WellFormed, None

\* A function on the same domain is a sequence as well.
LEMMA SeqFromFunction ==
  ASSUME NEW S, NEW n \in Nat, NEW f \in [1..n -> S]
  PROVE  f \in Seq(S) /\ Len(f) = n
<1>1. f \in Seq(S)
  BY SeqDef
<1> QED BY <1>1, LenProperties

LEMMA LesseesFinite ==
  ASSUME NEW L, NEW b
  PROVE  IsFiniteSet(Lessees(L, b)) /\ Cardinality(Lessees(L, b)) \in Nat
<1>1. Lessees(L, b) \subseteq Notebooks
  BY DEF Lessees
<1> QED BY <1>1, ConstantsAssumption, FS_Subset, FS_CardinalityType

\* M is L without the connections in gone; it has the references of the bindings
\* that stay, and a connection that stays has some.
Shape == [binding : [Notebooks -> Nat], client : Seq(Clients), hub : [Kernels -> Nat]]
Closes(L, gone, M) ==
  /\ M \in Shape
  /\ DOMAIN M.client = DOMAIN L.client
  /\ \A n \in Notebooks : M.binding[n] \in {None, L.binding[n]}
  /\ \A b \in DOMAIN L.client :
       /\ M.client[b].kernel = L.client[b].kernel
       /\ M.client[b].refs = Cardinality(Lessees(M, b))
       /\ M.client[b].live => L.client[b].live /\ b \notin gone
       /\ L.client[b].live /\ b \notin gone => M.client[b].live /\ M.client[b].refs > 0
  /\ \A k \in Kernels : M.hub[k] = IF L.hub[k] \in gone THEN None ELSE L.hub[k]

LEMMA ClosingSound ==
  ASSUME NEW L, Sound(L), NEW gone, NEW M, Closes(L, gone, M)
  PROVE  Sound(M) /\ Later(L, M)
<1>1. /\ WellFormed(L)
      /\ \A b \in DOMAIN L.client : L.client[b].kernel \in Kernels
  BY ClientsOf DEF Sound, Clients
<1>2. WellFormed(M)
  BY <1>1 DEF Closes, WellFormed, Shape
<1>3. ASSUME NEW b \in DOMAIN L.client, M.client[b].live
      PROVE  M.client[b].refs > 0 /\ M.hub[M.client[b].kernel] = b
  <2>1. L.client[b].live /\ b \notin gone /\ M.client[b].refs > 0
    BY <1>3 DEF Closes
  <2>2. L.hub[L.client[b].kernel] = b
    BY <2>1 DEF Sound
  <2>3. M.hub[M.client[b].kernel] = b
    BY <1>1, <2>1, <2>2 DEF Closes
  <2> QED BY <2>1, <2>3
<1>4. ASSUME NEW k \in Kernels, M.hub[k] # None
      PROVE  M.client[M.hub[k]].live /\ M.client[M.hub[k]].kernel = k
  <2>1. M.hub[k] = L.hub[k] /\ L.hub[k] \notin gone /\ L.hub[k] # None
    BY <1>4 DEF Closes
  <2>2. L.hub[k] \in DOMAIN L.client /\ L.client[L.hub[k]].live
        /\ L.client[L.hub[k]].kernel = k
    BY <1>1, <2>1 DEF Sound, WellFormed
  <2> QED BY <2>1, <2>2 DEF Closes
<1>5. \A b \in DOMAIN L.client : M.client[b].refs = Cardinality(Lessees(M, b))
  BY DEF Closes
<1>6. DOMAIN M.client = DOMAIN L.client
  BY DEF Closes
<1>7. Sound(M)
  BY <1>2, <1>3, <1>4, <1>5, <1>6 DEF Sound
<1>8. Later(L, M)
  BY DEF Later, Closes
<1> QED BY <1>7, <1>8

\* Release: the references that are left are those of the other handles.
LEMMA ReleasedSound ==
  ASSUME NEW L, Sound(L), NEW ns, ns \subseteq Notebooks
  PROVE  /\ Sound(Released(L, ns)) /\ Later(L, Released(L, ns))
         /\ \A n \in ns : Released(L, ns).binding[n] = None
<1>1. PICK M : M = Released(L, ns)
  OBVIOUS
<1>2. PICK gone : gone = Last(L, ns)
  OBVIOUS
<1>3. M = [binding |-> [n \in Notebooks |-> IF n \in ns THEN None ELSE L.binding[n]],
           client  |-> [b \in DOMAIN L.client |->
                          [L.client[b] EXCEPT !.refs = Left(L, ns, b),
                                              !.live = @ /\ b \notin gone]],
           hub     |-> Unshared(L, gone)]
  BY <1>1, <1>2 DEF Released
<1>4. /\ DOMAIN L.client = 1..Len(L.client) /\ Len(L.client) \in Nat
      /\ \A b \in DOMAIN L.client : L.client[b] \in Clients /\ b \in Nat /\ b # None
  BY ClientsOf DEF Sound
<1>5. \A n \in Notebooks : M.binding[n] = IF n \in ns THEN None ELSE L.binding[n]
  BY <1>3
<1>6. ASSUME NEW b \in DOMAIN L.client
      PROVE  /\ Left(L, ns, b) = Cardinality(Lessees(M, b)) /\ Left(L, ns, b) \in Nat
             /\ (\A n \in ns : L.binding[n] # b) => Left(L, ns, b) = L.client[b].refs
  <2> DEFINE some == {n \in ns : L.binding[n] = b}
  <2>1. IsFiniteSet(Lessees(L, b)) /\ some \subseteq Lessees(L, b)
    BY LesseesFinite DEF Lessees
  <2>2. IsFiniteSet(some) /\ Cardinality(some) \in Nat
    BY <2>1, FS_Subset, FS_CardinalityType
  <2>3. Lessees(M, b) = Lessees(L, b) \ some
    <3>1. b # None
      BY <1>4
    <3>2. \A n \in Notebooks : M.binding[n] = b <=> L.binding[n] = b /\ n \notin ns
      BY <1>5, <3>1
    <3> QED BY <3>2 DEF Lessees
  <2>4. Lessees(L, b) \cap some = some
    BY <2>1
  <2>5. Cardinality(Lessees(M, b)) = Cardinality(Lessees(L, b)) - Cardinality(some)
    BY <2>1, <2>2, <2>3, <2>4, FS_Difference
  <2>6. Left(L, ns, b) = L.client[b].refs - Cardinality(some)
    BY DEF Left
  <2>7. L.client[b].refs = Cardinality(Lessees(L, b))
    BY DEF Sound
  <2>8. Cardinality(Lessees(L, b)) \in Nat /\ Cardinality(Lessees(M, b)) \in Nat
    BY LesseesFinite
  <2>9. (\A n \in ns : L.binding[n] # b) => Cardinality(some) = 0
    BY FS_EmptySet
  <2> HIDE DEF some
  <2> QED BY <2>2, <2>5, <2>6, <2>7, <2>8, <2>9
<1>7. ASSUME NEW b \in DOMAIN L.client
      PROVE  /\ M.client[b] \in Clients
             /\ M.client[b].kernel = L.client[b].kernel
             /\ M.client[b].refs = Left(L, ns, b)
             /\ M.client[b].live = (L.client[b].live /\ b \notin gone)
  <2>1. M.client[b] = [L.client[b] EXCEPT !.refs = Left(L, ns, b), !.live = @ /\ b \notin gone]
    BY <1>3
  <2>2. L.client[b] \in Clients /\ Left(L, ns, b) \in Nat
    BY <1>4, <1>6
  <2> QED BY <2>1, <2>2 DEF Clients
<1>8. ASSUME NEW b \in DOMAIN L.client, L.client[b].live, b \notin gone
      PROVE  M.client[b].refs > 0
  <2>1. CASE \A n \in ns : L.binding[n] # b
    <3>1. L.client[b].refs > 0
      BY <1>8 DEF Sound
    <3> QED BY <1>6, <1>7, <2>1, <3>1
  <2>2. CASE Left(L, ns, b) # 0
    <3>1. M.client[b].refs \in Nat /\ M.client[b].refs # 0
      BY <1>6, <1>7, <2>2
    <3> QED BY <3>1
  <2> QED BY <1>2, <1>8, <2>1, <2>2 DEF Last
<1>9. Closes(L, gone, M)
  <2>1. DOMAIN M.client = DOMAIN L.client /\ M.client \in [1..Len(L.client) -> Clients]
    BY <1>3, <1>4, <1>7
  <2>2. M.client \in Seq(Clients)
    BY <1>4, <2>1, SeqFromFunction
  <2>3. M.binding \in [Notebooks -> Nat] /\ M.hub \in [Kernels -> Nat]
    BY <1>3 DEF Sound, WellFormed, Unshared, None
  <2>4. M \in Shape
    BY <1>3, <2>2, <2>3 DEF Shape
  <2>5. \A k \in Kernels : M.hub[k] = IF L.hub[k] \in gone THEN None ELSE L.hub[k]
    BY <1>3 DEF Unshared
  <2>6. \A n \in Notebooks : M.binding[n] \in {None, L.binding[n]}
    BY <1>5
  <2>7. ASSUME NEW b \in DOMAIN L.client
        PROVE  /\ M.client[b].kernel = L.client[b].kernel
               /\ M.client[b].refs = Cardinality(Lessees(M, b))
               /\ M.client[b].live => L.client[b].live /\ b \notin gone
               /\ L.client[b].live /\ b \notin gone =>
                    M.client[b].live /\ M.client[b].refs > 0
    BY <1>6, <1>7, <1>8
  <2> QED BY <2>1, <2>4, <2>5, <2>6, <2>7 DEF Closes
<1>10. \A n \in ns : M.binding[n] = None
  BY <1>5
<1> QED BY <1>1, <1>9, <1>10, ClosingSound

\* Invalidation: no reference is dropped with the connection.
LEMMA InvalidatedSound ==
  ASSUME NEW L, Sound(L), NEW ks, ks \subseteq Kernels
  PROVE  /\ Sound(Invalidated(L, ks)) /\ Later(L, Invalidated(L, ks))
         /\ \A b \in DOMAIN L.client :
              L.client[b].kernel \in ks => ~Invalidated(L, ks).client[b].live
<1>1. PICK M : M = Invalidated(L, ks)
  OBVIOUS
<1>2. PICK gone : gone = SharedBy(L, ks)
  OBVIOUS
<1>3. M = [binding |-> L.binding,
           client  |-> [b \in DOMAIN L.client |->
                          [L.client[b] EXCEPT !.live = @ /\ b \notin gone]],
           hub     |-> Unshared(L, gone)]
  BY <1>1, <1>2 DEF Invalidated
<1>4. /\ DOMAIN L.client = 1..Len(L.client) /\ Len(L.client) \in Nat
      /\ L.binding \in [Notebooks -> Nat] /\ L.hub \in [Kernels -> Nat]
      /\ \A b \in DOMAIN L.client : L.client[b] \in Clients /\ b \in Nat /\ b # None
  BY ClientsOf DEF Sound, WellFormed
<1>5. ASSUME NEW b \in DOMAIN L.client
      PROVE  /\ M.client[b] \in Clients
             /\ M.client[b].kernel = L.client[b].kernel
             /\ M.client[b].refs = L.client[b].refs
             /\ M.client[b].live = (L.client[b].live /\ b \notin gone)
  <2>1. M.client[b] = [L.client[b] EXCEPT !.live = @ /\ b \notin gone]
    BY <1>3
  <2>2. L.client[b] \in Clients
    BY <1>4
  <2> QED BY <2>1, <2>2 DEF Clients
<1>6. ASSUME NEW b \in DOMAIN L.client
      PROVE  /\ M.client[b].refs = Cardinality(Lessees(M, b))
             /\ L.client[b].live => M.client[b].refs > 0
  <2>1. Lessees(M, b) = Lessees(L, b)
    BY <1>3 DEF Lessees
  <2>2. /\ L.client[b].refs = Cardinality(Lessees(L, b))
        /\ L.client[b].live => L.client[b].refs > 0
    BY DEF Sound
  <2> QED BY <1>5, <2>1, <2>2
<1>7. Closes(L, gone, M)
  <2>1. DOMAIN M.client = DOMAIN L.client /\ M.client \in [1..Len(L.client) -> Clients]
    BY <1>3, <1>4, <1>5
  <2>2. M.client \in Seq(Clients)
    BY <1>4, <2>1, SeqFromFunction
  <2>3. M.binding = L.binding /\ M.hub \in [Kernels -> Nat]
    BY <1>3, <1>4 DEF Unshared, None
  <2>4. M \in Shape
    BY <1>3, <1>4, <2>2, <2>3 DEF Shape
  <2>5. \A k \in Kernels : M.hub[k] = IF L.hub[k] \in gone THEN None ELSE L.hub[k]
    BY <1>3 DEF Unshared
  <2>6. ASSUME NEW b \in DOMAIN L.client
        PROVE  /\ M.client[b].kernel = L.client[b].kernel
               /\ M.client[b].refs = Cardinality(Lessees(M, b))
               /\ M.client[b].live => L.client[b].live /\ b \notin gone
               /\ L.client[b].live /\ b \notin gone =>
                    M.client[b].live /\ M.client[b].refs > 0
    BY <1>5, <1>6
  <2> QED BY <2>1, <2>3, <2>4, <2>5, <2>6 DEF Closes
<1>8. ASSUME NEW b \in DOMAIN L.client, L.client[b].kernel \in ks, M.client[b].live
      PROVE  FALSE
  <2>1. L.client[b].live /\ b \notin gone
    BY <1>5, <1>8
  <2>2. L.hub[L.client[b].kernel] = b
    BY <2>1 DEF Sound
  <2> QED BY <1>2, <1>4, <1>8, <2>1, <2>2 DEF SharedBy
<1> QED BY <1>1, <1>7, <1>8, ClosingSound

\* A lease of a shared connection is one more reference to it.
LEMMA SharedAcquired ==
  ASSUME NEW L, Sound(L), NEW n \in Notebooks, NEW k \in Kernels,
         L.binding[n] = None, L.hub[k] # None
  PROVE  /\ Sound(Acquired(L, n, k)) /\ Later(L, Acquired(L, n, k))
         /\ Acquired(L, n, k).binding[n] = L.hub[k]
         /\ L.hub[k] \in DOMAIN L.client
         /\ Acquired(L, n, k).client[L.hub[k]].live
<1>1. PICK M : M = Acquired(L, n, k)
  OBVIOUS
<1>2. PICK b : b = L.hub[k]
  OBVIOUS
<1>3. /\ DOMAIN L.client = 1..Len(L.client) /\ Len(L.client) \in Nat
      /\ L \in Shape
      /\ \A a \in DOMAIN L.client : L.client[a] \in Clients /\ a \in Nat /\ a # None
  BY ClientsOf DEF Sound, WellFormed, Shape
<1>4. b \in DOMAIN L.client /\ L.client[b].live /\ L.client[b].kernel = k
  BY <1>2 DEF Sound, WellFormed
<1>5. /\ M.binding = [L.binding EXCEPT ![n] = b]
      /\ M.client = [L.client EXCEPT ![b] = [L.client[b] EXCEPT !.refs = @ + 1]]
      /\ M.hub = L.hub
      /\ M = [binding |-> M.binding, client |-> M.client, hub |-> M.hub]
  <2>1. M = [L EXCEPT !.client[b].refs = @ + 1, !.binding[n] = b]
    BY <1>1, <1>2 DEF Acquired
  <2> QED BY <1>3, <1>4, <2>1 DEF Shape
<1>6. ASSUME NEW a \in DOMAIN L.client
      PROVE  /\ M.client[a] \in Clients
             /\ M.client[a].kernel = L.client[a].kernel
             /\ M.client[a].live = L.client[a].live
             /\ M.client[a].refs = IF a = b THEN L.client[a].refs + 1 ELSE L.client[a].refs
  <2>1. L.client[a] \in Clients
    BY <1>3
  <2>2. M.client[a] = IF a = b THEN [L.client[a] EXCEPT !.refs = @ + 1] ELSE L.client[a]
    BY <1>5
  <2> QED BY <2>1, <2>2 DEF Clients
<1>7. M.client \in Seq(Clients) /\ DOMAIN M.client = DOMAIN L.client
  <2>1. DOMAIN M.client = DOMAIN L.client /\ M.client \in [1..Len(L.client) -> Clients]
    BY <1>3, <1>5, <1>6
  <2> QED BY <1>3, <2>1, SeqFromFunction
<1>8. WellFormed(M)
  <2>1. M \in Shape
    <3>1. b \in Nat /\ L.binding \in [Notebooks -> Nat] /\ L.hub \in [Kernels -> Nat]
      BY <1>3, <1>4 DEF Shape
    <3>2. M.binding \in [Notebooks -> Nat] /\ M.hub \in [Kernels -> Nat]
      BY <1>5, <3>1
    <3> QED BY <1>5, <1>7, <3>2 DEF Shape
  <2>2. \A m \in Notebooks : M.binding[m] = IF m = n THEN b ELSE L.binding[m]
    BY <1>3, <1>5 DEF Shape
  <2>3. \A m \in Notebooks : M.binding[m] # None => M.binding[m] \in DOMAIN M.client
    BY <1>4, <1>7, <2>2 DEF Sound, WellFormed
  <2>4. \A q \in Kernels : M.hub[q] # None => M.hub[q] \in DOMAIN M.client
    BY <1>5, <1>7 DEF Sound, WellFormed
  <2> QED BY <2>1, <2>3, <2>4 DEF WellFormed, Shape
<1>9. ASSUME NEW a \in DOMAIN L.client
      PROVE  M.client[a].refs = Cardinality(Lessees(M, a))
  <2>1. \A m \in Notebooks : M.binding[m] = IF m = n THEN b ELSE L.binding[m]
    BY <1>3, <1>5 DEF Shape
  <2>2. a # None /\ L.client[a].refs = Cardinality(Lessees(L, a))
    BY <1>3 DEF Sound
  <2>3. CASE a = b
    <3>1. Lessees(M, a) = Lessees(L, a) \cup {n} /\ n \notin Lessees(L, a)
      BY <2>1, <2>2, <2>3 DEF Lessees
    <3>2. /\ IsFiniteSet(Lessees(L, a))
          /\ Cardinality(Lessees(L, a) \cup {n}) = Cardinality(Lessees(L, a)) + 1
      BY <3>1, LesseesFinite, FS_AddElement
    <3>3. M.client[a].refs = L.client[a].refs + 1
      BY <1>6, <2>3
    <3> QED BY ONLY <2>2, <3>1, <3>2, <3>3
  <2>4. CASE a # b
    <3>1. Lessees(M, a) = Lessees(L, a)
      BY <2>1, <2>2, <2>4 DEF Lessees
    <3> QED BY <1>6, <2>2, <2>4, <3>1
  <2> QED BY <2>3, <2>4
<1>10. ASSUME NEW a \in DOMAIN L.client, M.client[a].live
       PROVE  M.client[a].refs > 0 /\ M.hub[M.client[a].kernel] = a
  <2>1. L.client[a].refs > 0 /\ L.hub[L.client[a].kernel] = a /\ L.client[a].refs \in Nat
    BY <1>3, <1>6, <1>10 DEF Sound, Clients
  <2> QED BY <1>5, <1>6, <2>1
<1>11. \A q \in Kernels :
         M.hub[q] # None => M.client[M.hub[q]].live /\ M.client[M.hub[q]].kernel = q
  BY <1>5, <1>6 DEF Sound, WellFormed
<1>12. Sound(M)
  BY <1>7, <1>8, <1>9, <1>10, <1>11 DEF Sound
<1>13. Later(L, M)
  BY <1>6, <1>7 DEF Later
<1>14. M.binding[n] = b /\ M.client[b].live
  BY <1>3, <1>4, <1>5, <1>6 DEF Shape
<1> QED BY <1>1, <1>2, <1>4, <1>12, <1>13, <1>14

\* A new connection has one lease.
LEMMA FreshAcquired ==
  ASSUME NEW L, Sound(L), NEW n \in Notebooks, NEW k \in Kernels,
         L.binding[n] = None, L.hub[k] = None
  PROVE  /\ Sound(Acquired(L, n, k)) /\ Later(L, Acquired(L, n, k))
         /\ Acquired(L, n, k).binding[n] \in DOMAIN Acquired(L, n, k).client
         /\ Acquired(L, n, k).client[Acquired(L, n, k).binding[n]].live
<1>1. PICK M : M = Acquired(L, n, k)
  OBVIOUS
<1>2. PICK b : b = Len(L.client) + 1
  OBVIOUS
<1> DEFINE new == [kernel |-> k, refs |-> 1, live |-> TRUE]
<1>3. /\ DOMAIN L.client = 1..Len(L.client) /\ Len(L.client) \in Nat
      /\ L \in Shape /\ L.client \in Seq(Clients)
      /\ \A a \in DOMAIN L.client : L.client[a] \in Clients /\ a \in Nat /\ a # None
  BY ClientsOf DEF Sound, WellFormed, Shape
<1>4. new \in Clients /\ new.kernel = k /\ new.refs = 1 /\ new.live
  BY DEF Clients
<1>5. /\ M.binding = [L.binding EXCEPT ![n] = b]
      /\ M.client = Append(L.client, new)
      /\ M.hub = [L.hub EXCEPT ![k] = b]
      /\ M = [binding |-> M.binding, client |-> M.client, hub |-> M.hub]
  BY <1>1, <1>2 DEF Acquired
<1> HIDE DEF new
<1>6. /\ M.client \in Seq(Clients) /\ Len(M.client) = b
      /\ \A a \in DOMAIN L.client : M.client[a] = L.client[a]
      /\ M.client[b] = new
  BY <1>2, <1>3, <1>4, <1>5, AppendProperties
<1>7. /\ DOMAIN M.client = DOMAIN L.client \cup {b} /\ b \notin DOMAIN L.client
      /\ b \in Nat /\ b # None
  BY <1>2, <1>3, <1>6 DEF None
<1>8. /\ \A m \in Notebooks : M.binding[m] = IF m = n THEN b ELSE L.binding[m]
      /\ \A q \in Kernels : M.hub[q] = IF q = k THEN b ELSE L.hub[q]
      /\ M \in Shape
  <2>1. L.binding \in [Notebooks -> Nat] /\ L.hub \in [Kernels -> Nat]
    BY <1>3 DEF Shape
  <2>2. /\ \A m \in Notebooks : M.binding[m] = IF m = n THEN b ELSE L.binding[m]
        /\ \A q \in Kernels : M.hub[q] = IF q = k THEN b ELSE L.hub[q]
    BY ONLY <1>5, <2>1
  <2>3. M.binding \in [Notebooks -> Nat] /\ M.hub \in [Kernels -> Nat]
    BY ONLY <1>5, <1>7, <2>1
  <2> QED BY ONLY <1>5, <1>6, <2>2, <2>3 DEF Shape
<1>9. \A m \in Notebooks : L.binding[m] # b
  BY <1>7 DEF Sound, WellFormed
<1>10. WellFormed(M)
  <2>1. \A m \in Notebooks : M.binding[m] # None => M.binding[m] \in DOMAIN M.client
    BY <1>7, <1>8 DEF Sound, WellFormed
  <2>2. \A q \in Kernels : M.hub[q] # None => M.hub[q] \in DOMAIN M.client
    BY <1>7, <1>8 DEF Sound, WellFormed
  <2> QED BY <1>8, <2>1, <2>2 DEF WellFormed, Shape
<1>11. ASSUME NEW a \in DOMAIN M.client
       PROVE  M.client[a].refs = Cardinality(Lessees(M, a))
  <2>1. CASE a = b
    <3>1. Lessees(M, a) = {n}
      BY <1>8, <1>9, <2>1 DEF Lessees
    <3> QED BY <1>4, <1>6, <2>1, <3>1, FS_Singleton
  <2>2. CASE a # b
    <3>1. a \in DOMAIN L.client /\ a # None
      BY <1>3, <1>7, <2>2
    <3>2. Lessees(M, a) = Lessees(L, a)
      BY <1>8, <2>2, <3>1 DEF Lessees
    <3> QED BY <1>6, <3>1, <3>2 DEF Sound
  <2> QED BY <2>1, <2>2
<1>12. ASSUME NEW a \in DOMAIN M.client, M.client[a].live
       PROVE  M.client[a].refs > 0 /\ M.hub[M.client[a].kernel] = a
  <2>1. CASE a = b
    BY <1>4, <1>6, <1>8, <2>1
  <2>2. CASE a # b
    <3>1. a \in DOMAIN L.client /\ a # None /\ L.client[a].live
      BY <1>3, <1>6, <1>7, <1>12, <2>2
    <3>2. L.client[a].refs > 0 /\ L.hub[L.client[a].kernel] = a /\ L.client[a].kernel \in Kernels
      BY <1>3, <3>1 DEF Sound, Clients
    <3>3. L.client[a].kernel # k
      BY <3>1, <3>2
    <3> QED BY <1>6, <1>8, <3>1, <3>2, <3>3
  <2> QED BY <2>1, <2>2
<1>13. ASSUME NEW q \in Kernels, M.hub[q] # None
       PROVE  M.client[M.hub[q]].live /\ M.client[M.hub[q]].kernel = q
  <2>1. CASE q = k
    BY <1>4, <1>6, <1>8, <2>1
  <2>2. CASE q # k
    <3>1. M.hub[q] = L.hub[q] /\ L.hub[q] \in DOMAIN L.client
      BY <1>8, <1>13, <2>2 DEF Sound, WellFormed
    <3>2. L.client[L.hub[q]].live /\ L.client[L.hub[q]].kernel = q
      BY <1>13, <3>1 DEF Sound
    <3> QED BY <1>6, <3>1, <3>2
  <2> QED BY <2>1, <2>2
<1>14. Sound(M)
  BY <1>10, <1>11, <1>12, <1>13 DEF Sound
<1>15. Later(L, M)
  BY <1>6, <1>7 DEF Later
<1>16. M.binding[n] = b /\ M.client[b].live /\ b \in DOMAIN M.client
  BY <1>4, <1>6, <1>7, <1>8
<1> QED BY <1>1, <1>14, <1>15, <1>16

LEMMA LaterLater ==
  ASSUME NEW L, NEW M, NEW N, Later(L, M), Later(M, N)
  PROVE  Later(L, N)
BY DEF Later

\* #bind: whatever the handle leased before, it leases a live connection.
LEMMA BoundSound ==
  ASSUME NEW L, Sound(L), NEW n \in Notebooks, NEW k \in Kernels
  PROVE  /\ Sound(Bound(L, n, k)) /\ Later(L, Bound(L, n, k))
         /\ Bound(L, n, k).binding[n] \in DOMAIN Bound(L, n, k).client
         /\ Bound(L, n, k).client[Bound(L, n, k).binding[n]].live
<1>1. CASE Keeps(L, n, k)
  <2>1. Bound(L, n, k) = L
    BY <1>1 DEF Bound
  <2>2. L.binding[n] \in DOMAIN L.client /\ L.client[L.binding[n]].live
    BY <1>1 DEF Keeps, Sound, WellFormed
  <2> QED BY <2>1, <2>2 DEF Later
<1>2. CASE ~Keeps(L, n, k)
  <2>1. PICK M : M = Released(L, {n})
    OBVIOUS
  <2>2. Sound(M) /\ Later(L, M) /\ M.binding[n] = None
    BY <2>1, ReleasedSound
  <2>3. Bound(L, n, k) = Acquired(M, n, k)
    BY <1>2, <2>1 DEF Bound
  <2>4. /\ Sound(Acquired(M, n, k)) /\ Later(M, Acquired(M, n, k))
        /\ Acquired(M, n, k).binding[n] \in DOMAIN Acquired(M, n, k).client
        /\ Acquired(M, n, k).client[Acquired(M, n, k).binding[n]].live
    <3>1. CASE M.hub[k] = None
      BY <2>2, <3>1, FreshAcquired
    <3>2. CASE M.hub[k] # None
      <4>1. /\ Sound(Acquired(M, n, k)) /\ Later(M, Acquired(M, n, k))
            /\ Acquired(M, n, k).binding[n] = M.hub[k]
            /\ M.hub[k] \in DOMAIN M.client
            /\ Acquired(M, n, k).client[M.hub[k]].live
        BY <2>2, <3>2, SharedAcquired
      <4> QED BY <4>1 DEF Later
    <3> QED BY <3>1, <3>2
  <2> QED BY <2>2, <2>3, <2>4, LaterLater
<1> QED BY <1>1, <1>2

-----------------------------------------------------------------------------
(* What a step does to the leases, and to the jobs on them.                *)

LEMMA SameLeases ==
  ASSUME Sound(Leases), UNCHANGED leases
  PROVE  Sound(Leases)'
<1>1. Leases' = Leases
  BY DEF Leases, leases
<1> QED BY <1>1

\* Jobs that end.
LEMMA FewerJobs ==
  ASSUME JobInv, jobs' \subseteq jobs, UNCHANGED leases
  PROVE  JobInv'
BY DEF JobInv, JobsInvariant, JobsAreServed, OneJobPerHandle, leases

\* Jobs that go on are on the connections that live on; one may be submitted.
LEMMA BecomeKeeps ==
  ASSUME IInv, NEW L, Sound(L), Later(Leases, L), NEW left, left \subseteq jobs,
         NEW submitted,
         \A j \in submitted :
           /\ j \in [notebook : Notebooks, client : DOMAIN L.client]
           /\ L.client[j.client].live
           /\ \A i \in left \cup submitted : i.notebook = j.notebook => i = j,
         Become(L, left, submitted)
  PROVE  Sound(Leases)' /\ JobInv' /\ jobs' \subseteq left \cup submitted
<1>1. /\ binding' = L.binding /\ client' = L.client /\ hub' = L.hub
      /\ jobs' = {j \in left : L.client[j.client].live} \cup submitted
  BY DEF Become
<1>2. Sound(Leases)'
  <2>1. Leases' = L
    BY <1>1 DEF Leases, Sound, WellFormed
  <2> QED BY <2>1
<1>3. jobs' \subseteq [notebook : Notebooks, client : DOMAIN client']
  <2>1. \A j \in left : j \in [notebook : Notebooks, client : DOMAIN L.client]
    BY DEF IInv, JobInv, Later, Leases
  <2> QED BY <1>1, <2>1
<1>4. \A j \in jobs' : client'[j.client].live
  BY <1>1
<1>5. \A i, j \in jobs' : i.notebook = j.notebook => i = j
  <2>1. \A i, j \in left : i.notebook = j.notebook => i = j
    BY DEF IInv, JobInv, JobsInvariant, OneJobPerHandle
  <2> QED BY <1>1, <2>1
<1>6. JobInv'
  BY <1>3, <1>4, <1>5 DEF JobInv, JobsInvariant, JobsAreServed, OneJobPerHandle
<1> QED BY <1>1, <1>2, <1>6

LEMMA BecomeLeft ==
  ASSUME IInv, NEW L, Sound(L), Later(Leases, L), NEW left, left \subseteq jobs,
         Become(L, left, {})
  PROVE  Sound(Leases)' /\ JobInv' /\ jobs' \subseteq jobs
<1>1. PICK none : none = {}
  OBVIOUS
<1>2. Become(L, left, none)
  BY <1>1
<1>3. \A j \in none :
        /\ j \in [notebook : Notebooks, client : DOMAIN L.client]
        /\ L.client[j.client].live
        /\ \A i \in left \cup none : i.notebook = j.notebook => i = j
  BY <1>1
<1>4. Sound(Leases)' /\ JobInv' /\ jobs' \subseteq left \cup none
  BY <1>2, <1>3, BecomeKeeps
<1> QED BY <1>1, <1>4

\* Fewer jobs and no new execution: none is taken for idle wrongly.
LEMMA StaysIdle ==
  ASSUME IdleInv, jobs' \subseteq jobs,
         \A c \in Callers : pc'[c] = "lookup" => pc[c] = "lookup" /\ arg'[c] = arg[c]
  PROVE  IdleInv'
BY DEF IdleInv, Active

-----------------------------------------------------------------------------
(* What a step does to the lock.                                           *)

LEMMA SessionsOfCalls ==
  ASSUME CallTypes, NEW c \in Callers
  PROVE  /\ arg[c].notebook \in Notebooks /\ SessionOfCall(c) \in Sessions
         /\ PathOf[arg[c].notebook] \in Paths
         /\ lock[SessionOfCall(c)] \in Seq(Callers)
BY DEF CallTypes, SessionOfCall, Sessions, Paths

\* Whoever has the lock is alone past it.
LEMMA Alone ==
  ASSUME HoldInv, NEW c \in Callers, HasLock(c), NEW d \in Callers, d # c,
         SessionOfCall(d) = SessionOfCall(c)
  PROVE  pc[d] \notin PastLock
BY DEF HoldInv, HasLock

\* A call that returns passes it on.
LEMMA SettleKeeps ==
  ASSUME CallTypes, HoldInv, NEW c \in Callers, HasLock(c), Settle(c), UNCHANGED arg
  PROVE  /\ HoldInv'
         /\ pc' = [pc EXCEPT ![c] = "idle"]
         /\ saw' \in [Callers -> {None} \cup Kernels]
         /\ lock' \in [Sessions -> Seq(Callers)]
<1>1. /\ pc' = [pc EXCEPT ![c] = "idle"] /\ saw' = [saw EXCEPT ![c] = None]
      /\ lock' = [lock EXCEPT ![SessionOfCall(c)] = Tail(@)]
  BY DEF Settle, Await
<1>2. lock[SessionOfCall(c)] \in Seq(Callers) /\ lock[SessionOfCall(c)] # << >>
  BY SessionsOfCalls DEF HasLock
<1>3. Tail(lock[SessionOfCall(c)]) \in Seq(Callers)
  BY <1>2, HeadTailProperties
<1>4. lock' \in [Sessions -> Seq(Callers)] /\ saw' \in [Callers -> {None} \cup Kernels]
  BY <1>1, <1>3 DEF CallTypes
<1>5. ASSUME NEW d \in Callers, pc'[d] \in PastLock
      PROVE  HasLock(d)'
  <2>1. d # c /\ pc[d] \in PastLock
    BY <1>1, <1>5 DEF CallTypes, PastLock
  <2>2. HasLock(d) /\ SessionOfCall(d) # SessionOfCall(c)
    BY <2>1, Alone DEF HoldInv
  <2>3. SessionOfCall(d)' = SessionOfCall(d)
    BY DEF SessionOfCall
  <2>4. lock'[SessionOfCall(d)] = lock[SessionOfCall(d)]
    BY <1>1, <2>2, SessionsOfCalls DEF CallTypes
  <2> QED BY <2>2, <2>3, <2>4 DEF HasLock
<1>6. HoldInv'
  BY <1>5 DEF HoldInv
<1> QED BY <1>1, <1>4, <1>6

\* A call that goes on past the lock keeps it.
LEMMA AwaitKeeps ==
  ASSUME CallTypes, HoldInv, NEW c \in Callers, HasLock(c), NEW what, Await(c, what),
         what \in {"lookup", "specs", "effect", "status"}, UNCHANGED <<arg, lock>>
  PROVE  /\ HoldInv'
         /\ pc' \in [Callers ->
                      {"idle", "queued", "lookup", "specs", "effect", "status", "closing"}]
         /\ \A d \in Callers : pc'[d] = IF d = c THEN what ELSE pc[d]
<1>1. \A d \in Callers : pc'[d] = IF d = c THEN what ELSE pc[d]
  BY DEF Await, CallTypes
<1>2. \A d \in Callers : HasLock(d) => HasLock(d)'
  BY DEF HasLock, SessionOfCall
<1>3. HoldInv'
  BY <1>1, <1>2 DEF HoldInv
<1>4. pc' \in [Callers -> {"idle", "queued", "lookup", "specs", "effect", "status", "closing"}]
  BY DEF Await, CallTypes
<1> QED BY <1>1, <1>3, <1>4

LEMMA SameCalls ==
  ASSUME HoldInv, UNCHANGED calls
  PROVE  HoldInv'
BY DEF HoldInv, HasLock, SessionOfCall, calls

-----------------------------------------------------------------------------
(* The steps that leave the leases alone.                                  *)

LEMMA CallKeeps ==
  ASSUME IInv, NEW c \in Callers, NEW n \in Notebooks,
         NEW tool \in {"execute", "start", "restart", "shutdown", "switch"}, Call(c, n, tool)
  PROVE  IInv'
<1>1. /\ pc[c] = "idle" /\ n \in open
      /\ arg' = [arg EXCEPT ![c] = [notebook |-> n, tool |-> tool]]
      /\ lock' = [lock EXCEPT ![SessionOf[n]] = Append(@, c)]
      /\ pc' = [pc EXCEPT ![c] = "queued"]
      /\ UNCHANGED <<saw, open, closed, stopping, stopped, leases, jobs, kernelAt, kernels>>
  BY DEF Call, Await
<1>2. SessionOf[n] \in Sessions /\ lock[SessionOf[n]] \in Seq(Callers)
  BY DEF IInv, CallTypes, Sessions
<1>3. lock' \in [Sessions -> Seq(Callers)]
  BY <1>1, <1>2 DEF IInv, CallTypes
<1>4. CallTypes'
  <2>1. arg' \in [Callers -> [notebook : Notebooks, tool : Tools]]
    BY <1>1 DEF IInv, CallTypes, Tools
  <2>2. pc' \in [Callers ->
                  {"idle", "queued", "lookup", "specs", "effect", "status", "closing"}]
    BY <1>1 DEF IInv, CallTypes
  <2> QED BY <1>1, <1>3, <2>1, <2>2 DEF IInv, CallTypes
<1>5. ASSUME NEW d \in Callers, pc'[d] \in PastLock
      PROVE  HasLock(d)'
  <2>1. d # c /\ pc[d] \in PastLock /\ arg'[d] = arg[d]
    BY <1>1, <1>5 DEF IInv, CallTypes, PastLock
  <2>2. HasLock(d) /\ SessionOfCall(d)' = SessionOfCall(d)
    BY <2>1 DEF IInv, HoldInv, SessionOfCall
  <2>3. /\ lock[SessionOfCall(d)] \in Seq(Callers) /\ lock[SessionOfCall(d)] # << >>
        /\ SessionOfCall(d) \in Sessions
    BY <2>2, SessionsOfCalls DEF IInv, HasLock
  <2>4. CASE SessionOfCall(d) = SessionOf[n]
    <3>1. lock'[SessionOfCall(d)] = Append(lock[SessionOfCall(d)], c)
      BY <1>1, <2>3, <2>4 DEF IInv, CallTypes
    <3>2. /\ Append(lock[SessionOfCall(d)], c) # << >>
          /\ Head(Append(lock[SessionOfCall(d)], c)) = Head(lock[SessionOfCall(d)])
      BY <2>3, AppendProperties, HeadTailAppend
    <3> QED BY <2>2, <3>1, <3>2 DEF HasLock
  <2>5. CASE SessionOfCall(d) # SessionOf[n]
    <3>1. lock'[SessionOfCall(d)] = lock[SessionOfCall(d)]
      BY <1>1, <2>3, <2>5 DEF IInv, CallTypes
    <3> QED BY <2>2, <3>1 DEF HasLock
  <2> QED BY <2>4, <2>5
<1>6. HoldInv'
  BY <1>5 DEF HoldInv
<1>7. Sound(Leases)' /\ JobInv'
  BY <1>1, SameLeases, FewerJobs DEF IInv
<1>8. IdleInv'
  <2>1. \A d \in Callers : pc'[d] = "lookup" => pc[d] = "lookup" /\ arg'[d] = arg[d]
    BY <1>1 DEF IInv, CallTypes
  <2> QED BY <1>1, <2>1, StaysIdle DEF IInv
<1> QED BY <1>4, <1>6, <1>7, <1>8 DEF IInv

\* A call that returns, and leaves the leases alone.
LEMMA SettledKeeps ==
  ASSUME IInv, NEW c \in Callers, HasLock(c), Settle(c),
         UNCHANGED <<arg, open, closed, stopping, stopped, leases, jobs, kernelAt, kernels>>
  PROVE  IInv'
<1>1. /\ HoldInv' /\ pc' = [pc EXCEPT ![c] = "idle"]
      /\ saw' \in [Callers -> {None} \cup Kernels] /\ lock' \in [Sessions -> Seq(Callers)]
  BY SettleKeeps DEF IInv
<1>2. CallTypes'
  BY <1>1 DEF IInv, CallTypes
<1>3. Sound(Leases)' /\ JobInv'
  BY SameLeases, FewerJobs DEF IInv
<1>4. \A d \in Callers : pc'[d] = "lookup" => pc[d] = "lookup" /\ arg'[d] = arg[d]
  BY <1>1 DEF IInv, CallTypes
<1>5. IdleInv'
  BY <1>4, StaysIdle DEF IInv
<1> QED BY <1>1, <1>2, <1>3, <1>5 DEF IInv

LEMMA GotLockKeeps ==
  ASSUME IInv, NEW c \in Callers, GotLock(c)
  PROVE  IInv'
<1>1. /\ HasLock(c)
      /\ UNCHANGED <<arg, open, closed, stopping, stopped, leases, jobs, kernelAt, kernels>>
  BY DEF GotLock
<1>2. CASE Settle(c)
  BY <1>1, <1>2, SettledKeeps
<1>3. CASE /\ Await(c, "lookup") /\ UNCHANGED <<lock, saw>>
           /\ arg[c].tool = "execute" => ~Active(arg[c].notebook)
  <2>1. /\ HoldInv'
        /\ pc' \in [Callers ->
                     {"idle", "queued", "lookup", "specs", "effect", "status", "closing"}]
        /\ \A d \in Callers : pc'[d] = IF d = c THEN "lookup" ELSE pc[d]
    BY <1>1, <1>3, AwaitKeeps DEF IInv
  <2>2. CallTypes'
    BY <1>1, <1>3, <2>1 DEF IInv, CallTypes
  <2>3. Sound(Leases)' /\ JobInv'
    BY <1>1, SameLeases, FewerJobs DEF IInv
  <2>4. IdleInv'
    BY <1>1, <1>3, <2>1 DEF IInv, IdleInv, Active
  <2> QED BY <2>1, <2>2, <2>3, <2>4 DEF IInv
<1> QED BY <1>2, <1>3 DEF GotLock

LEMMA RefusedKeeps ==
  ASSUME IInv, NEW c \in Callers, Refused(c) \/ StatusRead(c)
  PROVE  IInv'
<1>1. CASE Refused(c)
  BY <1>1, SettledKeeps DEF Refused
<1>2. CASE StatusRead(c)
  <2>1. HasLock(c)
    BY <1>2 DEF StatusRead, IInv, HoldInv, PastLock
  <2> QED BY <1>2, <2>1, SettledKeeps DEF StatusRead
<1> QED BY <1>1, <1>2

LEMMA ControlLooksKeeps ==
  ASSUME IInv, NEW c \in Callers, ControlLooks(c)
  PROVE  IInv'
<1>1. /\ pc[c] = "lookup" /\ HasLock(c)
      /\ saw' = [saw EXCEPT ![c] = LookupBinding(arg[c].notebook)]
      /\ UNCHANGED <<arg, lock, open, closed, stopping, stopped, leases, jobs, kernelAt, kernels>>
  BY DEF ControlLooks, IInv, HoldInv, PastLock
<1>2. PICK what \in {"specs", "effect"} : Await(c, what)
  BY DEF ControlLooks
<1>3. /\ HoldInv'
      /\ pc' \in [Callers ->
                   {"idle", "queued", "lookup", "specs", "effect", "status", "closing"}]
      /\ \A d \in Callers : pc'[d] = IF d = c THEN what ELSE pc[d]
  BY <1>1, <1>2, AwaitKeeps DEF IInv
<1>4. CallTypes'
  <2>1. LookupBinding(arg[c].notebook) \in {None} \cup Kernels
    BY SessionsOfCalls DEF LookupBinding, IInv, CallTypes
  <2> QED BY <1>1, <1>3, <2>1 DEF IInv, CallTypes
<1>5. Sound(Leases)' /\ JobInv'
  BY <1>1, SameLeases, FewerJobs DEF IInv
<1>6. IdleInv'
  BY <1>1, <1>3, StaysIdle DEF IInv
<1> QED BY <1>3, <1>4, <1>5, <1>6 DEF IInv

LEMMA NotebookCloseKeeps ==
  ASSUME IInv, NEW c \in Callers, NEW n \in Notebooks, NEW tool \in {"close", "force_close"},
         NotebookClose(c, n, tool)
  PROVE  IInv'
<1>1. /\ pc[c] = "idle"
      /\ arg' = [arg EXCEPT ![c] = [notebook |-> n, tool |-> tool]]
      /\ pc' = [pc EXCEPT ![c] = "closing"]
      /\ UNCHANGED <<saw, lock, open, closed, stopping, stopped, leases, jobs, kernelAt, kernels>>
  BY DEF NotebookClose, Await
<1>2. /\ pc'[c] = "closing"
      /\ \A d \in Callers : d # c => pc'[d] = pc[d] /\ arg'[d] = arg[d]
  BY <1>1 DEF IInv, CallTypes
<1>3. CallTypes'
  <2>1. arg' \in [Callers -> [notebook : Notebooks, tool : Tools]]
    BY <1>1 DEF IInv, CallTypes, Tools
  <2> QED BY <1>1, <2>1 DEF IInv, CallTypes
<1>4. HoldInv'
  BY <1>1, <1>2 DEF IInv, HoldInv, HasLock, SessionOfCall, PastLock
<1>5. Sound(Leases)' /\ JobInv'
  BY <1>1, SameLeases, FewerJobs DEF IInv
<1>6. IdleInv'
  BY <1>1, <1>2, StaysIdle DEF IInv
<1> QED BY <1>3, <1>4, <1>5, <1>6 DEF IInv

\* What happens around the calls, and leaves the leases alone.
LEMMA SurroundingsKeep ==
  ASSUME IInv, UNCHANGED <<calls, open, closed, leases>>, jobs' \subseteq jobs,
         stopping' \in BOOLEAN, stopped' \in BOOLEAN,
         kernelAt' \in [Paths -> {None} \cup Kernels], kernels' \in Kernels
  PROVE  IInv'
<1>1. CallTypes'
  BY DEF IInv, CallTypes, calls
<1>2. HoldInv' /\ Sound(Leases)' /\ JobInv'
  BY SameCalls, SameLeases, FewerJobs DEF IInv
<1>3. IdleInv'
  BY StaysIdle DEF IInv, calls
<1> QED BY <1>1, <1>2, <1>3 DEF IInv

LEMMA OthersKeep ==
  ASSUME IInv,
         ShutdownBegins \/ (\E j \in jobs : JobEnds(j)) \/ (\E p \in Paths : Browser(p))
  PROVE  IInv'
<1>1. CASE ShutdownBegins
  BY <1>1, SurroundingsKeep DEF ShutdownBegins, IInv, CallTypes
<1>2. CASE \E j \in jobs : JobEnds(j)
  BY <1>2, SurroundingsKeep DEF JobEnds, IInv, CallTypes
<1>3. ASSUME NEW p \in Paths, Browser(p) PROVE IInv'
  <2>1. kernels' \in Kernels /\ (kernels' = kernels \/ kernels' = kernels + 1)
    BY <1>3, ConstantsAssumption DEF Browser, IInv, CallTypes, Kernels
  <2>2. kernelAt' \in [Paths -> {None} \cup Kernels]
    <3>1. \/ kernelAt' = [kernelAt EXCEPT ![p] = kernels']
          \/ kernelAt' = [kernelAt EXCEPT ![p] = None]
      BY <1>3 DEF Browser
    <3> QED BY <2>1, <3>1 DEF IInv, CallTypes
  <2> QED BY <1>3, <2>1, <2>2, SurroundingsKeep DEF Browser, IInv, CallTypes
<1> QED BY <1>1, <1>2, <1>3

-----------------------------------------------------------------------------
(* The steps that change the leases.                                       *)

\* The job a call submits is the only one of its handle: no other call of the
\* session is past the lock.
LEMMA ExecutionBindsKeeps ==
  ASSUME IInv, NEW c \in Callers, ExecutionBinds(c)
  PROVE  IInv'
<1> DEFINE n == arg[c].notebook
           k == LookupBinding(n)
<1>1. /\ pc[c] = "lookup" /\ arg[c].tool = "execute" /\ k # None /\ Settle(c)
      /\ UNCHANGED <<arg, open, closed, stopping, stopped, kernelAt, kernels>>
  BY DEF ExecutionBinds, RequireBinding
<1>2. n \in Notebooks /\ k \in Kernels /\ HasLock(c)
  BY <1>1, SessionsOfCalls DEF LookupBinding, IInv, CallTypes, HoldInv, PastLock
<1>3. PICK L : L = Bound(Leases, n, k)
  OBVIOUS
<1>4. /\ Sound(L) /\ Later(Leases, L)
      /\ L.binding[n] \in DOMAIN L.client /\ L.client[L.binding[n]].live
  BY <1>2, <1>3, BoundSound DEF IInv
<1>5. PICK job : job = [notebook |-> n, client |-> L.binding[n]]
  OBVIOUS
<1>6. Become(L, jobs, {}) \/ Become(L, jobs, {job})
  BY <1>3, <1>5 DEF ExecutionBinds
<1>7. \A j \in jobs : j.notebook # n
  BY <1>1 DEF IInv, IdleInv, Active
<1>8. Sound(Leases)' /\ JobInv' /\ jobs' \subseteq jobs \cup {job}
  <2>1. CASE Become(L, jobs, {})
    BY <1>4, <2>1, BecomeLeft
  <2>2. CASE Become(L, jobs, {job})
    <3>1. PICK submitted : submitted = {job}
      OBVIOUS
    <3>2. \A j \in submitted :
            /\ j \in [notebook : Notebooks, client : DOMAIN L.client]
            /\ L.client[j.client].live
            /\ \A i \in jobs \cup submitted : i.notebook = j.notebook => i = j
      BY <1>2, <1>4, <1>5, <1>7, <3>1
    <3>3. Become(L, jobs, submitted)
      BY <2>2, <3>1
    <3> QED BY <1>4, <3>1, <3>2, <3>3, BecomeKeeps
  <2> QED BY <1>6, <2>1, <2>2
<1>9. /\ HoldInv' /\ pc' = [pc EXCEPT ![c] = "idle"]
      /\ saw' \in [Callers -> {None} \cup Kernels] /\ lock' \in [Sessions -> Seq(Callers)]
  BY <1>1, <1>2, SettleKeeps DEF IInv
<1>10. CallTypes'
  BY <1>1, <1>9 DEF IInv, CallTypes
<1>11. ASSUME NEW d \in Callers, pc'[d] = "lookup", arg'[d].tool = "execute"
       PROVE  ~Active(arg[d].notebook)'
  <2>1. d # c /\ pc[d] = "lookup" /\ arg'[d] = arg[d]
    BY <1>1, <1>9, <1>11 DEF IInv, CallTypes
  <2>2. SessionOfCall(d) # SessionOfCall(c)
    BY <1>2, <2>1, Alone DEF IInv, PastLock
  <2>3. arg[d].notebook # n
    BY <2>2 DEF SessionOfCall
  <2>4. \A j \in jobs : j.notebook # arg[d].notebook
    BY <1>1, <1>11, <2>1 DEF IInv, IdleInv, Active
  <2>5. \A j \in jobs' : j.notebook # arg[d].notebook
    BY <1>5, <1>8, <2>3, <2>4
  <2>6. arg'[d].notebook = arg[d].notebook
    BY <2>1
  <2> QED BY <1>1, <2>5, <2>6 DEF Active
<1>12. IdleInv'
  BY <1>1, <1>11 DEF IdleInv, Active
<1> QED BY <1>8, <1>9, <1>10, <1>12 DEF IInv

LEMMA ControlAcceptedKeeps ==
  ASSUME IInv, NEW c \in Callers, ControlAccepted(c)
  PROVE  IInv'
<1> DEFINE n == arg[c].notebook
<1>1. /\ pc[c] = "specs" /\ HasLock(c) /\ n \in Notebooks
      /\ UNCHANGED <<arg, saw, lock, open, closed, stopping, stopped, kernelAt, kernels>>
  BY SessionsOfCalls DEF ControlAccepted, IInv, HoldInv, PastLock
<1>2. PICK what \in {"status", "effect"} : Await(c, what)
  BY DEF ControlAccepted
<1>3. /\ HoldInv'
      /\ pc' \in [Callers ->
                   {"idle", "queued", "lookup", "specs", "effect", "status", "closing"}]
      /\ \A d \in Callers : pc'[d] = IF d = c THEN what ELSE pc[d]
  BY <1>1, <1>2, AwaitKeeps DEF IInv
<1>4. CallTypes'
  BY <1>1, <1>3 DEF IInv, CallTypes
<1>5. Sound(Leases)' /\ JobInv' /\ jobs' \subseteq jobs
  <2>1. CASE UNCHANGED <<leases, jobs>>
    BY <2>1, SameLeases, FewerJobs DEF IInv
  <2>2. CASE saw[c] # None /\ Become(Bound(Leases, n, saw[c]), jobs, {})
    <3>1. saw[c] \in Kernels
      BY <2>2 DEF IInv, CallTypes
    <3>2. PICK L : L = Bound(Leases, n, saw[c])
      OBVIOUS
    <3>3. Sound(L) /\ Later(Leases, L)
      BY <1>1, <3>1, <3>2, BoundSound DEF IInv
    <3> QED BY <2>2, <3>2, <3>3, BecomeLeft
  <2> QED BY <2>1, <2>2 DEF ControlAccepted
<1>6. IdleInv'
  BY <1>1, <1>3, <1>5, StaysIdle DEF IInv
<1> QED BY <1>3, <1>4, <1>5, <1>6 DEF IInv

\* What a control that ends at kernel after leaves of the leases.
Controlled(c, after) ==
  LET L == Released(Invalidated(Leases, Dropped(c, after)), {arg[c].notebook})
  IN  IF after = None THEN L ELSE Bound(L, arg[c].notebook, after)

LEMMA DroppedKernels ==
  ASSUME IInv, NEW c \in Callers, NEW after
  PROVE  Dropped(c, after) \subseteq Kernels
BY DEF Dropped, IInv, CallTypes

LEMMA ControlledSound ==
  ASSUME IInv, NEW c \in Callers, NEW after \in {None} \cup Kernels
  PROVE  /\ Sound(Controlled(c, after)) /\ Later(Leases, Controlled(c, after))
         /\ \A b \in DOMAIN client :
              client[b].kernel \in Dropped(c, after) => ~Controlled(c, after).client[b].live
<1>1. arg[c].notebook \in Notebooks
  BY SessionsOfCalls DEF IInv
<1>2. PICK K : K = Invalidated(Leases, Dropped(c, after))
  OBVIOUS
<1>3. /\ Sound(K) /\ Later(Leases, K)
      /\ \A b \in DOMAIN Leases.client :
           Leases.client[b].kernel \in Dropped(c, after) => ~K.client[b].live
  BY <1>2, DroppedKernels, InvalidatedSound DEF IInv
<1>4. PICK L : L = Released(K, {arg[c].notebook})
  OBVIOUS
<1>5. Sound(L) /\ Later(K, L)
  BY <1>1, <1>3, <1>4, ReleasedSound
<1>6. PICK M : M = Controlled(c, after)
  OBVIOUS
<1>7. Sound(M) /\ Later(L, M)
  <2>1. CASE after = None
    BY <1>2, <1>4, <1>5, <1>6, <2>1 DEF Controlled, Later
  <2>2. CASE after # None
    <3>1. M = Bound(L, arg[c].notebook, after) /\ after \in Kernels
      BY <1>2, <1>4, <1>6, <2>2 DEF Controlled
    <3> QED BY <1>1, <1>5, <3>1, BoundSound
  <2> QED BY <2>1, <2>2
<1>8. Later(K, M)
  BY <1>5, <1>7, LaterLater
<1>9. Later(Leases, M)
  BY <1>3, <1>8, LaterLater
<1>10. ASSUME NEW b \in DOMAIN client, client[b].kernel \in Dropped(c, after)
       PROVE  ~M.client[b].live
  BY <1>3, <1>8, <1>10 DEF Leases, Later
<1> QED BY <1>6, <1>7, <1>9, <1>10

LEMMA ControlDoneKeeps ==
  ASSUME IInv, NEW c \in Callers, NEW after \in {None} \cup Kernels, ControlDone(c, after)
  PROVE  IInv'
<1>1. /\ pc[c] = "effect" /\ HasLock(c)
      /\ Become(Controlled(c, after), jobs, {})
      /\ kernelAt' = [kernelAt EXCEPT ![PathOf[arg[c].notebook]] = after]
      /\ kernels' = IF after = kernels + 1 THEN after ELSE kernels
      /\ Await(c, "status")
      /\ UNCHANGED <<arg, saw, lock, open, closed, stopping, stopped>>
  BY DEF ControlDone, Controlled, IInv, HoldInv, PastLock
<1>2. /\ HoldInv'
      /\ pc' \in [Callers ->
                   {"idle", "queued", "lookup", "specs", "effect", "status", "closing"}]
      /\ \A d \in Callers : pc'[d] = IF d = c THEN "status" ELSE pc[d]
  BY <1>1, AwaitKeeps DEF IInv
<1>3. kernels' \in Kernels
  BY <1>1 DEF IInv, CallTypes, Kernels, None
<1>4. CallTypes'
  BY <1>1, <1>2, <1>3 DEF IInv, CallTypes
<1>5. PICK L : L = Controlled(c, after)
  OBVIOUS
<1>6. Sound(L) /\ Later(Leases, L)
  BY <1>5, ControlledSound
<1>7. Sound(Leases)' /\ JobInv' /\ jobs' \subseteq jobs
  BY <1>1, <1>5, <1>6, BecomeLeft
<1>8. IdleInv'
  BY <1>1, <1>2, <1>7, StaysIdle DEF IInv
<1> QED BY <1>2, <1>4, <1>7, <1>8 DEF IInv

\* Jupyter ends a control at a kernel that there is.
LEMMA KernelControlEnds ==
  ASSUME IInv, NEW c \in Callers, KernelControl(c)
  PROVE  \E after \in {None} \cup Kernels :
           /\ ControlDone(c, after)
           /\ arg[c].tool = "restart" => after = saw[c]
<1>1. /\ kernelAt[PathOf[arg[c].notebook]] \in {None} \cup Kernels
      /\ kernels < MaxKernels => kernels + 1 \in Kernels
  BY SessionsOfCalls, ConstantsAssumption DEF IInv, CallTypes, Kernels
<1> QED BY <1>1 DEF KernelControl

LEMMA CloseAnsweredKeeps ==
  ASSUME IInv, NEW c \in Callers, CloseAnswered(c)
  PROVE  IInv'
<1> DEFINE n == arg[c].notebook
<1>1. /\ pc[c] = "closing" /\ pc' = [pc EXCEPT ![c] = "idle"] /\ n \in Notebooks
      /\ UNCHANGED <<arg, saw, lock, closed, stopping, stopped, kernelAt, kernels>>
  BY SessionsOfCalls DEF CloseAnswered, Await, IInv
<1>2. open' \subseteq open /\ Sound(Leases)' /\ JobInv' /\ jobs' \subseteq jobs
  <2>1. CASE UNCHANGED <<open, leases, jobs>>
    BY <2>1, SameLeases, FewerJobs DEF IInv
  <2>2. CASE Closing({n}, Released(Leases, {n}))
    <3>1. PICK L : L = Released(Leases, {n})
      OBVIOUS
    <3>2. Sound(L) /\ Later(Leases, L)
      BY <1>1, <3>1, ReleasedSound DEF IInv
    <3>3. PICK left \in SUBSET jobs : Become(L, left, {})
      BY <2>2, <3>1 DEF Closing
    <3> QED BY <2>2, <3>2, <3>3, BecomeLeft DEF Closing
  <2> QED BY <2>1, <2>2 DEF CloseAnswered
<1>3. CallTypes'
  BY <1>1, <1>2 DEF IInv, CallTypes
<1>4. \A d \in Callers : pc'[d] = IF d = c THEN "idle" ELSE pc[d]
  BY <1>1 DEF IInv, CallTypes
<1>5. HoldInv'
  BY <1>1, <1>4 DEF IInv, HoldInv, HasLock, SessionOfCall, PastLock
<1>6. IdleInv'
  BY <1>1, <1>2, <1>4, StaysIdle DEF IInv
<1> QED BY <1>2, <1>3, <1>5, <1>6 DEF IInv

\* A step that takes leases, handles and jobs away.
LEMMA TakesAway ==
  ASSUME IInv, NEW L, Sound(L), Later(Leases, L), NEW left, left \subseteq jobs,
         Become(L, left, {}), open' \subseteq open, closed' \subseteq Sessions,
         stopped' \in BOOLEAN, UNCHANGED <<calls, stopping, kernelAt, kernels>>
  PROVE  IInv'
<1>1. Sound(Leases)' /\ JobInv' /\ jobs' \subseteq jobs
  BY BecomeLeft
<1>2. CallTypes'
  BY DEF IInv, CallTypes, calls
<1>3. HoldInv' /\ IdleInv'
  BY <1>1, SameCalls, StaysIdle DEF IInv, calls
<1> QED BY <1>1, <1>2, <1>3 DEF IInv

LEMMA SessionCloseKeeps ==
  ASSUME IInv, NEW s \in Sessions, SessionClose(s)
  PROVE  IInv'
<1>1. PICK ns : ns = {n \in open : SessionOf[n] = s}
  OBVIOUS
<1>2. PICK L : L = Released(Leases, ns)
  OBVIOUS
<1>3. Sound(L) /\ Later(Leases, L)
  BY <1>1, <1>2, ReleasedSound DEF IInv, CallTypes
<1>4. Closing(ns, L) /\ closed' = closed \cup {s}
      /\ UNCHANGED <<calls, stopping, stopped, kernelAt, kernels>>
  BY <1>1, <1>2 DEF SessionClose
<1>5. PICK left \in SUBSET jobs : Become(L, left, {})
  BY <1>4 DEF Closing
<1> QED BY <1>3, <1>4, <1>5, TakesAway DEF Closing, IInv, CallTypes

LEMMA ShutdownEndsKeeps ==
  ASSUME IInv, ShutdownEnds
  PROVE  IInv'
<1>1. PICK K : K = Released(Leases, open)
  OBVIOUS
<1>2. PICK L : L = Invalidated(K, Kernels)
  OBVIOUS
<1>3. Sound(K) /\ Later(Leases, K)
  BY <1>1, ReleasedSound DEF IInv, CallTypes
<1>4. Sound(L) /\ Later(Leases, L)
  BY <1>2, <1>3, InvalidatedSound, LaterLater
<1>5. Closing(open, L) /\ closed' = Sessions /\ stopped' = TRUE
      /\ UNCHANGED <<calls, stopping, kernelAt, kernels>>
  BY <1>1, <1>2 DEF ShutdownEnds
<1>6. PICK left \in SUBSET jobs : Become(L, left, {})
  BY <1>5 DEF Closing
<1> QED BY <1>4, <1>5, <1>6, TakesAway DEF Closing

LEMMA KernelGoneKeeps ==
  ASSUME IInv, NEW k \in Kernels, KernelGone(k)
  PROVE  IInv'
<1>1. PICK holders \in SUBSET Notebooks :
        Become(Released(Invalidated(Leases, {k}), holders), jobs, {})
  BY DEF KernelGone
<1>2. PICK K : K = Invalidated(Leases, {k})
  OBVIOUS
<1>3. PICK L : L = Released(K, holders)
  OBVIOUS
<1>4. Sound(K) /\ Later(Leases, K)
  BY <1>2, InvalidatedSound DEF IInv
<1>5. Sound(L) /\ Later(K, L)
  BY <1>3, <1>4, ReleasedSound
<1>6. Later(Leases, L)
  BY <1>4, <1>5, LaterLater
<1>7. UNCHANGED <<calls, open, closed, stopping, stopped, kernelAt, kernels>>
  BY DEF KernelGone
<1> QED BY <1>1, <1>2, <1>3, <1>5, <1>6, <1>7, TakesAway DEF IInv, CallTypes

-----------------------------------------------------------------------------
(* The invariant.                                                          *)

LEMMA InitIInv == Init => IInv
<1> SUFFICES ASSUME Init PROVE IInv
  OBVIOUS
<1>1. CallTypes
  <2>1. (CHOOSE n \in Notebooks : TRUE) \in Notebooks
    BY ConstantsAssumption
  <2>2. 1 \in Kernels
    BY ConstantsAssumption DEF Kernels
  <2>3. arg \in [Callers -> [notebook : Notebooks, tool : Tools]]
    BY <2>1 DEF Init, Tools
  <2>4. kernelAt \in [Paths -> {None} \cup Kernels] /\ kernels \in Kernels
    BY <2>2 DEF Init
  <2>5. lock \in [Sessions -> Seq(Callers)]
    BY DEF Init
  <2> QED BY <2>3, <2>4, <2>5 DEF Init, CallTypes
<1>2. Sound(Leases)
  <2>1. PICK L : L = Leases
    OBVIOUS
  <2>2. L = [binding |-> [n \in Notebooks |-> None], client |-> << >>,
             hub |-> [k \in Kernels |-> None]]
    BY <2>1 DEF Init, Leases
  <2>3. << >> \in Seq(Clients) /\ DOMAIN << >> = {}
    OBVIOUS
  <2>4. WellFormed(L)
    BY <2>2, <2>3 DEF WellFormed, None
  <2>5. Sound(L)
    BY <2>2, <2>3, <2>4 DEF Sound
  <2> QED BY <2>1, <2>5
<1>3. HoldInv /\ IdleInv
  BY DEF Init, HoldInv, IdleInv, PastLock
<1>4. JobInv
  BY DEF Init, JobInv, JobsInvariant, JobsAreServed, OneJobPerHandle
<1> QED BY <1>1, <1>2, <1>3, <1>4 DEF IInv

LEMMA NextIInv == IInv /\ [Next]_vars => IInv'
<1> SUFFICES ASSUME IInv, [Next]_vars PROVE IInv'
  OBVIOUS
<1>1. ASSUME NEW c \in Callers, NEW n \in Notebooks,
             NEW tool \in {"execute", "start", "restart", "shutdown", "switch"},
             Call(c, n, tool)
      PROVE  IInv'
  BY <1>1, CallKeeps
<1>2. ASSUME NEW c \in Callers, NEW n \in Notebooks,
             NEW tool \in {"close", "force_close"}, NotebookClose(c, n, tool)
      PROVE  IInv'
  BY <1>2, NotebookCloseKeeps
<1>3. ASSUME NEW c \in Callers,
             GotLock(c) \/ Refused(c) \/ StatusRead(c) \/ ControlLooks(c)
      PROVE  IInv'
  BY <1>3, GotLockKeeps, RefusedKeeps, ControlLooksKeeps
<1>4. ASSUME NEW c \in Callers,
             ExecutionBinds(c) \/ ControlAccepted(c) \/ CloseAnswered(c)
      PROVE  IInv'
  BY <1>4, ExecutionBindsKeeps, ControlAcceptedKeeps, CloseAnsweredKeeps
<1>5. ASSUME NEW c \in Callers, KernelControl(c)
      PROVE  IInv'
  BY <1>5, KernelControlEnds, ControlDoneKeeps
<1>6. ASSUME NEW s \in Sessions, SessionClose(s)
      PROVE  IInv'
  BY <1>6, SessionCloseKeeps
<1>7. CASE ShutdownBegins \/ (\E j \in jobs : JobEnds(j)) \/ (\E p \in Paths : Browser(p))
  BY <1>7, OthersKeep
<1>8. CASE ShutdownEnds
  BY <1>8, ShutdownEndsKeeps
<1>9. ASSUME NEW k \in Kernels, KernelGone(k)
      PROVE  IInv'
  BY <1>9, KernelGoneKeeps
<1>10. CASE UNCHANGED vars
  BY <1>10, SurroundingsKeep DEF vars, calls, leases, IInv, CallTypes
<1> QED
  BY <1>1, <1>2, <1>3, <1>4, <1>5, <1>6, <1>7, <1>8, <1>9, <1>10 DEF Next

-----------------------------------------------------------------------------
(* What follows.                                                           *)

LEMMA SoundLeases ==
  ASSUME IInv
  PROVE  LeasesInvariant
<1>1. Sound(Leases) /\ CallTypes /\ JobInv
  BY DEF IInv
<1>2. /\ Leases.binding = binding /\ Leases.client = client /\ Leases.hub = hub
  BY DEF Leases
<1>3. WellFormed(Leases)
  BY <1>1 DEF Sound
<1>4. client \in Seq(Clients) /\ binding \in [Notebooks -> Nat] /\ hub \in [Kernels -> Nat]
  BY <1>2, <1>3 DEF WellFormed
<1>5. /\ binding \in [Notebooks -> {None} \cup DOMAIN client]
      /\ hub \in [Kernels -> {None} \cup DOMAIN client]
  BY <1>2, <1>3, <1>4 DEF WellFormed
<1>6. TypeOK
  BY <1>1, <1>4, <1>5 DEF TypeOK, CallTypes, JobInv, Clients
<1>7. \A b \in DOMAIN client :
        /\ client[b].refs = Cardinality(Lessees(Leases, b))
        /\ client[b].live => client[b].refs > 0 /\ hub[client[b].kernel] = b
  BY <1>1, <1>2 DEF Sound
<1>8. \A b : Lessees(Leases, b) = {n \in Notebooks : binding[n] = b}
  BY <1>2 DEF Lessees
<1>9. LeasesCount
  BY <1>7, <1>8 DEF LeasesCount
<1>10. OneConnectionPerKernel
  BY <1>7 DEF OneConnectionPerKernel
<1> QED BY <1>6, <1>9, <1>10 DEF LeasesInvariant

\* The references of every kernel connection are exactly the handles that lease
\* it, it is live only while it has some, and the live connection of a kernel is
\* one, the hub's: for any calls, closes, restarts, browser steps and shutdown.
THEOREM LeasesAreSound == Spec => []LeasesInvariant
<1>1. Init => IInv
  BY InitIInv
<1>2. IInv /\ [Next]_vars => IInv'
  BY NextIInv
<1>3. IInv => LeasesInvariant
  BY SoundLeases
<1> QED BY <1>1, <1>2, <1>3, PTL DEF Spec

\* An unfinished job is on a live connection, and a handle has one at most,
\* although a call waits for Jupyter between the check and the submission.
THEOREM JobsAreSound == Spec => []JobsInvariant
<1>1. Init => IInv
  BY InitIInv
<1>2. IInv /\ [Next]_vars => IInv'
  BY NextIInv
<1>3. IInv => JobsInvariant
  BY DEF IInv, JobInv
<1> QED BY <1>1, <1>2, <1>3, PTL DEF Spec

\* The call that gets from its effect to its status is the control that ended.
LEMMA OnlyControlEnds ==
  ASSUME IInv, Next, NEW c \in Callers, pc[c] = "effect", pc'[c] = "status"
  PROVE  KernelControl(c)
<1>1. DOMAIN pc = Callers
  BY DEF IInv, CallTypes
<1>2. ASSUME NEW d \in Callers, NEW what, Await(d, what), what # "status" \/ d # c
      PROVE  FALSE
  BY <1>1, <1>2 DEF Await
<1>3. ASSUME pc' = pc
      PROVE  FALSE
  BY <1>3
<1>4. ASSUME NEW d \in Callers, NEW n \in Notebooks, NEW tool, Call(d, n, tool)
      PROVE  FALSE
  BY <1>2, <1>4 DEF Call
<1>5. ASSUME NEW d \in Callers, NEW n \in Notebooks, NEW tool, NotebookClose(d, n, tool)
      PROVE  FALSE
  BY <1>2, <1>5 DEF NotebookClose
<1>6. ASSUME NEW d \in Callers,
             \/ GotLock(d) \/ Refused(d) \/ ExecutionBinds(d) \/ ControlLooks(d)
             \/ StatusRead(d) \/ CloseAnswered(d)
      PROVE  FALSE
  BY <1>2, <1>6 DEF GotLock, Refused, ExecutionBinds, ControlLooks, StatusRead, CloseAnswered,
                    Settle
<1>7. ASSUME NEW d \in Callers, ControlAccepted(d)
      PROVE  FALSE
  <2>1. pc[d] = "specs" /\ (Await(d, "status") \/ Await(d, "effect"))
    BY <1>7 DEF ControlAccepted
  <2> QED BY <1>2, <2>1
<1>8. ASSUME NEW d \in Callers, d # c, KernelControl(d)
      PROVE  FALSE
  <2>1. Await(d, "status")
    BY <1>8 DEF KernelControl, ControlDone
  <2> QED BY <1>2, <1>8, <2>1
<1>9. ASSUME \/ ShutdownBegins \/ ShutdownEnds
             \/ (\E s \in Sessions : SessionClose(s)) \/ (\E j \in jobs : JobEnds(j))
             \/ (\E k \in Kernels : KernelGone(k)) \/ (\E p \in Paths : Browser(p))
      PROVE  FALSE
  <2>1. UNCHANGED calls
    BY <1>9 DEF ShutdownBegins, ShutdownEnds, SessionClose, JobEnds, KernelGone, Browser
  <2> QED BY <1>3, <2>1 DEF calls
<1> QED BY <1>4, <1>5, <1>6, <1>7, <1>8, <1>9 DEF Next

\* A restart drops the connection the old kernel process had.
LEMMA RestartDropsIt ==
  ASSUME IInv, NEW c \in Callers, KernelControl(c), arg[c].tool = "restart",
         NEW b \in DOMAIN client, client[b].kernel = saw[c]
  PROVE  ~client'[b].live
<1>1. PICK after \in {None} \cup Kernels : ControlDone(c, after)
  BY KernelControlEnds
<1>2. client[b].kernel \in Kernels
  <2>1. client = Leases.client /\ Sound(Leases)
    BY DEF Leases, IInv
  <2> QED BY <2>1, ClientsOf DEF Sound, Clients
<1>3. client[b].kernel \in Dropped(c, after)
  BY <1>2 DEF Dropped, Kernels, None
<1>4. ~Controlled(c, after).client[b].live
  BY <1>3, ControlledSound
<1>5. Become(Controlled(c, after), jobs, {})
  BY <1>1 DEF ControlDone, Controlled
<1> QED BY <1>4, <1>5 DEF Become

\* What was dropped stays dropped.
StayGone == \A b \in DOMAIN client : client'[b].live => client[b].live

LEMMA LaterStays ==
  ASSUME NEW L, Later(Leases, L), NEW left, NEW submitted, Become(L, left, submitted)
  PROVE  StayGone
BY DEF Later, Become, Leases, StayGone

LEMMA SameStays ==
  ASSUME UNCHANGED leases
  PROVE  StayGone
BY DEF leases, StayGone

LEMMA ControlStays ==
  ASSUME IInv, NEW c \in Callers, KernelControl(c)
  PROVE  StayGone
<1>1. PICK after \in {None} \cup Kernels : ControlDone(c, after)
  BY KernelControlEnds
<1>2. Become(Controlled(c, after), jobs, {})
  BY <1>1 DEF ControlDone, Controlled
<1>3. Later(Leases, Controlled(c, after))
  BY ControlledSound
<1> QED BY <1>2, <1>3, LaterStays

LEMMA BindingStays ==
  ASSUME IInv, NEW c \in Callers, ExecutionBinds(c) \/ ControlAccepted(c)
  PROVE  StayGone
<1>1. PICK n : n = arg[c].notebook
  OBVIOUS
<1>2. n \in Notebooks
  BY <1>1, SessionsOfCalls DEF IInv
<1>3. ASSUME NEW k \in Kernels, NEW L, L = Bound(Leases, n, k), NEW submitted,
             Become(L, jobs, submitted)
      PROVE  StayGone
  <2>1. Later(Leases, L)
    BY <1>2, <1>3, BoundSound DEF IInv
  <2> QED BY <1>3, <2>1, LaterStays
<1>4. CASE ExecutionBinds(c)
  <2>1. LookupBinding(n) # None
    BY <1>1, <1>4 DEF ExecutionBinds, RequireBinding
  <2>2. LookupBinding(n) \in Kernels
    BY <1>1, <2>1, SessionsOfCalls DEF LookupBinding, IInv, CallTypes
  <2>3. \E submitted : Become(Bound(Leases, n, LookupBinding(n)), jobs, submitted)
    BY <1>1, <1>4 DEF ExecutionBinds
  <2> QED BY <1>3, <2>2, <2>3
<1>5. CASE ControlAccepted(c)
  <2>1. \/ UNCHANGED leases
        \/ saw[c] # None /\ Become(Bound(Leases, n, saw[c]), jobs, {})
    BY <1>1, <1>5 DEF ControlAccepted
  <2>2. saw[c] # None => saw[c] \in Kernels
    BY DEF IInv, CallTypes
  <2> QED BY <1>3, <2>1, <2>2, SameStays
<1> QED BY <1>4, <1>5

LEMMA ClosingStays ==
  ASSUME IInv, NEW ns \in SUBSET Notebooks, Closing(ns, Released(Leases, ns))
  PROVE  StayGone
<1>1. Later(Leases, Released(Leases, ns))
  BY ReleasedSound DEF IInv
<1>2. \E left : Become(Released(Leases, ns), left, {})
  BY DEF Closing
<1> QED BY <1>1, <1>2, LaterStays

LEMMA ShutdownStays ==
  ASSUME IInv, ShutdownEnds
  PROVE  StayGone
<1>1. PICK K : K = Released(Leases, open)
  OBVIOUS
<1>2. PICK L : L = Invalidated(K, Kernels)
  OBVIOUS
<1>3. Sound(K) /\ Later(Leases, K)
  BY <1>1, ReleasedSound DEF IInv, CallTypes
<1>4. Later(Leases, L)
  BY <1>2, <1>3, InvalidatedSound, LaterLater
<1>5. \E left : Become(L, left, {})
  BY <1>1, <1>2 DEF ShutdownEnds, Closing
<1> QED BY <1>4, <1>5, LaterStays

LEMMA KernelGoneStays ==
  ASSUME IInv, NEW k \in Kernels, KernelGone(k)
  PROVE  StayGone
<1>1. PICK holders \in SUBSET Notebooks :
        Become(Released(Invalidated(Leases, {k}), holders), jobs, {})
  BY DEF KernelGone
<1>2. PICK K : K = Invalidated(Leases, {k})
  OBVIOUS
<1>3. PICK L : L = Released(K, holders)
  OBVIOUS
<1>4. Sound(K) /\ Later(Leases, K)
  BY <1>2, InvalidatedSound DEF IInv
<1>5. Later(Leases, L)
  BY <1>3, <1>4, ReleasedSound, LaterLater
<1> QED BY <1>1, <1>2, <1>3, <1>5, LaterStays

LEMMA NextStays ==
  ASSUME IInv, Next
  PROVE  StayGone
<1>1. ASSUME NEW c \in Callers, NEW n \in Notebooks, NEW tool,
             Call(c, n, tool) \/ NotebookClose(c, n, tool)
      PROVE  StayGone
  BY <1>1, SameStays DEF Call, NotebookClose
<1>2. ASSUME NEW c \in Callers,
             GotLock(c) \/ Refused(c) \/ ControlLooks(c) \/ StatusRead(c)
      PROVE  StayGone
  BY <1>2, SameStays DEF GotLock, Refused, ControlLooks, StatusRead
<1>3. ASSUME NEW c \in Callers, CloseAnswered(c)
      PROVE  StayGone
  <2>1. PICK ns \in SUBSET Notebooks : ns = {arg[c].notebook}
    BY SessionsOfCalls DEF IInv
  <2>2. UNCHANGED leases \/ Closing(ns, Released(Leases, ns))
    BY <1>3, <2>1 DEF CloseAnswered
  <2> QED BY <2>2, SameStays, ClosingStays
<1>4. ASSUME NEW s \in Sessions, SessionClose(s)
      PROVE  StayGone
  <2>1. PICK ns : ns = {n \in open : SessionOf[n] = s}
    OBVIOUS
  <2>2. ns \in SUBSET Notebooks
    BY <2>1 DEF IInv, CallTypes
  <2>3. Closing(ns, Released(Leases, ns))
    BY <1>4, <2>1 DEF SessionClose
  <2> QED BY <2>2, <2>3, ClosingStays
<1>5. CASE ShutdownBegins \/ (\E j \in jobs : JobEnds(j)) \/ (\E p \in Paths : Browser(p))
  BY <1>5, SameStays DEF ShutdownBegins, JobEnds, Browser
<1> QED
  BY <1>1, <1>2, <1>3, <1>4, <1>5, BindingStays, ControlStays, ShutdownStays,
     KernelGoneStays DEF Next

\* When a restart ends, the connection of the process before it is dropped for
\* every handle, and no job is ever on a dropped connection again, whoever
\* submits it and whichever handle the restart came through.
THEOREM RestartDrops == Spec => RestartDropsConnection
<1>1. Init => IInv
  BY InitIInv
<1>2. IInv /\ [Next]_vars => IInv'
  BY NextIInv
<1> DEFINE Restarted(c) == pc[c] = "effect" /\ pc'[c] = "status" /\ arg[c].tool = "restart"
           Drops == \A b \in DOMAIN client :
             ~client[b].live \/ (\E c \in Callers : Restarted(c) /\ client[b].kernel = saw[c]) =>
               ~client'[b].live /\ \A j \in jobs' : j.client # b
<1>3. ASSUME IInv, IInv', [Next]_vars
      PROVE  [Drops]_vars
  <2>1. CASE UNCHANGED vars
    BY <2>1
  <2>2. CASE Next
    <3>1. StayGone
      BY <1>3, <2>2, NextStays
    <3>2. \A j \in jobs' : client'[j.client].live
      BY <1>3 DEF IInv, JobInv, JobsInvariant, JobsAreServed
    <3>3. ASSUME NEW c \in Callers, Restarted(c), NEW b \in DOMAIN client,
                 client[b].kernel = saw[c]
          PROVE  ~client'[b].live
      BY <1>3, <2>2, <3>3, OnlyControlEnds, RestartDropsIt
    <3> QED BY <3>1, <3>2, <3>3 DEF StayGone
  <2> QED BY <1>3, <2>1, <2>2
<1> QED BY <1>1, <1>2, <1>3, PTL DEF Spec, RestartDropsConnection
=============================================================================
