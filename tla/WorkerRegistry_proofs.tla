------------------------ MODULE WorkerRegistry_proofs ------------------------
(***************************************************************************)
(* Proofs about the gateway's worker registry, for any number of requests, *)
(* logins or sessions and slots: the locks, references and leases of its   *)
(* slots, under logins and under the transport sessions of AccessSessions; *)
(* and, under sessions, the limits, workers and the shutdown.              *)
(***************************************************************************)
EXTENDS AccessSessions, FiniteSetTheorems, SequenceTheorems, TLAPS

\* What is in a queue, and that it is there once.
In(x, q) == \E i \in 1..Len(q) : q[i] = x
Once(q)  == \A i, j \in 1..Len(q) : q[i] = q[j] => i = j

SlotRecords == [key : Keys, refs : Int, retiring : BOOLEAN, worker : BOOLEAN,
                held : BOOLEAN, waiters : Seq(Tasks)]

Types ==
  /\ slotAt \in [Keys -> SlotIds \cup {None}]
  /\ slot \in [SlotIds -> SlotRecords]
  /\ live \subseteq SlotIds /\ aborted \subseteq Requests
  /\ revoked \subseteq Keys /\ closed \in BOOLEAN /\ failed \in BOOLEAN

\* Where a task may stand: on a slot, or on none.
PlacesInv ==
  /\ pc \in [Tasks -> Awaits] /\ on \in [Tasks -> SlotIds \cup {None}]
  /\ \A t \in Tasks : on[t] = None <=> pc[t] \in {"idle", "retired"}
  /\ \A t \in Retirements : pc[t] \in {"idle", "retiring", "closing"}

Waits(t, n) == In(t, slot[n].waiters)

\* Who waits in the line of a slot asked for its lock, once.
LinesInv ==
  \A n \in SlotIds :
    /\ Once(slot[n].waiters)
    /\ \A t \in Tasks : Waits(t, n) => on[t] = n /\ pc[t] \in {"locking", "retiring"}

\* What is queued to go on is queued once and waits in no line; a request that
\* asked for a lock waits for it or is about to go on with it.
ReadyInv ==
  /\ ready \in Seq(Tasks) /\ Once(ready)
  /\ \A t \in Tasks : In(t, ready) =>
       /\ pc[t] \in {"locking", "retiring", "retired", "rejected"}
       /\ \A n \in SlotIds : ~Waits(t, n)
  /\ \A t \in Tasks : pc[t] = "locking" => In(t, ready) \/ Waits(t, on[t])

Holds(t, n) == on[t] = n /\ pc[t] \in Working /\ ~Waits(t, n)

\* A lock that is held has one holder, and no other has any.
LocksInv ==
  \A n \in SlotIds :
    /\ slot[n].held <=> \E t \in Tasks : Holds(t, n)
    /\ \A t, u \in Tasks : Holds(t, n) /\ Holds(u, n) => t = u

LockInv == PlacesInv /\ LinesInv /\ ReadyInv /\ LocksInv

Users(n) == {r \in Requests : on[r] = n /\ pc[r] \notin {"retiring", "closing"}}
RefsInv == \A n \in SlotIds : slot[n].refs = Cardinality(Users(n))

IInv == Types /\ LockInv /\ RefsInv

-----------------------------------------------------------------------------
(* Queues.                                                                 *)

LEMMA TailFacts ==
  ASSUME NEW S, NEW q \in Seq(S), q # << >>, Once(q)
  PROVE  /\ Tail(q) \in Seq(S) /\ Once(Tail(q)) /\ Head(q) \in S /\ In(Head(q), q)
         /\ \A x : In(x, Tail(q)) <=> In(x, q) /\ x # Head(q)
<1>1. /\ Len(q) \in Nat \ {0} /\ Head(q) = q[1] /\ Head(q) \in S
      /\ Tail(q) \in Seq(S) /\ Len(Tail(q)) = Len(q) - 1
      /\ \A i \in 1..Len(Tail(q)) : Tail(q)[i] = q[i + 1]
  BY HeadTailProperties, EmptySeq
<1>2. Once(Tail(q))
  BY <1>1 DEF Once
<1>3. ASSUME NEW x, In(x, Tail(q))
      PROVE  In(x, q) /\ x # Head(q)
  BY <1>1, <1>3 DEF In, Once
<1>4. ASSUME NEW x, In(x, q), x # Head(q)
      PROVE  In(x, Tail(q))
  <2>1. PICK i \in 1..Len(q) : q[i] = x
    BY <1>4 DEF In
  <2>2. i - 1 \in 1..Len(Tail(q)) /\ Tail(q)[i - 1] = x
    BY <1>1, <1>4, <2>1
  <2> QED BY <2>2 DEF In
<1>5. In(Head(q), q)
  BY <1>1 DEF In
<1> QED BY <1>1, <1>2, <1>3, <1>4, <1>5

LEMMA EmptyFacts ==
  /\ Once(<< >>) /\ \A x : ~In(x, << >>)
  /\ \A S : << >> \in Seq(S)
BY EmptySeq DEF Once, In

LEMMA AppendFacts ==
  ASSUME NEW S, NEW q \in Seq(S), NEW x \in S
  PROVE  /\ Append(q, x) \in Seq(S)
         /\ Once(q) /\ ~In(x, q) => Once(Append(q, x))
         /\ \A y : In(y, Append(q, x)) <=> In(y, q) \/ y = x
<1>1. /\ Append(q, x) \in Seq(S) /\ Len(q) \in Nat /\ Len(Append(q, x)) = Len(q) + 1
      /\ \A i \in 1..Len(q) : Append(q, x)[i] = q[i]
      /\ Append(q, x)[Len(q) + 1] = x
  BY AppendProperties, LenProperties
<1>2. ASSUME Once(q), ~In(x, q)
      PROVE  Once(Append(q, x))
  BY <1>1, <1>2 DEF Once, In
<1>3. ASSUME NEW y
      PROVE  In(y, Append(q, x)) <=> In(y, q) \/ y = x
  <2>1. ASSUME In(y, q)
        PROVE  In(y, Append(q, x))
    BY <1>1, <2>1 DEF In
  <2>2. In(x, Append(q, x))
    BY <1>1 DEF In
  <2>3. ASSUME In(y, Append(q, x)), y # x
        PROVE  In(y, q)
    BY <1>1, <2>3 DEF In
  <2> QED BY <2>1, <2>2, <2>3
<1> QED BY <1>1, <1>2, <1>3

LEMMA ConcatOne ==
  ASSUME NEW S, NEW q \in Seq(S), NEW x \in S
  PROVE  q \o << x >> = Append(q, x)
OBVIOUS

LEMMA ConcatFacts ==
  ASSUME NEW S, NEW p \in Seq(S), NEW q \in Seq(S)
  PROVE  /\ p \o q \in Seq(S)
         /\ \A x : In(x, p \o q) <=> In(x, p) \/ In(x, q)
         /\ Once(p) /\ Once(q) /\ (\A x : ~(In(x, p) /\ In(x, q))) => Once(p \o q)
<1> DEFINE c == p \o q
<1>1. PICK a \in Nat, b \in Nat : a = Len(p) /\ b = Len(q)
  BY LenProperties
<1>2. /\ c \in Seq(S) /\ Len(c) = a + b
      /\ \A i \in 1..(a + b) : c[i] = IF i <= a THEN p[i] ELSE q[i - a]
  BY <1>1, ConcatProperties
<1> HIDE DEF c
<1>3. ASSUME NEW x, In(x, c)
      PROVE  In(x, p) \/ In(x, q)
  <2>1. PICK i \in 1..(a + b) : c[i] = x
    BY <1>2, <1>3 DEF In
  <2>2. CASE i <= a
    BY <1>1, <1>2, <2>1, <2>2 DEF In
  <2>3. CASE ~(i <= a)
    <3>1. i - a \in 1..b /\ q[i - a] = x
      BY <1>2, <2>1, <2>3
    <3> QED BY <1>1, <3>1 DEF In
  <2> QED BY <2>2, <2>3
<1>4. ASSUME NEW x, In(x, p)
      PROVE  In(x, c)
  BY <1>1, <1>2, <1>4 DEF In
<1>5. ASSUME NEW x, In(x, q)
      PROVE  In(x, c)
  <2>1. PICK i \in 1..b : q[i] = x
    BY <1>1, <1>5 DEF In
  <2>2. a + i \in 1..(a + b) /\ ~(a + i <= a) /\ (a + i) - a = i
    BY <2>1
  <2>3. c[a + i] = x
    BY <1>2, <2>1, <2>2
  <2> QED BY <1>2, <2>2, <2>3 DEF In
<1>6. ASSUME Once(p), Once(q), \A x : ~(In(x, p) /\ In(x, q))
      PROVE  Once(c)
  <2>1. SUFFICES ASSUME NEW i \in 1..(a + b), NEW j \in 1..(a + b), c[i] = c[j]
                 PROVE  i = j
    BY <1>2 DEF Once
  <2>2. CASE i <= a /\ j <= a
    <3>1. i \in 1..a /\ j \in 1..a /\ p[i] = p[j]
      BY <1>2, <2>1, <2>2
    <3> QED BY <1>1, <1>6, <3>1 DEF Once
  <2>3. CASE ~(i <= a) /\ ~(j <= a)
    <3>1. i - a \in 1..b /\ j - a \in 1..b /\ q[i - a] = q[j - a]
      BY <1>2, <2>1, <2>3
    <3>2. i - a = j - a
      BY <1>1, <1>6, <3>1 DEF Once
    <3> QED BY <3>2
  <2>4. ASSUME NEW k \in 1..(a + b), NEW m \in 1..(a + b), c[k] = c[m], k <= a, ~(m <= a)
        PROVE  FALSE
    <3>1. k \in 1..a /\ m - a \in 1..b /\ p[k] = c[k] /\ q[m - a] = c[k]
      BY <1>2, <2>4
    <3>2. In(c[k], p) /\ In(c[k], q)
      BY <1>1, <3>1 DEF In
    <3> QED BY <1>6, <3>2
  <2> QED BY <2>1, <2>2, <2>3, <2>4
<1> QED BY <1>2, <1>3, <1>4, <1>5, <1>6 DEF c

\* Splicing takes one out of the line, and keeps the others.
LEMMA WithoutFacts ==
  ASSUME NEW S, NEW q \in Seq(S), NEW x, Once(q)
  PROVE  /\ Without(q, x) \in Seq(S) /\ Once(Without(q, x))
         /\ \A y : In(y, Without(q, x)) <=> In(y, q) /\ y # x
<1>1. Len(q) \in Nat /\ \A i \in 1..Len(q) : q[i] \in S
  BY LenProperties, ElementOfSeq
<1>2. CASE {i \in 1..Len(q) : q[i] = x} = {}
  BY <1>2 DEF Without, In
<1>3. CASE {i \in 1..Len(q) : q[i] = x} # {}
  <2>1. PICK i : i = (CHOOSE k \in {m \in 1..Len(q) : q[m] = x} : TRUE)
    OBVIOUS
  <2>2. i \in 1..Len(q) /\ q[i] = x
    BY <1>3, <2>1
  <2>3. Without(q, x) = SubSeq(q, 1, i - 1) \o SubSeq(q, i + 1, Len(q))
    BY <1>3, <2>1 DEF Without
  <2>4. /\ SubSeq(q, 1, i - 1) \in Seq(S) /\ Len(SubSeq(q, 1, i - 1)) = i - 1
        /\ \A j \in 1..(i - 1) : SubSeq(q, 1, i - 1)[j] = q[j]
    BY <1>1, <2>2, SubSeqProperties
  <2>5. /\ SubSeq(q, i + 1, Len(q)) \in Seq(S) /\ Len(SubSeq(q, i + 1, Len(q))) = Len(q) - i
        /\ \A j \in 1..(Len(q) - i) : SubSeq(q, i + 1, Len(q))[j] = q[i + j]
    BY <1>1, <2>2, SubSeqProperties
  <2>6. PICK p : p = Without(q, x)
    OBVIOUS
  <2>7. /\ p \in Seq(S) /\ Len(p) = Len(q) - 1
        /\ \A j \in 1..(Len(q) - 1) : p[j] = IF j < i THEN q[j] ELSE q[j + 1]
    <3>1. PICK a, b : a = SubSeq(q, 1, i - 1) /\ b = SubSeq(q, i + 1, Len(q))
      OBVIOUS
    <3>2. /\ a \in Seq(S) /\ b \in Seq(S) /\ Len(a) = i - 1 /\ Len(b) = Len(q) - i
          /\ \A j \in 1..(i - 1) : a[j] = q[j]
          /\ \A j \in 1..(Len(q) - i) : b[j] = q[i + j]
      BY <2>4, <2>5, <3>1
    <3>3. /\ p \in Seq(S) /\ Len(p) = Len(a) + Len(b)
          /\ \A j \in 1..(Len(a) + Len(b)) :
               p[j] = IF j <= Len(a) THEN a[j] ELSE b[j - Len(a)]
      <4>1. p = a \o b
        BY <2>3, <2>6, <3>1
      <4> QED BY <3>2, <4>1, ConcatProperties
    <3>4. Len(p) = Len(q) - 1
      BY <1>1, <2>2, <3>2, <3>3
    <3>5. ASSUME NEW j \in 1..(Len(q) - 1)
          PROVE  p[j] = IF j < i THEN q[j] ELSE q[j + 1]
      <4>0. j \in 1..(Len(a) + Len(b)) /\ (j <= Len(a) <=> j < i)
        BY <1>1, <2>2, <3>2
      <4>1. CASE j < i
        <5>1. j \in 1..(i - 1)
          BY <1>1, <2>2, <4>1
        <5> QED BY <3>2, <3>3, <4>0, <4>1, <5>1
      <4>2. CASE ~(j < i)
        <5>1. j - (i - 1) \in 1..(Len(q) - i) /\ i + (j - (i - 1)) = j + 1
          BY <1>1, <2>2, <4>2
        <5>2. p[j] = b[j - Len(a)]
          BY <3>3, <4>0, <4>2
        <5>3. p[j] = b[j - (i - 1)]
          BY <3>2, <5>2
        <5> QED BY <3>2, <4>2, <5>1, <5>3
      <4> QED BY <4>1, <4>2
    <3> QED BY <3>3, <3>4, <3>5
  <2>8. Once(p)
    <3>1. SUFFICES ASSUME NEW j \in 1..Len(p), NEW k \in 1..Len(p), p[j] = p[k]
                   PROVE  j = k
      BY DEF Once
    <3>2. PICK a, b : /\ a = IF j < i THEN j ELSE j + 1
                      /\ b = IF k < i THEN k ELSE k + 1
      OBVIOUS
    <3>3. a \in 1..Len(q) /\ b \in 1..Len(q)
      BY <1>1, <2>2, <2>7, <3>2
    <3>4. p[j] = q[a] /\ p[k] = q[b]
      BY <2>7, <3>2
    <3>5. a = b
      BY <3>1, <3>3, <3>4 DEF Once
    <3> QED BY <1>1, <2>2, <2>7, <3>2, <3>5
  <2>9. ASSUME NEW y, In(y, p)
        PROVE  In(y, q) /\ y # x
    <3>1. PICK j \in 1..(Len(q) - 1) : p[j] = y
      BY <2>7, <2>9 DEF In
    <3>2. PICK k \in 1..Len(q) : q[k] = y /\ k # i
      BY <1>1, <2>2, <2>7, <3>1
    <3> QED BY <2>2, <3>2 DEF In, Once
  <2>10. ASSUME NEW y, In(y, q), y # x
         PROVE  In(y, p)
    <3>1. PICK k \in 1..Len(q) : q[k] = y
      BY <2>10 DEF In
    <3>2. CASE k < i
      BY <1>1, <2>2, <2>7, <3>1, <3>2 DEF In
    <3>3. CASE k > i
      <4>1. k - 1 \in 1..(Len(q) - 1) /\ p[k - 1] = y
        BY <1>1, <2>2, <2>7, <3>1, <3>3
      <4> QED BY <2>7, <4>1 DEF In
    <3> QED BY <2>2, <2>10, <3>1, <3>2, <3>3
  <2> QED BY <2>6, <2>7, <2>8, <2>9, <2>10
<1> QED BY <1>2, <1>3

-----------------------------------------------------------------------------
(* One task moves.                                                         *)

AtHead(t) == ready = << >> \/ Head(ready) = t

\* The queue after the task that runs.
LEMMA RestFacts ==
  ASSUME ReadyInv, NEW t \in Tasks, AtHead(t)
  PROVE  /\ Rest \in Seq(Tasks) /\ Once(Rest)
         /\ \A u \in Tasks : In(u, Rest) <=> In(u, ready) /\ u # t
<1>1. CASE ready = << >>
  BY <1>1, EmptyFacts DEF Rest
<1>2. CASE ready # << >>
  BY <1>2, TailFacts DEF Rest, ReadyInv, AtHead
<1> QED BY <1>1, <1>2

\* Task t goes to p, on slot m if any, and slot n changes; of the others, some
\* leave its line and are queued to go on.
Step(t, n, m, p) ==
  /\ pc' = [pc EXCEPT ![t] = p] /\ on' = [on EXCEPT ![t] = m]
  /\ on[t] \in {None, n} /\ m \in {None, n}
  /\ m = None <=> p \in {"idle", "retired"}
  /\ t \in Retirements => p \in {"idle", "retiring", "closing"}
  /\ \A k \in SlotIds : k # n => slot'[k] = slot[k]
  /\ Once(slot'[n].waiters)
  /\ \A u \in Tasks \ {t} : In(u, slot'[n].waiters) => Waits(u, n)
  /\ In(t, slot'[n].waiters) => m = n /\ p \in {"locking", "retiring"}
  /\ ready' \in Seq(Tasks) /\ Once(ready')
  /\ \A u \in Tasks \ {t} :
       In(u, ready') <=> In(u, ready) \/ (Waits(u, n) /\ ~In(u, slot'[n].waiters))
  /\ In(t, ready') => /\ p \in {"locking", "retiring", "retired", "rejected"}
                      /\ ~In(t, slot'[n].waiters)
  /\ p = "locking" => In(t, ready') \/ In(t, slot'[n].waiters)

\* The lock of the slot is right after the step.
LockOf(n) ==
  /\ slot[n].held <=> \E t \in Tasks : Holds(t, n)
  /\ \A t, u \in Tasks : Holds(t, n) /\ Holds(u, n) => t = u

LEMMA StepOthers ==
  ASSUME LockInv, NEW t \in Tasks, NEW n \in SlotIds, NEW m, NEW p \in Awaits,
         Step(t, n, m, p)
  PROVE  /\ pc'[t] = p /\ on'[t] = m
         /\ \A u \in Tasks \ {t} : pc'[u] = pc[u] /\ on'[u] = on[u]
         /\ pc' \in [Tasks -> Awaits] /\ on' \in [Tasks -> SlotIds \cup {None}]
         /\ None \notin SlotIds
BY DEF Step, LockInv, PlacesInv, None, SlotIds

LEMMA StepKeeps ==
  ASSUME LockInv, NEW t \in Tasks, NEW n \in SlotIds, NEW m, NEW p \in Awaits,
         Step(t, n, m, p), LockOf(n)'
  PROVE  LockInv'
<1>1. /\ pc'[t] = p /\ on'[t] = m
      /\ \A u \in Tasks \ {t} : pc'[u] = pc[u] /\ on'[u] = on[u]
      /\ pc' \in [Tasks -> Awaits] /\ on' \in [Tasks -> SlotIds \cup {None}]
      /\ None \notin SlotIds
  BY StepOthers
<1>2. PlacesInv'
  <2>1. ASSUME NEW u \in Tasks
        PROVE  on'[u] = None <=> pc'[u] \in {"idle", "retired"}
    BY <1>1 DEF Step, LockInv, PlacesInv
  <2>2. ASSUME NEW u \in Retirements
        PROVE  pc'[u] \in {"idle", "retiring", "closing"}
    <3>1. u \in Tasks
      BY DEF Tasks
    <3> QED BY <1>1, <3>1 DEF Step, LockInv, PlacesInv
  <2> QED BY <1>1, <2>1, <2>2 DEF PlacesInv
<1>3. ASSUME NEW k \in SlotIds, k # n
      PROVE  /\ slot'[k] = slot[k] /\ ~Waits(t, k)
             /\ \A u \in Tasks : Holds(u, k)' <=> Holds(u, k)
  <2>1. slot'[k] = slot[k]
    BY <1>3 DEF Step
  <2>2. on[t] # k /\ on'[t] # k
    BY <1>1, <1>3 DEF Step
  <2>3. ~Waits(t, k)
    BY <2>2 DEF LockInv, LinesInv
  <2>4. ASSUME NEW u \in Tasks
        PROVE  Holds(u, k)' <=> Holds(u, k)
    BY <1>1, <2>1, <2>2 DEF Holds, Waits
  <2> QED BY <2>1, <2>3, <2>4
<1>4. LinesInv'
  <2>1. ASSUME NEW k \in SlotIds
        PROVE  Once(slot'[k].waiters)
    BY <1>3 DEF Step, LockInv, LinesInv
  <2>2. ASSUME NEW k \in SlotIds, NEW u \in Tasks, In(u, slot'[k].waiters)
        PROVE  on'[u] = k /\ pc'[u] \in {"locking", "retiring"}
    <3>1. CASE k # n
      BY <1>1, <1>3, <2>2, <3>1 DEF LockInv, LinesInv, Waits
    <3>2. CASE k = n /\ u = t
      BY <1>1, <2>2, <3>2 DEF Step
    <3>3. CASE k = n /\ u # t
      BY <1>1, <2>2, <3>3 DEF Step, LockInv, LinesInv
    <3> QED BY <3>1, <3>2, <3>3
  <2> QED BY <2>1, <2>2 DEF LinesInv, Waits
<1>5. ReadyInv'
  <2>1. ASSUME NEW u \in Tasks, In(u, ready')
        PROVE  /\ pc'[u] \in {"locking", "retiring", "retired", "rejected"}
               /\ \A k \in SlotIds : ~In(u, slot'[k].waiters)
    <3>1. CASE u = t
      BY <1>1, <1>3, <2>1, <3>1 DEF Step, Waits
    <3>2. CASE u # t /\ In(u, ready)
      <4>1. /\ pc[u] \in {"locking", "retiring", "retired", "rejected"}
            /\ \A k \in SlotIds : ~Waits(u, k)
        BY <3>2 DEF LockInv, ReadyInv
      <4>2. ASSUME NEW k \in SlotIds, In(u, slot'[k].waiters)
            PROVE  FALSE
        BY <1>3, <3>2, <4>1, <4>2 DEF Step, Waits
      <4> QED BY <1>1, <3>2, <4>1, <4>2
    <3>3. CASE u # t /\ Waits(u, n) /\ ~In(u, slot'[n].waiters)
      <4>1. on[u] = n /\ pc[u] \in {"locking", "retiring"}
        BY <3>3 DEF LockInv, LinesInv
      <4>2. ASSUME NEW k \in SlotIds, In(u, slot'[k].waiters)
            PROVE  FALSE
        <5>1. k # n /\ Waits(u, k)
          BY <1>3, <3>3, <4>2 DEF Waits
        <5> QED BY <4>1, <5>1 DEF LockInv, LinesInv
      <4> QED BY <1>1, <3>3, <4>1, <4>2
    <3> QED BY <2>1, <3>1, <3>2, <3>3 DEF Step
  <2>2. ASSUME NEW u \in Tasks, pc'[u] = "locking"
        PROVE  In(u, ready') \/ In(u, slot'[on'[u]].waiters)
    <3>1. CASE u = t
      BY <1>1, <2>2, <3>1 DEF Step
    <3>2. CASE u # t
      <4>1. pc[u] = "locking" /\ on'[u] = on[u] /\ on[u] \in SlotIds
        BY <1>1, <2>2, <3>2 DEF LockInv, PlacesInv
      <4>2. In(u, ready) \/ Waits(u, on[u])
        BY <4>1 DEF LockInv, ReadyInv
      <4> QED BY <1>3, <3>2, <4>1, <4>2 DEF Step, Waits
    <3> QED BY <3>1, <3>2
  <2>3. ready' \in Seq(Tasks) /\ Once(ready')
    BY DEF Step
  <2> QED BY <2>1, <2>2, <2>3 DEF ReadyInv, Waits
<1>6. LocksInv'
  <2>1. ASSUME NEW k \in SlotIds, k # n
        PROVE  /\ slot'[k].held <=> \E u \in Tasks : Holds(u, k)'
               /\ \A u, v \in Tasks : Holds(u, k)' /\ Holds(v, k)' => u = v
    BY <1>3, <2>1 DEF LockInv, LocksInv
  <2> QED BY <2>1 DEF LocksInv, LockOf
<1> QED BY <1>2, <1>4, <1>5, <1>6 DEF LockInv

\* The slots keep their types, and those other than n are as they were.
Touches(n) ==
  /\ slot \in [SlotIds -> SlotRecords] /\ slot' \in [SlotIds -> SlotRecords]
  /\ \A k \in SlotIds : k # n => slot'[k] = slot[k]

\* A task at work on no lock, which it may have had to give up, is in no line.
LEMMA WaitsNowhere ==
  ASSUME LockInv, NEW t \in Tasks, pc[t] \notin {"locking", "retiring"}
  PROVE  \A n \in SlotIds : ~Waits(t, n)
BY DEF LockInv, LinesInv

\* The holder of a lock lets it go, to the first in line.
LEMMA LetsGo ==
  ASSUME LockInv, NEW t \in Tasks, NEW n \in SlotIds, Holds(t, n), AtHead(t),
         NEW p \in {"idle", "retired"}, t \in Retirements => p = "idle",
         Touches(n),
         pc' = [pc EXCEPT ![t] = p], on' = [on EXCEPT ![t] = None],
         slot'[n].held = Released(slot[n]).held,
         slot'[n].waiters = Released(slot[n]).waiters,
         ready' = IF p = "retired" THEN Append(Rest \o Woken(slot[n]), t)
                  ELSE Rest \o Woken(slot[n])
  PROVE  LockInv'
<1>1. /\ Rest \in Seq(Tasks) /\ Once(Rest)
      /\ \A u \in Tasks : In(u, Rest) <=> In(u, ready) /\ u # t
  BY RestFacts DEF LockInv
<1>2. PICK line : line = slot[n].waiters
  OBVIOUS
<1>3. /\ line \in Seq(Tasks) /\ Once(line) /\ slot[n] \in SlotRecords
      /\ \A u \in Tasks : In(u, line) <=> Waits(u, n)
  BY <1>2 DEF Touches, SlotRecords, LockInv, LinesInv, Waits
<1>4. on[t] = n /\ ~Waits(t, n) /\ slot[n].held
  BY DEF Holds, LockInv, LocksInv
<1>5. PICK after \in Seq(Tasks) : after = Rest \o Woken(slot[n])
  <2>1. Woken(slot[n]) \in Seq(Tasks)
    <3>1. CASE line = << >>
      BY <1>2, <3>1, EmptyFacts DEF Woken
    <3>2. CASE line # << >>
      <4>1. Head(line) \in Tasks
        BY <1>3, <3>2, TailFacts
      <4> QED BY <1>2, <3>2, <4>1 DEF Woken
    <3> QED BY <3>1, <3>2
  <2>2. Rest \o Woken(slot[n]) \in Seq(Tasks)
    BY <1>1, <2>1, ConcatProperties
  <2> QED BY <2>2
<1>6. /\ slot'[n].waiters \in Seq(Tasks) /\ Once(slot'[n].waiters) /\ Once(after)
      /\ \A u \in Tasks : In(u, slot'[n].waiters) => In(u, line)
      /\ \A u \in Tasks : In(u, after) <=>
           In(u, Rest) \/ (In(u, line) /\ ~In(u, slot'[n].waiters))
      /\ slot'[n].held <=> line # << >>
      /\ line # << >> => /\ Head(line) \in Tasks /\ In(Head(line), line)
                         /\ \A u \in Tasks : In(u, slot'[n].waiters) <=>
                              In(u, line) /\ u # Head(line)
  <2>1. CASE line = << >>
    <3>1. slot'[n].waiters = << >> /\ slot'[n].held = FALSE /\ Woken(slot[n]) = << >>
      BY <1>2, <1>3, <2>1 DEF Released, Woken, SlotRecords
    <3>2. after = Rest
      BY <1>1, <1>5, <3>1
    <3> QED BY <1>1, <2>1, <3>1, <3>2, EmptyFacts
  <2>2. CASE line # << >>
    <3>1. /\ slot'[n].waiters = Tail(line) /\ slot'[n].held = slot[n].held
          /\ Woken(slot[n]) = << Head(line) >>
      BY <1>2, <1>3, <2>2 DEF Released, Woken, SlotRecords
    <3>2. /\ Tail(line) \in Seq(Tasks) /\ Once(Tail(line)) /\ Head(line) \in Tasks
          /\ In(Head(line), line)
          /\ \A x : In(x, Tail(line)) <=> In(x, line) /\ x # Head(line)
      BY <1>3, <2>2, TailFacts
    <3>3. after = Append(Rest, Head(line))
      BY <1>1, <1>5, <3>1, <3>2, ConcatOne
    <3>4. ~In(Head(line), Rest)
      <4>1. Waits(Head(line), n)
        BY <1>3, <3>2
      <4> QED BY <1>1, <3>2, <4>1 DEF LockInv, ReadyInv
    <3>5. /\ Once(after)
          /\ \A u \in Tasks : In(u, after) <=> In(u, Rest) \/ u = Head(line)
      BY <1>1, <3>2, <3>3, <3>4, AppendFacts
    <3> QED BY <1>4, <2>2, <3>1, <3>2, <3>5
  <2> QED BY <2>1, <2>2
<1>7. /\ ready' \in Seq(Tasks) /\ Once(ready')
      /\ \A u \in Tasks : In(u, ready') <=> In(u, after) \/ (u = t /\ p = "retired")
  <2>1. ~In(t, after)
    BY <1>1, <1>3, <1>4, <1>6
  <2>2. CASE p = "retired"
    <3>1. ready' = Append(after, t)
      BY <1>5, <2>2
    <3>2. /\ Append(after, t) \in Seq(Tasks) /\ Once(Append(after, t))
          /\ \A u : In(u, Append(after, t)) <=> In(u, after) \/ u = t
      BY <1>6, <2>1, AppendFacts
    <3> QED BY <2>2, <3>1, <3>2
  <2>3. CASE p # "retired"
    BY <1>5, <1>6, <2>3
  <2> QED BY <2>2, <2>3
<1>8. p \in Awaits
  BY DEF Awaits
<1>9. Step(t, n, None, p)
  <2>1. \A u \in Tasks \ {t} :
          In(u, ready') <=> In(u, ready) \/ (Waits(u, n) /\ ~In(u, slot'[n].waiters))
    BY <1>1, <1>3, <1>6, <1>7
  <2>2. ~In(t, slot'[n].waiters)
    BY <1>3, <1>4, <1>6
  <2>3. In(t, ready') => p = "retired"
    BY <1>1, <1>3, <1>4, <1>6, <1>7
  <2> QED BY <1>3, <1>4, <1>6, <1>7, <2>1, <2>2, <2>3 DEF Step, Touches
<1>10. /\ pc'[t] = p /\ on'[t] = None /\ None \notin SlotIds
       /\ \A u \in Tasks \ {t} : pc'[u] = pc[u] /\ on'[u] = on[u]
  BY <1>8, <1>9, StepOthers
<1>11. LockOf(n)'
  <2>1. ASSUME NEW u \in Tasks, Holds(u, n)'
        PROVE  line # << >> /\ u = Head(line)
    <3>1. u # t /\ on[u] = n /\ pc[u] \in Working /\ ~In(u, slot'[n].waiters)
      BY <1>10, <2>1 DEF Holds, Waits
    <3>2. Waits(u, n)
      BY <3>1 DEF LockInv, LocksInv, Holds
    <3>3. line # << >>
      BY <1>3, <3>2, EmptyFacts
    <3> QED BY <1>3, <1>6, <3>1, <3>2, <3>3
  <2>2. ASSUME line # << >>
        PROVE  Holds(Head(line), n)'
    <3>1. Waits(Head(line), n) /\ Head(line) \in Tasks /\ ~In(Head(line), slot'[n].waiters)
      BY <1>3, <1>6, <2>2
    <3>2. on[Head(line)] = n /\ pc[Head(line)] \in Working /\ Head(line) # t
      BY <1>4, <3>1 DEF LockInv, LinesInv, Working
    <3> QED BY <1>10, <3>1, <3>2 DEF Holds, Waits
  <2> QED BY <1>6, <2>1, <2>2 DEF LockOf
<1> QED BY <1>8, <1>9, <1>11, StepKeeps

\* A task asks for the lock of a slot: it has it, or stands in line.
LEMMA Takes ==
  ASSUME LockInv, NEW t \in Tasks, NEW n \in SlotIds, pc[t] \in {"idle", "retired"},
         AtHead(t), NEW p \in {"locking", "retiring"},
         t \in Retirements => p = "retiring", Touches(n),
         pc' = [pc EXCEPT ![t] = p], on' = [on EXCEPT ![t] = n],
         slot'[n].held,
         slot'[n].waiters = IF slot[n].held THEN Append(slot[n].waiters, t)
                            ELSE slot[n].waiters,
         ready' = IF slot[n].held THEN Rest ELSE Append(Rest, t)
  PROVE  LockInv'
<1>1. /\ Rest \in Seq(Tasks) /\ Once(Rest)
      /\ \A u \in Tasks : In(u, Rest) <=> In(u, ready) /\ u # t
  BY RestFacts DEF LockInv
<1>2. PICK line : line = slot[n].waiters
  OBVIOUS
<1>3. /\ line \in Seq(Tasks) /\ Once(line) /\ ~In(t, line)
      /\ \A u \in Tasks : In(u, line) <=> Waits(u, n)
  BY <1>2, WaitsNowhere DEF Touches, SlotRecords, LockInv, LinesInv, Waits
<1>4. on[t] = None
  BY DEF LockInv, PlacesInv
<1>5. /\ Once(slot'[n].waiters)
      /\ \A u \in Tasks : In(u, slot'[n].waiters) <=> In(u, line) \/ (u = t /\ slot[n].held)
  BY <1>2, <1>3, AppendFacts
<1>6. /\ ready' \in Seq(Tasks) /\ Once(ready')
      /\ \A u \in Tasks : In(u, ready') <=> In(u, Rest) \/ (u = t /\ ~slot[n].held)
  BY <1>1, AppendFacts
<1>7. p \in Awaits /\ p \in Working
  BY DEF Awaits, Working
<1>8. Step(t, n, n, p)
  BY <1>1, <1>3, <1>4, <1>5, <1>6 DEF Step, Touches, SlotIds, None
<1>9. /\ pc'[t] = p /\ on'[t] = n
      /\ \A u \in Tasks \ {t} : pc'[u] = pc[u] /\ on'[u] = on[u]
  BY <1>7, <1>8, StepOthers
<1>10. \A u \in Tasks \ {t} : Holds(u, n)' <=> Holds(u, n)
  BY <1>3, <1>5, <1>9 DEF Holds, Waits
<1>11. Holds(t, n)' <=> ~slot[n].held
  BY <1>3, <1>5, <1>7, <1>9 DEF Holds, Waits
<1>12. ~Holds(t, n)
  BY <1>4 DEF Holds, None, SlotIds
<1>13. LockOf(n)'
  BY <1>10, <1>11, <1>12 DEF LockOf, LockInv, LocksInv
<1> QED BY <1>7, <1>8, <1>13, StepKeeps

\* A task that has no lock and waits for none comes or goes without one.
LEMMA PassesBy ==
  ASSUME LockInv, NEW t \in Tasks, NEW n \in SlotIds,
         pc[t] \in {"idle", "retired", "rejected"}, on[t] \in {None, n}, AtHead(t),
         NEW p \in {"idle", "rejected"}, t \in Retirements => p = "idle", Touches(n),
         pc' = [pc EXCEPT ![t] = p],
         on' = [on EXCEPT ![t] = IF p = "idle" THEN None ELSE n],
         slot'[n].held = slot[n].held, slot'[n].waiters = slot[n].waiters,
         ready' = IF p = "idle" THEN Rest ELSE Append(Rest, t)
  PROVE  LockInv'
<1>1. /\ Rest \in Seq(Tasks) /\ Once(Rest)
      /\ \A u \in Tasks : In(u, Rest) <=> In(u, ready) /\ u # t
  BY RestFacts DEF LockInv
<1>2. PICK m : m = (IF p = "idle" THEN None ELSE n)
  OBVIOUS
<1>3. Once(slot[n].waiters) /\ ~In(t, slot[n].waiters)
  BY WaitsNowhere DEF LockInv, LinesInv, Waits
<1>4. /\ ready' \in Seq(Tasks) /\ Once(ready')
      /\ \A u \in Tasks : In(u, ready') <=> In(u, Rest) \/ (u = t /\ p # "idle")
  BY <1>1, AppendFacts
<1>5. p \in Awaits /\ p \notin Working /\ pc[t] \notin Working
  BY DEF Awaits, Working
<1>6. Step(t, n, m, p)
  BY <1>1, <1>2, <1>3, <1>4 DEF Step, Touches, SlotIds, None, Waits
<1>7. /\ pc'[t] = p
      /\ \A u \in Tasks \ {t} : pc'[u] = pc[u] /\ on'[u] = on[u]
  BY <1>5, <1>6, StepOthers
<1>8. \A u \in Tasks : Holds(u, n)' <=> Holds(u, n)
  BY <1>5, <1>7 DEF Holds, Waits
<1>9. LockOf(n)'
  BY <1>8 DEF LockOf, LockInv, LocksInv
<1> QED BY <1>5, <1>6, <1>9, StepKeeps

\* The holder of a lock goes on with it.
LEMMA GoesOn ==
  ASSUME LockInv, NEW t \in Tasks, NEW n \in SlotIds, Holds(t, n), AtHead(t),
         NEW p \in {"closing", "starting", "renewing", "leased", "cleanup"},
         t \in Retirements => p = "closing", Touches(n),
         pc' = [pc EXCEPT ![t] = p], on' = on, ready' = Rest,
         slot'[n].held = slot[n].held, slot'[n].waiters = slot[n].waiters
  PROVE  LockInv'
<1>1. /\ Rest \in Seq(Tasks) /\ Once(Rest)
      /\ \A u \in Tasks : In(u, Rest) <=> In(u, ready) /\ u # t
  BY RestFacts DEF LockInv
<1>2. Once(slot[n].waiters) /\ ~In(t, slot[n].waiters) /\ on[t] = n
  BY DEF LockInv, LinesInv, Waits, Holds
<1>3. p \in Awaits /\ p \in Working /\ pc[t] \in Working
  BY DEF Awaits, Working, Holds
<1>4. on' = [on EXCEPT ![t] = n]
  BY <1>2 DEF LockInv, PlacesInv
<1>5. Step(t, n, n, p)
  <2>1. ready' \in Seq(Tasks) /\ Once(ready') /\ ~In(t, ready')
    BY <1>1
  <2>2. \A u \in Tasks \ {t} : In(u, ready') <=> In(u, ready)
    BY <1>1
  <2>3. n # None /\ p \notin {"idle", "retired", "locking"}
    BY DEF SlotIds, None
  <2> QED BY <1>2, <1>4, <2>1, <2>2, <2>3 DEF Step, Touches, Waits
<1>6. /\ pc'[t] = p
      /\ \A u \in Tasks \ {t} : pc'[u] = pc[u] /\ on'[u] = on[u]
  BY <1>3, <1>5, StepOthers
<1>7. \A u \in Tasks : Holds(u, n)' <=> Holds(u, n)
  BY <1>3, <1>6 DEF Holds, Waits
<1>8. LockOf(n)'
  BY <1>7 DEF LockOf, LockInv, LocksInv
<1> QED BY <1>3, <1>5, <1>8, StepKeeps

\* A request gives up in line: only this one leaves it.
LEMMA GivesUp ==
  ASSUME LockInv, NEW r \in Requests, NEW n \in SlotIds, on[r] = n, pc[r] = "locking",
         ready = << >>, Touches(n),
         pc' = [pc EXCEPT ![r] = "rejected"], on' = on, ready' = << r >>,
         slot'[n].held = slot[n].held, slot'[n].waiters = Without(slot[n].waiters, r)
  PROVE  LockInv'
<1>1. r \in Tasks /\ r \notin Retirements
  BY TasksAssumption DEF Tasks
<1>2. PICK line : line = slot[n].waiters
  OBVIOUS
<1>3. line \in Seq(Tasks) /\ Once(line) /\ \A u \in Tasks : In(u, line) <=> Waits(u, n)
  BY <1>2 DEF Touches, SlotRecords, LockInv, LinesInv, Waits
<1>4. /\ Once(slot'[n].waiters)
      /\ \A u : In(u, slot'[n].waiters) <=> In(u, line) /\ u # r
  BY <1>2, <1>3, WithoutFacts
<1>5. Waits(r, n) /\ \A u : ~In(u, ready)
  BY <1>1, EmptyFacts DEF LockInv, ReadyInv
<1>6. /\ ready' \in Seq(Tasks) /\ Once(ready') /\ \A u : In(u, ready') <=> u = r
  <2>1. PICK q \in Seq(Tasks) : q = << >>
    BY EmptyFacts
  <2>2. ready' = Append(q, r) /\ Once(q) /\ \A u : ~In(u, q)
    BY <2>1, EmptyFacts
  <2>3. /\ Append(q, r) \in Seq(Tasks) /\ Once(Append(q, r))
        /\ \A u : In(u, Append(q, r)) <=> In(u, q) \/ u = r
    BY <1>1, <2>2, AppendFacts
  <2> QED BY <2>2, <2>3
<1>7. on' = [on EXCEPT ![r] = n]
  BY DEF LockInv, PlacesInv
<1>8. Step(r, n, n, "rejected")
  <2>1. n # None
    BY DEF SlotIds, None
  <2> QED BY <1>1, <1>3, <1>4, <1>5, <1>6, <1>7, <2>1 DEF Step, Touches
<1>9. /\ pc'[r] = "rejected" /\ on'[r] = n /\ "rejected" \in Awaits
      /\ \A u \in Tasks \ {r} : pc'[u] = pc[u] /\ on'[u] = on[u]
  BY <1>1, <1>8, StepOthers DEF Awaits
<1>10. \A u \in Tasks : Holds(u, n)' <=> Holds(u, n)
  <2>1. ~Holds(r, n) /\ ~Holds(r, n)'
    BY <1>5, <1>9 DEF Holds, Working
  <2>2. \A u \in Tasks \ {r} : Waits(u, n)' <=> Waits(u, n)
    BY <1>3, <1>4 DEF Waits
  <2> QED BY <1>9, <2>1, <2>2 DEF Holds
<1>11. LockOf(n)'
  BY <1>10 DEF LockOf, LockInv, LocksInv
<1> QED BY <1>1, <1>8, <1>9, <1>11, StepKeeps

-----------------------------------------------------------------------------
(* References.                                                             *)

LEMMA UsersFinite ==
  ASSUME NEW n
  PROVE  /\ IsFiniteSet(Users(n)) /\ Cardinality(Users(n)) \in Nat
         /\ Cardinality(Users(n)) <= Cardinality(Requests)
<1>1. Users(n) \subseteq Requests
  BY DEF Users
<1> QED BY <1>1, ConstantsAssumption, FS_Subset, FS_CardinalityType

\* One task comes to a slot, or leaves it.
LEMMA RefsMove ==
  ASSUME LockInv, RefsInv, NEW t \in Tasks, NEW n \in SlotIds, Touches(n),
         on[t] \in {None, n}, NEW m \in {None, n}, NEW p,
         pc' = [pc EXCEPT ![t] = p], on' = [on EXCEPT ![t] = m],
         NEW gone \in {0, 1}, gone = 1 <=> t \in Users(n),
         NEW come \in {0, 1}, come = 1 <=> t \in Requests /\ m = n /\ p \notin {"retiring", "closing"},
         slot'[n].refs = slot[n].refs - gone + come
  PROVE  RefsInv'
<1>1. /\ pc'[t] = p /\ on'[t] = m
      /\ \A u \in Tasks \ {t} : pc'[u] = pc[u] /\ on'[u] = on[u]
  BY DEF LockInv, PlacesInv
<1>2. ASSUME NEW k \in SlotIds, k # n
      PROVE  slot'[k].refs = Cardinality(Users(k)')
  <2>1. k # None
    BY DEF SlotIds, None
  <2>2. Users(k)' = Users(k)
    BY <1>1, <1>2, <2>1 DEF Users, Tasks
  <2> QED BY <1>2, <2>2 DEF Touches, RefsInv
<1>3. slot'[n].refs = Cardinality(Users(n)')
  <2>1. PICK U : U = Users(n)
    OBVIOUS
  <2>2. PICK V : V = Users(n)'
    OBVIOUS
  <2>3. U \ {t} = V \ {t}
    BY <1>1, <2>1, <2>2 DEF Users, Tasks
  <2>4. t \in V <=> come = 1
    BY <1>1, <2>2 DEF Users
  <2>5. V \subseteq Requests /\ IsFiniteSet(U) /\ Cardinality(U) \in Nat
    BY <2>1, <2>2, UsersFinite DEF Users
  <2>6. IsFiniteSet(V) /\ Cardinality(V) \in Nat
    BY <2>5, ConstantsAssumption, FS_Subset, FS_CardinalityType
  <2>7. /\ Cardinality(U \ {t}) = IF t \in U THEN Cardinality(U) - 1 ELSE Cardinality(U)
        /\ Cardinality(V \ {t}) = IF t \in V THEN Cardinality(V) - 1 ELSE Cardinality(V)
    BY <2>5, <2>6, FS_RemoveElement
  <2>8. slot[n].refs = Cardinality(U)
    BY <2>1 DEF RefsInv
  <2>9. t \in U <=> gone = 1
    BY <2>1
  <2>10. Cardinality(V) = Cardinality(U) - gone + come
    <3>0. PICK c : c = Cardinality(U \ {t})
      OBVIOUS
    <3>1. PICK a \in Nat, b \in Nat :
            a = Cardinality(U) /\ b = Cardinality(V) /\ c = Cardinality(U \ {t})
      BY <2>5, <2>6, <3>0
    <3>2. c = a - gone
      BY <2>7, <2>9, <3>1
    <3>3. c = b - come
      <4>1. c = Cardinality(V \ {t})
        BY <2>3, <3>1
      <4> QED BY <2>4, <2>7, <3>1, <4>1
    <3> QED BY <3>1, <3>2, <3>3
  <2> QED BY <2>2, <2>8, <2>10
<1> QED BY <1>2, <1>3 DEF RefsInv

LEMMA RefsGo ==
  ASSUME LockInv, RefsInv, NEW t \in Tasks, NEW n \in SlotIds, Touches(n),
         t \in Users(n), NEW p,
         pc' = [pc EXCEPT ![t] = p], on' = [on EXCEPT ![t] = None],
         slot'[n].refs = slot[n].refs - 1
  PROVE  RefsInv'
<1>1. PICK gone \in {0, 1}, come \in {0, 1}, m \in {None, n} : gone = 1 /\ come = 0 /\ m = None
  OBVIOUS
<1>2. on[t] = n /\ slot[n].refs \in Nat /\ m # n
  <2>1. slot[n].refs \in Nat
    BY UsersFinite DEF RefsInv
  <2>2. on[t] = n /\ m # n
    BY <1>1 DEF Users, None, SlotIds
  <2> QED BY <2>1, <2>2
<1>3. /\ gone = 1 <=> t \in Users(n)
      /\ come = 1 <=> t \in Requests /\ m = n /\ p \notin {"retiring", "closing"}
      /\ slot'[n].refs = slot[n].refs - gone + come
      /\ on' = [on EXCEPT ![t] = m] /\ on[t] \in {None, n}
  BY <1>1, <1>2
<1> QED BY <1>3, RefsMove

LEMMA RefsCome ==
  ASSUME LockInv, RefsInv, NEW t \in Requests, NEW n \in SlotIds, Touches(n),
         on[t] = None, NEW p, p \notin {"retiring", "closing"},
         pc' = [pc EXCEPT ![t] = p], on' = [on EXCEPT ![t] = n],
         slot'[n].refs = slot[n].refs + 1
  PROVE  RefsInv'
<1>1. PICK gone \in {0, 1}, come \in {0, 1}, m \in {None, n} : gone = 0 /\ come = 1 /\ m = n
  OBVIOUS
<1>2. t \notin Users(n) /\ slot[n].refs \in Nat /\ t \in Tasks
  <2>1. slot[n].refs \in Nat
    BY UsersFinite DEF RefsInv
  <2>2. t \notin Users(n) /\ t \in Tasks
    BY DEF Users, None, SlotIds, Tasks
  <2> QED BY <2>1, <2>2
<1>3. /\ gone = 1 <=> t \in Users(n)
      /\ come = 1 <=> t \in Requests /\ m = n /\ p \notin {"retiring", "closing"}
      /\ slot'[n].refs = slot[n].refs - gone + come
      /\ on' = [on EXCEPT ![t] = m] /\ on[t] \in {None, n}
  BY <1>1, <1>2
<1> QED BY <1>2, <1>3, RefsMove

LEMMA RefsStay ==
  ASSUME LockInv, RefsInv, NEW t \in Tasks, NEW n \in SlotIds, Touches(n),
         on[t] \in {None, n}, NEW m \in {None, n}, NEW p,
         pc' = [pc EXCEPT ![t] = p], on' = [on EXCEPT ![t] = m],
         t \in Users(n) <=> t \in Requests /\ m = n /\ p \notin {"retiring", "closing"},
         slot'[n].refs = slot[n].refs
  PROVE  RefsInv'
<1>1. PICK gone \in {0, 1} : gone = IF t \in Users(n) THEN 1 ELSE 0
  OBVIOUS
<1>2. slot[n].refs \in Nat
  BY UsersFinite DEF RefsInv
<1>3. /\ gone = 1 <=> t \in Users(n)
      /\ gone = 1 <=> t \in Requests /\ m = n /\ p \notin {"retiring", "closing"}
      /\ slot'[n].refs = slot[n].refs - gone + gone
  BY <1>1, <1>2
<1> QED BY <1>3, RefsMove

\* Nobody on a slot that is not in use.
LEMMA UnusedFacts ==
  ASSUME LockInv, RefsInv, slot \in [SlotIds -> SlotRecords], NEW n \in Unused
  PROVE  n \in SlotIds /\ slot[n].refs = 0 /\ slot[n].held = FALSE /\ slot[n].waiters = << >>
<1>1. n \in SlotIds /\ \A t \in Tasks : on[t] # n
  BY DEF Unused
<1>2. slot[n].held = FALSE
  <2>1. slot[n].held \in BOOLEAN
    BY <1>1 DEF SlotRecords
  <2> QED BY <1>1, <2>1 DEF LockInv, LocksInv, Holds
<1>3. slot[n].waiters = << >>
  <2>1. slot[n].waiters \in Seq(Tasks)
    BY <1>1 DEF SlotRecords
  <2>2. ASSUME slot[n].waiters # << >>
        PROVE  FALSE
    <3>1. PICK w \in Tasks : Waits(w, n)
      BY <1>1, <2>1, <2>2, TailFacts DEF LockInv, LinesInv, Waits
    <3> QED BY <1>1, <3>1 DEF LockInv, LinesInv
  <2> QED BY <2>2
<1>4. Users(n) = {}
  BY <1>1 DEF Users, Tasks
<1> QED BY <1>1, <1>2, <1>3, <1>4, FS_EmptySet DEF RefsInv

LEMMA FreshFacts ==
  ASSUME Unused # {}
  PROVE  Fresh \in Unused
BY DEF Fresh

-----------------------------------------------------------------------------
(* What tasks do.                                                          *)

\* A request is no retirement.
LEMMA RequestsAreTasks ==
  ASSUME NEW r \in Requests
  PROVE  r \in Tasks /\ r \notin Retirements
BY TasksAssumption DEF Tasks

\* What a task at work awaits, it awaits with the lock of its slot.
LEMMA HasTheLock ==
  ASSUME IInv, NEW t \in Tasks,
         \/ pc[t] \in {"starting", "renewing", "leased", "cleanup", "closing"}
         \/ pc[t] \in {"locking", "retiring"} /\ ready # << >> /\ Head(ready) = t
  PROVE  on[t] \in SlotIds /\ Holds(t, on[t]) /\ slot[on[t]] \in SlotRecords
<1>1. on[t] \in SlotIds /\ pc[t] \in Working
  BY DEF IInv, LockInv, PlacesInv, Working
<1>2. ~Waits(t, on[t])
  <2>1. CASE pc[t] \in {"starting", "renewing", "leased", "cleanup", "closing"}
    BY <1>1, <2>1, WaitsNowhere DEF IInv
  <2>2. CASE ready # << >> /\ Head(ready) = t
    <3>1. In(t, ready)
      BY <2>2, TailFacts DEF IInv, LockInv, ReadyInv
    <3> QED BY <1>1, <3>1 DEF IInv, LockInv, ReadyInv
  <2> QED BY <2>1, <2>2
<1> QED BY <1>1, <1>2 DEF Holds, IInv, Types

\* The object of a slot, up to what only the requests look at.
SameLock(s, n) ==
  /\ s \in SlotRecords
  /\ s.refs = slot[n].refs /\ s.held = slot[n].held /\ s.waiters = slot[n].waiters

LEMMA ReleasedFacts ==
  ASSUME NEW s \in SlotRecords
  PROVE  /\ Released(s) \in SlotRecords /\ Released(s).refs = s.refs
         /\ Released(s).key = s.key
         /\ Dropped(s) \in SlotRecords /\ Dropped(s).refs = s.refs - 1
         /\ Dropped(s).held = s.held /\ Dropped(s).waiters = s.waiters
         /\ Dropped(s).key = s.key
<1>1. s.waiters \in Seq(Tasks) /\ s.key \in Keys /\ s.refs \in Int
  BY DEF SlotRecords
<1>2. /\ Released(s) \in SlotRecords /\ Released(s).refs = s.refs
      /\ Released(s).key = s.key
  <2>1. CASE s.waiters = << >>
    <3>1. Released(s) = [s EXCEPT !.held = FALSE]
      BY <2>1 DEF Released
    <3> QED BY <3>1 DEF SlotRecords
  <2>2. CASE s.waiters # << >>
    <3>1. PICK rest \in Seq(Tasks) : rest = Tail(s.waiters)
      BY <1>1, <2>2, HeadTailProperties
    <3>2. Released(s) = [s EXCEPT !.waiters = rest]
      BY <2>2, <3>1 DEF Released
    <3> QED BY <3>1, <3>2 DEF SlotRecords
  <2> QED BY <2>1, <2>2
<1>3. /\ Dropped(s) \in SlotRecords /\ Dropped(s).refs = s.refs - 1
      /\ Dropped(s).held = s.held /\ Dropped(s).waiters = s.waiters
      /\ Dropped(s).key = s.key
  BY DEF Dropped, SlotRecords
<1> QED BY <1>2, <1>3

LEMMA UnregisteredTypes ==
  ASSUME Types, NEW s \in SlotRecords
  PROVE  Unregistered(s) \in [Keys -> SlotIds \cup {None}]
BY DEF Types, SlotRecords, Unregistered

\* A request leaves with its lock and its reference.
LEMMA LeaveKeeps ==
  ASSUME IInv, NEW r \in Requests, NEW s, Leave(r, s), SameLock(s, on[r]),
         on[r] \in SlotIds, Holds(r, on[r]), AtHead(r),
         pc[r] \notin {"retiring", "closing"},
         live' \subseteq SlotIds, UNCHANGED <<revoked, closed, failed>>
  PROVE  IInv'
<1>1. r \in Tasks /\ r \notin Retirements
  BY RequestsAreTasks
<1>2. PICK n \in SlotIds : n = on[r]
  OBVIOUS
<1>3. PICK left : left = Dropped(Released(s))
  OBVIOUS
<1>4. /\ left \in SlotRecords /\ left.refs = slot[n].refs - 1
      /\ left.held = Released(slot[n]).held /\ left.waiters = Released(slot[n]).waiters
      /\ Woken(s) = Woken(slot[n])
  <2>1. s \in SlotRecords /\ slot[n] \in SlotRecords
    BY DEF SameLock, IInv, Types
  <2>2. /\ Released(s) \in SlotRecords /\ Released(s).refs = s.refs
        /\ left \in SlotRecords /\ left.refs = Released(s).refs - 1
        /\ left.held = Released(s).held /\ left.waiters = Released(s).waiters
    BY <1>3, <2>1, ReleasedFacts
  <2>3. s.waiters = slot[n].waiters /\ s.held = slot[n].held /\ s.refs = slot[n].refs
    BY <1>2 DEF SameLock
  <2>4. Released(s).held = Released(slot[n]).held
        /\ Released(s).waiters = Released(slot[n]).waiters
    BY <2>1, <2>3 DEF Released, SlotRecords
  <2> QED BY <2>2, <2>3, <2>4 DEF Woken
<1>5. /\ slot' = [slot EXCEPT ![n] = left] /\ slotAt' = Unregistered(left)
      /\ ready' = Rest \o Woken(slot[n]) /\ aborted' = aborted \ {r}
      /\ pc' = [pc EXCEPT ![r] = "idle"] /\ on' = [on EXCEPT ![r] = None]
  BY <1>2, <1>3, <1>4 DEF Leave, Goto
<1>6. Touches(n) /\ slot'[n] = left
  BY <1>4, <1>5 DEF Touches, IInv, Types
<1>7. LockInv'
  BY <1>1, <1>2, <1>4, <1>5, <1>6, LetsGo DEF IInv
<1>8. RefsInv'
  <2>1. r \in Users(n)
    BY <1>2 DEF Users
  <2>2. slot'[n].refs = slot[n].refs - 1
    BY <1>4, <1>6 DEF IInv, Types, SlotRecords
  <2> QED BY <1>1, <1>2, <1>5, <1>6, <2>1, <2>2, RefsGo DEF IInv
<1>9. Types'
  BY <1>4, <1>5, <1>6, UnregisteredTypes DEF IInv, Types, Touches
<1> QED BY <1>7, <1>8, <1>9 DEF IInv

\* A retirement is over: its lock goes on, and it had no reference.
LEMMA EndRetireKeeps ==
  ASSUME IInv, NEW t \in Tasks, NEW s, EndRetire(t, s), SameLock(s, on[t]),
         on[t] \in SlotIds, Holds(t, on[t]), AtHead(t), pc[t] \in {"retiring", "closing"},
         live' \subseteq SlotIds, UNCHANGED <<aborted, revoked, closed, failed>>
  PROVE  IInv'
<1>1. PICK n \in SlotIds : n = on[t]
  OBVIOUS
<1>2. PICK p \in {"idle", "retired"} : p = IF t \in Requests THEN "retired" ELSE "idle"
  OBVIOUS
<1>3. t \in Retirements => p = "idle"
  BY <1>2, TasksAssumption
<1>4. /\ s \in SlotRecords /\ slot[n] \in SlotRecords /\ Released(s) \in SlotRecords
      /\ Released(s).refs = slot[n].refs
      /\ Released(s).held = Released(slot[n]).held
      /\ Released(s).waiters = Released(slot[n]).waiters /\ Woken(s) = Woken(slot[n])
  <2>1. s \in SlotRecords /\ slot[n] \in SlotRecords
    BY DEF SameLock, IInv, Types
  <2>2. s.waiters = slot[n].waiters /\ s.held = slot[n].held /\ s.refs = slot[n].refs
    BY <1>1 DEF SameLock
  <2>3. Released(s).held = Released(slot[n]).held
        /\ Released(s).waiters = Released(slot[n]).waiters
    BY <2>1, <2>2 DEF Released, SlotRecords
  <2> QED BY <2>1, <2>2, <2>3, ReleasedFacts DEF Woken
<1>5. Rest \o Woken(slot[n]) \in Seq(Tasks)
  <2>1. Rest \in Seq(Tasks)
    BY RestFacts DEF IInv, LockInv
  <2>2. Woken(slot[n]) \in Seq(Tasks)
    <3>1. slot[n].waiters \in Seq(Tasks)
      BY <1>4 DEF SlotRecords
    <3>2. CASE slot[n].waiters = << >>
      BY <3>2, EmptyFacts DEF Woken
    <3>3. CASE slot[n].waiters # << >>
      <4>1. Head(slot[n].waiters) \in Tasks
        BY <3>1, <3>3, HeadTailProperties
      <4> QED BY <3>3, <4>1 DEF Woken
    <3> QED BY <3>2, <3>3
  <2> QED BY <2>1, <2>2, ConcatProperties
<1>6. /\ slot' = [slot EXCEPT ![n] = Released(s)] /\ slotAt' = Unregistered(s)
      /\ ready' = IF p = "retired" THEN Append(Rest \o Woken(slot[n]), t)
                  ELSE Rest \o Woken(slot[n])
      /\ pc' = [pc EXCEPT ![t] = p] /\ on' = [on EXCEPT ![t] = None]
  <2>1. (Rest \o Woken(slot[n])) \o << t >> = Append(Rest \o Woken(slot[n]), t)
    BY <1>5, ConcatOne
  <2>2. CASE t \in Requests
    BY <1>1, <1>2, <1>4, <2>1, <2>2 DEF EndRetire, Goto
  <2>3. CASE t \notin Requests
    BY <1>1, <1>2, <1>4, <2>3 DEF EndRetire, Goto
  <2> QED BY <2>2, <2>3
<1>7. Touches(n) /\ slot'[n] = Released(s)
  BY <1>4, <1>6 DEF Touches, IInv, Types
<1>8. LockInv'
  BY <1>1, <1>3, <1>4, <1>6, <1>7, LetsGo DEF IInv
<1>9. RefsInv'
  <2>1. t \notin Users(n) /\ None # n
    BY DEF Users, None, SlotIds
  <2>2. slot'[n].refs = slot[n].refs
    BY <1>4, <1>7 DEF SlotRecords
  <2> QED BY <1>1, <1>6, <1>7, <2>1, <2>2, RefsStay DEF IInv
<1>10. Types'
  BY <1>4, <1>6, <1>7, UnregisteredTypes DEF IInv, Types, Touches
<1> QED BY <1>8, <1>9, <1>10 DEF IInv

\* A request asks to retire a slot before it uses it.
LEMMA AskToRetireKeeps ==
  ASSUME IInv, NEW r \in Requests, NEW n \in SlotIds, AskToRetire(r, n),
         pc[r] = "idle", AtHead(r), UNCHANGED <<aborted, live, revoked, closed, failed>>
  PROVE  IInv'
<1>1. r \in Tasks /\ r \notin Retirements
  BY RequestsAreTasks
<1>2. /\ pc' = [pc EXCEPT ![r] = "retiring"] /\ on' = [on EXCEPT ![r] = n]
      /\ slotAt' = slotAt
  BY DEF AskToRetire
<1>3. slot[n] \in SlotRecords /\ slot \in [SlotIds -> SlotRecords]
  BY DEF IInv, Types
<1>4. /\ Touches(n) /\ slot'[n].held /\ slot'[n].refs = slot[n].refs
      /\ slot'[n].waiters = IF slot[n].held THEN Append(slot[n].waiters, r)
                            ELSE slot[n].waiters
      /\ ready' = IF slot[n].held THEN Rest ELSE Append(Rest, r)
  <2>1. CASE slot[n].held
    <3>1. PICK line \in Seq(Tasks) : line = Append(slot[n].waiters, r)
      BY <1>1, <1>3, AppendFacts DEF SlotRecords
    <3>2. /\ slot' = [slot EXCEPT ![n] = [slot[n] EXCEPT !.waiters = line]]
          /\ ready' = Rest
      BY <1>3, <2>1, <3>1 DEF AskToRetire
    <3> QED BY <1>3, <2>1, <3>1, <3>2 DEF Touches, SlotRecords
  <2>2. CASE ~slot[n].held
    <3>1. /\ slot' = [slot EXCEPT ![n] = [slot[n] EXCEPT !.held = TRUE]]
          /\ ready' = Append(Rest, r)
      BY <1>3, <2>2 DEF AskToRetire
    <3> QED BY <1>3, <2>2, <3>1 DEF Touches, SlotRecords
  <2> QED BY <2>1, <2>2
<1>5. LockInv'
  BY <1>1, <1>2, <1>4, Takes DEF IInv
<1>6. RefsInv'
  <2>1. on[r] = None
    BY <1>1 DEF IInv, LockInv, PlacesInv
  <2>2. r \notin Users(n)
    BY <2>1 DEF Users, None, SlotIds
  <2>3. slot'[n].refs = slot[n].refs
    BY <1>3, <1>4 DEF SlotRecords
  <2> QED BY <1>1, <1>2, <1>4, <2>1, <2>2, <2>3, RefsStay DEF IInv
<1>7. Types'
  BY <1>2, <1>4 DEF IInv, Types, Touches
<1> QED BY <1>5, <1>6, <1>7 DEF IInv

\* A request takes a reference, and asks for the lock unless it was aborted.
LEMMA JoinKeeps ==
  ASSUME IInv, NEW r \in Requests, NEW n \in SlotIds, NEW s, Join(r, n, s),
         SameLock(s, n), pc[r] \in {"idle", "retired"}, AtHead(r),
         slotAt' \in [Keys -> SlotIds \cup {None}],
         UNCHANGED <<aborted, live, revoked, closed, failed>>
  PROVE  IInv'
<1>1. r \in Tasks /\ r \notin Retirements
  BY RequestsAreTasks
<1>2. on' = [on EXCEPT ![r] = n]
  BY DEF Join
<1>3. /\ slot \in [SlotIds -> SlotRecords] /\ s \in SlotRecords
      /\ slot[n] \in SlotRecords
      /\ s.refs = slot[n].refs /\ s.held = slot[n].held /\ s.waiters = slot[n].waiters
  BY DEF IInv, Types, SameLock
<1>4. PICK counted : counted = [s EXCEPT !.refs = @ + 1]
  OBVIOUS
<1>5. /\ counted \in SlotRecords /\ counted.refs = slot[n].refs + 1
      /\ counted.held = slot[n].held /\ counted.waiters = slot[n].waiters
  BY <1>3, <1>4 DEF SlotRecords
<1>6. on[r] = None /\ r \notin Users(n)
  <2>1. on[r] = None
    BY <1>1 DEF IInv, LockInv, PlacesInv
  <2> QED BY <2>1 DEF Users, None, SlotIds
<1>7. CASE r \in aborted
  <2>1. /\ slot' = [slot EXCEPT ![n] = counted] /\ pc' = [pc EXCEPT ![r] = "rejected"]
        /\ ready' = Append(Rest, r)
    BY <1>4, <1>7 DEF Join, Goto
  <2>2. Touches(n) /\ slot'[n] = counted
    BY <1>3, <1>5, <2>1 DEF Touches
  <2>3. LockInv'
    BY <1>1, <1>2, <1>5, <1>6, <2>1, <2>2, PassesBy DEF IInv
  <2>4. slot'[n].refs = slot[n].refs + 1
    BY <1>3, <1>5, <2>2 DEF SlotRecords
  <2>5. RefsInv'
    BY <1>1, <1>2, <1>6, <2>1, <2>2, <2>4, RefsCome DEF IInv
  <2>6. Types'
    BY <2>2 DEF IInv, Types, Touches
  <2> QED BY <2>3, <2>5, <2>6 DEF IInv
<1>8. CASE r \notin aborted
  <2>1. pc' = [pc EXCEPT ![r] = "locking"]
    BY <1>8 DEF Join, Goto
  <2>2. /\ Touches(n) /\ slot'[n].held /\ slot'[n].refs = slot[n].refs + 1
        /\ slot'[n].waiters = IF slot[n].held THEN Append(slot[n].waiters, r)
                              ELSE slot[n].waiters
        /\ ready' = IF slot[n].held THEN Rest ELSE Append(Rest, r)
    <3>1. CASE slot[n].held
      <4>1. PICK line \in Seq(Tasks) : line = Append(slot[n].waiters, r)
        BY <1>1, <1>3, AppendFacts DEF SlotRecords
      <4>2. counted.waiters = slot[n].waiters
        BY <1>5
      <4>3. /\ slot' = [slot EXCEPT ![n] = [counted EXCEPT !.waiters = line]]
            /\ ready' = Rest
        BY <1>3, <1>4, <1>5, <1>8, <3>1, <4>1 DEF Join
      <4> QED BY <1>3, <1>5, <3>1, <4>1, <4>3 DEF Touches, SlotRecords
    <3>2. CASE ~slot[n].held
      <4>1. /\ slot' = [slot EXCEPT ![n] = [counted EXCEPT !.held = TRUE]]
            /\ ready' = Append(Rest, r)
        BY <1>3, <1>4, <1>8, <3>2 DEF Join
      <4> QED BY <1>3, <1>5, <3>2, <4>1 DEF Touches, SlotRecords
    <3> QED BY <3>1, <3>2
  <2>3. LockInv'
    BY <1>1, <1>2, <2>1, <2>2, Takes DEF IInv
  <2>4. slot'[n].refs = slot[n].refs + 1
    BY <1>3, <2>2 DEF SlotRecords
  <2>5. RefsInv'
    BY <1>1, <1>2, <1>6, <2>1, <2>2, <2>4, RefsCome DEF IInv
  <2>6. Types'
    BY <2>2 DEF IInv, Types, Touches
  <2> QED BY <2>3, <2>5, <2>6 DEF IInv
<1> QED BY <1>7, <1>8

\* A request turns away, or drops the reference it had without the lock.
LEMMA RefuseKeeps ==
  ASSUME IInv, NEW r \in Requests, Refuse(r), pc[r] \in {"idle", "retired"}, AtHead(r),
         UNCHANGED <<live, revoked, closed, failed>>
  PROVE  IInv'
<1>1. r \in Tasks /\ r \notin Retirements
  BY RequestsAreTasks
<1>2. PICK n \in SlotIds : n = 1
  BY ConstantsAssumption DEF SlotIds
<1>3. /\ pc' = [pc EXCEPT ![r] = "idle"] /\ on' = [on EXCEPT ![r] = None]
      /\ aborted' = aborted \ {r} /\ ready' = Rest /\ UNCHANGED <<slotAt, slot>>
  BY DEF Refuse, Goto
<1>4. Touches(n)
  BY <1>3 DEF Touches, IInv, Types
<1>5. on[r] = None
  BY <1>1 DEF IInv, LockInv, PlacesInv
<1>6. LockInv'
  BY <1>1, <1>3, <1>4, <1>5, PassesBy DEF IInv
<1>7. RefsInv'
  <2>1. r \notin Users(n) /\ None # n
    BY <1>5 DEF Users, None, SlotIds
  <2> QED BY <1>1, <1>3, <1>4, <1>5, <2>1, RefsStay DEF IInv
<1>8. Types'
  BY <1>3 DEF IInv, Types
<1> QED BY <1>6, <1>7, <1>8 DEF IInv

LEMMA RejectedKeeps ==
  ASSUME IInv, NEW r \in Requests, Rejected(r)
  PROVE  IInv'
<1>1. r \in Tasks /\ r \notin Retirements /\ AtHead(r) /\ pc[r] = "rejected"
  BY RequestsAreTasks DEF Rejected, Runs, AtHead
<1>2. PICK n \in SlotIds : n = on[r]
  BY <1>1 DEF IInv, LockInv, PlacesInv
<1>3. PICK left : left = Dropped(slot[n])
  OBVIOUS
<1>4. slot[n] \in SlotRecords /\ slot \in [SlotIds -> SlotRecords]
  BY DEF IInv, Types
<1>5. /\ left \in SlotRecords /\ left.refs = slot[n].refs - 1
      /\ left.held = slot[n].held /\ left.waiters = slot[n].waiters
  BY <1>3, <1>4, ReleasedFacts
<1>6. /\ slot' = [slot EXCEPT ![n] = left] /\ slotAt' = Unregistered(left)
      /\ pc' = [pc EXCEPT ![r] = "idle"] /\ on' = [on EXCEPT ![r] = None]
      /\ ready' = Rest /\ aborted' = aborted \ {r} /\ UNCHANGED <<live, revoked, closed, failed>>
  BY <1>2, <1>3 DEF Rejected, Goto
<1>7. Touches(n) /\ slot'[n] = left
  BY <1>4, <1>5, <1>6 DEF Touches
<1>8. LockInv'
  BY <1>1, <1>2, <1>5, <1>6, <1>7, PassesBy DEF IInv
<1>9. RefsInv'
  <2>1. r \in Users(n)
    BY <1>1, <1>2 DEF Users
  <2> QED BY <1>1, <1>5, <1>6, <1>7, <2>1, RefsGo DEF IInv
<1>10. Types'
  BY <1>5, <1>6, <1>7, UnregisteredTypes DEF IInv, Types, Touches
<1> QED BY <1>8, <1>9, <1>10 DEF IInv

LEMMA FindOrCreateKeeps ==
  ASSUME IInv, NEW r \in Requests, FindOrCreate(r), pc[r] \in {"idle", "retired"},
         AtHead(r), UNCHANGED <<live, revoked, closed, failed>>
  PROVE  IInv'
<1>1. PICK k \in Keys : k = KeyOf[r]
  BY ConstantsAssumption
<1>2. slotAt \in [Keys -> SlotIds \cup {None}] /\ slot \in [SlotIds -> SlotRecords]
  BY DEF IInv, Types
<1>3. CASE slotAt[k] # None
  <2>1. PICK n \in SlotIds : n = slotAt[k]
    BY <1>2, <1>3
  <2>2. Join(r, n, slot[n]) /\ UNCHANGED <<slotAt, aborted>>
    BY <1>1, <1>3, <2>1 DEF FindOrCreate
  <2>3. SameLock(slot[n], n)
    BY <1>2 DEF SameLock
  <2>4. slotAt' \in [Keys -> SlotIds \cup {None}]
    BY <1>2, <2>2
  <2> QED BY <2>2, <2>3, <2>4, JoinKeeps
<1>4. CASE slotAt[k] = None /\ Refuse(r)
  BY <1>4, RefuseKeeps
<1>5. CASE slotAt[k] = None /\ ~Refuse(r)
  <2>1. /\ Unused # {} /\ Join(r, Fresh, NewSlot(k))
        /\ slotAt' = [slotAt EXCEPT ![k] = Fresh] /\ UNCHANGED aborted
    BY <1>1, <1>5 DEF FindOrCreate
  <2>2. PICK n \in Unused : n = Fresh
    BY <2>1, FreshFacts
  <2>3. n \in SlotIds /\ slot[n].refs = 0 /\ slot[n].held = FALSE /\ slot[n].waiters = << >>
    BY <1>2, UnusedFacts DEF IInv
  <2>4. SameLock(NewSlot(k), n)
    <3>1. PICK none \in Seq(Tasks) : none = << >>
      BY EmptyFacts
    <3>2. NewSlot(k) = [key |-> k, refs |-> 0, retiring |-> FALSE, worker |-> FALSE,
                        held |-> FALSE, waiters |-> none]
      BY <3>1 DEF NewSlot
    <3>3. NewSlot(k) \in SlotRecords
      BY <3>2 DEF SlotRecords
    <3>4. PICK s : s = NewSlot(k)
      OBVIOUS
    <3>5. s \in SlotRecords /\ s.refs = 0 /\ s.held = FALSE /\ s.waiters = none
      BY <3>2, <3>3, <3>4
    <3>6. slot[n].waiters = none
      BY <2>3, <3>1
    <3>7. SameLock(s, n)
      BY <2>3, <3>5, <3>6 DEF SameLock
    <3> QED BY <3>4, <3>7
  <2>5. slotAt' \in [Keys -> SlotIds \cup {None}]
    BY <1>2, <2>1, <2>2, <2>3
  <2> QED BY <2>1, <2>2, <2>3, <2>4, <2>5, JoinKeeps
<1> QED BY <1>3, <1>4, <1>5

LEMMA ArriveKeeps ==
  ASSUME IInv, NEW r \in Requests, Arrive(r) \/ Retired(r)
  PROVE  IInv'
<1>1. CASE Arrive(r)
  <2>1. PICK n : n = slotAt[KeyOf[r]]
    OBVIOUS
  <2>2. pc[r] = "idle" /\ AtHead(r) /\ UNCHANGED <<live, revoked, closed, failed>>
    BY <1>1 DEF Arrive, Ends, AtHead
  <2>3. CASE n # None /\ slot[n].retiring
    <3>1. AskToRetire(r, n) /\ UNCHANGED aborted
      BY <1>1, <2>1, <2>3 DEF Arrive
    <3>2. n \in SlotIds
      BY <2>1, <2>3, ConstantsAssumption DEF IInv, Types
    <3> QED BY <2>2, <3>1, <3>2, AskToRetireKeeps
  <2>4. CASE ~(n # None /\ slot[n].retiring)
    <3>1. FindOrCreate(r)
      BY <1>1, <2>1, <2>4 DEF Arrive
    <3> QED BY <2>2, <3>1, FindOrCreateKeeps
  <2> QED BY <2>3, <2>4
<1>2. CASE Retired(r)
  <2>1. pc[r] = "retired" /\ AtHead(r) /\ UNCHANGED <<live, revoked, closed, failed>>
    BY <1>2 DEF Retired, Runs, AtHead
  <2>2. Refuse(r) \/ FindOrCreate(r)
    BY <1>2 DEF Retired
  <2> QED BY <2>1, <2>2, RefuseKeeps, FindOrCreateKeeps
<1> QED BY <1>1, <1>2

LEMMA AbortKeeps ==
  ASSUME IInv, NEW r \in Requests, Abort(r)
  PROVE  IInv'
<1>1. r \in Tasks /\ r \notin Retirements
  BY RequestsAreTasks
<1>2. /\ ready = << >> /\ aborted' = aborted \cup {r}
      /\ UNCHANGED <<slotAt, on, live, revoked, closed, failed>>
  BY DEF Abort
<1>3. slot \in [SlotIds -> SlotRecords]
  BY DEF IInv, Types
<1>4. CASE pc[r] = "locking"
  <2>1. PICK n \in SlotIds : n = on[r]
    BY <1>1, <1>4 DEF IInv, LockInv, PlacesInv
  <2>2. slot[n].waiters \in Seq(Tasks) /\ Once(slot[n].waiters)
    BY <1>3 DEF SlotRecords, IInv, LockInv, LinesInv
  <2>3. PICK line \in Seq(Tasks) : line = Without(slot[n].waiters, r)
    BY <2>2, WithoutFacts
  <2>4. /\ slot' = [slot EXCEPT ![n] = [slot[n] EXCEPT !.waiters = line]]
        /\ pc' = [pc EXCEPT ![r] = "rejected"] /\ ready' = << r >>
    BY <1>3, <1>4, <2>1, <2>3 DEF Abort, Goto
  <2>5. /\ Touches(n) /\ slot'[n].held = slot[n].held /\ slot'[n].refs = slot[n].refs
        /\ slot'[n].waiters = line
    BY <1>3, <2>4 DEF Touches, SlotRecords
  <2>6. LockInv'
    BY <1>2, <1>4, <2>1, <2>3, <2>4, <2>5, GivesUp DEF IInv
  <2>7. RefsInv'
    <3>1. on' = [on EXCEPT ![r] = n]
      BY <1>1, <1>2, <2>1 DEF IInv, LockInv, PlacesInv
    <3>2. r \in Users(n)
      BY <1>4, <2>1 DEF Users
    <3> QED BY <1>1, <2>1, <2>4, <2>5, <3>1, <3>2, RefsStay DEF IInv
  <2>8. Types'
    BY <1>2, <2>5 DEF IInv, Types, Touches
  <2> QED BY <2>6, <2>7, <2>8 DEF IInv
<1>5. CASE pc[r] # "locking"
  <2>1. UNCHANGED <<slot, pc, ready>>
    BY <1>5 DEF Abort
  <2>2. LockInv'
    BY <1>2, <2>1 DEF IInv, LockInv, PlacesInv, LinesInv, ReadyInv, LocksInv, Holds, Waits
  <2>3. RefsInv'
    BY <1>2, <2>1 DEF IInv, RefsInv, Users
  <2>4. Types'
    BY <1>2, <2>1 DEF IInv, Types
  <2> QED BY <2>2, <2>3, <2>4 DEF IInv
<1> QED BY <1>4, <1>5

\* The holder of a lock awaits something else with it, whatever it wrote to the
\* slot meanwhile.
LEMMA GoesOnKeeps ==
  ASSUME IInv, NEW t \in Tasks, on[t] \in SlotIds, Holds(t, on[t]), AtHead(t),
         NEW p \in {"closing", "starting", "renewing", "leased", "cleanup"},
         t \in Retirements => p = "closing",
         pc[t] \in {"retiring", "closing"} <=> p = "closing",
         Goto(t, p), ready' = Rest, NEW s, SameLock(s, on[t]),
         slot' = [slot EXCEPT ![on[t]] = s], live' \subseteq SlotIds,
         UNCHANGED <<slotAt, on, aborted, revoked, closed, failed>>
  PROVE  IInv'
<1>1. PICK n \in SlotIds : n = on[t]
  OBVIOUS
<1>2. pc' = [pc EXCEPT ![t] = p] /\ slot' = [slot EXCEPT ![n] = s] /\ on' = on
  BY <1>1 DEF Goto
<1>3. /\ s \in SlotRecords /\ s.held = slot[n].held /\ s.waiters = slot[n].waiters
      /\ s.refs = slot[n].refs /\ slot \in [SlotIds -> SlotRecords]
  BY <1>1 DEF SameLock, IInv, Types
<1>4. Touches(n) /\ slot'[n] = s
  BY <1>2, <1>3 DEF Touches
<1>5. LockInv'
  BY <1>1, <1>2, <1>3, <1>4, GoesOn DEF IInv
<1>6. RefsInv'
  <2>1. on' = [on EXCEPT ![t] = n]
    BY <1>1, <1>2 DEF IInv, LockInv, PlacesInv
  <2>2. t \in Users(n) <=> t \in Requests /\ p \notin {"retiring", "closing"}
    BY <1>1 DEF Users
  <2> QED BY <1>1, <1>2, <1>3, <1>4, <2>1, <2>2, RefsStay DEF IInv
<1>7. Types'
  BY <1>2, <1>4 DEF IInv, Types, Touches
<1> QED BY <1>5, <1>6, <1>7 DEF IInv

\* A slot nobody wrote to.
LEMMA SlotAsItWas ==
  ASSUME IInv, NEW n \in SlotIds
  PROVE  SameLock(slot[n], n) /\ slot = [slot EXCEPT ![n] = slot[n]]
BY DEF IInv, Types, SameLock

LEMMA LockedKeeps ==
  ASSUME IInv, NEW r \in Requests, Locked(r)
  PROVE  IInv'
<1>1. r \in Tasks /\ r \notin Retirements
  BY RequestsAreTasks
<1>2. /\ pc[r] = "locking" /\ ready # << >> /\ Head(ready) = r /\ AtHead(r)
      /\ UNCHANGED <<live, revoked, closed, failed>>
  BY DEF Locked, Runs, AtHead
<1>3. on[r] \in SlotIds /\ Holds(r, on[r])
  BY <1>1, <1>2, HasTheLock
<1>4. SameLock(slot[on[r]], on[r]) /\ slot = [slot EXCEPT ![on[r]] = slot[on[r]]]
  BY <1>3, SlotAsItWas
<1>5. live' \subseteq SlotIds
  BY <1>2 DEF IInv, Types
<1>6. CASE Unfit(r)
  <2>1. Leave(r, slot[on[r]])
    BY <1>6 DEF Locked
  <2> QED BY <1>2, <1>3, <1>4, <1>5, <2>1, LeaveKeeps
<1>7. CASE ~Unfit(r)
  <2>1. /\ ready' = Rest /\ UNCHANGED <<slot, slotAt, on, aborted>>
        /\ \E p \in {"starting", "leased", "renewing"} : Goto(r, p)
    BY <1>7 DEF Locked
  <2>2. PICK p \in {"starting", "leased", "renewing"} : Goto(r, p)
    BY <2>1
  <2>3. slot' = [slot EXCEPT ![on[r]] = slot[on[r]]]
    BY <1>4, <2>1
  <2> QED BY <1>1, <1>2, <1>3, <1>4, <1>5, <2>1, <2>2, <2>3, GoesOnKeeps
<1> QED BY <1>6, <1>7

LEMMA AnswerKeeps ==
  ASSUME IInv, NEW r \in Requests, Answer(r)
  PROVE  IInv'
<1>1. r \in Tasks /\ r \notin Retirements
  BY RequestsAreTasks
<1>2. /\ pc[r] \in {"starting", "renewing", "leased", "cleanup"} /\ ready = << >>
      /\ AtHead(r) /\ Rest = << >>
  BY DEF Answer, Started, StartFails, Release, CleanedUp, Renewed, Ends, AtHead, Rest
<1>3. on[r] \in SlotIds /\ Holds(r, on[r]) /\ slot[on[r]] \in SlotRecords
  BY <1>1, <1>2, HasTheLock
<1>4. SameLock(slot[on[r]], on[r]) /\ slot = [slot EXCEPT ![on[r]] = slot[on[r]]]
  BY <1>3, SlotAsItWas
<1>5. live \subseteq SlotIds /\ slot \in [SlotIds -> SlotRecords]
  BY DEF IInv, Types
<1>6. CASE StartFails(r) \/ Release(r)
  <2>1. Leave(r, slot[on[r]]) /\ UNCHANGED <<live, revoked, closed, failed>>
    BY <1>6 DEF StartFails, Release
  <2> QED BY <1>2, <1>3, <1>4, <1>5, <2>1, LeaveKeeps
<1>7. ASSUME NEW ok \in BOOLEAN, CleanedUp(r, ok)
      PROVE  IInv'
  <2>1. PICK s : s = [slot[on[r]] EXCEPT !.worker = ~ok]
    OBVIOUS
  <2>2. SameLock(s, on[r])
    BY <1>3, <2>1 DEF SameLock, SlotRecords
  <2>3. Leave(r, s) /\ live' \subseteq SlotIds /\ UNCHANGED <<revoked, closed, failed>>
    BY <1>5, <1>7, <2>1 DEF CleanedUp
  <2> QED BY <1>2, <1>3, <2>2, <2>3, LeaveKeeps
<1>8. ASSUME NEW ok \in BOOLEAN, Renewed(r, ok)
      PROVE  IInv'
  <2>1. CASE Leave(r, slot[on[r]])
    <3>1. UNCHANGED <<live, revoked, closed, failed>>
      BY <1>8 DEF Renewed
    <3> QED BY <1>2, <1>3, <1>4, <1>5, <2>1, <3>1, LeaveKeeps
  <2>2. CASE ~Leave(r, slot[on[r]])
    <3>1. /\ Goto(r, "leased") /\ pc[r] = "renewing"
          /\ UNCHANGED <<slot, slotAt, on, ready, aborted, live, revoked, closed, failed>>
      BY <1>8, <2>2 DEF Renewed, Ends
    <3>2. slot' = [slot EXCEPT ![on[r]] = slot[on[r]]] /\ ready' = Rest
      BY <1>2, <1>4, <3>1
    <3>3. live' \subseteq SlotIds
      BY <1>5, <3>1
    <3> QED BY <1>1, <1>2, <1>3, <1>4, <3>1, <3>2, <3>3, GoesOnKeeps
  <2> QED BY <2>1, <2>2
<1>9. CASE Started(r)
  <2>1. PICK s : s = [slot[on[r]] EXCEPT !.worker = TRUE, !.retiring = @ \/ Unfit(r)]
    OBVIOUS
  <2>2. SameLock(s, on[r])
    <3>1. slot[on[r]].retiring \/ Unfit(r) \in BOOLEAN
      BY <1>3 DEF SlotRecords, Unfit, Barred
    <3> QED BY <1>3, <2>1, <3>1 DEF SameLock, SlotRecords
  <2>3. slot' = [slot EXCEPT ![on[r]] = s]
    BY <1>3, <1>5, <1>9, <2>1 DEF Started
  <2>4. PICK p \in {"cleanup", "leased"} : Goto(r, p)
    BY <1>9 DEF Started
  <2>5. /\ ready' = Rest /\ live' \subseteq SlotIds
        /\ UNCHANGED <<slotAt, on, aborted, revoked, closed, failed>>
    BY <1>2, <1>3, <1>5, <1>9 DEF Started
  <2> QED BY <1>1, <1>2, <1>3, <2>2, <2>3, <2>4, <2>5, GoesOnKeeps
<1> QED BY <1>6, <1>7, <1>8, <1>9 DEF Answer

LEMMA RetirementKeeps ==
  ASSUME IInv, NEW t \in Tasks, RetireLocked(t) \/ WorkerClosed(t) \/ CloseFails(t)
  PROVE  IInv'
<1>1. /\ AtHead(t)
      /\ \/ pc[t] = "closing" /\ ready = << >>
         \/ pc[t] = "retiring" /\ ready # << >> /\ Head(ready) = t
  BY DEF RetireLocked, WorkerClosed, CloseFails, Runs, Ends, AtHead
<1>2. on[t] \in SlotIds /\ Holds(t, on[t]) /\ slot[on[t]] \in SlotRecords
  BY <1>1, HasTheLock
<1>3. SameLock(slot[on[t]], on[t]) /\ slot = [slot EXCEPT ![on[t]] = slot[on[t]]]
  BY <1>2, SlotAsItWas
<1>4. live \subseteq SlotIds /\ slot \in [SlotIds -> SlotRecords]
  BY DEF IInv, Types
<1>5. CASE RetireLocked(t)
  <2>1. pc[t] = "retiring" /\ UNCHANGED <<live, aborted, revoked, closed, failed>>
    BY <1>5 DEF RetireLocked, Runs
  <2>2. CASE slot[on[t]].worker
    <3>1. Goto(t, "closing") /\ ready' = Rest /\ UNCHANGED <<slot, slotAt, on>>
      BY <1>5, <2>2 DEF RetireLocked
    <3>2. slot' = [slot EXCEPT ![on[t]] = slot[on[t]]] /\ live' \subseteq SlotIds
      BY <1>3, <1>4, <2>1, <3>1
    <3> QED BY <1>1, <1>2, <1>3, <2>1, <3>1, <3>2, GoesOnKeeps
  <2>3. CASE ~slot[on[t]].worker
    <3>1. EndRetire(t, slot[on[t]])
      BY <1>5, <2>3 DEF RetireLocked
    <3>2. live' \subseteq SlotIds
      BY <1>4, <2>1
    <3> QED BY <1>1, <1>2, <1>3, <2>1, <3>1, <3>2, EndRetireKeeps
  <2> QED BY <2>2, <2>3
<1>6. CASE WorkerClosed(t)
  <2>1. PICK s : s = [slot[on[t]] EXCEPT !.worker = FALSE]
    OBVIOUS
  <2>2. SameLock(s, on[t])
    BY <1>2, <2>1 DEF SameLock, SlotRecords
  <2>3. /\ pc[t] = "closing" /\ EndRetire(t, s) /\ live' \subseteq SlotIds
        /\ UNCHANGED <<aborted, revoked, closed, failed>>
    BY <1>4, <1>6, <2>1 DEF WorkerClosed, Ends
  <2> QED BY <1>1, <1>2, <2>2, <2>3, EndRetireKeeps
<1>7. CASE CloseFails(t)
  <2>1. PICK n \in SlotIds : n = on[t]
    BY <1>2
  <2>2. /\ pc[t] = "closing" /\ ready = << >> /\ Rest = << >>
        /\ slot' = [slot EXCEPT ![n] = Released(slot[n])]
        /\ ready' = Woken(slot[n]) /\ pc' = [pc EXCEPT ![t] = "idle"]
        /\ on' = [on EXCEPT ![t] = None] /\ aborted' = aborted \ {t}
        /\ failed' = (failed \/ t \in {"close"} \X SlotIds)
        /\ UNCHANGED <<slotAt, live, revoked, closed>>
    BY <1>7, <2>1 DEF CloseFails, Ends, Goto, Rest
  <2>3. Released(slot[n]) \in SlotRecords /\ Released(slot[n]).refs = slot[n].refs
    BY <1>2, <2>1, ReleasedFacts
  <2>4. Touches(n) /\ slot'[n] = Released(slot[n])
    BY <1>4, <2>2, <2>3 DEF Touches
  <2>5. ready' = Rest \o Woken(slot[n])
    <3>1. Woken(slot[n]) \in Seq(Tasks)
      <4>1. slot[n].waiters \in Seq(Tasks)
        BY <1>4 DEF SlotRecords
      <4>2. CASE slot[n].waiters = << >>
        BY <4>2, EmptyFacts DEF Woken
      <4>3. CASE slot[n].waiters # << >>
        <5>1. Head(slot[n].waiters) \in Tasks
          BY <4>1, <4>3, HeadTailProperties
        <5> QED BY <4>3, <5>1 DEF Woken
      <4> QED BY <4>2, <4>3
    <3> QED BY <2>2, <3>1, ConcatEmptySeq
  <2>6. LockInv'
    BY <1>1, <1>2, <2>1, <2>2, <2>4, <2>5, LetsGo DEF IInv
  <2>7. RefsInv'
    <3>1. t \notin Users(n) /\ None # n
      BY <2>2 DEF Users, None, SlotIds
    <3>2. slot'[n].refs = slot[n].refs
      BY <2>3, <2>4
    <3> QED BY <2>1, <2>2, <2>4, <3>1, <3>2, RefsStay DEF IInv
  <2>8. failed' \in BOOLEAN
    BY <2>2 DEF IInv, Types
  <2>9. Types'
    BY <2>2, <2>4, <2>8 DEF IInv, Types, Touches
  <2> QED BY <2>6, <2>7, <2>9 DEF IInv
<1> QED BY <1>5, <1>6, <1>7

-----------------------------------------------------------------------------
(* Several retirements start at the same time.                             *)

\* Retirements R start at the same time; those of a slot ask for its lock in
\* the order of line[n]: the first takes a lock that is free, the rest wait.
Started_Together(R, some, line) ==
  /\ R \subseteq Retirements /\ \A t \in R : pc[t] = "idle" /\ t[2] \in some
  /\ some \subseteq SlotIds
  /\ pc' = [t \in Tasks |-> IF t \in R THEN "retiring" ELSE pc[t]]
  /\ on' = [t \in Tasks |-> IF t \in R THEN t[2] ELSE on[t]]
  /\ \A n \in some : /\ line[n] \in Seq(Tasks) /\ line[n] # << >> /\ Once(line[n])
                     /\ \A t \in Tasks : In(t, line[n]) <=> t \in R /\ t[2] = n
  /\ slot' \in [SlotIds -> SlotRecords]
  /\ \A n \in SlotIds \ some : slot'[n] = slot[n]
  /\ \A n \in some : /\ slot'[n].refs = slot[n].refs /\ slot'[n].held
                     /\ slot'[n].waiters =
                          slot[n].waiters \o (IF slot[n].held THEN line[n] ELSE Tail(line[n]))
  /\ ready' \in Seq(Tasks) /\ Once(ready')
  /\ \A t \in Tasks : In(t, ready') =>
       \E n \in some : ~slot[n].held /\ t = Head(line[n])
  /\ UNCHANGED <<slotAt, live, aborted>>

LEMMA StartsKeep ==
  ASSUME IInv, ready = << >>, NEW R, NEW some, NEW line, Started_Together(R, some, line),
         revoked' \subseteq Keys, closed' \in BOOLEAN, failed' \in BOOLEAN
  PROVE  IInv'
<1>1. /\ R \subseteq Tasks /\ R \subseteq Retirements /\ R \cap Requests = {}
      /\ some \subseteq SlotIds
  BY TasksAssumption DEF Tasks, Started_Together
<1>2. /\ \A t \in R : pc[t] = "idle" /\ pc'[t] = "retiring" /\ on'[t] = t[2] /\ t[2] \in some
      /\ \A t \in Tasks \ R : pc'[t] = pc[t] /\ on'[t] = on[t]
      /\ pc' = [t \in Tasks |-> IF t \in R THEN "retiring" ELSE pc[t]]
      /\ on' = [t \in Tasks |-> IF t \in R THEN t[2] ELSE on[t]]
  BY <1>1 DEF Started_Together
<1>3. /\ \A t \in R : on[t] = None
      /\ \A t \in R, n \in SlotIds : ~Waits(t, n)
      /\ None \notin SlotIds
  <2>1. None \notin SlotIds
    BY DEF None, SlotIds
  <2>2. ASSUME NEW t \in R
        PROVE  on[t] = None
    <3>1. t \in Tasks /\ pc[t] = "idle"
      BY <1>1, <1>2
    <3> QED BY <3>1 DEF IInv, LockInv, PlacesInv
  <2>3. ASSUME NEW t \in R, NEW n \in SlotIds, Waits(t, n)
        PROVE  FALSE
    <3>1. on[t] = n
      BY <1>1, <2>3 DEF IInv, LockInv, LinesInv
    <3> QED BY <2>1, <2>2, <3>1
  <2> QED BY <2>1, <2>2, <2>3
<1>4. slot \in [SlotIds -> SlotRecords] /\ slot' \in [SlotIds -> SlotRecords]
  BY DEF IInv, Types, Started_Together
<1>5. ASSUME NEW n \in SlotIds
      PROVE  /\ Once(slot'[n].waiters)
             /\ \A t \in Tasks : Waits(t, n)' <=>
                  \/ Waits(t, n)
                  \/ n \in some /\ t \in R /\ t[2] = n /\ (slot[n].held \/ t # Head(line[n]))
             /\ n \in some => Head(line[n]) \in R /\ Head(line[n])[2] = n
  <2>1. slot[n].waiters \in Seq(Tasks) /\ Once(slot[n].waiters)
    BY <1>4 DEF SlotRecords, IInv, LockInv, LinesInv
  <2>2. CASE n \notin some
    BY <2>1, <2>2 DEF Waits, Started_Together
  <2>3. CASE n \in some
    <3>1. PICK l : /\ l = line[n] /\ l \in Seq(Tasks) /\ l # << >> /\ Once(l)
                   /\ \A t \in Tasks : In(t, l) <=> t \in R /\ t[2] = n
      BY <2>3 DEF Started_Together
    <3>2. /\ Tail(l) \in Seq(Tasks) /\ Once(Tail(l)) /\ Head(l) \in Tasks /\ In(Head(l), l)
          /\ \A t : In(t, Tail(l)) <=> In(t, l) /\ t # Head(l)
      BY <3>1, TailFacts
    <3>3. PICK m : m = IF slot[n].held THEN l ELSE Tail(l)
      OBVIOUS
    <3>4. /\ m \in Seq(Tasks) /\ Once(m)
          /\ \A t : In(t, m) <=> In(t, l) /\ (slot[n].held \/ t # Head(l))
      BY <3>1, <3>2, <3>3
    <3>5. slot'[n].waiters = slot[n].waiters \o m
      BY <2>3, <3>1, <3>3 DEF Started_Together
    <3>6. \A t : ~(In(t, slot[n].waiters) /\ In(t, m))
      <4>1. ASSUME NEW t, In(t, m), In(t, slot[n].waiters)
            PROVE  FALSE
        <5>1. t \in Tasks
          BY <3>4, <4>1, ElementOfSeq, LenProperties DEF In
        <5>2. t \in R
          BY <3>1, <3>4, <4>1, <5>1
        <5> QED BY <1>3, <4>1, <5>2 DEF Waits
      <4> QED BY <4>1
    <3>7. /\ Once(slot'[n].waiters)
          /\ \A t : In(t, slot'[n].waiters) <=> In(t, slot[n].waiters) \/ In(t, m)
      BY <2>1, <3>4, <3>5, <3>6, ConcatFacts
    <3> QED BY <2>3, <3>1, <3>2, <3>4, <3>7 DEF Waits
  <2> QED BY <2>2, <2>3
<1>6. /\ ready' \in Seq(Tasks) /\ Once(ready')
      /\ \A t \in Tasks : In(t, ready') =>
           /\ t \in R /\ t[2] \in some /\ ~slot[t[2]].held /\ t = Head(line[t[2]])
  <2>1. ASSUME NEW t \in Tasks, In(t, ready')
        PROVE  t \in R /\ t[2] \in some /\ ~slot[t[2]].held /\ t = Head(line[t[2]])
    <3>1. PICK n \in some : ~slot[n].held /\ t = Head(line[n])
      BY <2>1 DEF Started_Together
    <3>2. t \in R /\ t[2] = n
      BY <1>1, <1>5, <3>1
    <3> QED BY <3>1, <3>2
  <2> QED BY <2>1 DEF Started_Together
<1>7. PlacesInv'
  <2>1. pc' \in [Tasks -> Awaits] /\ on' \in [Tasks -> SlotIds \cup {None}]
    <3>1. pc \in [Tasks -> Awaits] /\ on \in [Tasks -> SlotIds \cup {None}]
      BY DEF IInv, LockInv, PlacesInv
    <3>2. "retiring" \in Awaits
      BY DEF Awaits
    <3> QED BY <1>1, <1>2, <3>1, <3>2
  <2>2. ASSUME NEW t \in Tasks
        PROVE  on'[t] = None <=> pc'[t] \in {"idle", "retired"}
    <3>1. CASE t \in R
      BY <1>1, <1>2, <1>3, <3>1
    <3>2. CASE t \notin R
      BY <1>2, <3>2 DEF IInv, LockInv, PlacesInv
    <3> QED BY <3>1, <3>2
  <2>3. ASSUME NEW t \in Retirements
        PROVE  pc'[t] \in {"idle", "retiring", "closing"}
    <3>1. t \in Tasks
      BY DEF Tasks
    <3> QED BY <1>2, <3>1 DEF IInv, LockInv, PlacesInv
  <2> QED BY <2>1, <2>2, <2>3 DEF PlacesInv
<1>8. LinesInv'
  <2>1. ASSUME NEW n \in SlotIds, NEW t \in Tasks, Waits(t, n)'
        PROVE  on'[t] = n /\ pc'[t] \in {"locking", "retiring"}
    <3>1. CASE Waits(t, n)
      <4>1. t \notin R
        BY <1>3, <3>1
      <4> QED BY <1>2, <3>1, <4>1 DEF IInv, LockInv, LinesInv
    <3>2. CASE t \in R /\ t[2] = n
      BY <1>2, <3>2
    <3> QED BY <1>5, <2>1, <3>1, <3>2
  <2> QED BY <1>5, <2>1 DEF LinesInv
<1>9. ReadyInv'
  <2>1. ASSUME NEW t \in Tasks, In(t, ready')
        PROVE  pc'[t] = "retiring" /\ \A n \in SlotIds : ~Waits(t, n)'
    <3>1. t \in R /\ t[2] \in some /\ ~slot[t[2]].held /\ t = Head(line[t[2]])
      BY <1>6, <2>1
    <3>2. ASSUME NEW n \in SlotIds, Waits(t, n)'
          PROVE  FALSE
      <4>1. t[2] = n /\ (slot[n].held \/ t # Head(line[n]))
        BY <1>3, <1>5, <3>1, <3>2
      <4> QED BY <3>1, <4>1
    <3> QED BY <1>2, <3>1, <3>2
  <2>2. ASSUME NEW t \in Tasks, pc'[t] = "locking"
        PROVE  Waits(t, on[t])'
    <3>1. t \notin R /\ pc[t] = "locking" /\ on'[t] = on[t]
      BY <1>2, <2>2
    <3>2. ~In(t, ready)
      BY EmptyFacts
    <3>3. Waits(t, on[t]) /\ on[t] \in SlotIds
      BY <3>1, <3>2 DEF IInv, LockInv, ReadyInv, PlacesInv
    <3>4. PICK n \in SlotIds : n = on[t]
      BY <3>3
    <3>5. Waits(t, n)'
      BY <1>5, <3>3, <3>4
    <3> QED BY <3>1, <3>4, <3>5
  <2> QED BY <1>6, <2>1, <2>2 DEF ReadyInv
<1>10. LocksInv'
  <2>1. ASSUME NEW n \in SlotIds, NEW t \in Tasks, ~(n \in some /\ ~slot[n].held)
        PROVE  Holds(t, n)' <=> Holds(t, n)
    <3>1. CASE t \in R
      <4>1. ~Holds(t, n)
        BY <1>3, <3>1 DEF Holds
      <4>2. ASSUME Holds(t, n)'
            PROVE  FALSE
        <5>1. n = t[2] /\ n \in some /\ slot[n].held
          BY <1>2, <2>1, <3>1, <4>2 DEF Holds
        <5>2. Waits(t, n)'
          BY <1>5, <3>1, <5>1
        <5> QED BY <4>2, <5>2 DEF Holds
      <4> QED BY <4>1, <4>2
    <3>2. CASE t \notin R
      <4>1. Waits(t, n)' <=> Waits(t, n)
        BY <1>5, <3>2
      <4> QED BY <1>2, <3>2, <4>1 DEF Holds
    <3> QED BY <3>1, <3>2
  <2>2. ASSUME NEW n \in some, ~slot[n].held, NEW t \in Tasks
        PROVE  Holds(t, n)' <=> t = Head(line[n])
    <3>0. n \in SlotIds
      BY <1>1
    <3>1. ~Holds(t, n)
      BY <2>2, <3>0 DEF IInv, LockInv, LocksInv
    <3>2. Waits(t, n)' <=> Waits(t, n) \/ (t \in R /\ t[2] = n /\ t # Head(line[n]))
      BY <1>5, <2>2, <3>0
    <3>3. Head(line[n]) \in R /\ Head(line[n])[2] = n
      BY <1>5, <3>0
    <3>4. CASE t \in R
      <4>1. Holds(t, n)' <=> t[2] = n /\ ~Waits(t, n)'
        BY <1>2, <3>4 DEF Holds, Working
      <4>2. ~Waits(t, n)
        BY <1>3, <3>0, <3>4
      <4> QED BY <3>2, <3>3, <3>4, <4>1, <4>2
    <3>5. CASE t \notin R
      <4>1. pc'[t] = pc[t] /\ on'[t] = on[t] /\ (Waits(t, n)' <=> Waits(t, n))
        BY <1>2, <3>2, <3>5
      <4>2. ~Holds(t, n)'
        BY <3>1, <4>1 DEF Holds
      <4> QED BY <3>3, <3>5, <4>2
    <3> QED BY <3>4, <3>5
  <2>3. ASSUME NEW n \in SlotIds
        PROVE  LockOf(n)'
    <3>1. CASE n \in some /\ ~slot[n].held
      <4>1. Head(line[n]) \in Tasks /\ slot'[n].held
        BY <1>1, <1>5, <3>1 DEF Started_Together
      <4> QED BY <2>2, <3>1, <4>1 DEF LockOf
    <3>2. CASE ~(n \in some /\ ~slot[n].held)
      <4>1. slot'[n].held <=> slot[n].held
        BY <3>2 DEF Started_Together
      <4> QED BY <2>1, <3>2, <4>1 DEF LockOf, IInv, LockInv, LocksInv
    <3> QED BY <3>1, <3>2
  <2> QED BY <2>3 DEF LocksInv, LockOf
<1>11. RefsInv'
  <2>1. \A r \in Requests : r \in Tasks /\ r \notin R
    BY <1>1 DEF Tasks
  <2>2. ASSUME NEW n \in SlotIds
        PROVE  slot'[n].refs = Cardinality(Users(n)')
    <3>1. Users(n)' = Users(n)
      BY <1>2, <2>1 DEF Users
    <3>2. slot'[n].refs = slot[n].refs
      BY DEF Started_Together
    <3> QED BY <3>1, <3>2 DEF IInv, RefsInv
  <2> QED BY <2>2 DEF RefsInv
<1>12. Types'
  BY <1>4 DEF IInv, Types, Started_Together
<1> QED BY <1>7, <1>8, <1>9, <1>10, <1>11, <1>12 DEF IInv, LockInv

\* A queue of c different tasks, all of T.
LEMMA QueueOf ==
  ASSUME NEW T, T \subseteq Tasks, NEW S, S \subseteq SlotIds, NEW q,
         q \in [1..Cardinality(S) -> T], \A i, j \in DOMAIN q : q[i] = q[j] => i = j
  PROVE  q \in Seq(Tasks) /\ Once(q) /\ \A t : In(t, q) => t \in T
<1>1. PICK c \in Nat : c = Cardinality(S)
  <2>1. IsFiniteSet(SlotIds)
    BY ConstantsAssumption, FS_Interval DEF SlotIds
  <2> QED BY <2>1, FS_Subset, FS_CardinalityType
<1>2. q \in [1..c -> Tasks] /\ q \in [1..c -> T]
  BY <1>1
<1>3. q \in Seq(Tasks)
  BY <1>2, SeqDef
<1>4. Len(q) = c /\ DOMAIN q = 1..c
  BY <1>2, <1>3, LenProperties
<1>5. Once(q)
  BY <1>4 DEF Once
<1>6. ASSUME NEW t, In(t, q)
      PROVE  t \in T
  <2>1. PICK i \in 1..c : q[i] = t
    BY <1>4, <1>6 DEF In
  <2> QED BY <1>2, <2>1
<1> QED BY <1>3, <1>5, <1>6

\* A line of one.
LEMMA LineOfOne ==
  ASSUME NEW S, NEW x \in S
  PROVE  /\ << x >> \in Seq(S) /\ << x >> # << >> /\ Once(<< x >>)
         /\ Head(<< x >>) = x /\ Tail(<< x >>) = << >> /\ \A y : In(y, << x >>) <=> y = x
<1>1. << x >> \in Seq(S) /\ Len(<< x >>) = 1 /\ << x >>[1] = x /\ << x >> # << >>
      /\ Head(<< x >>) = x /\ Tail(<< x >>) = << >>
  OBVIOUS
<1> QED BY <1>1 DEF Once, In

LEMMA RetireAllKeeps ==
  ASSUME IInv, ready = << >>, NEW why \in {"expire", "revoke", "close"},
         NEW some, some \subseteq SlotIds, RetireAll(why, some),
         revoked' \subseteq Keys, closed' \in BOOLEAN, failed' \in BOOLEAN
  PROVE  IInv'
<1> DEFINE R == {why} \X some
           Takes0 == some \ {n \in some : slot[n].held}
<1>1. /\ R \subseteq Tasks /\ R \subseteq Retirements
      /\ \A t \in R : t[2] \in some /\ t = <<why, t[2]>>
      /\ \A n \in some : <<why, n>> \in R /\ <<why, n>> \in Tasks /\ <<why, n>>[2] = n
  BY DEF Tasks, Retirements
<1>2. /\ \A n \in some : pc[<<why, n>>] = "idle"
      /\ pc' = [t \in Tasks |-> IF t \in R THEN "retiring" ELSE pc[t]]
      /\ on' = [t \in Tasks |-> IF t \in R THEN t[2] ELSE on[t]]
      /\ slot' = [n \in SlotIds |->
           IF n \notin some THEN slot[n]
           ELSE [slot[n] EXCEPT !.retiring = TRUE, !.held = TRUE,
                   !.waiters = IF n \in {m \in some : slot[m].held}
                               THEN Append(@, <<why, n>>) ELSE @]]
      /\ ready' \in {q \in [1..Cardinality(Takes0) -> {why} \X Takes0] :
                       \A a, b \in DOMAIN q : q[a] = q[b] => a = b}
      /\ UNCHANGED <<slotAt, live, aborted>>
  BY DEF RetireAll
<1>3. PICK line : line = [n \in some |-> << <<why, n>> >>]
  OBVIOUS
<1>4. ASSUME NEW n \in some
      PROVE  /\ line[n] \in Seq(Tasks) /\ line[n] # << >> /\ Once(line[n])
             /\ Head(line[n]) = <<why, n>> /\ Tail(line[n]) = << >>
             /\ \A t : In(t, line[n]) <=> t = <<why, n>>
  <2>1. line[n] = << <<why, n>> >> /\ <<why, n>> \in Tasks
    BY <1>1, <1>3
  <2> QED BY <2>1, LineOfOne
<1>5. slot \in [SlotIds -> SlotRecords]
  BY DEF IInv, Types
<1>6. ASSUME NEW n \in some
      PROVE  /\ slot'[n] \in SlotRecords /\ slot'[n].refs = slot[n].refs /\ slot'[n].held
             /\ slot'[n].waiters =
                  slot[n].waiters \o (IF slot[n].held THEN line[n] ELSE Tail(line[n]))
  <2>1. slot[n] \in SlotRecords /\ slot[n].waiters \in Seq(Tasks) /\ <<why, n>> \in Tasks
    BY <1>1, <1>5 DEF SlotRecords
  <2>2. PICK m \in Seq(Tasks) :
          /\ m = IF slot[n].held THEN Append(slot[n].waiters, <<why, n>>) ELSE slot[n].waiters
          /\ m = slot[n].waiters \o (IF slot[n].held THEN line[n] ELSE Tail(line[n]))
    <3>1. CASE slot[n].held
      <4>1. Append(slot[n].waiters, <<why, n>>) \in Seq(Tasks)
        BY <2>1, AppendProperties
      <4>2. slot[n].waiters \o << <<why, n>> >> = Append(slot[n].waiters, <<why, n>>)
        BY <2>1, ConcatOne
      <4> QED BY <1>3, <3>1, <4>1, <4>2
    <3>2. CASE ~slot[n].held
      <4>1. Tail(line[n]) = << >>
        BY <1>4
      <4> QED BY <2>1, <3>2, <4>1, ConcatEmptySeq
    <3> QED BY <3>1, <3>2
  <2>3. slot'[n] = [slot[n] EXCEPT !.retiring = TRUE, !.held = TRUE, !.waiters = m]
    BY <1>2, <2>2
  <2>4. /\ slot'[n] \in SlotRecords /\ slot'[n].refs = slot[n].refs
        /\ slot'[n].held = TRUE /\ slot'[n].waiters = m
    BY <2>1, <2>3 DEF SlotRecords
  <2> QED BY <2>2, <2>4
<1>7. slot' \in [SlotIds -> SlotRecords] /\ \A n \in SlotIds \ some : slot'[n] = slot[n]
  <2>1. \A n \in SlotIds : slot'[n] \in SlotRecords
    BY <1>2, <1>5, <1>6
  <2> QED BY <1>2, <2>1
<1>8. /\ ready' \in Seq(Tasks) /\ Once(ready')
      /\ \A t \in Tasks : In(t, ready') => \E n \in some : ~slot[n].held /\ t = Head(line[n])
  <2>1. /\ ready' \in [1..Cardinality(Takes0) -> {why} \X Takes0]
        /\ \A i, j \in DOMAIN ready' : ready'[i] = ready'[j] => i = j
    BY <1>2
  <2>2. {why} \X Takes0 \subseteq Tasks /\ Takes0 \subseteq SlotIds
    BY <1>1
  <2>3. /\ ready' \in Seq(Tasks) /\ Once(ready')
        /\ \A t : In(t, ready') => t \in {why} \X Takes0
    BY <2>1, <2>2, QueueOf
  <2> QED BY <1>4, <2>3
<1>9. Started_Together(R, some, line)
  <2>1. ASSUME NEW t \in R
        PROVE  pc[t] = "idle" /\ t[2] \in some
    <3>1. t[2] \in some /\ t = <<why, t[2]>>
      BY <1>1
    <3>2. pc[<<why, t[2]>>] = "idle"
      BY <1>2, <3>1
    <3> QED BY <3>1, <3>2
  <2>2. ASSUME NEW n \in some, NEW t \in Tasks
        PROVE  In(t, line[n]) <=> t \in R /\ t[2] = n
    BY <1>1, <1>4
  <2> HIDE DEF R
  <2> QED BY <1>1, <1>2, <1>4, <1>6, <1>7, <1>8, <2>1, <2>2 DEF Started_Together
<1> QED BY <1>9, StartsKeep

LEMMA MappedAreSlots ==
  ASSUME IInv
  PROVE  Mapped \subseteq SlotIds
BY DEF IInv, Types, Mapped, Registered

LEMMA SweepKeeps ==
  ASSUME IInv,
         Expire \/ Close \/ (\E k \in Keys : RetireGrant(k) \/ Lapse(k))
  PROVE  IInv'
<1>1. revoked \subseteq Keys /\ closed \in BOOLEAN /\ failed \in BOOLEAN
  BY DEF IInv, Types
<1>2. CASE Expire
  <2>1. PICK due : due \subseteq Mapped /\ RetireAll("expire", due)
    BY <1>2 DEF Expire
  <2>2. ready = << >> /\ UNCHANGED <<revoked, closed, failed>> /\ due \subseteq SlotIds
    BY <1>2, <2>1, MappedAreSlots DEF Expire
  <2> QED BY <1>1, <2>1, <2>2, RetireAllKeeps
<1>3. CASE Close
  <2>1. /\ ready = << >> /\ closed' = TRUE /\ UNCHANGED <<revoked, failed>>
        /\ RetireAll("close", Mapped) /\ Mapped \subseteq SlotIds
    BY <1>3, MappedAreSlots DEF Close
  <2> QED BY <1>1, <2>1, RetireAllKeeps
<1>4. ASSUME NEW k \in Keys, RetireGrant(k)
      PROVE  IInv'
  <2>1. PICK some : some \subseteq Mapped /\ RetireAll("revoke", some)
    BY <1>4 DEF RetireGrant
  <2>2. /\ ready = << >> /\ revoked' = revoked \cup {k} /\ UNCHANGED <<closed, failed>>
        /\ some \subseteq SlotIds
    BY <1>4, <2>1, MappedAreSlots DEF RetireGrant
  <2> QED BY <1>1, <2>1, <2>2, RetireAllKeeps
<1>5. ASSUME NEW k \in Keys, Lapse(k)
      PROVE  IInv'
  <2>1. /\ revoked' = revoked \cup {k}
        /\ UNCHANGED <<slotAt, slot, pc, on, ready, live, aborted, closed, failed>>
    BY <1>5 DEF Lapse
  <2>2. LockInv'
    BY <2>1 DEF IInv, LockInv, PlacesInv, LinesInv, ReadyInv, LocksInv, Holds, Waits
  <2>3. RefsInv'
    BY <2>1 DEF IInv, RefsInv, Users
  <2> QED BY <2>1, <2>2, <2>3 DEF IInv, Types
<1> QED BY <1>2, <1>3, <1>4, <1>5

-----------------------------------------------------------------------------
(* The specification keeps the slots sound.                                *)

LEMMA InitIInv == Init => IInv
<1> SUFFICES ASSUME Init PROVE IInv
  OBVIOUS
<1>1. PICK k \in Keys : k = (CHOOSE l \in Keys : TRUE)
  BY ConstantsAssumption
<1>2. PICK none \in Seq(Tasks) : none = << >>
  BY EmptyFacts
<1>3. PICK new : new = NewSlot(k)
  OBVIOUS
<1>4. /\ new \in SlotRecords /\ new.refs = 0 /\ new.held = FALSE /\ new.waiters = << >>
  BY <1>2, <1>3 DEF NewSlot, SlotRecords
<1>5. slot \in [SlotIds -> {new}]
  BY <1>1, <1>3 DEF Init
<1>6. \A n \in SlotIds : slot[n] = new
  BY <1>5
<1>7. /\ \A t \in Tasks : pc[t] = "idle" /\ on[t] = None
      /\ pc \in [Tasks -> Awaits] /\ on \in [Tasks -> SlotIds \cup {None}]
      /\ ready = << >>
  BY DEF Init, Awaits
<1>8. None \notin SlotIds /\ Retirements \subseteq Tasks
  BY DEF None, SlotIds, Tasks
<1>9. PlacesInv
  BY <1>7, <1>8 DEF PlacesInv
<1>10. LinesInv
  BY <1>4, <1>6, EmptyFacts DEF LinesInv, Waits
<1>11. ReadyInv
  BY <1>7, EmptyFacts DEF ReadyInv
<1>12. LocksInv
  BY <1>4, <1>6, <1>7, <1>8 DEF LocksInv, Holds
<1>13. RefsInv
  <2>1. ASSUME NEW n \in SlotIds
        PROVE  slot[n].refs = Cardinality(Users(n))
    <3>1. Users(n) = {}
      BY <1>7, <1>8 DEF Users, Tasks
    <3> QED BY <1>4, <1>6, <3>1, FS_EmptySet
  <2> QED BY <2>1 DEF RefsInv
<1>14. Types
  BY <1>4, <1>5 DEF Types, Init
<1> QED BY <1>9, <1>10, <1>11, <1>12, <1>13, <1>14 DEF IInv, LockInv

LEMMA NextIInv == IInv /\ [Next]_vars => IInv'
<1> SUFFICES ASSUME IInv, [Next]_vars PROVE IInv'
  OBVIOUS
<1>1. ASSUME NEW r \in Requests, Arrive(r) \/ Retired(r)
      PROVE  IInv'
  BY <1>1, ArriveKeeps
<1>2. ASSUME NEW r \in Requests, Rejected(r)
      PROVE  IInv'
  BY <1>2, RejectedKeeps
<1>3. ASSUME NEW r \in Requests, Locked(r)
      PROVE  IInv'
  BY <1>3, LockedKeeps
<1>4. ASSUME NEW r \in Requests, Abort(r)
      PROVE  IInv'
  BY <1>4, AbortKeeps
<1>5. ASSUME NEW r \in Requests, Answer(r)
      PROVE  IInv'
  BY <1>5, AnswerKeeps
<1>6. ASSUME NEW t \in Tasks, RetireLocked(t) \/ WorkerClosed(t) \/ CloseFails(t)
      PROVE  IInv'
  BY <1>6, RetirementKeeps
<1>7. CASE Expire \/ Close \/ (\E k \in Keys : RetireGrant(k) \/ Lapse(k))
  BY <1>7, SweepKeeps
<1>8. CASE UNCHANGED vars
  <2>1. LockInv'
    BY <1>8 DEF vars, IInv, LockInv, PlacesInv, LinesInv, ReadyInv, LocksInv, Holds, Waits
  <2>2. RefsInv'
    BY <1>8 DEF vars, IInv, RefsInv, Users
  <2> QED BY <1>8, <2>1, <2>2 DEF vars, IInv, Types
<1> QED BY <1>1, <1>2, <1>3, <1>4, <1>5, <1>6, <1>7, <1>8 DEF Next, Continuation

\* The strengthening says at least what the invariant says.
LEMMA IInvImplies == IInv => SlotsInvariant
<1> SUFFICES ASSUME IInv PROVE SlotsInvariant
  OBVIOUS
<1>1. Cardinality(Requests) \in Nat
  BY ConstantsAssumption, FS_CardinalityType
<1>2. TypeOK
  <2>1. ASSUME NEW n \in SlotIds
        PROVE  /\ slot[n].key \in Keys /\ slot[n].refs \in 0..Cardinality(Requests)
               /\ slot[n].retiring \in BOOLEAN /\ slot[n].worker \in BOOLEAN
               /\ slot[n].held \in BOOLEAN /\ slot[n].waiters \in Seq(Tasks)
    <3>1. slot[n] \in SlotRecords
      BY DEF IInv, Types
    <3>2. slot[n].refs \in 0..Cardinality(Requests)
      <4>1. PICK u : u = Cardinality(Users(n))
        OBVIOUS
      <4>2. u \in Nat /\ u <= Cardinality(Requests) /\ slot[n].refs = u
        BY <4>1, UsersFinite DEF IInv, RefsInv
      <4> QED BY <1>1, <4>2
    <3> QED BY <3>1, <3>2 DEF SlotRecords
  <2> QED BY <2>1 DEF TypeOK, IInv, Types, LockInv, PlacesInv, ReadyInv
<1>3. OneHolder
  <2>1. ASSUME NEW n \in SlotIds
        PROVE  Cardinality({t \in Tasks : on[t] = n /\ pc[t] \in Working} \ Waiting(n))
                 = IF slot[n].held THEN 1 ELSE 0
    <3>1. \A t : t \in Waiting(n) <=> Waits(t, n)
      BY DEF Waiting, Waits, In
    <3>2. PICK H : H = {t \in Tasks : on[t] = n /\ pc[t] \in Working} \ Waiting(n)
      OBVIOUS
    <3>3. \A t : t \in H <=> t \in Tasks /\ Holds(t, n)
      BY <3>1, <3>2 DEF Holds
    <3>4. CASE slot[n].held
      <4>1. PICK t \in Tasks : Holds(t, n)
        BY <3>4 DEF IInv, LockInv, LocksInv
      <4>2. H = {t}
        BY <3>3, <4>1 DEF IInv, LockInv, LocksInv
      <4> QED BY <3>2, <3>4, <4>2, FS_Singleton
    <3>5. CASE ~slot[n].held
      <4>1. H = {}
        BY <3>3, <3>5 DEF IInv, LockInv, LocksInv
      <4> QED BY <3>2, <3>5, <4>1, FS_EmptySet
    <3> QED BY <3>4, <3>5
  <2> QED BY <2>1 DEF OneHolder
<1>4. ReferencesCount
  BY DEF ReferencesCount, IInv, RefsInv, Users
<1> QED BY <1>2, <1>3, <1>4 DEF SlotsInvariant

\* Whatever requests come, abort, fail or race a retirement, a slot's lock has
\* one holder while it is held and none otherwise, and its references are the
\* requests on it.
THEOREM SlotsAreSound == Spec => []SlotsInvariant
<1>1. Init => IInv
  BY InitIInv
<1>2. IInv /\ [Next]_vars => IInv'
  BY NextIInv
<1>3. IInv => SlotsInvariant
  BY IInvImplies
<1> QED BY <1>1, <1>2, <1>3, PTL DEF Spec

-----------------------------------------------------------------------------
(* Who gets a lease.                                                       *)

\* A step that is not the hand-out of a worker to r leaves r without one.
LEMMA OnlyByHandOut ==
  ASSUME IInv, [Next]_vars, NEW r \in Requests, pc[r] # "leased", pc'[r] = "leased"
  PROVE  Locked(r) \/ Started(r) \/ \E ok \in BOOLEAN : Renewed(r, ok)
<1>1. r \in Tasks /\ pc \in [Tasks -> Awaits] /\ Requests \subseteq Tasks
  BY DEF Tasks, IInv, LockInv, PlacesInv
<1>2. ASSUME NEW t \in Tasks, NEW p, p # "leased" \/ t # r, pc' = [pc EXCEPT ![t] = p]
      PROVE  FALSE
  BY <1>1, <1>2
<1>3. ASSUME UNCHANGED pc
      PROVE  FALSE
  BY <1>3
<1>4. ASSUME NEW u \in Requests, FindOrCreate(u) \/ Refuse(u)
      PROVE  FALSE
  <2>1. PICK p \in {"idle", "rejected", "locking"} : pc' = [pc EXCEPT ![u] = p]
    BY <1>4 DEF FindOrCreate, Refuse, Join, Goto
  <2> QED BY <1>1, <1>2, <2>1
<1>5. ASSUME NEW u \in Requests, Arrive(u) \/ Retired(u)
      PROVE  FALSE
  <2>1. CASE \E n : AskToRetire(u, n)
    BY <1>1, <1>2, <2>1 DEF AskToRetire
  <2>2. CASE FindOrCreate(u) \/ Refuse(u)
    BY <1>4, <2>2
  <2> QED BY <1>5, <2>1, <2>2 DEF Arrive, Retired
<1>6. ASSUME NEW u \in Requests, Abort(u) \/ Rejected(u)
      PROVE  FALSE
  BY <1>1, <1>2, <1>3, <1>6 DEF Abort, Rejected, Goto
<1>7. ASSUME NEW u \in Requests, u # r, Locked(u)
      PROVE  FALSE
  <2>1. PICK p : pc' = [pc EXCEPT ![u] = p]
    BY <1>7 DEF Locked, Leave, Goto
  <2> QED BY <1>1, <1>2, <1>7, <2>1
<1>8. ASSUME NEW u \in Requests, Answer(u)
      PROVE  u = r /\ (Started(r) \/ \E ok \in BOOLEAN : Renewed(r, ok))
  <2>1. CASE StartFails(u) \/ Release(u) \/ \E ok \in BOOLEAN : CleanedUp(u, ok)
    <3>1. pc' = [pc EXCEPT ![u] = "idle"]
      BY <2>1 DEF StartFails, Release, CleanedUp, Leave, Goto
    <3> QED BY <1>1, <1>2, <3>1
  <2>2. CASE Started(u) \/ \E ok \in BOOLEAN : Renewed(u, ok)
    <3>1. PICK p : pc' = [pc EXCEPT ![u] = p]
      BY <2>2 DEF Started, Renewed, Leave, Goto
    <3>2. u = r
      BY <1>1, <1>2, <3>1
    <3> QED BY <2>2, <3>2
  <2> QED BY <1>8, <2>1, <2>2 DEF Answer
<1>9. ASSUME NEW t \in Tasks, RetireLocked(t) \/ WorkerClosed(t) \/ CloseFails(t)
      PROVE  FALSE
  <2>1. PICK p \in {"closing", "retired", "idle"} : pc' = [pc EXCEPT ![t] = p]
    BY <1>9 DEF RetireLocked, WorkerClosed, CloseFails, EndRetire, Goto
  <2> QED BY <1>2, <2>1
<1>10. ASSUME NEW why, NEW some, RetireAll(why, some)
       PROVE  FALSE
  BY <1>1, <1>10 DEF RetireAll
<1>11. ASSUME Expire \/ Close \/ (\E k \in Keys : RetireGrant(k) \/ Lapse(k))
       PROVE  FALSE
  BY <1>3, <1>10, <1>11 DEF Expire, Close, RetireGrant, Lapse
<1>12. CASE UNCHANGED vars
  BY <1>3, <1>12 DEF vars
<1> QED BY <1>5, <1>6, <1>7, <1>8, <1>9, <1>11, <1>12 DEF Next, Continuation

LEMMA HandOutIsPermitted ==
  ASSUME IInv, [Next]_vars, NEW r \in Requests, pc[r] # "leased", pc'[r] = "leased"
  PROVE  /\ KeyOf[r] \notin revoked /\ r \notin aborted
         /\ pc[r] # "renewing" => ~closed /\ ~slot'[on[r]].retiring
<1>1. r \in Tasks /\ pc \in [Tasks -> Awaits] /\ r \notin Retirements
  BY RequestsAreTasks DEF IInv, LockInv, PlacesInv
<1>2. ~Leave(r, slot[on[r]])
  BY <1>1 DEF Leave, Goto
<1>3. CASE Locked(r)
  <2>1. ~Unfit(r) /\ slot' = slot
    BY <1>2, <1>3 DEF Locked
  <2> QED BY <2>1 DEF Unfit, Barred
<1>4. CASE Started(r)
  <2>1. ~Unfit(r)
    <3>1. Unfit(r) => pc' = [pc EXCEPT ![r] = "cleanup"]
      BY <1>4 DEF Started, Goto
    <3> QED BY <1>1, <3>1
  <2>2. on[r] \in SlotIds /\ slot[on[r]] \in SlotRecords /\ slot \in [SlotIds -> SlotRecords]
    <3>1. pc[r] = "starting"
      BY <1>4 DEF Started, Ends
    <3> QED BY <1>1, <3>1 DEF IInv, Types, LockInv, PlacesInv
  <2>3. ~slot[on[r]].retiring
    BY <2>1 DEF Unfit
  <2>4. ~slot'[on[r]].retiring
    BY <1>4, <2>1, <2>2, <2>3 DEF Started, SlotRecords
  <2> QED BY <2>1, <2>4 DEF Unfit, Barred
<1>5. CASE \E ok \in BOOLEAN : Renewed(r, ok)
  <2>1. pc[r] = "renewing" /\ r \notin aborted /\ KeyOf[r] \notin revoked
    BY <1>2, <1>5 DEF Renewed, Ends
  <2> QED BY <2>1
<1> QED BY <1>3, <1>4, <1>5, OnlyByHandOut

\* A worker handed out is for a grant in force and a request still there; when
\* it comes from the queue or a start, the registry is open and the slot stays.
THEOREM LeasesArePermitted == Spec => LeaseIsPermitted
<1>1. Init => IInv
  BY InitIInv
<1>2. IInv /\ [Next]_vars => IInv'
  BY NextIInv
<1>3. IInv /\ [Next]_vars =>
        [\A r \in Requests : pc[r] # "leased" /\ pc'[r] = "leased" =>
           /\ KeyOf[r] \notin revoked /\ r \notin aborted
           /\ pc[r] # "renewing" => ~closed /\ ~slot'[on[r]].retiring]_vars
  <2> SUFFICES ASSUME IInv, [Next]_vars, NEW r \in Requests,
                      pc[r] # "leased", pc'[r] = "leased"
               PROVE  /\ KeyOf[r] \notin revoked /\ r \notin aborted
                      /\ pc[r] # "renewing" => ~closed /\ ~slot'[on[r]].retiring
    OBVIOUS
  <2> QED BY HandOutIsPermitted
<1> QED BY <1>1, <1>2, <1>3, PTL DEF Spec, LeaseIsPermitted

-----------------------------------------------------------------------------
(* The slots under sessions: fetches, removals and the shutdown.           *)

\* What a fetch may await.
Fetching == {"none", "resolving", "pruning", "connecting", "initializing", "calling", "called"}

\* The request that opens its session, and has it to itself meanwhile.
Opens(r) == \/ fetch[r] \in {"pruning", "connecting", "initializing"}
            \/ fetch[r] = "resolving" /\ KeyOf[r] \notin made

FetchInv ==
  /\ fetch \in [Requests -> Fetching]
  /\ sessions \subseteq made /\ made \subseteq Keys
  /\ \A r \in Requests :
       /\ pc[r] # "idle" => fetch[r] = "called"
       /\ fetch[r] = "pruning" => KeyOf[r] \notin made
       /\ fetch[r] \in {"connecting", "initializing", "calling", "called"} => KeyOf[r] \in made
       /\ Opens(r) => \A o \in Requests \ {r} : KeyOf[o] = KeyOf[r] => fetch[o] = "none"

\* A retirement is of its own slot; it began with the end of the session, or
\* with the shutdown, and either comes once.
RetireesInv ==
  /\ \A t \in Retirements : on[t] \in {None, t[2]}
  /\ \A n \in SlotIds : pc[<<"revoke", n>>] # "idle" => slot[n].key \in made \ sessions
  /\ ~closed => \A n \in SlotIds : pc[<<"close", n>>] = "idle"

BInv == IInv /\ FetchInv /\ RetireesInv

\* A step of one task, which may use a slot object anew.
OnlyOne(t) ==
  /\ \A u \in Tasks \ {t} : pc'[u] = pc[u] /\ on'[u] = on[u]
  /\ t \in Retirements => pc[t] # "idle" /\ on'[t] \in {on[t], None}
  /\ \A n \in SlotIds \ Unused : slot'[n].key = slot[n].key
  /\ UNCHANGED <<revoked, closed>>

LEMMA OneWrites ==
  ASSUME IInv, NEW t \in Tasks, NEW p, NEW m, NEW n \in SlotIds, NEW s,
         pc' = [pc EXCEPT ![t] = p], on' = [on EXCEPT ![t] = m],
         slot' = [slot EXCEPT ![n] = s], s.key = slot[n].key \/ n \in Unused,
         t \in Retirements => pc[t] # "idle" /\ m \in {on[t], None},
         UNCHANGED <<revoked, closed>>
  PROVE  OnlyOne(t)
BY DEF OnlyOne, IInv, Types, LockInv, PlacesInv

LEMMA OneSits ==
  ASSUME IInv, NEW t \in Tasks, NEW p, pc' = [pc EXCEPT ![t] = p], on' = on,
         \A n \in SlotIds : slot'[n].key = slot[n].key,
         t \in Retirements => pc[t] # "idle",
         UNCHANGED <<revoked, closed>>
  PROVE  OnlyOne(t)
BY DEF OnlyOne, IInv, Types, LockInv, PlacesInv

LEMMA OneLeaves ==
  ASSUME IInv, NEW r \in Requests, NEW s, Leave(r, s), on[r] \in SlotIds, s \in SlotRecords,
         s.key = slot[on[r]].key, UNCHANGED <<revoked, closed>>
  PROVE  OnlyOne(r)
<1>1. r \in Tasks /\ r \notin Retirements
  BY RequestsAreTasks
<1>2. PICK left : left = Dropped(Released(s))
  OBVIOUS
<1>3. left.key = slot[on[r]].key
  BY <1>2, ReleasedFacts
<1>4. /\ slot' = [slot EXCEPT ![on[r]] = left] /\ pc' = [pc EXCEPT ![r] = "idle"]
      /\ on' = [on EXCEPT ![r] = None]
  BY <1>2 DEF Leave, Goto
<1> QED BY <1>1, <1>3, <1>4, OneWrites

LEMMA OneEnds ==
  ASSUME IInv, NEW t \in Tasks, NEW s, EndRetire(t, s), on[t] \in SlotIds, s \in SlotRecords,
         s.key = slot[on[t]].key, pc[t] # "idle", UNCHANGED <<revoked, closed>>
  PROVE  OnlyOne(t)
<1>1. PICK left : left = Released(s)
  OBVIOUS
<1>2. left.key = slot[on[t]].key
  BY <1>1, ReleasedFacts
<1>3. PICK p : /\ slot' = [slot EXCEPT ![on[t]] = left] /\ pc' = [pc EXCEPT ![t] = p]
               /\ on' = [on EXCEPT ![t] = None]
  BY <1>1 DEF EndRetire, Goto
<1> QED BY <1>2, <1>3, OneWrites

LEMMA OneJoins ==
  ASSUME IInv, NEW r \in Requests, NEW n \in SlotIds, NEW s, Join(r, n, s), s \in SlotRecords,
         s.key = slot[n].key \/ n \in Unused, UNCHANGED <<revoked, closed>>
  PROVE  OnlyOne(r)
<1>1. r \in Tasks /\ r \notin Retirements
  BY RequestsAreTasks
<1>2. PICK counted : counted = [s EXCEPT !.refs = @ + 1]
  OBVIOUS
<1>3. counted \in SlotRecords /\ counted.key = s.key
  BY <1>2 DEF SlotRecords
<1>4. on' = [on EXCEPT ![r] = n] /\ \E p : pc' = [pc EXCEPT ![r] = p]
  BY DEF Join, Goto
<1>5. PICK x : slot' = [slot EXCEPT ![n] = x] /\ x.key = s.key
  <2>1. CASE r \in aborted
    BY <1>2, <1>3, <2>1 DEF Join
  <2>2. CASE r \notin aborted /\ s.held
    <3>1. slot' = [slot EXCEPT ![n] = [counted EXCEPT !.waiters = Append(@, r)]]
      BY <1>2, <2>2 DEF Join
    <3>2. [counted EXCEPT !.waiters = Append(@, r)].key = counted.key
      BY <1>3 DEF SlotRecords
    <3> QED BY <1>3, <3>1, <3>2
  <2>3. CASE r \notin aborted /\ ~s.held
    <3>1. slot' = [slot EXCEPT ![n] = [counted EXCEPT !.held = TRUE]]
      BY <1>2, <2>3 DEF Join
    <3>2. [counted EXCEPT !.held = TRUE].key = counted.key
      BY <1>3 DEF SlotRecords
    <3> QED BY <1>3, <3>1, <3>2
  <2> QED BY <2>1, <2>2, <2>3
<1> QED BY <1>1, <1>4, <1>5, OneWrites

LEMMA NewSlotTypes ==
  ASSUME NEW k \in Keys
  PROVE  /\ NewSlot(k) \in SlotRecords /\ NewSlot(k).key = k
         /\ NewSlot(k).retiring = FALSE /\ NewSlot(k).worker = FALSE
<1>1. PICK none \in Seq(Tasks) : none = << >>
  BY EmptyFacts
<1>2. NewSlot(k) = [key |-> k, refs |-> 0, retiring |-> FALSE, worker |-> FALSE,
                    held |-> FALSE, waiters |-> none]
  BY <1>1 DEF NewSlot
<1> QED BY <1>2 DEF SlotRecords

LEMMA OneArrives ==
  ASSUME IInv, NEW r \in Requests, Arrive(r) \/ Retired(r)
  PROVE  OnlyOne(r)
<1>1. /\ r \in Tasks /\ r \notin Retirements /\ KeyOf[r] \in Keys
      /\ UNCHANGED <<revoked, closed>>
  BY RequestsAreTasks, ConstantsAssumption DEF Arrive, Retired
<1>2. slot \in [SlotIds -> SlotRecords] /\ slotAt[KeyOf[r]] \in SlotIds \cup {None}
  BY <1>1 DEF IInv, Types
<1>3. CASE Refuse(r)
  <2>1. pc' = [pc EXCEPT ![r] = "idle"] /\ on' = [on EXCEPT ![r] = None] /\ slot' = slot
    BY <1>3 DEF Refuse, Goto
  <2> QED BY <1>1, <2>1 DEF OnlyOne, IInv, LockInv, PlacesInv
<1>4. CASE FindOrCreate(r) /\ ~Refuse(r)
  <2>1. CASE slotAt[KeyOf[r]] # None
    <3>1. PICK n \in SlotIds : Join(r, n, slot[n])
      BY <1>2, <1>4, <2>1 DEF FindOrCreate
    <3> QED BY <1>1, <1>2, <3>1, OneJoins
  <2>2. CASE slotAt[KeyOf[r]] = None
    <3>1. Join(r, Fresh, NewSlot(KeyOf[r])) /\ Unused # {}
      BY <1>4, <2>2 DEF FindOrCreate
    <3>2. Fresh \in Unused /\ Fresh \in SlotIds
      BY <3>1, FreshFacts DEF Unused
    <3>3. NewSlot(KeyOf[r]) \in SlotRecords
      BY <1>1, NewSlotTypes
    <3> QED BY <1>1, <3>1, <3>2, <3>3, OneJoins
  <2> QED BY <2>1, <2>2
<1>5. ASSUME NEW n \in SlotIds, AskToRetire(r, n)
      PROVE  OnlyOne(r)
  <2>1. pc' = [pc EXCEPT ![r] = "retiring"] /\ on' = [on EXCEPT ![r] = n]
    BY <1>5 DEF AskToRetire
  <2>2. PICK s : slot' = [slot EXCEPT ![n] = s] /\ s.key = slot[n].key
    <3>1. CASE slot[n].held
      <4>1. slot' = [slot EXCEPT ![n] = [slot[n] EXCEPT !.waiters = Append(@, r)]]
        BY <1>2, <1>5, <3>1 DEF AskToRetire
      <4>2. [slot[n] EXCEPT !.waiters = Append(@, r)].key = slot[n].key
        BY <1>2 DEF SlotRecords
      <4> QED BY <4>1, <4>2
    <3>2. CASE ~slot[n].held
      <4>1. slot' = [slot EXCEPT ![n] = [slot[n] EXCEPT !.held = TRUE]]
        BY <1>2, <1>5, <3>2 DEF AskToRetire
      <4>2. [slot[n] EXCEPT !.held = TRUE].key = slot[n].key
        BY <1>2 DEF SlotRecords
      <4> QED BY <4>1, <4>2
    <3> QED BY <3>1, <3>2
  <2> QED BY <1>1, <2>1, <2>2, OneWrites
<1>6. CASE Arrive(r)
  <2>1. CASE slotAt[KeyOf[r]] # None /\ slot[slotAt[KeyOf[r]]].retiring
    BY <1>2, <1>5, <1>6, <2>1 DEF Arrive
  <2>2. CASE ~(slotAt[KeyOf[r]] # None /\ slot[slotAt[KeyOf[r]]].retiring)
    BY <1>3, <1>4, <1>6, <2>2 DEF Arrive
  <2> QED BY <2>1, <2>2
<1>7. CASE Retired(r)
  BY <1>3, <1>4, <1>7 DEF Retired
<1> QED BY <1>6, <1>7

LEMMA OneTask ==
  ASSUME IInv, NEW t \in Tasks,
         \/ t \in Requests /\ (Rejected(t) \/ Locked(t) \/ Abort(t) \/ Answer(t))
         \/ RetireLocked(t) \/ WorkerClosed(t)
  PROVE  OnlyOne(t)
<1>1. slot \in [SlotIds -> SlotRecords] /\ UNCHANGED <<revoked, closed>>
  BY DEF IInv, Types, Rejected, Locked, Abort, Answer, Started, StartFails, Release, CleanedUp,
         Renewed, RetireLocked, WorkerClosed
<1>2. t \in Requests => t \notin Retirements
  BY RequestsAreTasks
<1>3. pc[t] \notin {"idle", "retired"} => on[t] \in SlotIds
  BY DEF IInv, LockInv, PlacesInv
<1>4. CASE t \in Requests /\ Rejected(t)
  <2>1. on[t] \in SlotIds
    BY <1>3, <1>4 DEF Rejected, Runs
  <2>2. PICK left : left = Dropped(slot[on[t]])
    OBVIOUS
  <2>3. left.key = slot[on[t]].key
    BY <1>1, <2>1, <2>2, ReleasedFacts
  <2>4. /\ slot' = [slot EXCEPT ![on[t]] = left] /\ pc' = [pc EXCEPT ![t] = "idle"]
        /\ on' = [on EXCEPT ![t] = None]
    BY <1>4, <2>2 DEF Rejected, Goto
  <2> QED BY <1>1, <1>2, <1>4, <2>1, <2>3, <2>4, OneWrites
<1>5. CASE t \in Requests /\ Locked(t)
  <2>1. on[t] \in SlotIds
    BY <1>3, <1>5 DEF Locked, Runs
  <2>2. CASE Unfit(t)
    <3>1. Leave(t, slot[on[t]]) /\ slot[on[t]] \in SlotRecords
      BY <1>1, <1>5, <2>1, <2>2 DEF Locked
    <3> QED BY <1>1, <1>5, <2>1, <3>1, OneLeaves
  <2>3. CASE ~Unfit(t)
    <3>1. PICK p : pc' = [pc EXCEPT ![t] = p] /\ slot' = slot /\ on' = on
      BY <1>5, <2>3 DEF Locked, Goto
    <3> QED BY <1>1, <1>2, <1>5, <3>1, OneSits
  <2> QED BY <2>2, <2>3
<1>6. CASE t \in Requests /\ Abort(t)
  <2>1. CASE pc[t] = "locking"
    <3>1. PICK line : line = Without(slot[on[t]].waiters, t)
      OBVIOUS
    <3>2. on[t] \in SlotIds
      BY <1>3, <2>1
    <3>3. /\ slot' = [slot EXCEPT ![on[t]] = [slot[on[t]] EXCEPT !.waiters = line]]
          /\ pc' = [pc EXCEPT ![t] = "rejected"] /\ on' = on
      BY <1>1, <1>6, <2>1, <3>1, <3>2 DEF Abort, Goto
    <3>4. \A n \in SlotIds : slot'[n].key = slot[n].key
      BY <1>1, <3>2, <3>3 DEF SlotRecords
    <3> QED BY <1>1, <1>2, <1>6, <3>3, <3>4, OneSits
  <2>2. CASE pc[t] # "locking"
    <3>1. slot' = slot /\ pc' = pc /\ on' = on
      BY <1>6, <2>2 DEF Abort
    <3> QED BY <1>1, <1>2, <1>6, <3>1 DEF OnlyOne
  <2> QED BY <2>1, <2>2
<1>7. CASE t \in Requests /\ Answer(t)
  <2>1. on[t] \in SlotIds /\ slot[on[t]] \in SlotRecords
    BY <1>1, <1>3, <1>7 DEF Answer, Started, StartFails, Release, CleanedUp, Renewed, Ends
  <2>2. ASSUME NEW w \in BOOLEAN
        PROVE  /\ [slot[on[t]] EXCEPT !.worker = w] \in SlotRecords
               /\ [slot[on[t]] EXCEPT !.worker = w].key = slot[on[t]].key
    BY <2>1 DEF SlotRecords
  <2>3. CASE StartFails(t) \/ Release(t)
    <3>1. Leave(t, slot[on[t]])
      BY <2>3 DEF StartFails, Release
    <3> QED BY <1>1, <1>7, <2>1, <3>1, OneLeaves
  <2>4. ASSUME NEW ok \in BOOLEAN, CleanedUp(t, ok)
        PROVE  OnlyOne(t)
    <3>1. Leave(t, [slot[on[t]] EXCEPT !.worker = ~ok])
      BY <2>4 DEF CleanedUp
    <3> QED BY <1>1, <1>7, <2>1, <2>2, <3>1, OneLeaves
  <2>5. ASSUME NEW ok \in BOOLEAN, Renewed(t, ok)
        PROVE  OnlyOne(t)
    <3>1. CASE Leave(t, slot[on[t]])
      BY <1>1, <1>7, <2>1, <3>1, OneLeaves
    <3>2. CASE ~Leave(t, slot[on[t]])
      <4>1. pc' = [pc EXCEPT ![t] = "leased"] /\ slot' = slot /\ on' = on
        BY <2>5, <3>2 DEF Renewed, Goto
      <4> QED BY <1>1, <1>2, <1>7, <4>1, OneSits
    <3> QED BY <3>1, <3>2
  <2>6. CASE Started(t)
    <3>1. PICK p : pc' = [pc EXCEPT ![t] = p] /\ on' = on
      BY <2>6 DEF Started, Goto
    <3>2. \A n \in SlotIds : slot'[n].key = slot[n].key
      BY <1>1, <2>1, <2>6 DEF Started, SlotRecords
    <3> QED BY <1>1, <1>2, <1>7, <3>1, <3>2, OneSits
  <2> QED BY <1>7, <2>3, <2>4, <2>5, <2>6 DEF Answer
<1>8. CASE RetireLocked(t)
  <2>1. pc[t] = "retiring" /\ on[t] \in SlotIds /\ slot[on[t]] \in SlotRecords
    BY <1>1, <1>3, <1>8 DEF RetireLocked, Runs
  <2>2. CASE slot[on[t]].worker
    <3>1. pc' = [pc EXCEPT ![t] = "closing"] /\ slot' = slot /\ on' = on
      BY <1>8, <2>2 DEF RetireLocked, Goto
    <3> QED BY <1>1, <2>1, <3>1, OneSits
  <2>3. CASE ~slot[on[t]].worker
    <3>1. EndRetire(t, slot[on[t]])
      BY <1>8, <2>3 DEF RetireLocked
    <3> QED BY <1>1, <2>1, <3>1, OneEnds
  <2> QED BY <2>2, <2>3
<1>9. CASE WorkerClosed(t)
  <2>1. pc[t] = "closing" /\ on[t] \in SlotIds /\ slot[on[t]] \in SlotRecords
    BY <1>1, <1>3, <1>9 DEF WorkerClosed, Ends
  <2>2. PICK s : s = [slot[on[t]] EXCEPT !.worker = FALSE]
    OBVIOUS
  <2>3. s \in SlotRecords /\ s.key = slot[on[t]].key /\ EndRetire(t, s)
    BY <1>9, <2>1, <2>2 DEF SlotRecords, WorkerClosed
  <2> QED BY <1>1, <2>1, <2>3, OneEnds
<1> QED BY <1>4, <1>5, <1>6, <1>7, <1>8, <1>9

\* Retirements R start, and the slots in some are marked.
Marks(R, some) ==
  /\ R \subseteq Retirements /\ some \subseteq SlotIds
  /\ \A t \in R : pc[t] = "idle" /\ t[2] \in some
  /\ \A t \in R : pc'[t] = "retiring" /\ on'[t] = t[2]
  /\ \A t \in Tasks \ R : pc'[t] = pc[t] /\ on'[t] = on[t]
  /\ \A n \in SlotIds :
       /\ slot'[n].key = slot[n].key /\ slot'[n].refs = slot[n].refs
       /\ slot'[n].worker = slot[n].worker
       /\ slot'[n].retiring = (slot[n].retiring \/ n \in some)
  /\ UNCHANGED <<slotAt, live, aborted>>

LEMMA RetireAllMarks ==
  ASSUME IInv, NEW why \in {"expire", "revoke", "close"}, NEW some, some \subseteq SlotIds,
         RetireAll(why, some)
  PROVE  Marks({why} \X some, some)
<1> DEFINE R == {why} \X some
<1>1. /\ R \subseteq Retirements /\ R \subseteq Tasks
      /\ \A t \in R : t[2] \in some /\ t = <<why, t[2]>>
  BY DEF Retirements, Tasks
<1>2. /\ \A n \in some : pc[<<why, n>>] = "idle"
      /\ pc' = [t \in Tasks |-> IF t \in R THEN "retiring" ELSE pc[t]]
      /\ on' = [t \in Tasks |-> IF t \in R THEN t[2] ELSE on[t]]
      /\ UNCHANGED <<slotAt, live, aborted>>
  BY DEF RetireAll
<1>3. ASSUME NEW n \in SlotIds
      PROVE  /\ slot'[n].key = slot[n].key /\ slot'[n].refs = slot[n].refs
             /\ slot'[n].worker = slot[n].worker
             /\ slot'[n].retiring = (slot[n].retiring \/ n \in some)
  <2>1. slot[n] \in SlotRecords /\ slot[n].retiring \in BOOLEAN
    BY DEF IInv, Types, SlotRecords
  <2>2. CASE n \notin some
    <3>1. slot'[n] = slot[n]
      BY <2>2 DEF RetireAll
    <3> QED BY <2>1, <2>2, <3>1
  <2>3. CASE n \in some
    <3>1. PICK line : slot'[n] = [slot[n] EXCEPT !.retiring = TRUE, !.held = TRUE,
                                                 !.waiters = line]
      BY <2>3 DEF RetireAll
    <3> QED BY <2>1, <2>3, <3>1 DEF SlotRecords
  <2> QED BY <2>2, <2>3
<1>4. ASSUME NEW t \in R
      PROVE  /\ pc[t] = "idle" /\ t[2] \in some
             /\ pc'[t] = "retiring" /\ on'[t] = t[2]
  <2>1. t = <<why, t[2]>> /\ t[2] \in some /\ t \in Tasks
    BY <1>1
  <2>2. pc[<<why, t[2]>>] = "idle"
    BY <1>2, <2>1
  <2> QED BY <1>2, <2>1, <2>2
<1>5. \A t \in Tasks \ R : pc'[t] = pc[t] /\ on'[t] = on[t]
  BY <1>2
<1> QED BY <1>1, <1>2, <1>3, <1>4, <1>5 DEF Marks

LEMMA LineOfTwo ==
  ASSUME NEW S, NEW x \in S, NEW y \in S, x # y
  PROVE  /\ << x, y >> \in Seq(S) /\ << x, y >> # << >> /\ Once(<< x, y >>)
         /\ Head(<< x, y >>) = x /\ Tail(<< x, y >>) = << y >>
         /\ \A z : In(z, << x, y >>) <=> z \in {x, y}
<1>1. /\ << x, y >> \in Seq(S) /\ Len(<< x, y >>) = 2 /\ << x, y >> # << >>
      /\ << x, y >>[1] = x /\ << x, y >>[2] = y
      /\ Head(<< x, y >>) = x /\ Tail(<< x, y >>) = << y >>
  OBVIOUS
<1>2. \A i \in 1..2 : i = 1 \/ i = 2
  OBVIOUS
<1>3. 1 \in 1..2 /\ 2 \in 1..2
  OBVIOUS
<1> QED BY <1>1, <1>2, <1>3 DEF Once, In

\* Who is retired by a shutdown.
Both == ({"revoke"} \X SlotsOf(sessions)) \cup ({"close"} \X Mapped)

LEMMA EndingFacts ==
  ASSUME IInv, NEW n \in Mapped
  PROVE  /\ n \in SlotIds /\ Ending(n) \in Seq(Tasks) /\ Ending(n) # << >> /\ Once(Ending(n))
         /\ Head(Ending(n)) \in Tasks /\ Tail(Ending(n)) \in Seq(Tasks)
         /\ \A t \in Tasks : In(t, Ending(n)) <=> t \in Both /\ t[2] = n
<1>1. n \in SlotIds /\ \A why \in {"revoke", "close"} : <<why, n>> \in Tasks
  BY MappedAreSlots DEF Tasks, Retirements
<1>2. PICK x \in Tasks, y \in Tasks : x = <<"revoke", n>> /\ y = <<"close", n>> /\ x # y
  BY <1>1
<1>3. \A t : t \in Both /\ t[2] = n <=> t = y \/ (t = x /\ slot[n].key \in sessions)
  <2>1. ASSUME NEW t, t \in Both, t[2] = n
        PROVE  t = y \/ (t = x /\ slot[n].key \in sessions)
    BY <1>2, <2>1 DEF Both, SlotsOf
  <2>2. y \in Both /\ y[2] = n
    BY <1>2 DEF Both
  <2>3. slot[n].key \in sessions => x \in Both /\ x[2] = n
    BY <1>2 DEF Both, SlotsOf
  <2> QED BY <2>1, <2>2, <2>3
<1>4. CASE slot[n].key \in sessions
  <2>1. Ending(n) = << x, y >>
    BY <1>2, <1>4 DEF Ending
  <2>2. /\ << x, y >> \in Seq(Tasks) /\ << x, y >> # << >> /\ Once(<< x, y >>)
        /\ Head(<< x, y >>) = x /\ Tail(<< x, y >>) = << y >>
        /\ \A z : In(z, << x, y >>) <=> z \in {x, y}
    <3>1. PICK S : S = Tasks
      OBVIOUS
    <3>2. x \in S /\ y \in S /\ x # y
      BY ONLY <1>2, <3>1
    <3> QED BY ONLY <3>1, <3>2, LineOfTwo
  <2>3. << y >> \in Seq(Tasks)
    OBVIOUS
  <2> QED BY <1>1, <1>3, <1>4, <2>1, <2>2, <2>3
<1>5. CASE slot[n].key \notin sessions
  <2>1. Ending(n) = << y >>
    BY <1>2, <1>5 DEF Ending
  <2>2. /\ << y >> \in Seq(Tasks) /\ << y >> # << >> /\ Once(<< y >>)
        /\ Head(<< y >>) = y /\ Tail(<< y >>) = << >> /\ \A z : In(z, << y >>) <=> z = y
    BY LineOfOne
  <2>3. << >> \in Seq(Tasks)
    BY EmptyFacts
  <2> QED BY <1>1, <1>3, <1>5, <2>1, <2>2, <2>3
<1> QED BY <1>4, <1>5

\* A shutdown marks every slot, and retires it.
LEMMA ShutdownMarks ==
  ASSUME BInv, Shutdown
  PROVE  Marks(Both, Mapped) /\ IInv'
<1> DEFINE free == {n \in Mapped : ~slot[n].held}
<1>1. /\ pc' = [t \in Tasks |-> IF t \in Both THEN "retiring" ELSE pc[t]]
      /\ on' = [t \in Tasks |-> IF t \in Both THEN t[2] ELSE on[t]]
      /\ slot' = [n \in SlotIds |->
           IF n \notin Mapped THEN slot[n]
           ELSE [slot[n] EXCEPT !.retiring = TRUE, !.held = TRUE,
                   !.waiters = @ \o IF slot[n].held THEN Ending(n) ELSE Tail(Ending(n))]]
      /\ ready' \in {q \in [1..Cardinality(free) -> {Head(Ending(n)) : n \in free}] :
           /\ \A i, j \in DOMAIN q : q[i] = q[j] => i = j
           /\ \A i, j \in DOMAIN q : q[i][1] = "revoke" /\ q[j][1] = "close" => i < j}
      /\ UNCHANGED <<slotAt, live, aborted>>
  BY DEF Shutdown, Both
<1>2. /\ ready = << >> /\ closed' = TRUE /\ ~closed /\ revoked' = revoked \cup sessions
      /\ failed' = failed
  BY DEF Shutdown
<1>3. slot \in [SlotIds -> SlotRecords] /\ Mapped \subseteq SlotIds
  BY MappedAreSlots DEF BInv, IInv, Types
<1>4. /\ Both \subseteq Retirements /\ Both \subseteq Tasks
      /\ \A t \in Both : t[2] \in Mapped
                         /\ (t = <<"close", t[2]>>
                             \/ (t = <<"revoke", t[2]>> /\ slot[t[2]].key \in sessions))
  BY <1>3 DEF Both, SlotsOf, Retirements, Tasks
<1>5. ASSUME NEW t \in Both
      PROVE  pc[t] = "idle" /\ t[2] \in Mapped
  <2>1. t[2] \in SlotIds
    BY <1>3, <1>4
  <2>2. CASE t = <<"close", t[2]>>
    <3>1. pc[<<"close", t[2]>>] = "idle"
      BY <1>2, <2>1 DEF BInv, RetireesInv
    <3> QED BY <1>4, <2>2, <3>1
  <2>3. CASE t = <<"revoke", t[2]>> /\ slot[t[2]].key \in sessions
    <3>1. pc[<<"revoke", t[2]>>] = "idle"
      BY <2>1, <2>3 DEF BInv, RetireesInv
    <3> QED BY <1>4, <2>3, <3>1
  <2> QED BY <1>4, <2>2, <2>3
<1>6. PICK line : line = [n \in Mapped |-> Ending(n)]
  OBVIOUS
<1>7. ASSUME NEW n \in Mapped
      PROVE  /\ line[n] = Ending(n) /\ Ending(n) \in Seq(Tasks) /\ Ending(n) # << >>
             /\ Once(Ending(n)) /\ Head(Ending(n)) \in Tasks
             /\ Tail(Ending(n)) \in Seq(Tasks)
             /\ \A t \in Tasks : In(t, Ending(n)) <=> t \in Both /\ t[2] = n
  BY <1>6, EndingFacts DEF BInv
<1>8. ASSUME NEW n \in Mapped
      PROVE  /\ slot'[n] \in SlotRecords /\ slot'[n].held /\ slot'[n].refs = slot[n].refs
             /\ slot'[n].key = slot[n].key /\ slot'[n].worker = slot[n].worker
             /\ slot'[n].retiring = TRUE
             /\ slot'[n].waiters =
                  slot[n].waiters \o (IF slot[n].held THEN line[n] ELSE Tail(line[n]))
  <2>1. slot[n] \in SlotRecords /\ slot[n].waiters \in Seq(Tasks)
    BY <1>3 DEF SlotRecords
  <2>2. PICK l \in Seq(Tasks) : l = IF slot[n].held THEN Ending(n) ELSE Tail(Ending(n))
    BY <1>7
  <2>3. PICK w \in Seq(Tasks) : w = slot[n].waiters \o l
    BY <2>1, ConcatProperties
  <2>4. slot'[n] = [slot[n] EXCEPT !.retiring = TRUE, !.held = TRUE, !.waiters = w]
    BY <1>1, <1>3, <2>2, <2>3
  <2>5. w = slot[n].waiters \o (IF slot[n].held THEN line[n] ELSE Tail(line[n]))
    BY <1>7, <2>2, <2>3
  <2>6. /\ slot'[n] \in SlotRecords /\ slot'[n].held = TRUE
        /\ slot'[n].refs = slot[n].refs /\ slot'[n].key = slot[n].key
        /\ slot'[n].worker = slot[n].worker /\ slot'[n].retiring = TRUE
        /\ slot'[n].waiters = w
    BY <2>1, <2>4 DEF SlotRecords
  <2> QED BY <2>5, <2>6
<1>9. \A n \in SlotIds \ Mapped : slot'[n] = slot[n]
  BY <1>1
<1>10. slot' \in [SlotIds -> SlotRecords]
  <2>1. \A n \in SlotIds : slot'[n] \in SlotRecords
    BY <1>3, <1>8, <1>9
  <2> QED BY <1>1, <2>1
<1>11. /\ ready' \in Seq(Tasks) /\ Once(ready')
       /\ \A t \in Tasks : In(t, ready') => \E n \in Mapped : ~slot[n].held /\ t = Head(line[n])
  <2>1. PICK T : T = {Head(Ending(n)) : n \in free}
    OBVIOUS
  <2>2. T \subseteq Tasks /\ free \subseteq SlotIds
    BY <1>3, <1>7, <2>1
  <2>3. /\ ready' \in [1..Cardinality(free) -> T]
        /\ \A i, j \in DOMAIN ready' : ready'[i] = ready'[j] => i = j
    BY <1>1, <2>1
  <2>4. ready' \in Seq(Tasks) /\ Once(ready') /\ \A t : In(t, ready') => t \in T
    BY <2>2, <2>3, QueueOf
  <2> QED BY <1>7, <2>1, <2>4
<1>12. Marks(Both, Mapped)
  <2>1. \A t \in Both : pc'[t] = "retiring" /\ on'[t] = t[2]
    BY <1>1, <1>4
  <2>2. \A t \in Tasks \ Both : pc'[t] = pc[t] /\ on'[t] = on[t]
    BY <1>1
  <2>3. ASSUME NEW n \in SlotIds
        PROVE  /\ slot'[n].key = slot[n].key /\ slot'[n].refs = slot[n].refs
               /\ slot'[n].worker = slot[n].worker
               /\ slot'[n].retiring = (slot[n].retiring \/ n \in Mapped)
    <3>1. slot[n].retiring \in BOOLEAN
      BY <1>3 DEF SlotRecords
    <3> QED BY <1>8, <1>9, <3>1
  <2> QED BY <1>1, <1>3, <1>4, <1>5, <2>1, <2>2, <2>3 DEF Marks
<1>13. IInv'
  <2>1. Started_Together(Both, Mapped, line)
    <3>1. \A n \in Mapped : /\ line[n] \in Seq(Tasks) /\ line[n] # << >> /\ Once(line[n])
                            /\ \A t \in Tasks : In(t, line[n]) <=> t \in Both /\ t[2] = n
      BY <1>7
    <3>2. \A n \in Mapped : /\ slot'[n].refs = slot[n].refs /\ slot'[n].held
                            /\ slot'[n].waiters = slot[n].waiters
                                 \o (IF slot[n].held THEN line[n] ELSE Tail(line[n]))
      BY <1>8
    <3>3. /\ Both \subseteq Retirements /\ \A t \in Both : pc[t] = "idle" /\ t[2] \in Mapped
          /\ Mapped \subseteq SlotIds
          /\ pc' = [t \in Tasks |-> IF t \in Both THEN "retiring" ELSE pc[t]]
          /\ on' = [t \in Tasks |-> IF t \in Both THEN t[2] ELSE on[t]]
          /\ UNCHANGED <<slotAt, live, aborted>>
      BY <1>1, <1>3, <1>4, <1>5
    <3> QED BY <1>9, <1>10, <1>11, <3>1, <3>2, <3>3 DEF Started_Together
  <2>2. revoked' \subseteq Keys /\ closed' \in BOOLEAN /\ failed' \in BOOLEAN
    BY <1>2 DEF BInv, IInv, Types, FetchInv
  <2> QED BY <1>2, <2>1, <2>2, StartsKeep DEF BInv
<1> QED BY <1>12, <1>13

LEMMA RetirementsAreTasks ==
  /\ \A t \in Retirements : t \in Tasks /\ t \notin Requests /\ t[2] \in SlotIds
  /\ \A n \in SlotIds : \A why \in {"expire", "revoke", "close"} :
       <<why, n>> \in Retirements /\ <<why, n>>[2] = n
BY TasksAssumption DEF Tasks, Retirements

\* What a retirement may count on lasts while one task moves.
LEMMA RetireesOne ==
  ASSUME BInv, NEW t \in Tasks, OnlyOne(t),
         made \subseteq made', \A k \in made : k \in sessions' => k \in sessions
  PROVE  RetireesInv'
<1>1. ASSUME NEW u \in Retirements
      PROVE  /\ u \in Tasks
             /\ on'[u] \in {on[u], None} /\ on[u] \in {None, u[2]}
             /\ pc'[u] # "idle" => pc[u] # "idle"
  <2>1. u \in Tasks
    BY RetirementsAreTasks
  <2>2. CASE u = t
    BY <2>1, <2>2 DEF OnlyOne, BInv, RetireesInv
  <2>3. CASE u # t
    BY <2>1, <2>3 DEF OnlyOne, BInv, RetireesInv
  <2> QED BY <2>2, <2>3
<1>2. ASSUME NEW n \in SlotIds, pc'[<<"revoke", n>>] # "idle"
      PROVE  slot'[n].key \in made' \ sessions'
  <2>1. PICK u \in Retirements : u = <<"revoke", n>> /\ u[2] = n
    BY RetirementsAreTasks
  <2>2. pc[u] # "idle" /\ slot[n].key \in made \ sessions
    BY <1>1, <1>2, <2>1 DEF BInv, RetireesInv
  <2>3. on[u] = n
    BY <1>1, <2>1, <2>2 DEF BInv, IInv, LockInv, PlacesInv
  <2>4. slot'[n].key = slot[n].key
    BY <1>1, <2>3 DEF Unused, OnlyOne
  <2> QED BY <2>2, <2>4
<1>3. ASSUME ~closed', NEW n \in SlotIds
      PROVE  pc'[<<"close", n>>] = "idle"
  <2>1. <<"close", n>> \in Retirements
    BY RetirementsAreTasks
  <2>2. pc[<<"close", n>>] = "idle"
    BY <1>3 DEF OnlyOne, BInv, RetireesInv
  <2> QED BY <1>1, <2>1, <2>2
<1> QED BY <1>1, <1>2, <1>3 DEF RetireesInv

\* It lasts when several start, for sessions that have ended.
LEMMA RetireesMark ==
  ASSUME BInv, NEW R, NEW some, Marks(R, some), made' = made, sessions' \subseteq sessions,
         \A n \in SlotIds : <<"revoke", n>> \in R => slot[n].key \in made \ sessions',
         ~closed' => ~closed /\ \A n \in SlotIds : <<"close", n>> \notin R
  PROVE  RetireesInv'
<1>1. ASSUME NEW u \in Retirements
      PROVE  /\ on'[u] \in {None, u[2]}
             /\ u \notin R => pc'[u] = pc[u]
  <2>1. u \in Tasks /\ on[u] \in {None, u[2]}
    BY RetirementsAreTasks DEF BInv, RetireesInv
  <2> QED BY <2>1 DEF Marks
<1>2. ASSUME NEW n \in SlotIds, pc'[<<"revoke", n>>] # "idle"
      PROVE  slot'[n].key \in made' \ sessions'
  <2>1. <<"revoke", n>> \in Retirements /\ slot'[n].key = slot[n].key
    BY RetirementsAreTasks DEF Marks
  <2>2. CASE <<"revoke", n>> \in R
    BY <2>1, <2>2
  <2>3. CASE <<"revoke", n>> \notin R
    <3>1. pc[<<"revoke", n>>] # "idle"
      BY <1>1, <1>2, <2>1, <2>3
    <3> QED BY <2>1, <3>1 DEF BInv, RetireesInv
  <2> QED BY <2>2, <2>3
<1>3. ASSUME ~closed', NEW n \in SlotIds
      PROVE  pc'[<<"close", n>>] = "idle"
  <2>1. <<"close", n>> \in Retirements
    BY RetirementsAreTasks
  <2> QED BY <1>1, <1>3, <2>1 DEF BInv, RetireesInv
<1> QED BY <1>1, <1>2, <1>3 DEF RetireesInv

LEMMA FetchStays ==
  ASSUME FetchInv, fetch' = fetch, made' = made, sessions' \subseteq sessions,
         \A r \in Requests : pc'[r] # "idle" => pc[r] # "idle"
  PROVE  FetchInv'
BY DEF FetchInv, Opens

\* A fetch goes on: who opens a session has it to itself.
LEMMA FetchGoes ==
  ASSUME FetchInv, NEW r \in Requests, NEW w \in Fetching, Go(r, w), KeyOf[r] \in Keys,
         \A o \in Requests \ {r} : pc'[o] # "idle" => pc[o] # "idle",
         pc'[r] # "idle" => w = "called",
         fetch[r] = "none" => w = "resolving" /\ Known(r),
         w \in {"resolving", "pruning", "connecting", "initializing"} =>
           fetch[r] = "none" \/ Opens(r),
         w = "pruning" => KeyOf[r] \notin made',
         w \in {"connecting", "initializing", "calling", "called"} => KeyOf[r] \in made',
         \/ made' = made /\ sessions' \subseteq sessions
         \/ Opens(r) /\ made' = made \cup {KeyOf[r]} /\ sessions' = sessions \cup {KeyOf[r]}
  PROVE  FetchInv'
<1>1. /\ fetch' \in [Requests -> Fetching] /\ fetch'[r] = w
      /\ \A o \in Requests \ {r} : fetch'[o] = fetch[o]
  BY DEF FetchInv, Go
<1>2. sessions' \subseteq made' /\ made' \subseteq Keys /\ made \subseteq made'
  BY DEF FetchInv
<1>3. Opens(r) => \A o \in Requests \ {r} : KeyOf[o] = KeyOf[r] => fetch[o] = "none"
  BY DEF FetchInv
<1>4. Opens(r)' => \A o \in Requests \ {r} : KeyOf[o] = KeyOf[r] => fetch'[o] = "none"
  <2>1. CASE fetch[r] = "none"
    BY <1>1, <1>2, <2>1 DEF Opens, Known
  <2>2. CASE Opens(r)
    BY <1>1, <1>3, <2>2
  <2>3. CASE ~(fetch[r] = "none" \/ Opens(r))
    BY <1>1, <2>3 DEF Opens
  <2> QED BY <2>1, <2>2, <2>3
<1>5. ASSUME NEW o \in Requests \ {r}
      PROVE  /\ pc'[o] # "idle" => fetch'[o] = "called"
             /\ fetch'[o] = "pruning" => KeyOf[o] \notin made'
             /\ fetch'[o] \in {"connecting", "initializing", "calling", "called"} =>
                  KeyOf[o] \in made'
  <2>1. fetch'[o] = "pruning" => KeyOf[o] \notin made'
    BY <1>1, <1>3 DEF FetchInv
  <2> QED BY <1>1, <1>2, <2>1 DEF FetchInv
<1>6. ASSUME NEW o \in Requests \ {r}, Opens(o)'
      PROVE  \A u \in Requests \ {o} : KeyOf[u] = KeyOf[o] => fetch'[u] = "none"
  <2>1. Opens(o)
    BY <1>1, <1>2, <1>6 DEF Opens
  <2>2. \A u \in Requests \ {o} : KeyOf[u] = KeyOf[o] => fetch[u] = "none"
    BY <2>1 DEF FetchInv
  <2>3. KeyOf[r] # KeyOf[o]
    <3>1. SUFFICES ASSUME KeyOf[r] = KeyOf[o] PROVE FALSE
      OBVIOUS
    <3>2. fetch[r] = "none"
      BY <2>2, <3>1
    <3>3. Known(r)
      BY <3>2
    <3>4. fetch[o] # "none"
      BY <2>1 DEF Opens
    <3> QED BY <2>1, <3>1, <3>3, <3>4 DEF Known, Opens, FetchInv
  <2> QED BY <1>1, <2>2, <2>3
<1> QED BY <1>1, <1>2, <1>4, <1>5, <1>6 DEF FetchInv

LEMMA RemoveKeeps ==
  ASSUME BInv, ready = << >>, NEW some, Remove(some), made' = made
  PROVE  /\ IInv' /\ RetireesInv' /\ sessions' = sessions \ some
         /\ revoked' = revoked \cup (some \cap sessions) /\ closed' = closed
         /\ Marks({"revoke"} \X SlotsOf(some \cap sessions), SlotsOf(some \cap sessions))
         /\ \A r \in Requests : pc'[r] = pc[r]
<1>1. PICK present : present = some \cap sessions
  OBVIOUS
<1>2. PICK those : those = SlotsOf(present)
  OBVIOUS
<1>3. /\ sessions' = sessions \ present /\ revoked' = revoked \cup present
      /\ RetireAll("revoke", those) /\ UNCHANGED <<closed, failed>>
  BY <1>1, <1>2 DEF Remove
<1>4. those \subseteq SlotIds /\ \A n \in those : slot[n].key \in present
  BY <1>2, MappedAreSlots DEF SlotsOf, BInv
<1>5. Marks({"revoke"} \X those, those)
  BY <1>3, <1>4, RetireAllMarks DEF BInv
<1>6. revoked' \subseteq Keys /\ closed' \in BOOLEAN /\ failed' \in BOOLEAN
  BY <1>1, <1>3 DEF BInv, IInv, Types, FetchInv
<1>7. IInv'
  BY <1>3, <1>4, <1>6, RetireAllKeeps DEF BInv
<1>8. RetireesInv'
  <2>1. \A n \in SlotIds : /\ <<"revoke", n>> \in {"revoke"} \X those =>
                                slot[n].key \in made \ sessions'
                           /\ <<"close", n>> \notin {"revoke"} \X those
    BY <1>1, <1>3, <1>4 DEF BInv, FetchInv
  <2> QED BY <1>3, <1>5, <2>1, RetireesMark
<1>9. \A r \in Requests : pc'[r] = pc[r]
  <2>1. \A r \in Requests : r \in Tasks /\ r \notin {"revoke"} \X those
    BY <1>5, RequestsAreTasks DEF Marks
  <2> QED BY <1>5, <2>1 DEF Marks
<1> QED BY <1>1, <1>2, <1>3, <1>5, <1>7, <1>8, <1>9

\* Nothing of the registry changes.
LEMMA RegistryStays ==
  ASSUME BInv, UNCHANGED registry, made \subseteq made',
         \A k \in made : k \in sessions' => k \in sessions
  PROVE  IInv' /\ RetireesInv'
<1>1. LockInv'
  BY DEF registry, BInv, IInv, LockInv, PlacesInv, LinesInv, ReadyInv, LocksInv, Holds, Waits
<1>2. RefsInv'
  BY DEF registry, BInv, IInv, RefsInv, Users
<1>3. IInv'
  BY <1>1, <1>2 DEF registry, BInv, IInv, Types
<1>4. RetireesInv'
  BY DEF registry, BInv, RetireesInv
<1> QED BY <1>3, <1>4

\* A fetch that takes no lock of the registry.
LEMMA FetchesKeep ==
  ASSUME BInv, NEW r \in Requests, Fetches(r), ~Call(r)
  PROVE  BInv'
<1>1. /\ ready = << >> /\ KeyOf[r] \in Keys
      /\ fetch[r] \in {"connecting", "initializing", "calling", "called"} => KeyOf[r] \in made
      /\ pc[r] # "idle" => fetch[r] = "called"
  BY ConstantsAssumption
  DEF Fetches, Fetch, Find, Prune, Open, Connected, Initialized, Delete, Answered, Awaiting,
      BInv, FetchInv
<1>2. ASSUME UNCHANGED <<registry, sessions, made>>,
             NEW w \in Fetching, Go(r, w),
             fetch[r] = "none" => w = "resolving" /\ Known(r),
             w \in {"resolving", "pruning", "connecting", "initializing"} =>
               fetch[r] = "none" \/ Opens(r),
             w # "pruning",
             w \in {"connecting", "initializing", "calling", "called"} => KeyOf[r] \in made,
             pc[r] # "idle" => w = "called"
      PROVE  BInv'
  <2>1. IInv' /\ RetireesInv' /\ pc' = pc
    BY <1>2, RegistryStays DEF registry
  <2>2. FetchInv'
    BY <1>1, <1>2, <2>1, FetchGoes DEF BInv
  <2> QED BY <2>1, <2>2 DEF BInv
<1>3. ASSUME NEW some, Remove(some), UNCHANGED made,
             NEW w \in {"none", "pruning", "called"}, Go(r, w), fetch[r] # "none",
             w = "pruning" => Opens(r) /\ KeyOf[r] \notin made,
             w = "called" => KeyOf[r] \in made,
             pc[r] # "idle" => w = "called"
      PROVE  BInv'
  <2>1. /\ IInv' /\ RetireesInv' /\ sessions' = sessions \ some
        /\ \A o \in Requests : pc'[o] = pc[o]
    BY <1>1, <1>3, RemoveKeeps
  <2>2. w \in Fetching
    BY DEF Fetching
  <2>3. FetchInv'
    BY <1>1, <1>3, <2>1, <2>2, FetchGoes DEF BInv
  <2> QED BY <2>1, <2>3 DEF BInv
<1>4. {"none", "resolving", "pruning", "connecting", "initializing", "calling", "called"}
        \subseteq Fetching
  BY DEF Fetching
<1>5. CASE Fetch(r)
  <2>1. /\ UNCHANGED <<registry, sessions, made>> /\ Go(r, "resolving") /\ fetch[r] = "none"
        /\ Known(r)
    BY <1>5 DEF Fetch, Awaiting
  <2> QED BY <1>1, <1>2, <1>4, <2>1
<1>6. CASE Find(r)
  <2>1. fetch[r] = "resolving" /\ KeyOf[r] \in made /\ UNCHANGED made
    BY <1>6 DEF Find, Awaiting
  <2>2. CASE Remove({KeyOf[r]}) /\ Go(r, "none")
    BY <1>1, <1>3, <1>4, <2>1, <2>2
  <2>3. CASE UNCHANGED <<registry, sessions>> /\ (Go(r, "none") \/ Go(r, "calling"))
    BY <1>1, <1>2, <1>4, <2>1, <2>3
  <2> QED BY <1>6, <2>2, <2>3 DEF Find
<1>7. CASE Prune(r)
  <2>1. /\ fetch[r] = "resolving" /\ KeyOf[r] \notin made /\ UNCHANGED made /\ Go(r, "pruning")
        /\ Remove({s \in sessions : Expired(s)})
    BY <1>7 DEF Prune, Awaiting
  <2> QED BY <1>1, <1>3, <2>1 DEF Opens
<1>8. CASE Open(r)
  <2>1. fetch[r] = "pruning" /\ UNCHANGED registry
    BY <1>8 DEF Open, Awaiting
  <2>2. CASE Go(r, "none") /\ UNCHANGED <<sessions, made>>
    BY <1>1, <1>2, <1>4, <2>1, <2>2
  <2>3. CASE /\ Go(r, "connecting")
             /\ sessions' = sessions \cup {KeyOf[r]} /\ made' = made \cup {KeyOf[r]}
    <3>1. KeyOf[r] \notin made /\ Opens(r)
      BY <2>1 DEF BInv, FetchInv, Opens
    <3>2. IInv' /\ RetireesInv' /\ pc' = pc
      BY <2>1, <2>3, <3>1, RegistryStays DEF registry
    <3>3. FetchInv'
      BY <1>1, <1>4, <2>1, <2>3, <3>1, <3>2, FetchGoes DEF BInv
    <3> QED BY <3>2, <3>3 DEF BInv
  <2> QED BY <1>8, <2>2, <2>3 DEF Open
<1>9. CASE Connected(r)
  <2>1. fetch[r] = "connecting" /\ UNCHANGED made /\ Opens(r)
    BY <1>9 DEF Connected, Awaiting, Opens
  <2>2. CASE Go(r, "initializing") /\ UNCHANGED <<registry, sessions>>
    BY <1>1, <1>2, <1>4, <2>1, <2>2
  <2>3. CASE Go(r, "none") /\ Remove({KeyOf[r]})
    BY <1>1, <1>3, <1>4, <2>1, <2>3
  <2> QED BY <1>9, <2>2, <2>3 DEF Connected
<1>10. CASE Initialized(r)
  <2>1. fetch[r] = "initializing" /\ UNCHANGED made /\ Go(r, "none")
    BY <1>10 DEF Initialized, Awaiting
  <2>2. CASE UNCHANGED <<registry, sessions>>
    BY <1>1, <1>2, <1>4, <2>1, <2>2
  <2>3. CASE Remove({KeyOf[r]})
    BY <1>1, <1>3, <1>4, <2>1, <2>3
  <2> QED BY <1>10, <2>2, <2>3 DEF Initialized
<1>11. CASE Delete(r)
  <2>1. fetch[r] = "calling" /\ UNCHANGED made /\ Go(r, "called") /\ Remove({KeyOf[r]})
    BY <1>11 DEF Delete, Awaiting
  <2> QED BY <1>1, <1>3, <1>4, <2>1
<1>12. CASE Answered(r)
  <2>1. /\ fetch[r] = "called" /\ pc[r] = "idle" /\ Go(r, "none")
        /\ UNCHANGED <<registry, sessions, made>>
    BY <1>12 DEF Answered, Awaiting
  <2> QED BY <1>1, <1>2, <1>4, <2>1
<1> QED BY <1>5, <1>6, <1>7, <1>8, <1>9, <1>10, <1>11, <1>12 DEF Fetches

LEMMA CallKeeps ==
  ASSUME BInv, NEW r \in Requests, Call(r)
  PROVE  BInv'
<1>1. /\ KeyOf[r] \in Keys /\ fetch[r] = "calling" /\ KeyOf[r] \in made /\ Go(r, "called")
      /\ UNCHANGED <<sessions, made>> /\ "called" \in Fetching
  BY ConstantsAssumption DEF Call, Awaiting, BInv, FetchInv, Fetching
<1>2. CASE Arrive(r)
  <2>1. IInv' /\ OnlyOne(r)
    BY <1>2, ArriveKeeps, OneArrives DEF BInv
  <2>2. RetireesInv' /\ \A o \in Requests \ {r} : pc'[o] = pc[o]
    BY <1>1, <2>1, RequestsAreTasks, RetireesOne DEF OnlyOne
  <2>3. FetchInv'
    BY <1>1, <2>2, FetchGoes DEF BInv
  <2> QED BY <2>1, <2>2, <2>3 DEF BInv
<1>3. CASE UNCHANGED registry
  <2>1. IInv' /\ RetireesInv' /\ pc' = pc
    BY <1>1, <1>3, RegistryStays DEF registry
  <2>2. FetchInv'
    BY <1>1, <2>1, FetchGoes DEF BInv
  <2> QED BY <2>1, <2>2 DEF BInv
<1> QED BY <1>2, <1>3 DEF Call

\* Steps of the registry by itself.
LEMMA RegistryKeeps ==
  ASSUME BInv, Registry
  PROVE  BInv'
<1>1. fetch' = fetch /\ made' = made /\ sessions' = sessions
  BY DEF Registry
<1>2. ASSUME NEW t \in Tasks, OnlyOne(t), t \in Requests => pc[t] # "idle", IInv'
      PROVE  BInv'
  <2>1. RetireesInv'
    BY <1>1, <1>2, RetireesOne
  <2>2. \A r \in Requests : pc'[r] # "idle" => pc[r] # "idle"
    BY <1>2, RequestsAreTasks DEF OnlyOne
  <2>3. FetchInv'
    BY <1>1, <2>2, FetchStays DEF BInv
  <2> QED BY <1>2, <2>1, <2>3 DEF BInv
<1>3. ASSUME NEW r \in Requests, Retired(r)
      PROVE  BInv'
  <2>1. OnlyOne(r) /\ pc[r] # "idle" /\ IInv' /\ r \in Tasks
    BY <1>3, OneArrives, ArriveKeeps, RequestsAreTasks DEF BInv, Retired, Runs
  <2> QED BY <1>2, <2>1
<1>4. ASSUME NEW r \in Requests, Rejected(r) \/ Locked(r) \/ Abort(r) \/ Answer(r)
      PROVE  BInv'
  <2>1. r \in Tasks /\ OnlyOne(r)
    BY <1>4, OneTask, RequestsAreTasks DEF BInv
  <2>2. IInv'
    BY <1>4, RejectedKeeps, LockedKeeps, AbortKeeps, AnswerKeeps DEF BInv
  <2>3. pc[r] # "idle"
    BY <1>4 DEF Rejected, Locked, Abort, Answer, Started, StartFails, Release, CleanedUp,
                Renewed, Runs, Ends
  <2> QED BY <1>2, <2>1, <2>2, <2>3
<1>5. ASSUME NEW t \in Tasks, RetireLocked(t) \/ WorkerClosed(t)
      PROVE  BInv'
  <2>1. OnlyOne(t) /\ IInv' /\ pc[t] # "idle"
    BY <1>5, OneTask, RetirementKeeps DEF BInv, RetireLocked, WorkerClosed, Runs, Ends
  <2> QED BY <1>2, <2>1
<1>6. ASSUME NEW s \in Keys, Lapses(s)
      PROVE  BInv'
  <2>1. /\ IInv' /\ pc' = pc /\ on' = on /\ slot' = slot /\ closed' = closed
    BY <1>6, SweepKeeps DEF BInv, Lapses, Lapse
  <2>2. RetireesInv'
    BY <1>1, <2>1 DEF BInv, RetireesInv
  <2>3. FetchInv'
    BY <1>1, <2>1, FetchStays DEF BInv
  <2> QED BY <2>1, <2>2, <2>3 DEF BInv
<1>7. CASE Expire
  <2>1. IInv' /\ closed' = closed
    BY <1>7, SweepKeeps DEF BInv, Expire
  <2>2. PICK due : due \subseteq Mapped /\ RetireAll("expire", due)
    BY <1>7 DEF Expire
  <2>3. due \subseteq SlotIds
    BY <2>2, MappedAreSlots DEF BInv
  <2>4. PICK R : R = {"expire"} \X due
    OBVIOUS
  <2>5. Marks(R, due) /\ \A n : <<"revoke", n>> \notin R /\ <<"close", n>> \notin R
    BY <2>2, <2>3, <2>4, RetireAllMarks DEF BInv
  <2>6. RetireesInv'
    BY <1>1, <2>1, <2>5, RetireesMark
  <2>7. \A r \in Requests : pc'[r] = pc[r]
    BY <2>5, RequestsAreTasks DEF Marks
  <2>8. FetchInv'
    BY <1>1, <2>7, FetchStays DEF BInv
  <2> QED BY <2>1, <2>6, <2>8 DEF BInv
<1> QED BY <1>3, <1>4, <1>5, <1>6, <1>7 DEF Registry, Continuation

LEMMA ShutdownKeeps ==
  ASSUME BInv, Shutdown
  PROVE  BInv'
<1>1. /\ sessions' = {} /\ closed' = TRUE /\ fetch' = fetch /\ made' = made
      /\ Marks(Both, Mapped) /\ IInv'
  BY ShutdownMarks DEF Shutdown
<1>2. \A n \in SlotIds : <<"revoke", n>> \in Both => slot[n].key \in made \ sessions'
  BY <1>1 DEF Both, SlotsOf, BInv, FetchInv
<1>3. RetireesInv'
  BY <1>1, <1>2, RetireesMark
<1>4. \A r \in Requests : pc'[r] = pc[r]
  BY <1>1, RequestsAreTasks DEF Marks
<1>5. FetchInv'
  BY <1>1, <1>4, FetchStays DEF BInv
<1> QED BY <1>1, <1>3, <1>5 DEF BInv

LEMMA InitBInv == ASInit => BInv
<1> SUFFICES ASSUME ASInit PROVE BInv
  OBVIOUS
<1>1. IInv
  BY InitIInv DEF ASInit
<1>2. FetchInv
  BY RequestsAreTasks DEF ASInit, Init, FetchInv, Fetching, Opens
<1>3. RetireesInv
  BY RetirementsAreTasks DEF ASInit, Init, RetireesInv
<1> QED BY <1>1, <1>2, <1>3 DEF BInv

LEMMA NextBInv == BInv /\ [ASNext]_asVars => BInv'
<1> SUFFICES ASSUME BInv, [ASNext]_asVars PROVE BInv'
  OBVIOUS
<1>1. ASSUME NEW r \in Requests, Fetches(r)
      PROVE  BInv'
  BY <1>1, FetchesKeep, CallKeeps
<1>2. ASSUME UNCHANGED <<registry, sessions, made, fetch>>
      PROVE  BInv'
  <2>1. IInv' /\ RetireesInv' /\ pc' = pc
    BY <1>2, RegistryStays DEF registry
  <2>2. FetchInv'
    BY <1>2, <2>1, FetchStays DEF BInv
  <2> QED BY <2>1, <2>2 DEF BInv
<1>3. ASSUME NEW s \in Keys, GoesIdle(s)
      PROVE  BInv'
  BY <1>2, <1>3 DEF GoesIdle
<1>4. ASSUME NEW s \in Keys, TimerFires(s)
      PROVE  BInv'
  <2>1. /\ IInv' /\ RetireesInv' /\ sessions' = sessions \ {s} /\ fetch' = fetch /\ made' = made
        /\ \A r \in Requests : pc'[r] = pc[r]
    BY <1>4, RemoveKeeps DEF TimerFires
  <2>2. FetchInv'
    BY <2>1, FetchStays DEF BInv
  <2> QED BY <2>1, <2>2 DEF BInv
<1>5. CASE Shutdown
  BY <1>5, ShutdownKeeps
<1>6. CASE Registry
  BY <1>6, RegistryKeeps
<1>7. CASE UNCHANGED asVars
  BY <1>2, <1>7 DEF asVars
<1> QED BY <1>1, <1>3, <1>4, <1>5, <1>6, <1>7 DEF ASNext

\* The sessions keep the slots of the registry sound: what opens, calls, ends
\* and times out sessions, and the shutdown, loses and shares no lock and
\* miscounts no reference.
THEOREM SessionsKeepSlotsSound == ASSpec => []SlotsInvariant
<1>1. ASInit => BInv
  BY InitBInv
<1>2. BInv /\ [ASNext]_asVars => BInv'
  BY NextBInv
<1>3. BInv => SlotsInvariant
  BY IInvImplies DEF BInv
<1> QED BY <1>1, <1>2, <1>3, PTL DEF ASSpec

\* A session that a request is using is not ended by its idle deadline.
LEMMA RemovedForAReason ==
  ASSUME BInv, [ASNext]_asVars, NEW r \in Requests, pc[r] # "idle",
         KeyOf[r] \in sessions \ sessions'
  PROVE  closed' \/ KeyOf[r] \in revoked \/ \E d \in Requests : Awaiting(d, "calling")
<1>1. fetch[r] = "called" /\ r \in InFlight(KeyOf[r])
  BY DEF BInv, FetchInv, InFlight
<1>2. \A o \in Requests : Opens(o) => KeyOf[o] # KeyOf[r]
  BY <1>1 DEF BInv, FetchInv, Opens
<1>3. ASSUME NEW some, Remove(some)
      PROVE  KeyOf[r] \in some
  BY <1>3 DEF Remove
<1>4. Expired(KeyOf[r]) => KeyOf[r] \in revoked
  BY <1>1 DEF Expired
<1>5. ASSUME NEW o \in Requests, Fetches(o)
      PROVE  Expired(KeyOf[r]) \/ \E d \in Requests : Awaiting(d, "calling")
  <2>1. CASE Find(o)
    BY <1>3, <2>1 DEF Find
  <2>2. CASE Prune(o)
    BY <1>3, <2>2 DEF Prune
  <2>3. CASE Connected(o) \/ Initialized(o)
    <3>1. Opens(o)
      BY <2>3 DEF Connected, Initialized, Awaiting, Opens
    <3> QED BY <1>2, <1>3, <2>3, <3>1 DEF Connected, Initialized
  <2>4. CASE Delete(o)
    BY <2>4 DEF Delete
  <2>5. CASE Fetch(o) \/ Open(o) \/ Call(o) \/ Answered(o)
    BY <2>5 DEF Fetch, Open, Call, Answered
  <2> QED BY <1>5, <2>1, <2>2, <2>3, <2>4, <2>5 DEF Fetches
<1>6. ASSUME NEW s \in Keys, GoesIdle(s) \/ TimerFires(s)
      PROVE  Expired(KeyOf[r])
  BY <1>3, <1>6 DEF GoesIdle, TimerFires
<1>7. CASE Shutdown
  BY <1>7 DEF Shutdown
<1>8. CASE Registry \/ UNCHANGED asVars
  BY <1>8 DEF Registry, asVars
<1> QED BY <1>4, <1>5, <1>6, <1>7, <1>8 DEF ASNext

\* A session in use ends by its lifetime, a DELETE or the shutdown alone,
\* whatever timers and sweeps of other requests find meanwhile.
THEOREM SessionsInUseStay == ASSpec => InUseIsNotIdle
<1>1. ASInit => BInv
  BY InitBInv
<1>2. BInv /\ [ASNext]_asVars => BInv'
  BY NextBInv
<1>3. BInv /\ [ASNext]_asVars =>
        [\A r \in Requests :
           LET s == KeyOf[r]
           IN  pc[r] # "idle" /\ s \in sessions \ sessions' =>
                 closed' \/ s \in revoked \/ \E d \in Requests : Awaiting(d, "calling")]_asVars
  BY RemovedForAReason
<1> QED BY <1>1, <1>2, <1>3, PTL DEF ASSpec, InUseIsNotIdle

-----------------------------------------------------------------------------
(* The workers behind the sessions.                                        *)

\* A request is closing the worker of slot n.
Cleans(n) == \E r \in Requests : on[r] = n /\ pc[r] = "cleanup"

\* What a slot says of its worker, while every worker that is closed goes: a
\* worker and the requests for it are found under their key; a retirement is
\* for a key that is barred, as is a mark that no request will act on; and
\* somebody is about to close what has no session any more.
SlotOk(n) ==
  /\ n \in live <=> slot[n].worker
  /\ n \in live => slotAt[slot[n].key] = n
  /\ \A r \in Requests : on[r] = n => slot[n].key = KeyOf[r] /\ slotAt[KeyOf[r]] = n
  /\ \A t \in Retirements : on[t] = n =>
       slotAt[slot[n].key] \in {n, None} /\ Barred(slot[n].key)
  /\ slotAt[slot[n].key] = n /\ slot[n].retiring /\ ~Barred(slot[n].key) =>
       slot[n].refs # 0 /\ (slot[n].worker => Cleans(n))
  /\ n \in live /\ slot[n].key \in made \ sessions =>
       Cleans(n) \/ \E t \in Retirements : on[t] = n
  /\ n \in live /\ closed => Cleans(n) \/ on[<<"close", n>>] = n

\* Within the limits of the gateway and of each principal.
Within(some) ==
  /\ IsFiniteSet(some) /\ Cardinality(some) <= MaxWorkers
  /\ \A k \in Keys : Cardinality({o \in some : Of(o) = Of(k)}) <= MaxPerPrincipal

KeysInv == \A k \in Keys : slotAt[k] # None => slot[slotAt[k]].key = k
CalmInv == \A r \in Requests : pc[r] \notin {"retiring", "closing", "retired"}

WorkersInv ==
  /\ KeysInv /\ CalmInv
  /\ \A n \in SlotIds : SlotOk(n)
  /\ made \ sessions \subseteq revoked
  /\ closed => sessions = {}
  /\ Within(Registered) /\ Within(sessions)

\* A step of task t, if on any slot then on slot n.
Around(t, n) ==
  /\ t \in Tasks /\ n \in SlotIds
  /\ \A u \in Tasks \ {t} : pc'[u] = pc[u] /\ on'[u] = on[u]
  /\ on[t] \in {None, n} /\ on'[t] \in {None, n}
  /\ t \in Requests => pc'[t] \notin {"retiring", "closing", "retired"}
  /\ \A k \in SlotIds \ {n} : slot'[k] = slot[k] /\ (k \in live' <=> k \in live)
  /\ UNCHANGED <<revoked, closed>>

\* It changes nothing the others rely on.
Quiet(t, n) ==
  /\ Around(t, n) /\ on'[t] = on[t] /\ (pc[t] = "cleanup" <=> pc'[t] = "cleanup")
  /\ slotAt' = slotAt /\ (n \in live' <=> n \in live)
  /\ slot'[n].key = slot[n].key /\ slot'[n].refs = slot[n].refs
  /\ slot'[n].retiring = slot[n].retiring /\ slot'[n].worker = slot[n].worker

\* A worker has started, for a session or to be closed at once.
Starts(t, n) ==
  /\ Around(t, n) /\ t \in Requests /\ on[t] = n /\ on'[t] = n /\ pc[t] = "starting"
  /\ slotAt' = slotAt /\ n \in live' /\ slot'[n].worker
  /\ slot'[n].key = slot[n].key /\ slot'[n].refs = slot[n].refs
  /\ IF Unfit(t) THEN pc'[t] = "cleanup" ELSE ~slot'[n].retiring

\* A task leaves its slot, which drops out of the map when nothing is left.
Quits(t, n) ==
  /\ Around(t, n) /\ on[t] = n /\ on'[t] = None
  /\ slot'[n].key = slot[n].key /\ slot'[n].retiring = slot[n].retiring
  /\ n \in live' <=> slot'[n].worker
  /\ slot'[n].worker <=> slot[n].worker /\ t \notin Retirements /\ pc[t] # "cleanup"
  /\ slotAt' = IF slot'[n].refs = 0 /\ ~slot'[n].worker
               THEN [slotAt EXCEPT ![slot[n].key] = None] ELSE slotAt

\* A request comes to the slot of its key, or to a new one.
Joins(t, n) ==
  /\ Around(t, n) /\ t \in Requests /\ on[t] = None /\ on'[t] = n
  /\ pc'[t] \in {"locking", "rejected"}
  /\ slot'[n].key = KeyOf[t] /\ (n \in live' <=> n \in live)
  /\ \/ /\ slotAt[KeyOf[t]] = n /\ slotAt' = slotAt
        /\ slot'[n].key = slot[n].key
        /\ slot'[n].retiring = slot[n].retiring /\ slot'[n].worker = slot[n].worker
     \/ /\ slotAt[KeyOf[t]] = None /\ slotAt' = [slotAt EXCEPT ![KeyOf[t]] = n]
        /\ n \in Unused /\ ~AtCapacity(KeyOf[t]) /\ ~Barred(KeyOf[t])
        /\ slot'[n].retiring = FALSE /\ slot'[n].worker = FALSE

SInv == BInv /\ WorkersInv

\* A key is found where it was, is found no more, or is found from now on.
Remaps(n) ==
  \A k \in Keys : \/ slotAt'[k] = slotAt[k]
                  \/ slotAt[k] = n /\ slotAt'[k] = None
                  \/ slotAt[k] = None /\ slotAt'[k] = n /\ ~Barred(k)

LEMMA SlotTypes ==
  ASSUME IInv, NEW n \in SlotIds
  PROVE  /\ slot[n].key \in Keys /\ slot[n].retiring \in BOOLEAN /\ slot[n].worker \in BOOLEAN
         /\ n # None
BY DEF IInv, Types, SlotRecords, None, SlotIds

\* The other slots are left alone.
LEMMA OthersOk ==
  ASSUME SInv, NEW t, NEW n, Around(t, n), Remaps(n), UNCHANGED <<sessions, made>>,
         NEW k \in SlotIds \ {n}
  PROVE  SlotOk(k)'
<1>1. /\ slot'[k] = slot[k] /\ (k \in live' <=> k \in live) /\ k # None
      /\ slot[k].key \in Keys /\ closed' = closed /\ revoked' = revoked
  BY SlotTypes DEF Around, SInv, BInv
<1>2. \A u \in Tasks : (on'[u] = k <=> on[u] = k) /\ (on[u] = k => pc'[u] = pc[u])
  BY <1>1 DEF Around
<1>3. Cleans(k)' <=> Cleans(k)
  BY <1>2, RequestsAreTasks DEF Cleans
<1>4. \A j \in Keys : slotAt'[j] = k <=> slotAt[j] = k
  BY <1>1 DEF Remaps
<1>5. \A j \in Keys : Barred(j)' <=> Barred(j)
  BY <1>1 DEF Barred
<1>6. SlotOk(k)
  BY DEF SInv, WorkersInv
<1>7. ASSUME NEW r \in Requests, on'[r] = k
      PROVE  slot'[k].key = KeyOf[r] /\ slotAt'[KeyOf[r]] = k
  <2>1. on[r] = k /\ KeyOf[r] \in Keys
    BY <1>2, <1>7, RequestsAreTasks, ConstantsAssumption
  <2> QED BY <1>1, <1>4, <1>6, <2>1 DEF SlotOk
<1>8. ASSUME NEW u \in Retirements, on'[u] = k
      PROVE  slotAt'[slot'[k].key] \in {k, None} /\ Barred(slot[k].key)'
  <2>1. on[u] = k
    BY <1>2, <1>8, RetirementsAreTasks
  <2>2. slotAt[slot[k].key] \in {k, None} /\ Barred(slot[k].key)
    BY <1>6, <2>1 DEF SlotOk
  <2> QED BY <1>1, <1>5, <2>2 DEF Remaps
<1>9. on'[<<"close", k>>] = k <=> on[<<"close", k>>] = k
  BY <1>2, RetirementsAreTasks
<1>10. (\E u \in Retirements : on[u] = k) => \E u \in Retirements : on'[u] = k
  BY <1>2, RetirementsAreTasks
<1>11. /\ k \in live' <=> slot'[k].worker
       /\ k \in live' => slotAt'[slot'[k].key] = k
  BY <1>1, <1>4, <1>6 DEF SlotOk
<1>12. slotAt'[slot'[k].key] = k /\ slot'[k].retiring /\ ~Barred(slot[k].key)' =>
         slot'[k].refs # 0 /\ (slot'[k].worker => Cleans(k)')
  BY <1>1, <1>3, <1>4, <1>5, <1>6 DEF SlotOk
<1>13. /\ k \in live' /\ slot'[k].key \in made' \ sessions' =>
            Cleans(k)' \/ \E u \in Retirements : on'[u] = k
       /\ k \in live' /\ closed' => Cleans(k)' \/ on'[<<"close", k>>] = k
  BY <1>1, <1>3, <1>6, <1>9, <1>10 DEF SlotOk
<1> QED BY <1>7, <1>8, <1>11, <1>12, <1>13 DEF SlotOk

LEMMA QuietOk ==
  ASSUME SInv, NEW t, NEW n, Quiet(t, n), UNCHANGED <<sessions, made>>
  PROVE  SlotOk(n)' /\ Remaps(n)
<1>1. /\ n \in SlotIds /\ slot[n].key \in Keys /\ SlotOk(n) /\ t \in Tasks
      /\ slotAt' = slotAt /\ slot'[n].key = slot[n].key /\ slot'[n].refs = slot[n].refs
      /\ slot'[n].retiring = slot[n].retiring /\ slot'[n].worker = slot[n].worker
      /\ (n \in live' <=> n \in live) /\ closed' = closed /\ revoked' = revoked
  BY SlotTypes DEF Quiet, Around, SInv, BInv, WorkersInv
<1>2. \A u \in Tasks : on'[u] = on[u] /\ (pc'[u] = "cleanup" <=> pc[u] = "cleanup")
  BY DEF Quiet, Around
<1>3. Cleans(n)' <=> Cleans(n)
  BY <1>2, RequestsAreTasks DEF Cleans
<1>4. Barred(slot[n].key)' <=> Barred(slot[n].key)
  BY <1>1 DEF Barred
<1>5. \A r \in Requests : on'[r] = n => slot'[n].key = KeyOf[r] /\ slotAt'[KeyOf[r]] = n
  BY <1>1, <1>2, RequestsAreTasks DEF SlotOk
<1>6. \A u \in Retirements : on'[u] = n =>
        slotAt'[slot'[n].key] \in {n, None} /\ Barred(slot[n].key)'
  BY <1>1, <1>2, <1>4, RetirementsAreTasks DEF SlotOk
<1>7. on'[<<"close", n>>] = on[<<"close", n>>]
  BY <1>1, <1>2, RetirementsAreTasks
<1>8. (\E u \in Retirements : on[u] = n) => \E u \in Retirements : on'[u] = n
  BY <1>2, RetirementsAreTasks
<1>9. SlotOk(n)'
  BY <1>1, <1>3, <1>4, <1>5, <1>6, <1>7, <1>8 DEF SlotOk
<1> QED BY <1>1, <1>9 DEF Remaps

\* A request on a slot counts as one of its users, after any step.
LEMMA OnRefs ==
  ASSUME IInv', NEW n \in SlotIds
  PROVE  /\ \A r \in Requests : on'[r] = n /\ pc'[r] \notin {"retiring", "closing"} =>
              slot'[n].refs # 0
         /\ slot'[n].refs \in Nat
<1> DEFINE U == {r \in Requests : on'[r] = n /\ pc'[r] \notin {"retiring", "closing"}}
<1>1. U \subseteq Requests /\ IsFiniteSet(Requests)
  BY ConstantsAssumption
<1>2. slot'[n].refs = Cardinality(U) /\ IsFiniteSet(U)
  <2>1. slot'[n].refs = Cardinality(U)
    BY DEF IInv, RefsInv, Users
  <2>2. IsFiniteSet(U)
    BY <1>1, FS_Subset
  <2> QED BY <2>1, <2>2
<1>3. ASSUME NEW r \in Requests, on'[r] = n, pc'[r] \notin {"retiring", "closing"}
      PROVE  slot'[n].refs # 0
  <2>1. r \in U
    BY <1>3
  <2> QED BY <1>2, <2>1, FS_EmptySet
<1>4. slot'[n].refs \in Nat
  BY <1>2, FS_CardinalityType
<1> QED BY <1>3, <1>4

LEMMA StartsOk ==
  ASSUME SInv, IInv', NEW t, NEW n, Starts(t, n), UNCHANGED <<sessions, made>>
  PROVE  SlotOk(n)' /\ Remaps(n)
<1>1. /\ n \in SlotIds /\ n # None /\ SlotOk(n) /\ t \in Tasks /\ t \in Requests
      /\ t \notin Retirements
      /\ on[t] = n /\ on'[t] = n /\ pc[t] = "starting"
      /\ slotAt' = slotAt /\ slot'[n].key = slot[n].key /\ n \in live' /\ slot'[n].worker
      /\ closed' = closed /\ revoked' = revoked
      /\ IF Unfit(t) THEN pc'[t] = "cleanup" ELSE ~slot'[n].retiring
  BY SlotTypes, RequestsAreTasks DEF Starts, Around, SInv, BInv, WorkersInv
<1>2. slot[n].key = KeyOf[t] /\ slotAt[KeyOf[t]] = n
  BY <1>1 DEF SlotOk
<1>3. \A u \in Tasks : on'[u] = on[u]
  BY <1>1 DEF Starts, Around
<1>4. slot'[n].refs # 0
  <2>1. pc'[t] \notin {"retiring", "closing"}
    BY <1>1 DEF Starts, Around
  <2> QED BY <1>1, <2>1, OnRefs
<1>5. Barred(slot[n].key)' <=> Barred(slot[n].key)
  BY <1>1 DEF Barred
<1>6. \A r \in Requests : on'[r] = n => slot'[n].key = KeyOf[r] /\ slotAt'[KeyOf[r]] = n
  BY <1>1, <1>3, RequestsAreTasks DEF SlotOk
<1>7. \A u \in Retirements : on'[u] = n =>
        slotAt'[slot'[n].key] \in {n, None} /\ Barred(slot[n].key)'
  BY <1>1, <1>3, <1>5, RetirementsAreTasks DEF SlotOk
<1>8. CASE Unfit(t)
  <2>1. Cleans(n)'
    BY <1>1, <1>8 DEF Cleans
  <2> QED BY <1>1, <1>2, <1>4, <1>6, <1>7, <2>1 DEF SlotOk, Remaps
<1>9. CASE ~Unfit(t)
  <2>1. ~Barred(slot[n].key)
    BY <1>2, <1>9 DEF Unfit
  <2>2. ~closed' /\ slot'[n].key \notin made' \ sessions'
    BY <1>1, <2>1 DEF Barred, SInv, WorkersInv
  <2> QED BY <1>1, <1>2, <1>6, <1>7, <1>9, <2>2 DEF SlotOk, Remaps
<1> QED BY <1>8, <1>9

LEMMA QuitsOk ==
  ASSUME SInv, IInv', NEW t, NEW n, Quits(t, n), UNCHANGED <<sessions, made>>
  PROVE  SlotOk(n)' /\ Remaps(n)
<1>1. /\ n \in SlotIds /\ n # None /\ SlotOk(n) /\ t \in Tasks
      /\ slot[n].key \in Keys /\ slotAt \in [Keys -> SlotIds \cup {None}]
      /\ on[t] = n /\ on'[t] = None
      /\ slot'[n].key = slot[n].key /\ slot'[n].retiring = slot[n].retiring
      /\ n \in live' <=> slot'[n].worker
      /\ slot'[n].worker <=> slot[n].worker /\ t \notin Retirements /\ pc[t] # "cleanup"
      /\ closed' = closed /\ revoked' = revoked
  BY SlotTypes DEF Quits, Around, SInv, BInv, IInv, Types, WorkersInv
<1>2. slotAt' = IF slot'[n].refs = 0 /\ ~slot'[n].worker
                THEN [slotAt EXCEPT ![slot[n].key] = None] ELSE slotAt
  BY DEF Quits
<1>3. slotAt[slot[n].key] \in {n, None}
  <2>1. CASE t \in Requests
    BY <1>1, <2>1 DEF SlotOk
  <2>2. CASE t \in Retirements
    BY <1>1, <2>2 DEF SlotOk
  <2> QED BY <1>1, <2>1, <2>2 DEF Tasks
<1>4. Remaps(n)
  BY <1>1, <1>2, <1>3 DEF Remaps
<1>5. /\ \A u \in Tasks \ {t} : on'[u] = on[u] /\ pc'[u] = pc[u]
      /\ \A u \in Tasks : on'[u] = n => u # t /\ on[u] = n
  BY <1>1 DEF Quits, Around
<1>6. Barred(slot[n].key)' <=> Barred(slot[n].key)
  BY <1>1 DEF Barred
<1>7. slot'[n].refs # 0 => slotAt' = slotAt
  BY <1>2
<1>8. slot'[n].worker => slotAt' = slotAt
  BY <1>2
<1>9. ASSUME NEW r \in Requests, on'[r] = n
      PROVE  slot'[n].key = KeyOf[r] /\ slotAt'[KeyOf[r]] = n
  <2>1. on[r] = n /\ pc'[r] = pc[r] /\ r \in Tasks
    BY <1>5, <1>9, RequestsAreTasks
  <2>2. pc'[r] \notin {"retiring", "closing"}
    BY <2>1 DEF SInv, WorkersInv, CalmInv
  <2>3. slot'[n].refs # 0
    BY <1>1, <1>9, <2>2, OnRefs
  <2> QED BY <1>1, <1>7, <2>1, <2>3 DEF SlotOk
<1>10. ASSUME NEW u \in Retirements, on'[u] = n
       PROVE  slotAt'[slot'[n].key] \in {n, None} /\ Barred(slot[n].key)'
  <2>1. on[u] = n
    BY <1>5, <1>10, RetirementsAreTasks
  <2> QED BY <1>1, <1>3, <1>4, <1>6, <2>1 DEF SlotOk, Remaps
<1>11. Cleans(n) /\ slot'[n].worker => Cleans(n)' /\ slot'[n].refs # 0
  <2>1. SUFFICES ASSUME Cleans(n), slot'[n].worker PROVE Cleans(n)' /\ slot'[n].refs # 0
    OBVIOUS
  <2>2. PICK r \in Requests : on[r] = n /\ pc[r] = "cleanup"
    BY <2>1 DEF Cleans
  <2>3. r # t /\ r \in Tasks
    BY <1>1, <2>1, <2>2, RequestsAreTasks
  <2>4. on'[r] = n /\ pc'[r] = "cleanup"
    BY <1>5, <2>2, <2>3
  <2> QED BY <1>1, <2>4, OnRefs DEF Cleans
<1>12. /\ n \in live' <=> slot'[n].worker
       /\ n \in live' => slotAt'[slot'[n].key] = n
  BY <1>1, <1>8 DEF SlotOk
<1>13. ASSUME slotAt'[slot'[n].key] = n, slot'[n].retiring, ~Barred(slot[n].key)'
       PROVE  slot'[n].refs # 0 /\ (slot'[n].worker => Cleans(n)')
  <2>1. slotAt[slot[n].key] = n /\ slot[n].retiring /\ ~Barred(slot[n].key)
    BY <1>1, <1>6, <1>13 DEF Remaps, Quits
  <2>2. slot[n].worker => Cleans(n)
    BY <1>1, <2>1 DEF SlotOk
  <2>3. CASE slot'[n].worker
    BY <1>1, <1>11, <2>2, <2>3
  <2>4. CASE ~slot'[n].worker
    <3>1. slot'[n].refs # 0
      BY <1>1, <1>2, <1>13, <2>4
    <3> QED BY <2>4, <3>1
  <2> QED BY <2>3, <2>4
<1>14. ASSUME n \in live'
       PROVE  /\ t \notin Retirements /\ slot'[n].worker /\ n \in live
              /\ \A u \in Retirements : on[u] = n => on'[u] = n
  <2>1. t \notin Retirements /\ slot'[n].worker /\ n \in live
    BY <1>1, <1>14 DEF SlotOk
  <2> QED BY <1>5, <2>1, RetirementsAreTasks
<1>15. n \in live' /\ slot'[n].key \in made' \ sessions' =>
         Cleans(n)' \/ \E u \in Retirements : on'[u] = n
  BY <1>1, <1>11, <1>14 DEF SlotOk
<1>16. n \in live' /\ closed' => Cleans(n)' \/ on'[<<"close", n>>] = n
  BY <1>1, <1>11, <1>14, RetirementsAreTasks DEF SlotOk
<1> QED BY <1>4, <1>9, <1>10, <1>12, <1>13, <1>15, <1>16 DEF SlotOk

LEMMA JoinsOk ==
  ASSUME SInv, IInv', NEW t, NEW n, Joins(t, n), UNCHANGED <<sessions, made>>
  PROVE  SlotOk(n)' /\ Remaps(n)
<1>1. /\ n \in SlotIds /\ n # None /\ SlotOk(n) /\ t \in Tasks /\ t \in Requests
      /\ t \notin Retirements /\ KeyOf[t] \in Keys
      /\ slotAt \in [Keys -> SlotIds \cup {None}]
      /\ on[t] = None /\ on'[t] = n /\ pc'[t] \in {"locking", "rejected"}
      /\ slot'[n].key = KeyOf[t] /\ (n \in live' <=> n \in live)
      /\ closed' = closed /\ revoked' = revoked
  BY SlotTypes, RequestsAreTasks, ConstantsAssumption
  DEF Joins, Around, SInv, BInv, IInv, Types, WorkersInv
<1>2. \A u \in Tasks \ {t} : on'[u] = on[u] /\ pc'[u] = pc[u]
  BY DEF Joins, Around
<1>3. slot'[n].refs # 0
  BY <1>1, OnRefs
<1>4. Cleans(n) => Cleans(n)'
  BY <1>1, <1>2, RequestsAreTasks DEF Cleans
<1>5. \A u \in Retirements : on'[u] = on[u]
  BY <1>1, <1>2, RetirementsAreTasks
<1>6. CASE /\ slotAt[KeyOf[t]] = n /\ slotAt' = slotAt /\ slot'[n].key = slot[n].key
           /\ slot'[n].retiring = slot[n].retiring /\ slot'[n].worker = slot[n].worker
  <2>1. Barred(slot[n].key)' <=> Barred(slot[n].key)
    BY <1>1, <1>6 DEF Barred
  <2>2. \A r \in Requests : on'[r] = n => slot'[n].key = KeyOf[r] /\ slotAt'[KeyOf[r]] = n
    BY <1>1, <1>2, <1>6, RequestsAreTasks DEF SlotOk
  <2>3. \A u \in Retirements : on'[u] = n =>
          slotAt'[slot'[n].key] \in {n, None} /\ Barred(slot[n].key)'
    BY <1>1, <1>5, <1>6, <2>1 DEF SlotOk
  <2>4. /\ n \in live' <=> slot'[n].worker
        /\ n \in live' => slotAt'[slot'[n].key] = n
        /\ slotAt'[slot'[n].key] = n /\ slot'[n].retiring /\ ~Barred(slot[n].key)' =>
             slot'[n].refs # 0 /\ (slot'[n].worker => Cleans(n)')
    BY <1>1, <1>3, <1>4, <1>6, <2>1 DEF SlotOk
  <2>5. /\ n \in live' /\ slot'[n].key \in made' \ sessions' =>
             Cleans(n)' \/ \E u \in Retirements : on'[u] = n
        /\ n \in live' /\ closed' => Cleans(n)' \/ on'[<<"close", n>>] = n
    <3>1. n \in live /\ slot[n].key \in made \ sessions =>
            Cleans(n) \/ \E u \in Retirements : on[u] = n
      BY <1>1 DEF SlotOk
    <3>2. n \in live /\ closed => Cleans(n) \/ on[<<"close", n>>] = n
      BY <1>1 DEF SlotOk
    <3>3. <<"close", n>> \in Retirements
      BY <1>1 DEF Retirements
    <3> QED BY <1>1, <1>4, <1>5, <1>6, <3>1, <3>2, <3>3
  <2>6. Remaps(n)
    BY <1>6 DEF Remaps
  <2> QED BY <2>2, <2>3, <2>4, <2>5, <2>6 DEF SlotOk
<1>7. CASE /\ slotAt[KeyOf[t]] = None /\ slotAt' = [slotAt EXCEPT ![KeyOf[t]] = n]
           /\ n \in Unused /\ ~Barred(KeyOf[t])
           /\ slot'[n].retiring = FALSE /\ slot'[n].worker = FALSE
  <2>1. n \notin live /\ \A u \in Tasks : on[u] # n
    BY <1>7 DEF Unused
  <2>2. slotAt'[KeyOf[t]] = n
    BY <1>1, <1>7
  <2>3. \A r \in Requests : on'[r] = n => r = t
    BY <1>2, <2>1, RequestsAreTasks
  <2>4. \A u \in Retirements : on'[u] # n
    BY <1>5, <2>1, RetirementsAreTasks
  <2>5. Remaps(n)
    BY <1>1, <1>7 DEF Remaps
  <2> QED BY <1>1, <1>7, <2>1, <2>2, <2>3, <2>4, <2>5 DEF SlotOk
<1> QED BY <1>6, <1>7 DEF Joins

\* What the keys are found at, after a step around slot n.
LEMMA KeysKept ==
  ASSUME SInv, NEW t, NEW n, Around(t, n), Remaps(n),
         \/ slot'[n].key = slot[n].key /\ \A k \in Keys : slotAt[k] = None => slotAt'[k] = None
         \/ Joins(t, n)
  PROVE  KeysInv'
<1>1. /\ n \in SlotIds /\ n # None /\ slotAt \in [Keys -> SlotIds \cup {None}]
      /\ \A j \in SlotIds \ {n} : slot'[j] = slot[j]
      /\ \A k \in Keys : slotAt[k] # None => slot[slotAt[k]].key = k
  BY SlotTypes DEF Around, SInv, BInv, IInv, Types, WorkersInv, KeysInv
<1>2. SUFFICES ASSUME NEW k \in Keys, slotAt'[k] # None PROVE slot'[slotAt'[k]].key = k
  BY DEF KeysInv
<1>3. CASE slotAt'[k] # n
  <2>1. \/ slotAt'[k] = slotAt[k]
        \/ slotAt[k] = n /\ slotAt'[k] = None
        \/ slotAt[k] = None /\ slotAt'[k] = n
    BY DEF Remaps
  <2>2. slotAt'[k] = slotAt[k]
    BY <1>2, <1>3, <2>1
  <2>3. slotAt[k] \in SlotIds \ {n}
    BY <1>1, <1>2, <1>3, <2>2
  <2> QED BY <1>1, <1>2, <2>2, <2>3
<1>4. CASE slotAt'[k] = n
  <2>1. CASE slot'[n].key = slot[n].key /\ slotAt[k] = n
    BY <1>1, <1>4, <2>1
  <2>2. CASE Joins(t, n)
    <3>1. slot'[n].key = KeyOf[t]
      BY <2>2 DEF Joins
    <3>2. CASE slotAt' = slotAt /\ slot'[n].key = slot[n].key
      BY <1>1, <1>4, <3>2
    <3>3. CASE slotAt' = [slotAt EXCEPT ![KeyOf[t]] = n] /\ n \in Unused
      <4>1. k = KeyOf[t]
        BY <1>1, <1>4, <3>3 DEF Unused
      <4> QED BY <1>4, <3>1, <4>1
    <3> QED BY <2>2, <3>2, <3>3 DEF Joins
  <2>3. CASE slotAt[k] # n /\ ~Joins(t, n)
    BY <1>1, <1>4, <2>3 DEF Remaps
  <2> QED BY <2>1, <2>2, <2>3
<1> QED BY <1>3, <1>4

LEMMA WithinFewer ==
  ASSUME NEW some, Within(some), NEW fewer, fewer \subseteq some
  PROVE  Within(fewer)
<1>1. /\ IsFiniteSet(some) /\ Cardinality(some) <= MaxWorkers
      /\ MaxWorkers \in Nat /\ MaxPerPrincipal \in Nat
  BY ConstantsAssumption DEF Within
<1>2. /\ IsFiniteSet(fewer) /\ Cardinality(fewer) \in Nat /\ Cardinality(some) \in Nat
      /\ Cardinality(fewer) <= Cardinality(some)
  BY <1>1, FS_Subset, FS_CardinalityType
<1>3. ASSUME NEW k \in Keys
      PROVE  Cardinality({o \in fewer : Of(o) = Of(k)}) <= MaxPerPrincipal
  <2>1. PICK T : T = {o \in some : Of(o) = Of(k)}
    OBVIOUS
  <2>2. PICK F : F = {o \in fewer : Of(o) = Of(k)}
    OBVIOUS
  <2>3. T \subseteq some /\ F \subseteq T /\ Cardinality(T) <= MaxPerPrincipal
    BY <2>1, <2>2 DEF Within
  <2>4. IsFiniteSet(T) /\ Cardinality(T) \in Nat
    BY <1>1, <2>3, FS_Subset, FS_CardinalityType
  <2>5. Cardinality(F) \in Nat /\ Cardinality(F) <= Cardinality(T)
    BY <2>3, <2>4, FS_Subset, FS_CardinalityType
  <2> QED BY <1>1, <2>2, <2>3, <2>4, <2>5
<1>4. Cardinality(fewer) <= MaxWorkers
  BY <1>1, <1>2
<1> QED BY <1>2, <1>3, <1>4 DEF Within

\* One more where the limits leave room for it.
LEMMA WithinOneMore ==
  ASSUME NEW some, Within(some), NEW k \in Keys,
         ~(Cardinality(some) >= MaxWorkers),
         ~(Cardinality({o \in some : Of(o) = Of(k)}) >= MaxPerPrincipal)
  PROVE  Within(some \cup {k})
<1>1. /\ IsFiniteSet(some) /\ Cardinality(some) \in Nat
      /\ MaxWorkers \in Nat /\ MaxPerPrincipal \in Nat
  BY FS_CardinalityType, ConstantsAssumption DEF Within
<1>2. IsFiniteSet(some \cup {k}) /\ Cardinality(some \cup {k}) <= MaxWorkers
  <2>1. IsFiniteSet(some \cup {k})
        /\ Cardinality(some \cup {k}) = IF k \in some THEN Cardinality(some)
                                        ELSE Cardinality(some) + 1
    BY <1>1, FS_AddElement
  <2> QED BY <1>1, <2>1
<1>3. ASSUME NEW j \in Keys
      PROVE  Cardinality({o \in some \cup {k} : Of(o) = Of(j)}) <= MaxPerPrincipal
  <2>1. PICK T : T = {o \in some : Of(o) = Of(j)}
    OBVIOUS
  <2>2. IsFiniteSet(T) /\ Cardinality(T) \in Nat /\ Cardinality(T) <= MaxPerPrincipal
    <3>1. T \subseteq some /\ Cardinality(T) <= MaxPerPrincipal
      BY <2>1 DEF Within
    <3> QED BY <1>1, <3>1, FS_Subset, FS_CardinalityType
  <2>3. CASE Of(k) = Of(j)
    <3>1. {o \in some \cup {k} : Of(o) = Of(j)} = T \cup {k}
      BY <2>1, <2>3
    <3>2. Cardinality(T \cup {k}) = IF k \in T THEN Cardinality(T) ELSE Cardinality(T) + 1
      BY <2>2, FS_AddElement
    <3>3. ~(Cardinality(T) >= MaxPerPrincipal)
      BY <2>1, <2>3
    <3>4. Cardinality(T \cup {k}) <= MaxPerPrincipal
      BY <1>1, <2>2, <3>2, <3>3
    <3> QED BY <3>1, <3>4
  <2>4. CASE Of(k) # Of(j)
    <3>1. {o \in some \cup {k} : Of(o) = Of(j)} = T
      BY <2>1, <2>4
    <3> QED BY <2>2, <3>1
  <2> QED BY <2>3, <2>4
<1> QED BY <1>2, <1>3 DEF Within

\* A step of one task keeps what the workers rely on.
LEMMA StepOk ==
  ASSUME SInv, BInv', NEW t, NEW n,
         Quiet(t, n) \/ Starts(t, n) \/ Quits(t, n) \/ Joins(t, n),
         UNCHANGED <<sessions, made>>
  PROVE  WorkersInv'
<1>1. Around(t, n) /\ IInv' /\ n \in SlotIds /\ n # None
  BY SlotTypes DEF Quiet, Starts, Quits, Joins, Around, BInv, SInv
<1>2. SlotOk(n)' /\ Remaps(n)
  BY <1>1, QuietOk, StartsOk, QuitsOk, JoinsOk
<1>3. \A k \in SlotIds \ {n} : SlotOk(k)'
  BY <1>1, <1>2, OthersOk
<1>4. /\ slotAt \in [Keys -> SlotIds \cup {None}]
      /\ n \in SlotIds => slot[n].key \in Keys
  BY SlotTypes DEF SInv, BInv, IInv, Types
<1>5. KeysInv'
  <2>1. CASE Joins(t, n)
    BY <1>1, <1>2, <2>1, KeysKept
  <2>2. CASE Quiet(t, n) \/ Starts(t, n)
    <3>1. slot'[n].key = slot[n].key /\ slotAt' = slotAt
      BY <2>2 DEF Quiet, Starts
    <3> QED BY <1>1, <1>2, <3>1, KeysKept
  <2>3. CASE Quits(t, n)
    <3>1. slot'[n].key = slot[n].key /\ \A k \in Keys : slotAt[k] = None => slotAt'[k] = None
      BY <1>4, <2>3 DEF Quits
    <3> QED BY <1>1, <1>2, <3>1, KeysKept
  <2> QED BY <2>1, <2>2, <2>3
<1>6. CalmInv'
  BY <1>1, RequestsAreTasks DEF Around, CalmInv, SInv, WorkersInv
<1>7. Within(Registered)'
  <2>1. PICK S : S = Registered
    OBVIOUS
  <2>2. PICK T : T = Registered'
    OBVIOUS
  <2>3. Within(S)
    BY <2>1 DEF SInv, WorkersInv
  <2>4. CASE T \subseteq S
    <3>1. Within(T)
      BY <2>3, <2>4, WithinFewer
    <3> QED BY <2>2, <3>1 DEF Within
  <2>5. CASE Quiet(t, n) \/ Starts(t, n) \/ Quits(t, n)
    <3>1. \A k \in Keys : slotAt[k] = None => slotAt'[k] = None
      BY <1>4, <2>5 DEF Quiet, Starts, Quits
    <3>2. T \subseteq S
      BY <2>1, <2>2, <3>1 DEF Registered
    <3> QED BY <2>4, <3>2
  <2>6. CASE Joins(t, n)
    <3>1. CASE slotAt' = slotAt
      <4>1. T \subseteq S
        BY <2>1, <2>2, <3>1 DEF Registered
      <4> QED BY <2>4, <4>1
    <3>2. CASE slotAt' = [slotAt EXCEPT ![KeyOf[t]] = n] /\ ~AtCapacity(KeyOf[t])
      <4>1. KeyOf[t] \in Keys
        BY <2>6, ConstantsAssumption DEF Joins
      <4>2. /\ ~(Cardinality(S) >= MaxWorkers)
            /\ ~(Cardinality({o \in S : Of(o) = Of(KeyOf[t])}) >= MaxPerPrincipal)
        BY <2>1, <3>2 DEF AtCapacity
      <4>3. Within(S \cup {KeyOf[t]})
        BY <2>3, <4>1, <4>2, WithinOneMore
      <4>4. T = S \cup {KeyOf[t]}
        BY <1>1, <1>4, <2>1, <2>2, <3>2, <4>1 DEF Registered
      <4> QED BY <2>2, <4>3, <4>4 DEF Within
    <3> QED BY <2>6, <3>1, <3>2 DEF Joins
  <2> QED BY <2>5, <2>6
<1>8. Within(sessions)' /\ (made \ sessions \subseteq revoked)' /\ (closed => sessions = {})'
  BY <1>1 DEF SInv, WorkersInv, Within, Around
<1> QED BY <1>2, <1>3, <1>5, <1>6, <1>7, <1>8 DEF WorkersInv

\* Several retirements start, of slots whose keys are barred from now on.
LEMMA MarksOk ==
  ASSUME SInv, NEW R, NEW some, Marks(R, some), made' = made, sessions' \subseteq sessions,
         revoked \subseteq revoked', closed => closed',
         \A n \in some : slotAt[slot[n].key] = n /\ (slot[n].key \in revoked' \/ closed'),
         made' \ sessions' \subseteq revoked', closed' => sessions' = {},
         \A n \in live : slot[n].key \in sessions \ sessions' => <<"revoke", n>> \in R,
         closed' /\ ~closed => \A n \in live : <<"close", n>> \in R
  PROVE  WorkersInv'
<1>1. \A r \in Requests : pc'[r] = pc[r] /\ on'[r] = on[r]
  BY RequestsAreTasks DEF Marks
<1>2. KeysInv'
  <2>1. slotAt \in [Keys -> SlotIds \cup {None}]
    BY DEF SInv, BInv, IInv, Types
  <2> QED BY <2>1 DEF Marks, KeysInv, SInv, WorkersInv
<1>3. CalmInv'
  BY <1>1 DEF CalmInv, SInv, WorkersInv
<1>4. ASSUME NEW n \in SlotIds
      PROVE  SlotOk(n)'
  <2>1. /\ slot'[n].key = slot[n].key /\ slot'[n].refs = slot[n].refs
        /\ slot'[n].worker = slot[n].worker
        /\ slot'[n].retiring = (slot[n].retiring \/ n \in some)
        /\ slotAt' = slotAt /\ live' = live /\ n # None /\ slot[n].retiring \in BOOLEAN
    BY SlotTypes DEF Marks, SInv, BInv
  <2>2. Cleans(n)' <=> Cleans(n)
    BY <1>1 DEF Cleans
  <2>3. SlotOk(n)
    BY DEF SInv, WorkersInv
  <2>4. /\ Barred(slot[n].key) => Barred(slot[n].key)'
        /\ n \in some => Barred(slot[n].key)' /\ slotAt[slot[n].key] = n
    BY <2>1 DEF Barred
  <2>5. ASSUME NEW t \in Retirements
        PROVE  /\ t \in R => on'[t] = t[2] /\ t[2] \in some /\ on[t] = None
               /\ t \notin R => on'[t] = on[t]
    <3>1. t \in Tasks
      BY RetirementsAreTasks
    <3>2. t \in R => pc[t] = "idle"
      BY DEF Marks
    <3>3. pc[t] = "idle" => on[t] = None
      BY <3>1 DEF SInv, BInv, IInv, LockInv, PlacesInv
    <3> QED BY <3>1, <3>2, <3>3 DEF Marks
  <2>6. \A t \in Retirements : on[t] = n => on'[t] = n
    BY <2>1, <2>5
  <2>7. \A r \in Requests : on'[r] = n => slot'[n].key = KeyOf[r] /\ slotAt'[KeyOf[r]] = n
    BY <1>1, <2>1, <2>3 DEF SlotOk
  <2>8. ASSUME NEW t \in Retirements, on'[t] = n
        PROVE  slotAt'[slot'[n].key] \in {n, None} /\ Barred(slot[n].key)'
    <3>1. CASE t \in R
      BY <2>1, <2>4, <2>5, <2>8, <3>1
    <3>2. CASE t \notin R
      BY <2>1, <2>3, <2>4, <2>5, <2>8, <3>2 DEF SlotOk
    <3> QED BY <3>1, <3>2
  <2>9. slotAt'[slot'[n].key] = n /\ slot'[n].retiring /\ ~Barred(slot[n].key)' =>
          slot'[n].refs # 0 /\ (slot'[n].worker => Cleans(n)')
    BY <2>1, <2>2, <2>3, <2>4 DEF SlotOk
  <2>10. /\ <<"revoke", n>> \in Retirements /\ <<"revoke", n>>[2] = n
         /\ <<"close", n>> \in Retirements /\ <<"close", n>>[2] = n
    BY RetirementsAreTasks
  <2>11. n \in live' /\ slot'[n].key \in made' \ sessions' =>
           Cleans(n)' \/ \E t \in Retirements : on'[t] = n
    <3>1. CASE n \in live /\ slot[n].key \in sessions \ sessions'
      <4>1. on'[<<"revoke", n>>] = n
        BY <2>5, <2>10, <3>1
      <4> QED BY <2>10, <4>1
    <3>2. CASE n \in live /\ slot[n].key \in made \ sessions
      <4>1. Cleans(n) \/ \E t \in Retirements : on[t] = n
        BY <2>3, <3>2 DEF SlotOk
      <4> QED BY <2>2, <2>6, <4>1
    <3> QED BY <2>1, <3>1, <3>2
  <2>12. n \in live' /\ closed' => Cleans(n)' \/ on'[<<"close", n>>] = n
    <3>1. CASE n \in live /\ closed' /\ ~closed
      BY <2>5, <2>10, <3>1
    <3>2. CASE n \in live /\ closed
      BY <2>2, <2>3, <2>6, <2>10, <3>2 DEF SlotOk
    <3> QED BY <2>1, <3>1, <3>2
  <2>13. n \in live' <=> slot'[n].worker
    BY <2>1, <2>3 DEF SlotOk
  <2>14. n \in live' => slotAt'[slot'[n].key] = n
    BY <2>1, <2>3 DEF SlotOk
  <2> QED BY <2>1, <2>7, <2>8, <2>9, <2>11, <2>12, <2>13, <2>14 DEF SlotOk
<1>5. Within(Registered)'
  BY DEF Marks, SInv, WorkersInv, Within, Registered
<1>6. Within(sessions)'
  <2>1. PICK S : S = sessions'
    OBVIOUS
  <2>2. Within(S)
    BY <2>1, WithinFewer DEF SInv, WorkersInv
  <2> QED BY <2>1, <2>2 DEF Within
<1> QED BY <1>2, <1>3, <1>4, <1>5, <1>6 DEF WorkersInv

\* The object of a slot when its lock or a reference is let go.
LEMMA LeftFacts ==
  ASSUME NEW s \in SlotRecords
  PROVE  /\ Released(s) \in SlotRecords
         /\ Released(s).key = s.key /\ Released(s).refs = s.refs
         /\ Released(s).retiring = s.retiring /\ Released(s).worker = s.worker
         /\ Dropped(s) \in SlotRecords
         /\ Dropped(s).key = s.key
         /\ Dropped(s).retiring = s.retiring /\ Dropped(s).worker = s.worker
<1>1. Released(s) \in SlotRecords /\ Released(s).key = s.key /\ Released(s).refs = s.refs
  BY ReleasedFacts
<1>2. Released(s).retiring = s.retiring /\ Released(s).worker = s.worker
  <2>1. CASE s.waiters = << >>
    <3>1. Released(s) = [s EXCEPT !.held = FALSE]
      BY <2>1 DEF Released
    <3> QED BY <3>1 DEF SlotRecords
  <2>2. CASE s.waiters # << >>
    <3>1. PICK rest : rest = Tail(s.waiters)
      OBVIOUS
    <3>2. Released(s) = [s EXCEPT !.waiters = rest]
      BY <2>2, <3>1 DEF Released
    <3> QED BY <3>2 DEF SlotRecords
  <2> QED BY <2>1, <2>2
<1>3. /\ Dropped(s) \in SlotRecords /\ Dropped(s).key = s.key
      /\ Dropped(s).retiring = s.retiring /\ Dropped(s).worker = s.worker
  <2>1. Dropped(s) \in SlotRecords /\ Dropped(s).key = s.key
    BY ReleasedFacts
  <2> QED BY <2>1 DEF Dropped, SlotRecords
<1> QED BY <1>1, <1>2, <1>3

\* A task sits on its slot while it awaits the next thing.
LEMMA SitsQuietly ==
  ASSUME IInv, NEW t \in Tasks, NEW n \in SlotIds, NEW p, on[t] \in {None, n},
         pc' = [pc EXCEPT ![t] = p], on' = on, slotAt' = slotAt, live' = live,
         slot' = slot,
         t \in Requests => p \notin {"retiring", "closing", "retired"},
         pc[t] = "cleanup" <=> p = "cleanup",
         UNCHANGED <<revoked, closed>>
  PROVE  Quiet(t, n)
BY DEF Quiet, Around, IInv, Types, LockInv, PlacesInv

\* A request that leaves quits its slot.
LEMMA LeaveQuits ==
  ASSUME IInv, NEW r \in Requests, NEW n \in SlotIds, on[r] = n, SlotOk(n),
         NEW s \in SlotRecords, Leave(r, s), s.key = slot[n].key,
         s.retiring = slot[n].retiring,
         \/ s.worker = slot[n].worker /\ live' = live /\ pc[r] # "cleanup"
         \/ ~s.worker /\ live' = live \ {n} /\ pc[r] = "cleanup",
         UNCHANGED <<revoked, closed>>
  PROVE  Quits(r, n)
<1>1. r \in Tasks /\ r \notin Retirements
  BY RequestsAreTasks
<1>2. PICK left : left = Dropped(Released(s))
  OBVIOUS
<1>3. left.key = slot[n].key /\ left.retiring = slot[n].retiring /\ left.worker = s.worker
  <2>1. /\ Released(s) \in SlotRecords /\ Released(s).key = s.key
        /\ Released(s).retiring = s.retiring /\ Released(s).worker = s.worker
    BY LeftFacts
  <2>2. /\ Dropped(Released(s)).key = Released(s).key
        /\ Dropped(Released(s)).retiring = Released(s).retiring
        /\ Dropped(Released(s)).worker = Released(s).worker
    BY <2>1, LeftFacts
  <2> QED BY <1>2, <2>1, <2>2
<1>4. /\ slot' = [slot EXCEPT ![n] = left] /\ pc' = [pc EXCEPT ![r] = "idle"]
      /\ on' = [on EXCEPT ![r] = None]
      /\ slotAt' = IF left.refs = 0 /\ ~left.worker THEN [slotAt EXCEPT ![left.key] = None]
                   ELSE slotAt
  BY <1>2 DEF Leave, Goto, Unregistered
<1>5. Around(r, n) /\ on'[r] = None /\ slot'[n] = left
  BY <1>1, <1>4, SMTT(30) DEF Around, IInv, Types, LockInv, PlacesInv
<1>6. n \in live' <=> s.worker
  <2>1. (n \in live <=> slot[n].worker) /\ s.worker \in BOOLEAN
    BY DEF SlotOk, SlotRecords
  <2> QED BY <2>1
<1>7. slot[n].worker \in BOOLEAN /\ s.worker \in BOOLEAN
  BY SlotTypes DEF SlotRecords
<1>8. /\ n \in live' <=> slot'[n].worker
      /\ slot'[n].worker <=> slot[n].worker /\ r \notin Retirements /\ pc[r] # "cleanup"
  BY <1>1, <1>3, <1>5, <1>6, <1>7
<1>9. slotAt' = IF slot'[n].refs = 0 /\ ~slot'[n].worker
                THEN [slotAt EXCEPT ![slot[n].key] = None] ELSE slotAt
  BY <1>3, <1>4, <1>5
<1> QED BY <1>3, <1>5, <1>8, <1>9 DEF Quits

\* A retirement that is over quits its slot.
LEMMA EndQuits ==
  ASSUME IInv, NEW t \in Retirements, NEW n \in SlotIds, on[t] = n, SlotOk(n),
         NEW s \in SlotRecords, EndRetire(t, s), s.key = slot[n].key,
         s.retiring = slot[n].retiring, pc[t] # "cleanup", ~s.worker,
         \/ s.worker = slot[n].worker /\ live' = live
         \/ live' = live \ {n},
         UNCHANGED <<revoked, closed>>
  PROVE  Quits(t, n)
<1>1. t \in Tasks /\ t \notin Requests
  BY RetirementsAreTasks
<1>2. PICK left : left = Released(s)
  OBVIOUS
<1>3. /\ left.key = slot[n].key /\ left.retiring = slot[n].retiring
      /\ left.worker = s.worker /\ left.refs = s.refs
  BY <1>2, LeftFacts
<1>4. /\ slot' = [slot EXCEPT ![n] = left] /\ pc' = [pc EXCEPT ![t] = "idle"]
      /\ on' = [on EXCEPT ![t] = None]
      /\ slotAt' = IF s.refs = 0 /\ ~s.worker THEN [slotAt EXCEPT ![s.key] = None]
                   ELSE slotAt
  BY <1>1, <1>2 DEF EndRetire, Goto, Unregistered
<1>5. Around(t, n) /\ on'[t] = None /\ slot'[n] = left
  BY <1>1, <1>4, SMTT(30) DEF Around, IInv, Types, LockInv, PlacesInv
<1>6. n \in live' <=> s.worker
  <2>1. (n \in live <=> slot[n].worker) /\ s.worker \in BOOLEAN
    BY DEF SlotOk, SlotRecords
  <2> QED BY <2>1
<1>7. slot[n].worker \in BOOLEAN /\ s.worker \in BOOLEAN
  BY SlotTypes DEF SlotRecords
<1>8. /\ n \in live' <=> slot'[n].worker
      /\ slot'[n].worker <=> slot[n].worker /\ t \notin Retirements /\ pc[t] # "cleanup"
  BY <1>1, <1>3, <1>5, <1>6, <1>7
<1>9. slotAt' = IF slot'[n].refs = 0 /\ ~slot'[n].worker
                THEN [slotAt EXCEPT ![slot[n].key] = None] ELSE slotAt
  BY <1>3, <1>4, <1>5
<1> QED BY <1>3, <1>5, <1>8, <1>9 DEF Quits

\* A request that joins comes to its slot.
LEMMA JoinJoins ==
  ASSUME IInv, NEW r \in Requests, NEW n \in SlotIds, NEW s \in SlotRecords, Join(r, n, s),
         on[r] = None, s.key = KeyOf[r], UNCHANGED <<live, revoked, closed>>,
         \/ slotAt[KeyOf[r]] = n /\ slotAt' = slotAt /\ s = slot[n]
         \/ /\ slotAt[KeyOf[r]] = None /\ slotAt' = [slotAt EXCEPT ![KeyOf[r]] = n]
            /\ n \in Unused /\ ~AtCapacity(KeyOf[r]) /\ ~Barred(KeyOf[r])
            /\ s.retiring = FALSE /\ s.worker = FALSE
  PROVE  Joins(r, n)
<1>1. r \in Tasks /\ r \notin Retirements
  BY RequestsAreTasks
<1>2. PICK counted : counted = [s EXCEPT !.refs = @ + 1]
  OBVIOUS
<1>3. /\ counted \in SlotRecords /\ counted.key = s.key
      /\ counted.retiring = s.retiring /\ counted.worker = s.worker
  BY <1>2 DEF SlotRecords
<1>4. PICK p \in {"locking", "rejected"} : pc' = [pc EXCEPT ![r] = p]
  BY DEF Join, Goto
<1>5. PICK x : /\ slot' = [slot EXCEPT ![n] = x] /\ x.key = s.key
               /\ x.retiring = s.retiring /\ x.worker = s.worker
  <2>1. CASE r \in aborted
    BY <1>2, <1>3, <2>1 DEF Join
  <2>2. CASE r \notin aborted /\ s.held
    <3>1. PICK line : line = Append(counted.waiters, r)
      OBVIOUS
    <3>2. slot' = [slot EXCEPT ![n] = [counted EXCEPT !.waiters = line]]
      BY <1>2, <1>3, <2>2, <3>1 DEF Join, SlotRecords
    <3>3. /\ [counted EXCEPT !.waiters = line].key = counted.key
          /\ [counted EXCEPT !.waiters = line].retiring = counted.retiring
          /\ [counted EXCEPT !.waiters = line].worker = counted.worker
      BY <1>3 DEF SlotRecords
    <3> QED BY <1>3, <3>2, <3>3
  <2>3. CASE r \notin aborted /\ ~s.held
    <3>1. slot' = [slot EXCEPT ![n] = [counted EXCEPT !.held = TRUE]]
      BY <1>2, <2>3 DEF Join
    <3>2. /\ [counted EXCEPT !.held = TRUE].key = counted.key
          /\ [counted EXCEPT !.held = TRUE].retiring = counted.retiring
          /\ [counted EXCEPT !.held = TRUE].worker = counted.worker
      BY <1>3 DEF SlotRecords
    <3> QED BY <1>3, <3>1, <3>2
  <2> QED BY <2>1, <2>2, <2>3
<1>6. on' = [on EXCEPT ![r] = n]
  BY DEF Join
<1>7. Around(r, n) /\ pc'[r] = p /\ on'[r] = n /\ slot'[n] = x
  BY <1>1, <1>4, <1>5, <1>6, SMTT(30) DEF Around, IInv, Types, LockInv, PlacesInv
<1> QED BY <1>1, <1>4, <1>5, <1>7 DEF Joins

\* A request comes to the slot of its key, to a new one, or is refused: while
\* its key is not barred, a retiring slot still has another request.
LEMMA ArrivesOk ==
  ASSUME SInv, BInv', NEW r \in Requests, Arrive(r), UNCHANGED <<sessions, made>>
  PROVE  WorkersInv'
<1>1. /\ r \in Tasks /\ r \notin Retirements /\ KeyOf[r] \in Keys
      /\ pc[r] = "idle" /\ on[r] = None /\ ~Barred(KeyOf[r])
      /\ UNCHANGED <<live, revoked, closed, failed>>
  BY RequestsAreTasks, ConstantsAssumption
  DEF Arrive, Ends, SInv, BInv, IInv, LockInv, PlacesInv
<1>2. /\ slot \in [SlotIds -> SlotRecords] /\ slotAt[KeyOf[r]] \in SlotIds \cup {None}
      /\ IInv
  BY <1>1 DEF SInv, BInv, IInv, Types
<1>3. ASSUME NEW n \in SlotIds, Joins(r, n)
      PROVE  WorkersInv'
  BY <1>3, StepOk
<1>4. CASE Refuse(r)
  <2>1. 1 \in SlotIds
    BY ConstantsAssumption DEF SlotIds
  <2>2. /\ pc' = [pc EXCEPT ![r] = "idle"] /\ on' = on /\ slot' = slot /\ slotAt' = slotAt
    BY <1>1, <1>2, <1>4 DEF Refuse, Goto, IInv, LockInv, PlacesInv
  <2>3. Quiet(r, 1)
    BY <1>1, <1>2, <2>1, <2>2, SMTT(30) DEF Quiet, Around, IInv, Types, LockInv, PlacesInv
  <2> QED BY <2>3, StepOk
<1>5. CASE FindOrCreate(r) /\ ~Refuse(r)
  <2>1. CASE slotAt[KeyOf[r]] # None
    <3>1. PICK n \in SlotIds : n = slotAt[KeyOf[r]]
      BY <1>2, <2>1
    <3>2. Join(r, n, slot[n]) /\ slotAt' = slotAt
      BY <1>5, <2>1, <3>1 DEF FindOrCreate
    <3>3. slot[n].key = KeyOf[r] /\ slot[n] \in SlotRecords
      BY <1>1, <1>2, <2>1, <3>1 DEF SInv, WorkersInv, KeysInv
    <3>4. Joins(r, n)
      BY <1>1, <1>2, <3>1, <3>2, <3>3, JoinJoins
    <3> QED BY <1>3, <3>4
  <2>2. CASE slotAt[KeyOf[r]] = None
    <3>1. /\ Join(r, Fresh, NewSlot(KeyOf[r])) /\ Unused # {} /\ ~AtCapacity(KeyOf[r])
          /\ slotAt' = [slotAt EXCEPT ![KeyOf[r]] = Fresh]
      BY <1>5, <2>2 DEF FindOrCreate
    <3>2. PICK n \in SlotIds : n = Fresh /\ n \in Unused
      BY <3>1, FreshFacts DEF Unused
    <3>3. PICK s \in SlotRecords : /\ s = NewSlot(KeyOf[r]) /\ s.key = KeyOf[r]
                                   /\ s.retiring = FALSE /\ s.worker = FALSE
      BY <1>1, NewSlotTypes
    <3>4. Join(r, n, s) /\ slotAt' = [slotAt EXCEPT ![KeyOf[r]] = n]
      BY <3>1, <3>2, <3>3
    <3>5. Joins(r, n)
      BY <1>1, <1>2, <2>2, <3>1, <3>2, <3>3, <3>4, JoinJoins
    <3> QED BY <1>3, <3>5
  <2> QED BY <2>1, <2>2
<1>6. ASSUME NEW n, n = slotAt[KeyOf[r]], n # None, slot[n].retiring
      PROVE  slot[n].refs # 0
  <2>1. n \in SlotIds /\ slot[n].key = KeyOf[r]
    BY <1>1, <1>2, <1>6 DEF SInv, WorkersInv, KeysInv
  <2>2. SlotOk(n)
    BY <2>1 DEF SInv, WorkersInv
  <2> QED BY <1>1, <1>6, <2>1, <2>2 DEF SlotOk
<1>7. FindOrCreate(r)
  BY <1>6 DEF Arrive
<1> QED BY <1>4, <1>5, <1>7

\* The other steps of a request that is at work.
LEMMA WorksOk ==
  ASSUME SInv, BInv', ~ClosingMayFail, NEW r \in Requests,
         Rejected(r) \/ Locked(r) \/ Abort(r) \/ Answer(r), UNCHANGED <<sessions, made>>
  PROVE  WorkersInv'
<1>1. /\ r \in Tasks /\ r \notin Retirements /\ IInv
      /\ slot \in [SlotIds -> SlotRecords] /\ UNCHANGED <<revoked, closed>>
  BY RequestsAreTasks
  DEF SInv, BInv, IInv, Types, Rejected, Locked, Abort, Answer, Started, StartFails, Release,
      CleanedUp, Renewed
<1>2. pc[r] \notin {"idle", "retiring", "closing", "retired"}
  BY DEF Rejected, Locked, Abort, Answer, Started, StartFails, Release, CleanedUp, Renewed,
         Runs, Ends, SInv, WorkersInv, CalmInv
<1>3. PICK n \in SlotIds : on[r] = n
  BY <1>1, <1>2 DEF IInv, LockInv, PlacesInv
<1>4. SlotOk(n) /\ slot[n] \in SlotRecords
  BY <1>1 DEF SInv, WorkersInv
<1>5. ASSUME NEW p, pc' = [pc EXCEPT ![r] = p], on' = on, slotAt' = slotAt, live' = live,
             slot' = slot, p \notin {"retiring", "closing", "retired", "cleanup"},
             pc[r] # "cleanup"
      PROVE  WorkersInv'
  <2>1. Quiet(r, n)
    BY <1>1, <1>3, <1>5, SMTT(30) DEF Quiet, Around, IInv, Types, LockInv, PlacesInv
  <2> QED BY <2>1, StepOk
<1>6. ASSUME Leave(r, slot[n]), live' = live, pc[r] # "cleanup"
      PROVE  WorkersInv'
  <2>1. Quits(r, n)
    BY <1>1, <1>3, <1>4, <1>6, LeaveQuits
  <2> QED BY <2>1, StepOk
<1>7. CASE Rejected(r)
  <2>1. PICK left : left = Dropped(slot[n])
    OBVIOUS
  <2>2. /\ left.key = slot[n].key /\ left.retiring = slot[n].retiring
        /\ left.worker = slot[n].worker
    BY <1>4, <2>1, LeftFacts
  <2>3. /\ slot' = [slot EXCEPT ![n] = left] /\ pc' = [pc EXCEPT ![r] = "idle"]
        /\ on' = [on EXCEPT ![r] = None] /\ live' = live /\ pc[r] = "rejected"
        /\ slotAt' = IF left.refs = 0 /\ ~left.worker THEN [slotAt EXCEPT ![left.key] = None]
                     ELSE slotAt
    BY <1>3, <1>7, <2>1 DEF Rejected, Goto, Unregistered, Runs
  <2>4. Around(r, n) /\ on'[r] = None /\ slot'[n] = left
    BY <1>1, <1>3, <2>3, SMTT(30) DEF Around, IInv, Types, LockInv, PlacesInv
  <2>5. (n \in live <=> slot[n].worker) /\ slot[n].worker \in BOOLEAN
    BY <1>1, <1>4, SlotTypes DEF SlotOk
  <2>6. /\ n \in live' <=> slot'[n].worker
        /\ slot'[n].worker <=> slot[n].worker /\ r \notin Retirements /\ pc[r] # "cleanup"
    BY <1>1, <2>2, <2>3, <2>4, <2>5
  <2>7. slotAt' = IF slot'[n].refs = 0 /\ ~slot'[n].worker
                  THEN [slotAt EXCEPT ![slot[n].key] = None] ELSE slotAt
    BY <2>2, <2>3, <2>4
  <2>8. Quits(r, n)
    BY <1>3, <2>2, <2>4, <2>6, <2>7 DEF Quits
  <2> QED BY <2>8, StepOk
<1>8. CASE Locked(r)
  <2>1. pc[r] = "locking" /\ live' = live
    BY <1>8 DEF Locked, Runs
  <2>2. CASE Unfit(r)
    BY <1>3, <1>6, <1>8, <2>1, <2>2 DEF Locked
  <2>3. CASE ~Unfit(r)
    <3>1. PICK p \in {"starting", "leased", "renewing"} : pc' = [pc EXCEPT ![r] = p]
      BY <1>8, <2>3 DEF Locked, Goto
    <3>2. slot' = slot /\ slotAt' = slotAt /\ on' = on
      BY <1>8, <2>3 DEF Locked
    <3> QED BY <1>5, <2>1, <3>1, <3>2
  <2> QED BY <2>2, <2>3
<1>9. CASE Abort(r)
  <2>1. CASE pc[r] = "locking"
    <3>1. PICK line : line = Without(slot[n].waiters, r)
      OBVIOUS
    <3>2. PICK s : s = [slot[n] EXCEPT !.waiters = line]
      OBVIOUS
    <3>3. /\ s.key = slot[n].key /\ s.refs = slot[n].refs
          /\ s.retiring = slot[n].retiring /\ s.worker = slot[n].worker
      BY <1>4, <3>2 DEF SlotRecords
    <3>4. /\ slot' = [slot EXCEPT ![n] = s] /\ pc' = [pc EXCEPT ![r] = "rejected"]
          /\ on' = on /\ slotAt' = slotAt /\ live' = live
      BY <1>1, <1>3, <1>9, <2>1, <3>1, <3>2 DEF Abort, Goto
    <3>5. Quiet(r, n)
      BY <1>1, <1>3, <2>1, <3>3, <3>4, SMTT(30)
      DEF Quiet, Around, IInv, Types, LockInv, PlacesInv
    <3> QED BY <3>5, StepOk
  <2>2. CASE pc[r] # "locking"
    <3>1. /\ slot' = slot /\ pc' = pc /\ on' = on /\ slotAt' = slotAt /\ live' = live
      BY <1>9, <2>2 DEF Abort
    <3>2. Quiet(r, n)
      BY <1>1, <1>2, <1>3, <3>1 DEF Quiet, Around
    <3> QED BY <3>2, StepOk
  <2> QED BY <2>1, <2>2
<1>10. CASE StartFails(r) \/ Release(r)
  BY <1>3, <1>6, <1>10 DEF StartFails, Release, Ends
<1>11. ASSUME NEW ok \in BOOLEAN, CleanedUp(r, ok)
       PROVE  WorkersInv'
  <2>1. PICK s : s = [slot[n] EXCEPT !.worker = FALSE]
    OBVIOUS
  <2>2. /\ s \in SlotRecords /\ s.key = slot[n].key /\ s.retiring = slot[n].retiring
        /\ ~s.worker
    BY <1>4, <2>1 DEF SlotRecords
  <2>3. ok = TRUE
    BY <1>11 DEF CleanedUp
  <2>4. Leave(r, s) /\ live' = live \ {n} /\ pc[r] = "cleanup"
    BY <1>3, <1>11, <2>1, <2>3 DEF CleanedUp, Ends
  <2>5. Quits(r, n)
    BY <1>1, <1>3, <1>4, <2>2, <2>4, LeaveQuits
  <2> QED BY <2>5, StepOk
<1>12. ASSUME NEW ok \in BOOLEAN, Renewed(r, ok)
       PROVE  WorkersInv'
  <2>1. pc[r] = "renewing" /\ live' = live
    BY <1>12 DEF Renewed, Ends
  <2>2. CASE Leave(r, slot[n])
    BY <1>6, <2>1, <2>2
  <2>3. CASE ~Leave(r, slot[n])
    <3>1. pc' = [pc EXCEPT ![r] = "leased"] /\ slot' = slot /\ slotAt' = slotAt /\ on' = on
      BY <1>3, <1>12, <2>3 DEF Renewed, Goto
    <3> QED BY <1>5, <2>1, <3>1
  <2> QED BY <2>2, <2>3
<1>13. CASE Started(r)
  <2>1. /\ pc[r] = "starting" /\ live' = live \cup {n} /\ slotAt' = slotAt /\ on' = on
        /\ slot' = [slot EXCEPT ![n].worker = TRUE, ![n].retiring = @ \/ Unfit(r)]
        /\ pc' = [pc EXCEPT ![r] = IF Unfit(r) THEN "cleanup" ELSE "leased"]
    BY <1>3, <1>13 DEF Started, Ends, Goto
  <2>2. /\ slot'[n].worker = TRUE /\ slot'[n].retiring = (slot[n].retiring \/ Unfit(r))
        /\ slot'[n].key = slot[n].key /\ slot'[n].refs = slot[n].refs
        /\ \A k \in SlotIds \ {n} : slot'[k] = slot[k]
    BY <1>1, <1>4, <2>1 DEF SlotRecords
  <2>3. ~Unfit(r) => ~slot[n].retiring
    BY <1>3 DEF Unfit
  <2>4. /\ \A u \in Tasks \ {r} : pc'[u] = pc[u] /\ on'[u] = on[u]
        /\ pc'[r] = IF Unfit(r) THEN "cleanup" ELSE "leased"
    BY <1>1, <2>1 DEF IInv, LockInv, PlacesInv
  <2>5. Around(r, n)
    BY <1>1, <1>3, <2>1, <2>2, <2>4 DEF Around
  <2>6. Starts(r, n)
    BY <1>1, <1>3, <2>1, <2>2, <2>3, <2>4, <2>5 DEF Starts
  <2> QED BY <2>6, StepOk
<1> QED BY <1>7, <1>8, <1>9, <1>10, <1>11, <1>12, <1>13 DEF Answer

\* A retirement gets its lock, closes the worker and is over.
LEMMA RetiresOk ==
  ASSUME SInv, BInv', NEW t \in Tasks, RetireLocked(t) \/ WorkerClosed(t),
         UNCHANGED <<sessions, made>>
  PROVE  WorkersInv'
<1>1. /\ IInv /\ slot \in [SlotIds -> SlotRecords] /\ UNCHANGED <<revoked, closed>>
      /\ pc[t] \in {"retiring", "closing"}
  BY DEF SInv, BInv, IInv, Types, RetireLocked, WorkerClosed, Runs, Ends
<1>2. t \in Retirements /\ t \notin Requests
  BY <1>1, RequestsAreTasks DEF Tasks, SInv, WorkersInv, CalmInv
<1>3. PICK n \in SlotIds : on[t] = n
  BY <1>1 DEF IInv, LockInv, PlacesInv
<1>4. SlotOk(n) /\ slot[n] \in SlotRecords
  BY <1>1 DEF SInv, WorkersInv
<1>5. CASE RetireLocked(t)
  <2>1. CASE slot[n].worker
    <3>1. /\ pc' = [pc EXCEPT ![t] = "closing"] /\ slot' = slot /\ slotAt' = slotAt
          /\ on' = on /\ live' = live
      BY <1>3, <1>5, <2>1 DEF RetireLocked, Goto
    <3>2. Quiet(t, n)
      BY <1>1, <1>2, <1>3, <3>1, SMTT(30) DEF Quiet, Around, IInv, Types, LockInv, PlacesInv
    <3> QED BY <3>2, StepOk
  <2>2. CASE ~slot[n].worker
    <3>1. EndRetire(t, slot[n]) /\ live' = live
      BY <1>3, <1>5, <2>2 DEF RetireLocked
    <3>2. Quits(t, n)
      BY <1>1, <1>2, <1>3, <1>4, <2>2, <3>1, EndQuits
    <3> QED BY <3>2, StepOk
  <2> QED BY <2>1, <2>2
<1>6. CASE WorkerClosed(t)
  <2>1. PICK s : s = [slot[n] EXCEPT !.worker = FALSE]
    OBVIOUS
  <2>2. /\ s \in SlotRecords /\ s.key = slot[n].key /\ s.retiring = slot[n].retiring
        /\ ~s.worker
    BY <1>4, <2>1 DEF SlotRecords
  <2>3. EndRetire(t, s) /\ live' = live \ {n}
    BY <1>3, <1>6, <2>1 DEF WorkerClosed
  <2>4. Quits(t, n)
    BY <1>1, <1>2, <1>3, <1>4, <2>2, <2>3, EndQuits
  <2> QED BY <2>4, StepOk
<1> QED BY <1>5, <1>6

\* Keys that no longer stand for a session, before the workers are asked for.
LEMMA RemoveOk ==
  ASSUME SInv, ready = << >>, NEW some, Remove(some), made' = made
  PROVE  WorkersInv'
<1>1. /\ BInv /\ sessions' = sessions \ some
      /\ revoked' = revoked \cup (some \cap sessions) /\ closed' = closed
      /\ Marks({"revoke"} \X SlotsOf(some \cap sessions), SlotsOf(some \cap sessions))
  BY RemoveKeeps DEF SInv
<1>2. ASSUME NEW n \in SlotsOf(some \cap sessions)
      PROVE  slotAt[slot[n].key] = n /\ slot[n].key \in revoked'
  <2>1. n \in Mapped /\ slot[n].key \in some \cap sessions
    BY DEF SlotsOf
  <2>2. PICK k \in Keys : slotAt[k] = n /\ slotAt[k] # None
    BY <2>1 DEF Mapped, Registered
  <2>3. slot[n].key = k
    BY <2>2 DEF SInv, WorkersInv, KeysInv
  <2> QED BY <1>1, <2>1, <2>2, <2>3
<1>3. ASSUME NEW n \in live, slot[n].key \in sessions \ sessions'
      PROVE  <<"revoke", n>> \in {"revoke"} \X SlotsOf(some \cap sessions)
  <2>1. n \in SlotIds
    BY <1>1 DEF BInv, IInv, Types
  <2>2. slotAt[slot[n].key] = n /\ n # None /\ slot[n].key \in Keys
    BY <1>1, <2>1, SlotTypes DEF BInv, SInv, WorkersInv, SlotOk
  <2>3. n \in Mapped
    BY <2>2 DEF Mapped, Registered
  <2>4. slot[n].key \in some \cap sessions
    BY <1>1, <1>3
  <2> QED BY <2>3, <2>4 DEF SlotsOf
<1>4. /\ made' \ sessions' \subseteq revoked' /\ (closed' => sessions' = {})
      /\ sessions' \subseteq sessions /\ revoked \subseteq revoked' /\ (closed => closed')
      /\ ~(closed' /\ ~closed)
  BY <1>1 DEF SInv, WorkersInv
<1>5. PICK R, T : /\ R = {"revoke"} \X SlotsOf(some \cap sessions)
                  /\ T = SlotsOf(some \cap sessions)
  OBVIOUS
<1>6. /\ Marks(R, T) /\ \A n \in live : slot[n].key \in sessions \ sessions' =>
                             <<"revoke", n>> \in R
      /\ \A n \in T : slotAt[slot[n].key] = n /\ (slot[n].key \in revoked' \/ closed')
  BY <1>1, <1>2, <1>3, <1>5
<1> QED BY <1>4, <1>6, MarksOk

\* Nothing happens to slots and sessions, but keys may be barred.
LEMMA NothingOk ==
  ASSUME SInv, UNCHANGED <<slotAt, slot, pc, on, live, aborted, closed, sessions, made>>,
         revoked \subseteq revoked'
  PROVE  WorkersInv'
<1>1. \A n \in SlotIds : slot[n].retiring \in BOOLEAN
  BY SlotTypes DEF SInv, BInv
<1>2. Marks({}, {})
  BY <1>1 DEF Marks
<1>3. made' \ sessions' \subseteq revoked' /\ (closed' => sessions' = {})
  BY DEF SInv, WorkersInv
<1> QED BY <1>2, <1>3, MarksOk

\* A session opens.
LEMMA OpenOk ==
  ASSUME SInv, UNCHANGED registry, NEW k \in Keys, k \notin made, ~closed, ~Full(k),
         sessions' = sessions \cup {k}, made' = made \cup {k}
  PROVE  WorkersInv'
<1>1. /\ slotAt' = slotAt /\ slot' = slot /\ pc' = pc /\ on' = on /\ live' = live
      /\ revoked' = revoked /\ closed' = closed
  BY DEF registry
<1>2. made' \ sessions' = made \ sessions
  BY DEF SInv, BInv, FetchInv
<1>3. ASSUME NEW n \in SlotIds
      PROVE  SlotOk(n)'
  <2>1. SlotOk(n)
    BY DEF SInv, WorkersInv
  <2>2. (Cleans(n)' <=> Cleans(n)) /\ (Barred(slot[n].key)' <=> Barred(slot[n].key))
    BY <1>1 DEF Cleans, Barred
  <2> QED BY <1>1, <1>2, <2>1, <2>2 DEF SlotOk
<1>4. KeysInv' /\ CalmInv' /\ Within(Registered)'
  BY <1>1 DEF SInv, WorkersInv, KeysInv, CalmInv, Within, Registered
<1>5. Within(sessions)'
  <2>1. PICK S : S = sessions
    OBVIOUS
  <2>2. /\ ~(Cardinality(S) >= MaxWorkers)
        /\ ~(Cardinality({o \in S : Of(o) = Of(k)}) >= MaxPerPrincipal)
    BY <2>1 DEF Full, SessionsOf
  <2>3. Within(S \cup {k})
    BY <2>1, <2>2, WithinOneMore DEF SInv, WorkersInv
  <2> QED BY <2>1, <2>3 DEF Within
<1>6. made' \ sessions' \subseteq revoked' /\ (closed' => sessions' = {})
  BY <1>1, <1>2 DEF SInv, WorkersInv
<1> QED BY <1>3, <1>4, <1>5, <1>6 DEF WorkersInv

LEMMA FetchesOk ==
  ASSUME SInv, BInv', NEW r \in Requests, Fetches(r)
  PROVE  WorkersInv'
<1>1. ready = << >> /\ KeyOf[r] \in Keys
  BY ConstantsAssumption
  DEF Fetches, Fetch, Find, Prune, Open, Connected, Initialized, Call, Delete, Answered, Awaiting
<1>2. ASSUME NEW some, Remove(some), UNCHANGED made
      PROVE  WorkersInv'
  BY <1>1, <1>2, RemoveOk
<1>3. ASSUME UNCHANGED <<registry, sessions, made>>
      PROVE  WorkersInv'
  BY <1>3, NothingOk DEF registry
<1>4. CASE Fetch(r) \/ Answered(r)
  BY <1>3, <1>4 DEF Fetch, Answered
<1>5. CASE Find(r)
  BY <1>2, <1>3, <1>5 DEF Find
<1>6. CASE Prune(r) \/ Delete(r)
  BY <1>2, <1>6 DEF Prune, Delete
<1>7. CASE Connected(r) \/ Initialized(r)
  BY <1>2, <1>3, <1>7 DEF Connected, Initialized
<1>8. CASE Open(r)
  <2>1. UNCHANGED registry /\ KeyOf[r] \notin made
    BY <1>8 DEF Open, Awaiting, SInv, BInv, FetchInv
  <2>2. CASE Full(KeyOf[r]) \/ Shut
    BY <1>3, <1>8, <2>1, <2>2 DEF Open
  <2>3. CASE ~(Full(KeyOf[r]) \/ Shut)
    BY <1>1, <1>8, <2>1, <2>3, OpenOk DEF Open, Shut
  <2> QED BY <2>2, <2>3
<1>9. CASE Call(r)
  <2>1. CASE Arrive(r)
    BY <1>9, <2>1, ArrivesOk DEF Call
  <2>2. CASE UNCHANGED registry
    BY <1>3, <1>9, <2>2 DEF Call
  <2> QED BY <1>9, <2>1, <2>2 DEF Call
<1> QED BY <1>4, <1>5, <1>6, <1>7, <1>8, <1>9 DEF Fetches

\* The sweep takes slots whose keys are barred: no other idle slot retires.
LEMMA ExpireOk ==
  ASSUME SInv, Expire, UNCHANGED <<sessions, made>>
  PROVE  WorkersInv'
<1>1. PICK due : /\ due \subseteq Mapped /\ RetireAll("expire", due)
                 /\ \A n \in due : slot[n].refs = 0
                                   /\ (slot[n].retiring \/ slot[n].key \in revoked)
  BY DEF Expire
<1>2. due \subseteq SlotIds /\ UNCHANGED <<revoked, closed>> /\ IInv
  BY <1>1, MappedAreSlots DEF SInv, BInv, Expire
<1>3. Marks({"expire"} \X due, due)
  BY <1>1, <1>2, RetireAllMarks
<1>4. ASSUME NEW n \in due
      PROVE  slotAt[slot[n].key] = n /\ Barred(slot[n].key)
  <2>1. PICK k \in Keys : slotAt[k] = n /\ slotAt[k] # None
    BY <1>1 DEF Mapped, Registered
  <2>2. slot[n].key = k
    BY <2>1 DEF SInv, WorkersInv, KeysInv
  <2>3. slot[n].retiring => Barred(slot[n].key)
    <3>1. SlotOk(n)
      BY <1>2 DEF SInv, WorkersInv
    <3> QED BY <1>1, <2>1, <2>2, <3>1 DEF SlotOk
  <2> QED BY <1>1, <2>1, <2>2, <2>3 DEF Barred
<1>5. made' \ sessions' \subseteq revoked' /\ (closed' => sessions' = {})
  BY <1>2 DEF SInv, WorkersInv
<1> QED BY <1>2, <1>3, <1>4, <1>5, MarksOk DEF Barred

LEMMA ShutdownOk ==
  ASSUME SInv, Shutdown
  PROVE  WorkersInv'
<1>1. /\ Marks(Both, Mapped) /\ closed' = TRUE /\ sessions' = {} /\ made' = made
      /\ revoked' = revoked \cup sessions
  BY ShutdownMarks DEF SInv, Shutdown
<1>2. ASSUME NEW n \in Mapped
      PROVE  slotAt[slot[n].key] = n
  <2>1. PICK k \in Keys : slotAt[k] = n /\ slotAt[k] # None
    BY DEF Mapped, Registered
  <2> QED BY <2>1 DEF SInv, WorkersInv, KeysInv
<1>3. ASSUME NEW n \in live
      PROVE  /\ <<"close", n>> \in Both
             /\ slot[n].key \in sessions => <<"revoke", n>> \in Both
  <2>1. n \in SlotIds
    BY DEF SInv, BInv, IInv, Types
  <2>2. slotAt[slot[n].key] = n /\ n # None /\ slot[n].key \in Keys
    BY <2>1, SlotTypes DEF BInv, SInv, WorkersInv, SlotOk
  <2>3. n \in Mapped
    BY <2>2 DEF Mapped, Registered
  <2> QED BY <2>3 DEF Both, SlotsOf
<1>4. made' \ sessions' \subseteq revoked' /\ (closed' => sessions' = {})
  BY <1>1 DEF SInv, WorkersInv
<1> QED BY <1>1, <1>2, <1>3, <1>4, MarksOk

LEMMA RegistryOk ==
  ASSUME SInv, BInv', ~ClosingMayFail, Registry
  PROVE  WorkersInv'
<1>1. UNCHANGED <<sessions, made>>
  BY DEF Registry
<1>2. ASSUME NEW r \in Requests
      PROVE  ~Retired(r)
  BY DEF Retired, Runs, SInv, WorkersInv, CalmInv
<1>3. ASSUME NEW s \in Keys, Lapses(s)
      PROVE  WorkersInv'
  BY <1>1, <1>3, NothingOk DEF Lapses, Lapse
<1> QED BY <1>1, <1>2, <1>3, WorksOk, RetiresOk, ExpireOk DEF Registry, Continuation

LEMMA InitSInv == ASInit => SInv
<1> SUFFICES ASSUME ASInit PROVE SInv
  OBVIOUS
<1>1. BInv
  BY InitBInv
<1>2. /\ slotAt = [k \in Keys |-> None] /\ pc = [t \in Tasks |-> "idle"]
      /\ on = [t \in Tasks |-> None] /\ live = {} /\ closed = FALSE
      /\ sessions = {} /\ made = {}
  BY DEF ASInit, Init
<1>3. \A n \in SlotIds : /\ slot[n].key \in Keys /\ n # None
                         /\ slot[n].worker = FALSE /\ slot[n].retiring = FALSE
  <2>1. PICK k \in Keys : k = CHOOSE j \in Keys : TRUE
    BY ConstantsAssumption
  <2>2. \A n \in SlotIds : slot[n] = NewSlot(k)
    BY <2>1 DEF ASInit, Init
  <2>3. NewSlot(k).key = k /\ NewSlot(k).worker = FALSE /\ NewSlot(k).retiring = FALSE
    BY NewSlotTypes
  <2>4. \A n \in SlotIds : n # None
    BY DEF SlotIds, None
  <2> QED BY <2>2, <2>3, <2>4
<1>4. \A n \in SlotIds : SlotOk(n)
  BY <1>2, <1>3, RequestsAreTasks, RetirementsAreTasks DEF SlotOk
<1>5. KeysInv /\ CalmInv
  BY <1>2, RequestsAreTasks DEF KeysInv, CalmInv
<1>6. Within({})
  <2>1. \A k \in Keys : {o \in {} : Of(o) = Of(k)} = {}
    OBVIOUS
  <2> QED BY <2>1, FS_EmptySet, ConstantsAssumption DEF Within
<1>7. Registered = {} /\ sessions = {}
  BY <1>2 DEF Registered
<1> QED BY <1>1, <1>2, <1>4, <1>5, <1>6, <1>7 DEF SInv, WorkersInv

LEMMA NextSInv == ~ClosingMayFail /\ SInv /\ [ASNext]_asVars => SInv'
<1> SUFFICES ASSUME ~ClosingMayFail, SInv, [ASNext]_asVars, BInv' PROVE WorkersInv'
  BY NextBInv DEF SInv
<1>1. ASSUME NEW r \in Requests, Fetches(r)
      PROVE  WorkersInv'
  BY <1>1, FetchesOk
<1>2. ASSUME UNCHANGED <<registry, sessions, made>>
      PROVE  WorkersInv'
  <2>1. /\ UNCHANGED <<slotAt, slot, pc, on, live, aborted, closed, sessions, made>>
        /\ revoked \subseteq revoked'
    BY <1>2 DEF registry
  <2> QED BY <2>1, NothingOk
<1>3. ASSUME NEW s \in Keys, TimerFires(s)
      PROVE  WorkersInv'
  BY <1>3, RemoveOk DEF TimerFires
<1>4. ASSUME NEW s \in Keys, GoesIdle(s)
      PROVE  WorkersInv'
  BY <1>2, <1>4 DEF GoesIdle
<1>5. CASE UNCHANGED asVars
  <2>1. UNCHANGED <<registry, sessions, made>>
    BY <1>5 DEF asVars
  <2> QED BY <1>2, <2>1
<1>6. CASE Shutdown
  BY <1>6, ShutdownOk
<1>7. CASE Registry
  BY <1>7, RegistryOk
<1> QED BY <1>1, <1>3, <1>4, <1>5, <1>6, <1>7 DEF ASNext

\* Workers of sessions are found under their keys, so that no two share one.
LEMMA WorkersWithin ==
  ASSUME SInv
  PROVE  /\ Cardinality(Workers) <= MaxWorkers
         /\ \A k \in Keys :
              Cardinality({n \in Workers : Of(slot[n].key) = Of(k)}) <= MaxPerPrincipal
<1>1. /\ \A n \in Workers : /\ n \in SlotIds /\ n # None /\ slot[n].key \in Keys
                            /\ slotAt[slot[n].key] = n
  BY SlotTypes DEF Workers, SInv, BInv, IInv, Types, WorkersInv, SlotOk
<1>2. /\ IsFiniteSet(Registered) /\ Cardinality(Registered) \in Nat
      /\ Cardinality(Registered) <= MaxWorkers
      /\ MaxWorkers \in Nat /\ MaxPerPrincipal \in Nat
  BY FS_CardinalityType, ConstantsAssumption DEF SInv, WorkersInv, Within
<1>3. ASSUME NEW W, W \subseteq Workers, NEW G, G \subseteq Registered,
             \A n \in W : slot[n].key \in G
      PROVE  Cardinality(W) <= Cardinality(G) /\ Cardinality(W) \in Nat /\ Cardinality(G) \in Nat
  <2>1. PICK f : f = [n \in W |-> slot[n].key]
    OBVIOUS
  <2>2. f \in Injection(W, G)
    <3>1. f \in [W -> G]
      BY <1>3, <2>1
    <3>2. ASSUME NEW m \in W, NEW n \in W, f[m] = f[n]
          PROVE  m = n
      <4>1. f[m] = slot[m].key /\ f[n] = slot[n].key
        BY <2>1
      <4>2. m \in Workers /\ n \in Workers
        BY <1>3
      <4>3. slotAt[slot[m].key] = m /\ slotAt[slot[n].key] = n
        BY <1>1, <4>2
      <4> QED BY <3>2, <4>1, <4>3
    <3> QED BY <3>1, <3>2 DEF Injection, IsInjective
  <2>3. IsFiniteSet(G)
    BY <1>2, <1>3, FS_Subset
  <2>4. IsFiniteSet(W) /\ Cardinality(W) <= Cardinality(G)
    BY <2>2, <2>3, FS_Injection
  <2> QED BY <2>3, <2>4, FS_CardinalityType
<1>4. \A n \in Workers : slot[n].key \in Registered
  BY <1>1 DEF Registered
<1>5. Cardinality(Workers) <= MaxWorkers
  <2>1. Cardinality(Workers) <= Cardinality(Registered) /\ Cardinality(Workers) \in Nat
    BY <1>3, <1>4
  <2> QED BY <1>2, <2>1
<1>6. ASSUME NEW k \in Keys
      PROVE  Cardinality({n \in Workers : Of(slot[n].key) = Of(k)}) <= MaxPerPrincipal
  <2>1. PICK W : W = {n \in Workers : Of(slot[n].key) = Of(k)}
    OBVIOUS
  <2>2. PICK G : G = {o \in Registered : Of(o) = Of(k)}
    OBVIOUS
  <2>3. Cardinality(W) <= Cardinality(G) /\ Cardinality(W) \in Nat /\ Cardinality(G) \in Nat
    BY <1>3, <1>4, <2>1, <2>2
  <2>4. Cardinality(G) <= MaxPerPrincipal
    BY <2>2 DEF SInv, WorkersInv, Within
  <2> QED BY <1>2, <2>1, <2>3, <2>4
<1> QED BY <1>5, <1>6

LEMMA SInvImplies == SInv => SessionsInvariant
<1> SUFFICES ASSUME SInv PROVE SessionsInvariant
  OBVIOUS
<1>1. SessionsWithinLimits
  BY WorkersWithin DEF SessionsWithinLimits, SessionsOf, SInv, WorkersInv, Within
<1>2. ASSUME NEW n \in Workers
      PROVE  n \in SlotIds /\ n \in live /\ slot[n].key \in made /\ SlotOk(n)
  BY DEF Workers, SInv, BInv, IInv, Types, WorkersInv
<1>3. NoWorkerWithoutSession
  <2>1. ASSUME NEW n \in Workers
        PROVE  /\ slotAt[slot[n].key] = n /\ slot[n].worker
               /\ slot[n].key \notin sessions => \E t \in Tasks : on[t] = n
    <3>1. slotAt[slot[n].key] = n /\ slot[n].worker
      BY <1>2 DEF SlotOk
    <3>2. slot[n].key \notin sessions => Cleans(n) \/ \E t \in Retirements : on[t] = n
      BY <1>2 DEF SlotOk
    <3> QED BY <3>1, <3>2, RequestsAreTasks, RetirementsAreTasks DEF Cleans
  <2> QED BY <2>1 DEF NoWorkerWithoutSession
<1>4. NothingAfterShutdown
  <2>1. SUFFICES ASSUME closed
                 PROVE  /\ sessions = {}
                        /\ (\A n \in SlotIds : pc[<<"close", n>>] = "idle")
                             => \A n \in Workers : \E r \in Requests : on[r] = n
    BY DEF NothingAfterShutdown
  <2>2. ASSUME \A n \in SlotIds : pc[<<"close", n>>] = "idle", NEW n \in Workers
        PROVE  \E r \in Requests : on[r] = n
    <3>1. Cleans(n) \/ on[<<"close", n>>] = n
      BY <1>2, <2>1 DEF SlotOk
    <3>2. <<"close", n>> \in Tasks /\ pc[<<"close", n>>] = "idle" /\ n # None
      BY <1>2, <2>2, RetirementsAreTasks, SlotTypes DEF SInv, BInv
    <3>3. on[<<"close", n>>] = None
      BY <3>2 DEF SInv, BInv, IInv, LockInv, PlacesInv
    <3> QED BY <3>1, <3>2, <3>3 DEF Cleans
  <2> QED BY <2>1, <2>2 DEF SInv, WorkersInv
<1> QED BY <1>1, <1>3, <1>4 DEF SessionsInvariant

\* While every worker that is closed goes: sessions and the workers behind them
\* stay within their limits, a worker is found under the key of its session
\* and outlives it only to be closed, and nothing opens after the shutdown.
THEOREM SessionsHoldTheirWorkers == ~ClosingMayFail /\ ASSpec => []SessionsInvariant
<1> SUFFICES ASSUME ~ClosingMayFail PROVE ASSpec => []SessionsInvariant
  OBVIOUS
<1>1. ASInit => SInv
  BY InitSInv
<1>2. SInv /\ [ASNext]_asVars => SInv'
  BY NextSInv
<1>3. SInv => SessionsInvariant
  BY SInvImplies
<1> QED BY <1>1, <1>2, <1>3, PTL DEF ASSpec

\* Only steps that the registry takes for logins too hand out a worker.
LEMMA RegistryHandsOut ==
  ASSUME BInv, [ASNext]_asVars, NEW r \in Requests, pc'[r] # pc[r]
  PROVE  [Next]_vars
<1>1. ASSUME UNCHANGED registry
      PROVE  FALSE
  BY <1>1 DEF registry
<1>2. ASSUME NEW some, Remove(some), ready = << >>, UNCHANGED made
      PROVE  FALSE
  BY <1>2, RemoveKeeps
<1>3. ASSUME NEW o \in Requests, Fetches(o)
      PROVE  [Next]_vars
  <2>1. CASE Fetch(o) \/ Open(o) \/ Answered(o)
    BY <1>1, <2>1 DEF Fetch, Open, Answered
  <2>2. CASE Find(o) \/ Prune(o) \/ Delete(o) \/ Connected(o) \/ Initialized(o)
    BY <1>1, <1>2, <2>2 DEF Find, Prune, Delete, Connected, Initialized, Awaiting
  <2>3. CASE Call(o)
    BY <1>1, <2>3 DEF Call, Next
  <2> QED BY <1>3, <2>1, <2>2, <2>3 DEF Fetches
<1>4. ASSUME NEW s \in Keys, GoesIdle(s) \/ TimerFires(s)
      PROVE  FALSE
  BY <1>1, <1>2, <1>4 DEF GoesIdle, TimerFires
<1>5. CASE Shutdown
  <2>1. Marks(Both, Mapped)
    BY <1>5, ShutdownMarks
  <2> QED BY <2>1, RequestsAreTasks DEF Marks
<1>6. CASE Registry
  BY <1>6 DEF Registry, Next, Lapses
<1>7. CASE UNCHANGED asVars
  BY <1>1, <1>7 DEF asVars
<1> QED BY <1>3, <1>4, <1>5, <1>6, <1>7 DEF ASNext

\* Under sessions as under logins, a worker is handed out only for a session
\* in force, to a request still there, on a slot that is not retiring.
THEOREM SessionLeasesArePermitted == ASSpec => LeaseIsPermitted
<1>1. ASInit => BInv
  BY InitBInv
<1>2. BInv /\ [ASNext]_asVars => BInv'
  BY NextBInv
<1>3. BInv /\ [ASNext]_asVars =>
        [\A r \in Requests : pc[r] # "leased" /\ pc'[r] = "leased" =>
           /\ KeyOf[r] \notin revoked /\ r \notin aborted
           /\ pc[r] # "renewing" => ~closed /\ ~slot'[on[r]].retiring]_vars
  <2> SUFFICES ASSUME BInv, [ASNext]_asVars, NEW r \in Requests,
                      pc[r] # "leased", pc'[r] = "leased"
               PROVE  /\ KeyOf[r] \notin revoked /\ r \notin aborted
                      /\ pc[r] # "renewing" => ~closed /\ ~slot'[on[r]].retiring
    OBVIOUS
  <2>1. [Next]_vars
    BY RegistryHandsOut
  <2> QED BY <2>1, HandOutIsPermitted DEF BInv
<1> QED BY <1>1, <1>2, <1>3, PTL DEF ASSpec, LeaseIsPermitted

\* Over sessions, with every close of a worker successful, one process belongs
\* to one key: no worker is started beside one that is still running.
THEOREM OneWorkerPerSession == ~ClosingMayFail /\ ASSpec => []OneWorkerPerLogin
<1> SUFFICES ASSUME ~ClosingMayFail PROVE ASSpec => []OneWorkerPerLogin
  OBVIOUS
<1>1. ASInit => SInv
  BY InitSInv
<1>2. SInv /\ [ASNext]_asVars => SInv'
  BY NextSInv
<1>3. SInv => OneWorkerPerLogin
  <2> SUFFICES ASSUME SInv, NEW m \in live, NEW n \in live, slot[m].key = slot[n].key
               PROVE  m = n
    BY DEF OneWorkerPerLogin
  <2>1. m \in SlotIds /\ n \in SlotIds
    BY DEF SInv, BInv, IInv, Types
  <2>2. slotAt[slot[m].key] = m /\ slotAt[slot[n].key] = n
    BY <2>1 DEF SInv, WorkersInv, SlotOk
  <2> QED BY <2>2
<1> QED BY <1>1, <1>2, <1>3, PTL DEF ASSpec
=============================================================================
