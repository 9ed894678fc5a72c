------------------------- MODULE RequestLedger_proofs -------------------------
(***************************************************************************)
(* Proofs about RequestLedger for every set of callers and payloads, every  *)
(* registry size and every range of request numbers; and about OutputAreas  *)
(* and the reducer it feeds, for every set of cells, every number of runs   *)
(* and messages and every budget of the reducer and its display table.      *)
(***************************************************************************)
EXTENDS RequestLedger, OutputAreas, FiniteSetTheorems, SequenceTheorems,
        WellFoundedInduction, TLAPS

\* Whoever is past the queue holds the lock.
LockInv == \A c \in Callers : pc[c] \in {"selecting", "fresh", "running"} => Holder(c)

\* The running call is the newest entry of the log, and still pending there.
RunningInv ==
  \A c \in Callers :
    pc[c] = "running" =>
      /\ Num(c) = high
      /\ high > 0
      /\ log[high].payload = Payload(c)
      /\ log[high].outcome = "pending"

\* The log holds exactly the numbers up to H, in order; only the holder's
\* entry is pending.
LogInv ==
  /\ Len(log) = high
  /\ \A i \in 1..high :
       /\ log[i].id = i
       /\ log[i].outcome = "pending" =>
            \E c \in Callers : Holder(c) /\ pc[c] = "running" /\ Num(c) = i

\* A retained receipt agrees with the log.
ReceiptInv ==
  \A n \in Retained :
    /\ n \in 1..high
    /\ receipts[n].payload = log[n].payload
    /\ receipts[n].state = "completed" =>
         receipts[n].outcome = log[n].outcome /\ log[n].outcome # "pending"
    /\ receipts[n].state = "active" => log[n].outcome = "pending"

IInv == TypeOK /\ LockInv /\ RunningInv /\ LogInv /\ ReceiptInv

LEMMA NotToldIsAnswer == NotTold \in Answers
  BY DEF Answers

LEMMA PlainAnswers ==
  \A k \in {"unavailable", "conflict", "expired", "out_of_order", "refused", "invalid"} :
    Say(k, "none") \in Answers
  BY DEF Answers

LEMMA OutcomeAnswers ==
  \A k \in {"fresh", "replayed"}, o \in {"ok", "failed"} : Say(k, o) \in Answers
  BY DEF Answers

LEMMA InitIInv == Init => IInv
<1> SUFFICES ASSUME Init PROVE IInv
  OBVIOUS
<1>0. (CHOOSE p \in Payloads : TRUE) \in Payloads
  BY LedgerAssumption
<1>1. receipts \in [Retained -> Receipts] /\ Retained = {}
  BY DEF Init, Retained
<1>2. asked \in [Callers -> (RequestIds \cup {0}) \X Payloads]
  BY <1>0 DEF Init
<1>3. told \in [Callers -> Answers]
  BY NotToldIsAnswer DEF Init
<1>4. TypeOK
  <2>1. high \in 0..MaxRequestId /\ jobs \subseteq 1..MaxRequestId
    BY LedgerAssumption DEF Init
  <2>2. queue \in Seq(Callers) /\ log \in Seq(LogEntries)
    BY DEF Init
  <2>3. /\ open \in BOOLEAN /\ closed \in BOOLEAN
        /\ pc \in [Callers -> {"idle", "queued", "selecting", "fresh", "running"}]
    BY DEF Init
  <2> QED BY <1>1, <1>2, <1>3, <2>1, <2>2, <2>3 DEF TypeOK
<1>5. LockInv /\ RunningInv
  BY DEF Init, LockInv, RunningInv
<1>6. LogInv /\ ReceiptInv
  BY <1>1 DEF Init, LogInv, ReceiptInv
<1> QED BY <1>4, <1>5, <1>6 DEF IInv

\* A function on 1..n is a sequence of length n.
LEMMA SeqFromFunction ==
  ASSUME NEW S, NEW n \in Nat, NEW f \in [1..n -> S]
  PROVE  f \in Seq(S) /\ Len(f) = n
<1>1. f \in Seq(S)
  BY SeqDef
<1> QED BY <1>1, LenProperties

\* Only one call is at the head of the queue.
LEMMA OneHolder ==
  \A c, d \in Callers : Holder(c) /\ Holder(d) => c = d
  BY DEF Holder

\* When no call is running, nothing is pending and no receipt is active.
LEMMA NothingPending ==
  ASSUME IInv, NEW c \in Callers, Holder(c), pc[c] # "running"
  PROVE  /\ \A i \in 1..high : log[i].outcome # "pending"
         /\ \A n \in Retained : receipts[n].state = "completed"
<1>1. \A i \in 1..high : log[i].outcome # "pending"
  BY OneHolder DEF IInv, LogInv
<1>2. \A n \in Retained : receipts[n].state \in {"active", "completed"}
  BY DEF IInv, TypeOK, Receipts
<1> QED BY <1>1, <1>2 DEF IInv, ReceiptInv

LEMMA IssueIInv ==
  ASSUME IInv, NEW c \in Callers, NEW n \in RequestIds, NEW p \in Payloads,
         Issue(c, n, p)
  PROVE  IInv'
<1>0. /\ pc[c] = "idle" /\ queue' = Append(queue, c)
      /\ queue \in Seq(Callers)
      /\ pc' = [pc EXCEPT ![c] = "queued"]
      /\ asked' = [asked EXCEPT ![c] = <<n, p>>]
      /\ told' = [told EXCEPT ![c] = NotTold]
      /\ UNCHANGED <<high, receipts, jobs, open, closed, log>>
  BY DEF Issue, IInv, TypeOK
<1>1. \A d \in Callers : Holder(d) => Holder(d)'
  BY <1>0 DEF Holder
<1>2. \A d \in Callers \ {c} : pc'[d] = pc[d] /\ asked'[d] = asked[d]
  BY <1>0 DEF IInv, TypeOK
<1>3. pc'[c] = "queued"
  BY <1>0 DEF IInv, TypeOK
<1>4. TypeOK'
  <2>1. queue' \in Seq(Callers)
    BY <1>0
  <2>2. asked' \in [Callers -> (RequestIds \cup {0}) \X Payloads]
    BY <1>0 DEF IInv, TypeOK
  <2>3. told' \in [Callers -> Answers]
    BY <1>0, NotToldIsAnswer DEF IInv, TypeOK
  <2>4. pc' \in [Callers -> {"idle", "queued", "selecting", "fresh", "running"}]
    BY <1>0 DEF IInv, TypeOK
  <2> QED BY <1>0, <2>1, <2>2, <2>3, <2>4 DEF IInv, TypeOK, Retained
<1>5. LockInv'
  BY <1>1, <1>2, <1>3 DEF IInv, LockInv
<1>6. RunningInv'
  BY <1>0, <1>2, <1>3 DEF IInv, RunningInv, Num, Payload
<1>7. LogInv'
  BY <1>0, <1>1, <1>2, <1>3 DEF IInv, LogInv, Num
<1>8. ReceiptInv'
  BY <1>0 DEF IInv, ReceiptInv, Retained
<1> QED BY <1>4, <1>5, <1>6, <1>7, <1>8 DEF IInv

\* A call that was not running answers and passes the lock on.
LEMMA ReplyIInv ==
  ASSUME IInv, NEW c \in Callers, NEW a \in Answers,
         Holder(c), pc[c] # "running", Reply(c, a),
         UNCHANGED <<high, receipts, jobs, open, closed, asked, log>>
  PROVE  IInv'
<1>0. /\ queue' = Tail(queue) /\ queue # <<>> /\ queue \in Seq(Callers)
      /\ pc' = [pc EXCEPT ![c] = "idle"]
      /\ told' = [told EXCEPT ![c] = a]
  BY DEF Reply, Release, Holder, IInv, TypeOK
<1>1. \A d \in Callers : pc'[d] \notin {"selecting", "fresh", "running"}
  BY <1>0, OneHolder DEF IInv, LockInv, TypeOK
<1>2. TypeOK'
  <2>1. queue' \in Seq(Callers)
    BY <1>0
  <2>2. told' \in [Callers -> Answers]
    BY <1>0 DEF IInv, TypeOK
  <2>3. pc' \in [Callers -> {"idle", "queued", "selecting", "fresh", "running"}]
    BY <1>0 DEF IInv, TypeOK
  <2> QED BY <2>1, <2>2, <2>3 DEF IInv, TypeOK, Retained
<1>3. LockInv' /\ RunningInv'
  BY <1>1 DEF LockInv, RunningInv
<1>4. LogInv'
  BY NothingPending DEF IInv, LogInv
<1>5. ReceiptInv'
  BY DEF IInv, ReceiptInv, Retained
<1> QED BY <1>2, <1>3, <1>4, <1>5 DEF IInv

LEMMA RefuseIInv ==
  ASSUME IInv, NEW c \in Callers, Holder(c), pc[c] # "running", Refuse(c)
  PROVE  IInv'
  BY ReplyIInv, PlainAnswers DEF Refuse

\* What preflight finds is one of the answers.
LEMMA AnswerKnownIInv ==
  ASSUME IInv, NEW c \in Callers, Holder(c), pc[c] # "running", ~IsNew(c), AnswerKnown(c)
  PROVE  IInv'
<1> DEFINE d == Decision(Num(c), Payload(c))
           a == IF d = "replay" THEN Replayed(c) ELSE Say(d, "none")
<1>1. d \in {"invalid", "replay", "conflict", "expired", "out_of_order"}
  BY DEF Decision, IsNew
<1>2. d = "replay" => Num(c) \in Retained
  BY DEF Decision
<1>3. ASSUME d = "replay" PROVE Replayed(c) \in Answers
  <2>1. receipts[Num(c)].state = "completed"
    BY <1>2, <1>3, NothingPending
  <2>2. receipts[Num(c)].outcome \in {"ok", "failed"}
    BY <1>2, <1>3, <2>1, NothingPending DEF IInv, ReceiptInv, TypeOK, Receipts
  <2> QED BY <2>2, PlainAnswers, OutcomeAnswers DEF Replayed
<1>4. a \in Answers
  BY <1>1, <1>3, PlainAnswers
<1> HIDE DEF d
<1>5. Reply(c, a) /\ UNCHANGED <<high, receipts, jobs, open, closed, asked, log>>
  BY DEF AnswerKnown, d
<1> QED BY <1>4, <1>5, ReplyIInv

LEMMA BeginIInv ==
  ASSUME IInv, NEW c \in Callers, Holder(c), pc[c] # "running", IsNew(c), Begin(c)
  PROVE  IInv'
<1> DEFINE n == Num(c)
           kept == AfterEviction
           r == [payload |-> Payload(c), state |-> "active", outcome |-> "pending"]
           e == [id |-> Num(c), payload |-> Payload(c), outcome |-> "pending"]
<1>1. n = high + 1 /\ n \in 1..MaxRequestId /\ n \notin Retained
  BY LedgerAssumption DEF IsNew, Decision, IInv, TypeOK, Num
<1>2. kept \subseteq Retained
  BY DEF AfterEviction
<1>3. Payload(c) \in Payloads
  BY DEF Payload, IInv, TypeOK
<1>4. /\ receipts' = [m \in kept \cup {n} |-> IF m = n THEN r ELSE receipts[m]]
      /\ high' = n
      /\ log' = Append(log, e)
      /\ pc' = [pc EXCEPT ![c] = "running"]
      /\ jobs' \subseteq jobs \cup {n}
      /\ UNCHANGED <<open, closed, queue, asked, told>>
  BY DEF Begin
<1>5. /\ log \in Seq(LogEntries) /\ Len(log) = high /\ high \in Nat
      /\ e \in LogEntries /\ r \in Receipts
  BY <1>1, <1>3 DEF IInv, TypeOK, LogInv, LogEntries, Receipts
<1>6. /\ log' \in Seq(LogEntries) /\ Len(log') = n
      /\ \A i \in 1..high : log'[i] = log[i]
      /\ log'[n] = e
  BY <1>1, <1>4, <1>5
<1>7. \A d \in Callers : pc'[d] \in {"selecting", "fresh", "running"} => d = c
  BY <1>4, OneHolder DEF IInv, LockInv, TypeOK
<1>8. pc'[c] = "running" /\ Holder(c)' /\ Num(c)' = n /\ Payload(c)' = Payload(c)
  BY <1>4 DEF IInv, TypeOK, Holder, Num, Payload
<1>9. Retained' = kept \cup {n}
  BY <1>4 DEF Retained
<1>a. TypeOK'
  <2>1. Retained' \subseteq 1..MaxRequestId
    BY <1>1, <1>2, <1>9 DEF IInv, TypeOK
  <2>2. receipts' \in [Retained' -> Receipts]
    BY <1>2, <1>4, <1>5, <1>9 DEF IInv, TypeOK
  <2>3. jobs' \subseteq 1..MaxRequestId
    BY <1>1, <1>4 DEF IInv, TypeOK
  <2>4. pc' \in [Callers -> {"idle", "queued", "selecting", "fresh", "running"}]
    BY <1>4 DEF IInv, TypeOK
  <2>5. high' \in 0..MaxRequestId
    BY <1>1, <1>4
  <2> QED BY <1>4, <1>6, <2>1, <2>2, <2>3, <2>4, <2>5 DEF IInv, TypeOK
<1>b. LockInv'
  BY <1>7, <1>8 DEF LockInv
<1>c. RunningInv'
  BY <1>1, <1>4, <1>5, <1>6, <1>7, <1>8 DEF RunningInv
<1>d. LogInv'
  <2>1. \A i \in 1..n : log'[i].id = i
    BY <1>1, <1>5, <1>6 DEF IInv, LogInv
  <2>2. \A i \in 1..n : log'[i].outcome = "pending" => i = n
    BY <1>1, <1>5, <1>6, NothingPending
  <2> QED BY <1>4, <1>6, <1>8, <2>1, <2>2 DEF LogInv
<1>e. ReceiptInv'
  <2> SUFFICES ASSUME NEW m \in Retained'
               PROVE  /\ m \in 1..n
                      /\ receipts'[m].payload = log'[m].payload
                      /\ receipts'[m].state = "completed" =>
                           receipts'[m].outcome = log'[m].outcome /\ log'[m].outcome # "pending"
                      /\ receipts'[m].state = "active" => log'[m].outcome = "pending"
    BY <1>4 DEF ReceiptInv
  <2>1. CASE m = n
    BY <2>1, <1>1, <1>4, <1>6, <1>9
  <2>2. CASE m # n
    <3>1. m \in Retained /\ m \in 1..high /\ receipts'[m] = receipts[m]
      BY <2>2, <1>2, <1>4, <1>9 DEF IInv, ReceiptInv
    <3> QED BY <3>1, <1>1, <1>5, <1>6 DEF IInv, ReceiptInv
  <2> QED BY <2>1, <2>2
<1> QED BY <1>a, <1>b, <1>c, <1>d, <1>e DEF IInv

LEMMA AwaitIInv ==
  ASSUME IInv, NEW c \in Callers, NEW w \in {"selecting", "fresh"},
         Holder(c), pc[c] # "running", Await(c, w)
  PROVE  IInv'
<1>0. /\ pc' = [pc EXCEPT ![c] = w]
      /\ UNCHANGED <<high, receipts, jobs, open, closed, queue, asked, told, log>>
  BY DEF Await
<1>1. \A d \in Callers : Holder(d)' = Holder(d) /\ Num(d)' = Num(d) /\ Payload(d)' = Payload(d)
  BY <1>0 DEF Holder, Num, Payload
<1>2. \A d \in Callers : pc'[d] = "running" => FALSE
  BY <1>0, OneHolder DEF IInv, LockInv, TypeOK
<1>3. TypeOK'
  BY <1>0 DEF IInv, TypeOK, Retained
<1>4. LockInv'
  BY <1>0, <1>1 DEF IInv, LockInv, TypeOK
<1>5. RunningInv'
  BY <1>2 DEF RunningInv
<1>6. LogInv'
  BY <1>0, NothingPending DEF IInv, LogInv
<1>7. ReceiptInv'
  BY <1>0 DEF IInv, ReceiptInv, Retained
<1> QED BY <1>3, <1>4, <1>5, <1>6, <1>7 DEF IInv

LEMMA FinishIInv ==
  ASSUME IInv, NEW c \in Callers, NEW o \in {"ok", "failed"}, Finish(c, o)
  PROVE  IInv'
<1> DEFINE n == Num(c)
<1>0. /\ Holder(c) /\ pc[c] = "running"
      /\ queue # <<>> /\ queue \in Seq(Callers)
      /\ receipts' = [m \in Retained |->
                        IF m = n THEN [receipts[m] EXCEPT !.state = "completed", !.outcome = o]
                                 ELSE receipts[m]]
      /\ log' = [i \in 1..Len(log) |->
                   IF log[i].id = n THEN [log[i] EXCEPT !.outcome = o] ELSE log[i]]
      /\ queue' = Tail(queue)
      /\ pc' = [pc EXCEPT ![c] = "idle"]
      /\ told' = [told EXCEPT ![c] = Say("fresh", o)]
      /\ UNCHANGED <<high, jobs, open, closed, asked>>
  BY DEF Finish, Holder, Reply, Release, IInv, TypeOK
<1>1. n = high /\ high \in 1..high /\ Len(log) = high /\ high \in Nat
  <2>1. high \in Nat
    BY LedgerAssumption DEF IInv, TypeOK
  <2>2. n = high /\ high > 0 /\ Len(log) = high
    BY <1>0 DEF IInv, RunningInv, LogInv
  <2> QED BY <2>1, <2>2
<1>2. \A d \in Callers : pc'[d] \notin {"selecting", "fresh", "running"}
  BY <1>0, OneHolder DEF IInv, LockInv, TypeOK
<1>3. /\ log \in Seq(LogEntries)
      /\ \A i \in 1..high : log[i] \in LogEntries /\ log[i].id = i
  BY <1>1 DEF IInv, TypeOK, LogInv
<1>4. /\ log' \in Seq(LogEntries) /\ Len(log') = high
      /\ \A i \in 1..high : i # n => log'[i] = log[i]
      /\ log'[n] = [log[n] EXCEPT !.outcome = o]
  <2>1. log' = [i \in 1..high |-> IF i = n THEN [log[i] EXCEPT !.outcome = o] ELSE log[i]]
    BY <1>0, <1>1, <1>3
  <2>2. \A i \in 1..high : log'[i] \in LogEntries
    BY <2>1, <1>3 DEF LogEntries
  <2>3. log' \in [1..high -> LogEntries]
    BY <2>1, <2>2
  <2>4. log' \in Seq(LogEntries) /\ Len(log') = high
    BY <2>3, <1>1, SeqFromFunction
  <2> QED BY <2>1, <2>4, <1>1
<1>5. /\ \A i \in 1..high : log[i].outcome = "pending" => i = n
      /\ log'[n].id = n /\ log'[n].outcome = o /\ log'[n].payload = log[n].payload
  <2>1. \A i \in 1..high : log[i].outcome = "pending" => i = n
    BY <1>0, OneHolder DEF IInv, LogInv
  <2>2. log[n] \in LogEntries /\ log[n].id = n
    BY <1>1, <1>3
  <2> QED BY <2>1, <2>2, <1>4 DEF LogEntries
<1>6. Retained' = Retained
  BY <1>0 DEF Retained
<1>7. TypeOK'
  <2>1. receipts' \in [Retained' -> Receipts]
    BY <1>0, <1>6 DEF IInv, TypeOK, Receipts
  <2>2. told' \in [Callers -> Answers]
    BY <1>0, OutcomeAnswers DEF IInv, TypeOK
  <2>3. queue' \in Seq(Callers)
    <3>1. queue' = Tail(queue) /\ queue # <<>> /\ queue \in Seq(Callers)
      BY <1>0
    <3> QED BY <3>1
  <2>4. pc' \in [Callers -> {"idle", "queued", "selecting", "fresh", "running"}]
    BY <1>0 DEF IInv, TypeOK
  <2> QED BY <1>0, <1>4, <1>6, <2>1, <2>2, <2>3, <2>4 DEF IInv, TypeOK
<1>8. LockInv' /\ RunningInv'
  BY <1>2 DEF LockInv, RunningInv
<1>9. LogInv'
  BY <1>0, <1>1, <1>3, <1>4, <1>5 DEF LogInv
<1>a. ReceiptInv'
  <2> SUFFICES ASSUME NEW m \in Retained
               PROVE  /\ m \in 1..high
                      /\ receipts'[m].payload = log'[m].payload
                      /\ receipts'[m].state = "completed" =>
                           receipts'[m].outcome = log'[m].outcome /\ log'[m].outcome # "pending"
                      /\ receipts'[m].state = "active" => log'[m].outcome = "pending"
    BY <1>0, <1>6 DEF ReceiptInv
  <2>0. m \in 1..high /\ receipts[m] \in Receipts
    BY DEF IInv, ReceiptInv, TypeOK
  <2>1. CASE m = n
    BY <2>0, <2>1, <1>0, <1>1, <1>5 DEF IInv, ReceiptInv, Receipts
  <2>2. CASE m # n
    BY <2>0, <2>2, <1>0, <1>4 DEF IInv, ReceiptInv
  <2> QED BY <2>1, <2>2
<1> QED BY <1>7, <1>8, <1>9, <1>a DEF IInv

LEMMA CloseIInv ==
  ASSUME IInv, CloseNotebook \/ Teardown
  PROVE  IInv'
<1>0. /\ UNCHANGED <<high, queue, pc, asked, told, log>>
      /\ jobs' = {} /\ open' \in BOOLEAN /\ closed' \in BOOLEAN
      /\ receipts' = receipts \/ receipts' = [n \in {} |-> {}]
  BY DEF CloseNotebook, Teardown, IInv, TypeOK
<1>1. \A d \in Callers : Holder(d)' = Holder(d) /\ Num(d)' = Num(d) /\ Payload(d)' = Payload(d)
  BY <1>0 DEF Holder, Num, Payload
<1>2. Retained' \subseteq Retained /\ \A n \in Retained' : receipts'[n] = receipts[n]
  BY <1>0 DEF Retained
<1>3. receipts' \in [Retained' -> Receipts]
  BY <1>0 DEF IInv, TypeOK, Retained
<1>4. TypeOK'
  BY <1>0, <1>2, <1>3 DEF IInv, TypeOK
<1>5. LockInv' /\ RunningInv' /\ LogInv'
  BY <1>0, <1>1 DEF IInv, LockInv, RunningInv, LogInv
<1>6. ReceiptInv'
  BY <1>0, <1>2 DEF IInv, ReceiptInv
<1> QED BY <1>4, <1>5, <1>6 DEF IInv

LEMMA LookIInv ==
  ASSUME IInv, NEW c \in Callers, Holder(c), pc[c] # "running", Look(c)
  PROVE  IInv'
<1>1. CASE ~IsNew(c) /\ AnswerKnown(c)
  BY <1>1, AnswerKnownIInv
<1>2. CASE Refuse(c)
  BY <1>2, RefuseIInv
<1>3. CASE IsNew(c) /\ Begin(c)
  BY <1>3, BeginIInv
<1>4. CASE Await(c, "fresh")
  BY <1>4, AwaitIInv
<1> QED BY <1>1, <1>2, <1>3, <1>4 DEF Look

LEMMA UnavailableIInv ==
  ASSUME IInv, NEW c \in Callers, Holder(c), pc[c] # "running", Unavailable(c)
  PROVE  IInv'
  BY ReplyIInv, PlainAnswers DEF Unavailable

LEMMA EnterIInv ==
  ASSUME IInv, NEW c \in Callers, Enter(c)
  PROVE  IInv'
<1>1. Holder(c) /\ pc[c] = "queued"
  BY DEF Enter
<1>2. Unavailable(c) \/ Await(c, "selecting") \/ Look(c)
  BY DEF Enter
<1> QED BY <1>1, <1>2, UnavailableIInv, AwaitIInv, LookIInv

LEMMA SelectedIInv ==
  ASSUME IInv, NEW c \in Callers, Selected(c)
  PROVE  IInv'
<1>1. Holder(c) /\ pc[c] = "selecting"
  BY DEF Selected
<1> QED BY <1>1, UnavailableIInv, LookIInv DEF Selected

LEMMA ResumeIInv ==
  ASSUME IInv, NEW c \in Callers, Resume(c)
  PROVE  IInv'
<1>1. Holder(c) /\ pc[c] = "fresh"
  BY DEF Resume
<1>2. CASE Refuse(c)
  BY <1>2, <1>1, RefuseIInv
<1>3. CASE ~IsNew(c) /\ AnswerKnown(c)
  BY <1>3, <1>1, AnswerKnownIInv
<1>4. CASE IsNew(c) /\ Begin(c)
  BY <1>4, <1>1, BeginIInv
<1> QED BY <1>2, <1>3, <1>4 DEF Resume

LEMMA StutterIInv == IInv /\ UNCHANGED vars => IInv'
  BY DEF IInv, TypeOK, LockInv, RunningInv, LogInv, ReceiptInv, vars, Retained,
         Holder, Num, Payload

LEMMA NextIInv == IInv /\ [Next]_vars => IInv'
<1> SUFFICES ASSUME IInv, [Next]_vars PROVE IInv'
  OBVIOUS
<1>1. ASSUME NEW c \in Callers, NEW n \in RequestIds, NEW p \in Payloads, Issue(c, n, p)
      PROVE  IInv'
  BY <1>1, IssueIInv
<1>2. ASSUME NEW c \in Callers, Step(c)
      PROVE  IInv'
  BY <1>2, EnterIInv, SelectedIInv, ResumeIInv, FinishIInv DEF Step
<1>3. CASE CloseNotebook \/ Teardown
  BY <1>3, CloseIInv
<1>4. CASE UNCHANGED vars
  BY <1>4, StutterIInv
<1> QED BY <1>1, <1>2, <1>3, <1>4 DEF Next

LEMMA InductiveInvariant == Spec => []IInv
  BY InitIInv, NextIInv, PTL DEF Spec

\* The variables keep their types.
THEOREM Typing == Spec => []TypeOK
<1>1. IInv => TypeOK
  BY DEF IInv
<1> QED BY <1>1, InductiveInvariant, PTL

\* Whatever is resent, evicted, cleared or closed, and for every number of
\* callers and receipts, no request number takes effect twice.
THEOREM NoEffectTwice == Spec => []EffectAtMostOnce
<1>1. IInv => EffectAtMostOnce
  BY DEF IInv, LogInv, EffectAtMostOnce
<1> QED BY <1>1, InductiveInvariant, PTL

\* Nobody who holds the lock meets another call's active receipt.
THEOREM ActiveOnlyWhileRunning == Spec => []ActiveIsTheHolders
<1>1. IInv => ActiveIsTheHolders
  BY DEF IInv, LogInv, ReceiptInv, ActiveIsTheHolders
<1> QED BY <1>1, InductiveInvariant, PTL

-----------------------------------------------------------------------------
(* What eviction keeps.                                                      *)

Bottom(h) == IF h > MaxReceipts THEN h - MaxReceipts ELSE 0

\* The oldest of a run of numbers is its first.
LEMMA OldestOfInterval ==
  ASSUME NEW a \in Nat, NEW b \in Nat, a <= b
  PROVE  Oldest(a..b) = a
<1>1. a \in a..b /\ \A m \in a..b : a <= m
  OBVIOUS
<1>2. \A k \in a..b : (\A m \in a..b : k <= m) => k = a
  OBVIOUS
<1> QED BY <1>1, <1>2 DEF Oldest

\* begin() keeps a run of the newest numbers, evicting one only at the limit.
LEMMA BeginRetains ==
  ASSUME IInv, RetainsTheNewest, NEW c \in Callers,
         Holder(c), pc[c] # "running", IsNew(c), Begin(c)
  PROVE  RetainsTheNewest'
<1>0. PICK lo \in 0..high : /\ Retained = (lo + 1)..high
                            /\ ~closed => lo = Bottom(high)
  BY DEF RetainsTheNewest, Bottom
<1>1. /\ high \in Nat /\ lo \in Nat /\ lo <= high
      /\ MaxReceipts \in Nat /\ MaxReceipts > 0
  BY <1>0, LedgerAssumption DEF IInv, TypeOK
<1>2. Num(c) = high + 1
  BY LedgerAssumption DEF IsNew, Decision, IInv, TypeOK, Num
<1>3. high' = high + 1 /\ closed' = closed /\ Retained' = AfterEviction \cup {high + 1}
  BY <1>2 DEF Begin, Retained
<1>4. Full <=> high - lo >= MaxReceipts
  <2>1. Cardinality((lo + 1)..high) = high - lo
    <3>1. lo + 1 \in Int /\ high \in Int
      BY <1>1
    <3>2. Cardinality((lo + 1)..high) = IF lo + 1 > high THEN 0 ELSE high - (lo + 1) + 1
      BY ONLY <3>1, FS_Interval, Zenon
    <3> QED BY <3>2, <1>1
  <2> QED BY <2>1, <1>0 DEF Full
<1>5. Completed = (lo + 1)..high
  BY <1>0, NothingPending DEF Completed
<1>6. CASE Full
  <2>1. lo + 1 <= high
    BY <1>1, <1>4, <1>6
  <2>2. Oldest(Completed) = lo + 1
    BY <1>1, <1>5, <2>1, OldestOfInterval
  <2>3. Retained' = (lo + 2)..(high + 1)
    BY <1>0, <1>1, <1>3, <1>6, <2>1, <2>2 DEF AfterEviction
  <2>4. ~closed => lo + 1 = Bottom(high + 1)
    BY <1>0, <1>1, <1>4, <1>6 DEF Bottom
  <2>5. /\ lo + 1 \in 0..high'
        /\ Retained' = ((lo + 1) + 1)..high'
        /\ ~closed' => lo + 1 = Bottom(high')
    BY <1>1, <1>3, <2>3, <2>4
  <2> QED BY <2>5 DEF RetainsTheNewest, Bottom
<1>7. CASE ~Full
  <2>1. Retained' = (lo + 1)..(high + 1)
    BY <1>0, <1>1, <1>3, <1>7 DEF AfterEviction
  <2>2. ~closed => lo = Bottom(high + 1)
    BY <1>0, <1>1, <1>4, <1>7 DEF Bottom
  <2>3. /\ lo \in 0..high'
        /\ Retained' = (lo + 1)..high'
        /\ ~closed' => lo = Bottom(high')
    BY <1>1, <1>3, <2>1, <2>2
  <2> QED BY <2>3 DEF RetainsTheNewest, Bottom
<1> QED BY <1>6, <1>7

\* Every other step keeps what is retained, or drops it all.
LEMMA StepRetains ==
  ASSUME IInv, RetainsTheNewest, [Next]_vars
  PROVE  RetainsTheNewest'
<1>0. high \in Nat
  BY LedgerAssumption DEF IInv, TypeOK
<1>1. ASSUME UNCHANGED <<high, closed>>, Retained' = Retained
      PROVE  RetainsTheNewest'
  BY <1>1 DEF RetainsTheNewest
<1>2. ASSUME NEW c \in Callers, NEW n \in RequestIds, NEW p \in Payloads, Issue(c, n, p)
      PROVE  RetainsTheNewest'
  BY <1>1, <1>2 DEF Issue, Retained
<1>3. ASSUME NEW c \in Callers,
             \/ Refuse(c) \/ AnswerKnown(c) \/ Unavailable(c)
             \/ \E w \in {"selecting", "fresh"} : Await(c, w)
      PROVE  RetainsTheNewest'
  BY <1>1, <1>3 DEF Refuse, AnswerKnown, Unavailable, Await, Retained
<1>4. ASSUME NEW c \in Callers, Enter(c) \/ Selected(c)
      PROVE  RetainsTheNewest'
  <2>1. Holder(c) /\ pc[c] # "running"
    BY <1>4 DEF Enter, Selected
  <2>2. Unavailable(c) \/ Await(c, "selecting") \/ Look(c)
    BY <1>4 DEF Enter, Selected
  <2>3. CASE Look(c)
    BY <1>3, <2>1, <2>3, BeginRetains DEF Look
  <2> QED BY <1>3, <2>2, <2>3
<1>5. ASSUME NEW c \in Callers, Resume(c)
      PROVE  RetainsTheNewest'
  <2>1. Holder(c) /\ pc[c] = "fresh"
    BY <1>5 DEF Resume
  <2> QED BY <1>3, <1>5, <2>1, BeginRetains DEF Resume
<1>6. ASSUME NEW c \in Callers, NEW o \in {"ok", "failed"}, Finish(c, o)
      PROVE  RetainsTheNewest'
  BY <1>1, <1>6 DEF Finish, Retained
<1>7. CASE CloseNotebook
  BY <1>1, <1>7 DEF CloseNotebook, Retained
<1>8. CASE Teardown
  <2>1. Retained' = (high + 1)..high /\ high' = high /\ closed'
    BY <1>0, <1>8 DEF Teardown, Retained
  <2> QED BY <1>0, <2>1 DEF RetainsTheNewest
<1>9. CASE UNCHANGED vars
  BY <1>1, <1>9 DEF vars, Retained
<1> QED BY <1>2, <1>4, <1>5, <1>6, <1>7, <1>8, <1>9 DEF Next, Step

\* Until the session is torn down, the registry retains exactly the newest
\* min(H, MaxReceipts) numbers: it evicts only at the limit, oldest first, and
\* never on behalf of a request it then refuses.
THEOREM EvictsOldestFirst == Spec => []RetainsTheNewest
<1>1. Init => RetainsTheNewest
  BY LedgerAssumption DEF Init, RetainsTheNewest, Retained
<1>2. IInv /\ RetainsTheNewest /\ [Next]_vars => RetainsTheNewest'
  BY StepRetains
<1> QED BY <1>1, <1>2, InductiveInvariant, PTL DEF Spec

-----------------------------------------------------------------------------
(* What an answer tells of the receipts.                                     *)

\* Only the call that a step is about gets an answer, and it is this one.
LEMMA WhoIsAnswered ==
  ASSUME IInv, [Next]_vars, NEW d \in Callers, told'[d] # told[d], told'[d] # NotTold
  PROVE  \/ Refuse(d) \/ Unavailable(d)
         \/ Holder(d) /\ pc[d] # "running" /\ ~IsNew(d) /\ AnswerKnown(d)
         \/ \E o \in {"ok", "failed"} : Finish(d, o)
<1>0. told \in [Callers -> Answers]
  BY DEF IInv, TypeOK
<1>1. ASSUME NEW c \in Callers, NEW n \in RequestIds, NEW p \in Payloads, Issue(c, n, p)
      PROVE  FALSE
  BY <1>0, <1>1 DEF Issue
<1>2. ASSUME NEW c \in Callers, Enter(c) \/ Selected(c) \/ Resume(c)
      PROVE  /\ c = d
             /\ \/ Refuse(d) \/ Unavailable(d)
                \/ Holder(d) /\ pc[d] # "running" /\ ~IsNew(d) /\ AnswerKnown(d)
  <2>1. /\ Holder(c) /\ pc[c] # "running"
        /\ \/ Refuse(c) \/ Unavailable(c) \/ Begin(c)
           \/ \E w \in {"selecting", "fresh"} : Await(c, w)
           \/ ~IsNew(c) /\ AnswerKnown(c)
    BY <1>2 DEF Enter, Selected, Resume, Look
  <2>2. ~Begin(c) /\ ~ \E w \in {"selecting", "fresh"} : Await(c, w)
    BY DEF Begin, Await
  <2>3. c = d
    BY <1>0, <2>1, <2>2 DEF Refuse, Unavailable, AnswerKnown, Reply
  <2> QED BY <2>1, <2>2, <2>3
<1>3. ASSUME NEW c \in Callers, NEW o \in {"ok", "failed"}, Finish(c, o)
      PROVE  Finish(d, o)
  <2>1. told' = [told EXCEPT ![c] = Say("fresh", o)]
    BY <1>3 DEF Finish, Reply
  <2> QED BY <1>0, <1>3, <2>1
<1>4. ~CloseNotebook /\ ~Teardown /\ ~UNCHANGED vars
  BY DEF CloseNotebook, Teardown, vars
<1> QED BY <1>1, <1>2, <1>3, <1>4 DEF Next, Step

\* An exact resend is answered EXPIRED only when its receipt is gone, or with it
\* the execution it stands for: never because the operation is still running.
THEOREM ExpiredMeansGone == Spec => ExpiredOnlyIfGone
<1>1. ASSUME IInv, [Next]_vars, NEW c \in Callers, told[c] = NotTold,
             told'[c].kind = "expired"
      PROVE  \/ Num(c) \notin Retained
             \/ Payload(c).tool = "execute" /\ Num(c) \notin jobs
  <2>0. told \in [Callers -> Answers] /\ NotTold.kind = "none"
    BY <1>1 DEF IInv, TypeOK, NotTold, Spec_AMO!NotTold
  <2>1. \/ Refuse(c) \/ Unavailable(c)
        \/ Holder(c) /\ pc[c] # "running" /\ ~IsNew(c) /\ AnswerKnown(c)
        \/ \E o \in {"ok", "failed"} : Finish(c, o)
    BY <1>1, <2>0, WhoIsAnswered
  <2>2. ASSUME NEW a, Reply(c, a) PROVE told'[c] = a
    BY <2>0, <2>2 DEF Reply
  <2>3. ~Refuse(c) /\ ~Unavailable(c) /\ \A o \in {"ok", "failed"} : ~Finish(c, o)
    <3>1. Refuse(c) => told'[c].kind = "refused"
      BY <2>2 DEF Refuse, Say, Spec_AMO!Say
    <3>2. Unavailable(c) => told'[c].kind = "unavailable"
      BY <2>2 DEF Unavailable, Say, Spec_AMO!Say
    <3>3. ASSUME NEW o \in {"ok", "failed"}, Finish(c, o) PROVE told'[c].kind = "fresh"
      <4>1. told' = [told EXCEPT ![c] = Say("fresh", o)]
        BY <3>3 DEF Finish, Reply
      <4>2. told'[c] = Say("fresh", o)
        BY <2>0, <4>1
      <4> QED BY <4>2 DEF Say, Spec_AMO!Say
    <3> QED BY <1>1, <3>1, <3>2, <3>3
  <2>4. Holder(c) /\ pc[c] # "running" /\ AnswerKnown(c)
    BY <2>1, <2>3
  <2>5. CASE Decision(Num(c), Payload(c)) = "replay"
    <3>1. told'[c] = Replayed(c)
      BY <2>2, <2>4, <2>5 DEF AnswerKnown
    <3>2. Num(c) \in Retained => receipts[Num(c)].state = "completed"
      BY <1>1, <2>4, NothingPending
    <3>3. Replayed(c) # Say("replayed", receipts[Num(c)].outcome)
      BY <1>1, <3>1 DEF Say, Spec_AMO!Say
    <3>4. \/ receipts[Num(c)].state = "active"
          \/ receipts[Num(c)].payload.tool = "execute" /\ Num(c) \notin jobs
      BY <3>3 DEF Replayed
    <3>5. Num(c) \in Retained => receipts[Num(c)].payload = Payload(c)
      BY <2>5 DEF Decision
    <3> QED BY <3>2, <3>4, <3>5
  <2>6. CASE Decision(Num(c), Payload(c)) # "replay"
    <3>1. told'[c] = Say(Decision(Num(c), Payload(c)), "none")
      BY <2>2, <2>4, <2>6 DEF AnswerKnown
    <3>2. Decision(Num(c), Payload(c)) = "expired"
      BY <1>1, <3>1 DEF Say, Spec_AMO!Say
    <3> QED BY <3>2 DEF Decision
  <2> QED BY <2>5, <2>6
<1>2. IInv /\ [Next]_vars =>
      [\A c \in Callers :
        told[c] = NotTold /\ told'[c].kind = "expired" =>
          \/ Num(c) \notin Retained
          \/ Payload(c).tool = "execute" /\ Num(c) \notin jobs]_vars
  BY <1>1
<1> QED BY <1>2, InductiveInvariant, PTL DEF Spec, ExpiredOnlyIfGone

\* An answer that refuses a request, for whatever reason, moves no number and
\* evicts no receipt.
THEOREM RefusingIsFree == Spec => RefusalSpendsNothing
<1>1. ASSUME IInv, [Next]_vars, NEW c \in Callers, told[c] = NotTold,
             told'[c].kind \in {"refused", "conflict", "out_of_order", "expired"}
      PROVE  high' = high /\ receipts' = receipts
  <2>0. told \in [Callers -> Answers] /\ NotTold.kind = "none"
    BY <1>1 DEF IInv, TypeOK, NotTold, Spec_AMO!NotTold
  <2>1. \/ Refuse(c) \/ Unavailable(c) \/ AnswerKnown(c)
        \/ \E o \in {"ok", "failed"} : Finish(c, o)
    BY <1>1, <2>0, WhoIsAnswered
  <2>2. ASSUME NEW o \in {"ok", "failed"}, Finish(c, o) PROVE told'[c].kind = "fresh"
    <3>1. told' = [told EXCEPT ![c] = Say("fresh", o)]
      BY <2>2 DEF Finish, Reply
    <3>2. told'[c] = Say("fresh", o)
      BY <2>0, <3>1
    <3> QED BY <3>2 DEF Say, Spec_AMO!Say
  <2> QED BY <1>1, <2>1, <2>2 DEF Refuse, Unavailable, AnswerKnown
<1>2. IInv /\ [Next]_vars =>
      [\A c \in Callers :
        told[c] = NotTold /\ told'[c].kind \in {"refused", "conflict", "out_of_order", "expired"} =>
          /\ high' = high
          /\ receipts' = receipts]_vars
  BY <1>1
<1> QED BY <1>2, InductiveInvariant, PTL DEF Spec, RefusalSpendsNothing

-----------------------------------------------------------------------------
(* The ledger implements AtMostOnce.                                         *)

\* A call in progress has no answer yet, and what preflight found new is new
\* still when the awaited checks are back: nobody else can move H meanwhile.
ToldInv == \A c \in Callers : pc[c] # "idle" => told[c] = NotTold
FreshInv == \A c \in Callers : pc[c] = "fresh" => Num(c) = high + 1 /\ high < MaxRequestId

CallInv == ToldInv /\ FreshInv

LEMMA NewIsNext ==
  ASSUME IInv, NEW c \in Callers, IsNew(c)
  PROVE  Num(c) = high + 1 /\ high < MaxRequestId
  BY LedgerAssumption DEF IsNew, Decision, IInv, TypeOK, Num

\* A step of the call c that moves pc[c] and told[c] only, for any c: enough
\* for what the other calls know.
LEMMA OthersKeepCallInv ==
  ASSUME IInv, CallInv, NEW c \in Callers,
         \A d \in Callers \ {c} : pc'[d] = pc[d] /\ told'[d] = told[d] /\ asked'[d] = asked[d],
         high' = high \/ Holder(c),
         pc'[c] # "idle" => told'[c] = NotTold,
         pc'[c] = "fresh" => Num(c)' = high' + 1 /\ high' < MaxRequestId
  PROVE  CallInv'
<1>1. ToldInv'
  BY DEF CallInv, ToldInv
<1>2. ASSUME NEW d \in Callers, pc'[d] = "fresh"
      PROVE  Num(d)' = high' + 1 /\ high' < MaxRequestId
  <2>1. CASE d = c
    BY <1>2, <2>1
  <2>2. CASE d # c
    <3>1. pc[d] = "fresh" /\ Num(d)' = Num(d)
      BY <1>2, <2>2 DEF Num
    <3>2. Holder(d)
      BY <3>1 DEF IInv, LockInv
    <3>3. high' = high
      BY <2>2, <3>2, OneHolder
    <3> QED BY <3>1, <3>3 DEF CallInv, FreshInv
  <2> QED BY <2>1, <2>2
<1> QED BY <1>1, <1>2 DEF CallInv, FreshInv

LEMMA StepCallInv ==
  ASSUME IInv, CallInv, [Next]_vars
  PROVE  CallInv'
<1>0. /\ pc \in [Callers -> {"idle", "queued", "selecting", "fresh", "running"}]
      /\ told \in [Callers -> Answers]
      /\ asked \in [Callers -> (RequestIds \cup {0}) \X Payloads]
  BY DEF IInv, TypeOK
<1>1. ASSUME NEW c \in Callers, NEW n \in RequestIds, NEW p \in Payloads, Issue(c, n, p)
      PROVE  CallInv'
  <2>1. /\ \A d \in Callers \ {c} : pc'[d] = pc[d] /\ told'[d] = told[d] /\ asked'[d] = asked[d]
        /\ high' = high /\ pc'[c] = "queued" /\ told'[c] = NotTold
    BY <1>0, <1>1 DEF Issue
  <2> QED BY <2>1, OthersKeepCallInv
<1>2. ASSUME NEW c \in Callers, Refuse(c) \/ AnswerKnown(c) \/ Unavailable(c)
      PROVE  CallInv'
  <2>1. /\ \A d \in Callers \ {c} : pc'[d] = pc[d] /\ told'[d] = told[d] /\ asked'[d] = asked[d]
        /\ high' = high /\ pc'[c] = "idle"
    BY <1>0, <1>2 DEF Refuse, AnswerKnown, Unavailable, Reply
  <2> QED BY <2>1, OthersKeepCallInv
<1>3. ASSUME NEW c \in Callers, Holder(c), told[c] = NotTold, Begin(c)
      PROVE  CallInv'
  <2>1. /\ \A d \in Callers \ {c} : pc'[d] = pc[d] /\ told'[d] = told[d] /\ asked'[d] = asked[d]
        /\ pc'[c] = "running" /\ told'[c] = NotTold
    BY <1>0, <1>3 DEF Begin
  <2> QED BY <1>3, <2>1, OthersKeepCallInv
<1>4. ASSUME NEW c \in Callers, told[c] = NotTold,
             Await(c, "selecting") \/ (IsNew(c) /\ Await(c, "fresh"))
      PROVE  CallInv'
  <2>1. /\ \A d \in Callers \ {c} : pc'[d] = pc[d] /\ told'[d] = told[d] /\ asked'[d] = asked[d]
        /\ high' = high /\ told'[c] = NotTold /\ Num(c)' = Num(c)
        /\ pc'[c] = "fresh" => IsNew(c)
    BY <1>0, <1>4 DEF Await, Num
  <2> QED BY <1>4, <2>1, NewIsNext, OthersKeepCallInv
<1>5. ASSUME NEW c \in Callers, Enter(c) \/ Selected(c)
      PROVE  CallInv'
  <2>1. Holder(c) /\ told[c] = NotTold
    BY <1>5 DEF Enter, Selected, CallInv, ToldInv
  <2>2. Unavailable(c) \/ Await(c, "selecting") \/ Look(c)
    BY <1>5 DEF Enter, Selected
  <2>3. CASE Look(c)
    BY <1>2, <1>3, <1>4, <2>1, <2>3 DEF Look
  <2> QED BY <1>2, <1>4, <2>1, <2>2, <2>3
<1>6. ASSUME NEW c \in Callers, Resume(c)
      PROVE  CallInv'
  <2>1. Holder(c) /\ told[c] = NotTold
    BY <1>6 DEF Resume, CallInv, ToldInv
  <2> QED BY <1>2, <1>3, <1>6, <2>1 DEF Resume
<1>7. ASSUME NEW c \in Callers, NEW o \in {"ok", "failed"}, Finish(c, o)
      PROVE  CallInv'
  <2>1. /\ \A d \in Callers \ {c} : pc'[d] = pc[d] /\ told'[d] = told[d] /\ asked'[d] = asked[d]
        /\ high' = high /\ pc'[c] = "idle"
    BY <1>0, <1>7 DEF Finish, Reply
  <2> QED BY <2>1, OthersKeepCallInv
<1>8. CASE CloseNotebook \/ Teardown
  BY <1>8 DEF CloseNotebook, Teardown, CallInv, ToldInv, FreshInv, Num
<1>9. CASE UNCHANGED vars
  BY <1>9 DEF vars, CallInv, ToldInv, FreshInv, Num
<1> QED BY <1>1, <1>5, <1>6, <1>7, <1>8, <1>9 DEF Next, Step

LEMMA InitPromise == Init => Spec_AMO!Init
<1> SUFFICES ASSUME Init PROVE Spec_AMO!Init
  OBVIOUS
<1>1. (CHOOSE p \in Payloads : TRUE) \in Payloads
  BY LedgerAssumption
<1>2. asked \in [Callers -> Nat \X Payloads]
  BY <1>1 DEF Init
<1> QED BY <1>2 DEF Init, Spec_AMO!Init, NotTold

LEMMA NumbersAreNatural ==
  ASSUME TypeOK
  PROVE  /\ asked \in [Callers -> Nat \X Payloads]
         /\ high \in Nat
<1>1. RequestIds \cup {0} \subseteq Nat /\ high \in Nat
  BY LedgerAssumption DEF TypeOK
<1>2. asked \in [Callers -> (RequestIds \cup {0}) \X Payloads]
  BY DEF TypeOK
<1>3. \A c \in Callers : asked[c] \in Nat \X Payloads
  BY <1>1, <1>2
<1> QED BY <1>1, <1>2, <1>3

\* What preflight answers is true of the log.
LEMMA KnownAnswerIsTruthful ==
  ASSUME IInv, NEW c \in Callers, Holder(c), pc[c] # "running", ~IsNew(c)
  PROVE  LET d == Decision(Num(c), Payload(c))
             a == IF d = "replay" THEN Replayed(c) ELSE Say(d, "none")
         IN  a \in Spec_AMO!Truthful(Num(c), Payload(c))
<1> DEFINE n == Num(c)
           p == Payload(c)
           d == Decision(n, p)
<1>0. /\ n \in Nat /\ high \in Nat /\ Len(log) = high /\ MaxRequestId \in Nat
      /\ \A i \in 1..high : log[i].outcome # "pending"
  BY LedgerAssumption, NumbersAreNatural, NothingPending DEF IInv, TypeOK, LogInv, Num
<1>1. d \in {"invalid", "replay", "conflict", "expired", "out_of_order"}
  BY DEF Decision, IsNew
<1>2. CASE d = "invalid"
  <2>1. n \notin 1..MaxRequestId
    BY <1>2 DEF Decision
  <2>2. Say("invalid", "none") \in Spec_AMO!Truthful(n, p)
    BY <2>1 DEF Spec_AMO!Truthful, Say
  <2> QED BY <1>2, <2>2
<1>3. CASE d = "replay"
  <2>1. /\ n \in Retained /\ n \in 1..high /\ receipts[n].payload = p
        /\ receipts[n].state = "completed"
    BY <1>3, NothingPending DEF Decision, IInv, ReceiptInv
  <2>2. log[n].payload = p /\ receipts[n].outcome = log[n].outcome
    BY <2>1 DEF IInv, ReceiptInv
  <2>3. Say("expired", "none") \in Spec_AMO!Truthful(n, p)
    BY <2>1, <1>0 DEF Spec_AMO!Truthful, Say
  <2>4. Say("replayed", log[n].outcome) \in Spec_AMO!Truthful(n, p)
    BY <2>1, <2>2, <1>0 DEF Spec_AMO!Truthful, Say
  <2>5. Replayed(c) \in Spec_AMO!Truthful(n, p)
    BY <2>2, <2>3, <2>4 DEF Replayed
  <2> QED BY <1>3, <2>5
<1>4. CASE d = "conflict"
  <2>1. n \in Retained /\ n \in 1..high /\ receipts[n].payload # p
    BY <1>4 DEF Decision, IInv, ReceiptInv
  <2>2. log[n].payload # p
    BY <2>1 DEF IInv, ReceiptInv
  <2>3. Say("conflict", "none") \in Spec_AMO!Truthful(n, p)
    BY <2>1, <2>2, <1>0 DEF Spec_AMO!Truthful, Say
  <2> QED BY <1>4, <2>3
<1>5. CASE d = "expired"
  <2>1. n \in 1..high
    BY <1>0, <1>5 DEF Decision
  <2>2. Say("expired", "none") \in Spec_AMO!Truthful(n, p)
    BY <2>1, <1>0 DEF Spec_AMO!Truthful, Say
  <2> QED BY <1>5, <2>2
<1>6. CASE d = "out_of_order"
  <2>1. n > high + 1
    BY <1>0, <1>6 DEF Decision
  <2>2. Say("out_of_order", "none") \in Spec_AMO!Truthful(n, p)
    BY <2>1, <1>0 DEF Spec_AMO!Truthful, Say
  <2> QED BY <1>6, <2>2
<1> QED BY <1>1, <1>2, <1>3, <1>4, <1>5, <1>6

\* An answer given without running anything is an Answer step.
LEMMA ReplyIsAnswer ==
  ASSUME CallInv, NEW c \in Callers, pc[c] # "idle",
         NEW a \in Spec_AMO!Truthful(Num(c), Payload(c)),
         Reply(c, a), UNCHANGED <<asked, log>>
  PROVE  Spec_AMO!Answer(c)
  BY DEF CallInv, ToldInv, Reply, Spec_AMO!Answer, Num, Payload, NotTold

LEMMA BeginIsAccept ==
  ASSUME IInv, CallInv, NEW c \in Callers, Holder(c), pc[c] \in {"queued", "selecting", "fresh"},
         IsNew(c), Begin(c)
  PROVE  Spec_AMO!Accept(c)
<1>1. \A i \in 1..Len(log) : log[i].outcome # "pending"
  BY NothingPending DEF IInv, LogInv
<1>2. told[c] = NotTold
  BY DEF CallInv, ToldInv
<1>3. asked[c][1] = Len(log) + 1 /\ Len(log) < MaxRequestId
  BY NewIsNext DEF IInv, LogInv, Num
<1> QED BY <1>1, <1>2, <1>3 DEF Begin, Num, Payload, Spec_AMO!Accept, Spec_AMO!Pending, NotTold

LEMMA FinishIsFinish ==
  ASSUME IInv, NEW c \in Callers, NEW o \in {"ok", "failed"}, Finish(c, o)
  PROVE  Spec_AMO!Finish(c)
<1>0. high \in Nat
  BY NumbersAreNatural DEF IInv
<1>1. /\ Num(c) = high /\ high \in 1..Len(log) /\ Len(log) = high /\ high \in Nat
      /\ log[high].payload = Payload(c) /\ log[high].outcome = "pending"
  <2>1. pc[c] = "running"
    BY DEF Finish
  <2>2. /\ Num(c) = high /\ high > 0 /\ Len(log) = high
        /\ log[high].payload = Payload(c) /\ log[high].outcome = "pending"
    BY <2>1 DEF IInv, RunningInv, LogInv
  <2> QED BY <1>0, <2>2
<1>2. log \in Seq(LogEntries) /\ \A i \in 1..high : log[i].id = i
  BY DEF IInv, TypeOK, LogInv
<1>3. log' = [log EXCEPT ![Len(log)].outcome = o]
  <2>1. log' = [i \in 1..high |->
                  IF log[i].id = high THEN [log[i] EXCEPT !.outcome = o] ELSE log[i]]
    BY <1>1 DEF Finish
  <2>2. log = [i \in 1..high |-> log[i]]
    BY <1>1, <1>2, LenProperties
  <2>3. \A i \in 1..high : log[i].id = high <=> i = high
    BY <1>2
  <2> QED BY <1>1, <2>1, <2>2, <2>3
<1>4. asked[c] = <<Num(c), Payload(c)>>
  BY DEF IInv, TypeOK, Num, Payload
<1>5. told' = [told EXCEPT ![c] = Spec_AMO!Say("fresh", o)] /\ asked' = asked
  BY DEF Finish, Reply, Say
<1>6. Spec_AMO!Pending
  BY <1>1 DEF Spec_AMO!Pending
<1>7. asked[c] = <<Len(log), log[Len(log)].payload>>
  BY <1>1, <1>4
<1> QED BY <1>3, <1>5, <1>6, <1>7 DEF Spec_AMO!Finish

LEMMA StepPromise ==
  ASSUME IInv, CallInv, [Next]_vars
  PROVE  [Spec_AMO!Next]_(Spec_AMO!avars)
<1>1. ASSUME NEW c \in Callers, NEW n \in RequestIds, NEW p \in Payloads, Issue(c, n, p)
      PROVE  Spec_AMO!Ask(c)
  <2>1. asked \in [Callers -> Nat \X Payloads] /\ n \in Nat
    BY LedgerAssumption, NumbersAreNatural DEF IInv
  <2>2. asked' = [asked EXCEPT ![c] = <<n, p>>]
    BY <1>1 DEF Issue
  <2>3. /\ asked' \in [Callers -> Nat \X Payloads]
        /\ \A d \in Callers \ {c} : asked'[d] = asked[d]
    BY <2>1, <2>2
  <2> QED BY <1>1, <2>3 DEF Issue, Spec_AMO!Ask, NotTold
<1>2. ASSUME NEW c \in Callers, Holder(c), pc[c] \in {"queued", "selecting", "fresh"},
             ~IsNew(c), AnswerKnown(c)
      PROVE  Spec_AMO!Answer(c)
  BY <1>2, KnownAnswerIsTruthful, ReplyIsAnswer DEF AnswerKnown
<1>3. ASSUME NEW c \in Callers, pc[c] # "idle", Num(c) = high + 1, Refuse(c)
      PROVE  Spec_AMO!Answer(c)
  <2>1. Num(c) = Len(log) + 1
    BY <1>3 DEF IInv, LogInv
  <2>2. Say("refused", "none") \in Spec_AMO!Truthful(Num(c), Payload(c))
    BY <2>1 DEF Spec_AMO!Truthful, Say
  <2> QED BY <1>3, <2>2, ReplyIsAnswer DEF Refuse
<1>4. ASSUME NEW c \in Callers, Enter(c) \/ Selected(c)
      PROVE  Spec_AMO!Answer(c) \/ Spec_AMO!Accept(c) \/ UNCHANGED Spec_AMO!avars
  <2>1. Holder(c) /\ pc[c] \in {"queued", "selecting"}
    BY <1>4 DEF Enter, Selected
  <2>2. CASE Unavailable(c)
    <3>1. Say("unavailable", "none") \in Spec_AMO!Truthful(Num(c), Payload(c))
      BY DEF Spec_AMO!Truthful, Say
    <3> QED BY <2>1, <2>2, <3>1, ReplyIsAnswer DEF Unavailable
  <2>3. CASE \E w \in {"selecting", "fresh"} : Await(c, w)
    BY <2>3 DEF Await, Spec_AMO!avars
  <2>4. CASE Look(c)
    <3>1. CASE ~IsNew(c) /\ AnswerKnown(c)
      BY <1>2, <2>1, <3>1
    <3>2. CASE IsNew(c) /\ Refuse(c)
      BY <1>3, <2>1, <3>2, NewIsNext
    <3>3. CASE IsNew(c) /\ Begin(c)
      BY <2>1, <3>3, BeginIsAccept
    <3> QED BY <2>3, <2>4, <3>1, <3>2, <3>3 DEF Look
  <2> QED BY <1>4, <2>2, <2>3, <2>4 DEF Enter, Selected
<1>5. ASSUME NEW c \in Callers, Resume(c)
      PROVE  Spec_AMO!Answer(c) \/ Spec_AMO!Accept(c)
  <2>1. Holder(c) /\ pc[c] = "fresh" /\ Num(c) = high + 1
    BY <1>5 DEF Resume, CallInv, FreshInv
  <2> QED BY <1>2, <1>3, <1>5, <2>1, BeginIsAccept DEF Resume
<1>6. ASSUME NEW c \in Callers, NEW o \in {"ok", "failed"}, Finish(c, o)
      PROVE  Spec_AMO!Finish(c)
  BY <1>6, FinishIsFinish
<1>7. CASE CloseNotebook \/ Teardown \/ UNCHANGED vars
  BY <1>7 DEF CloseNotebook, Teardown, vars, Spec_AMO!avars
<1> QED BY <1>1, <1>4, <1>5, <1>6, <1>7 DEF Next, Step, Spec_AMO!Next

\* The ledger, its lock and the tools that use them implement AtMostOnce: the
\* numbers are accepted in order and one at a time, and every answer agrees
\* with what happened to its number.
THEOREM LedgerKeepsPromise == Spec => Promise
<1>1. Init => CallInv
  BY DEF Init, CallInv, ToldInv, FreshInv
<1>2. Spec => []CallInv
  BY <1>1, StepCallInv, InductiveInvariant, PTL DEF Spec
<1> QED BY <1>2, InitPromise, StepPromise, InductiveInvariant, PTL
        DEF Spec, Promise, Spec_AMO!Spec

\* The whole invariant of the ledger: numbers take effect once, receipts are
\* the newest ones, and only the holder of the lock has an active one.
THEOREM LedgerIsSound == Spec => []LedgerInvariant
<1>1. TypeOK /\ EffectAtMostOnce /\ ActiveIsTheHolders /\ RetainsTheNewest => LedgerInvariant
  BY DEF LedgerInvariant
<1> QED BY <1>1, Typing, NoEffectTwice, ActiveOnlyWhileRunning, EvictsOldestFirst, PTL

-------------------------------------------------------------------------------
(* Output areas: recursion over the natural numbers.  What a loop of the    *)
(* code computes is a function that is defined by recursion; its values are *)
(* found by the least counterexample.                                       *)

\* Every set of natural numbers that is not empty has a least one.
LEMMA LeastOf ==
  ASSUME NEW T \in SUBSET Nat, T # {}
  PROVE  \E n \in T : \A m \in T : n <= m
<1> DEFINE R == OpToRel(<, Nat)
<1>3. IsWellFoundedOn(R, Nat)
  BY NatLessThanWellFounded
<1> HIDE DEF R
<1>1. PICK n \in T : \A m \in T : ~ (<<m, n>> \in R)
  <2>1. T \subseteq Nat
    OBVIOUS
  <2> QED BY <1>3, <2>1, WFMin, Zenon
<1>2. \A m \in T : ~(m < n)
  BY <1>1 DEF OpToRel, R
<1> QED BY <1>2

\* Induction over 0..N, with a set of values in place of a predicate.
LEMMA Inductive ==
  ASSUME NEW N \in Nat, NEW X, NEW f, f[0] \in X[0],
         \A n \in 1..N : f[n - 1] \in X[n - 1] => f[n] \in X[n]
  PROVE  \A n \in 0..N : f[n] \in X[n]
<1> DEFINE T == {n \in 0..N : f[n] \notin X[n]}
<1> SUFFICES ASSUME T # {} PROVE FALSE
  OBVIOUS
<1>1. T \in SUBSET Nat
  OBVIOUS
<1>2. PICK n \in T : \A m \in T : n <= m
  BY <1>1, LeastOf
<1>3. n \in 1..N
  BY <1>2
<1>4. n - 1 \in 0..N /\ ~(n <= n - 1)
  BY <1>3
<1>5. n - 1 \notin T
  BY <1>2, <1>4
<1> QED BY <1>2, <1>3, <1>4, <1>5

\* A function on 0..N that starts with a and goes on by the steps g, within X.
StepsThrough(f, N, X, a, g) ==
  /\ f = [n \in 0..N |-> f[n]]
  /\ f[0] = a /\ \A n \in 1..N : f[n] = g[n][f[n - 1]]
  /\ \A n \in 0..N : f[n] \in X[n]

\* A function that is defined by recursion over 0..N exists, if each of its
\* values is in the domain of the step that makes the next.
LEMMA Recursion ==
  ASSUME NEW N \in Nat, NEW X, NEW a \in X[0], NEW g,
         \A n \in 1..N : \A x \in X[n - 1] : g[n][x] \in X[n]
  PROVE  \E f : StepsThrough(f, N, X, a, g)
<1> DEFINE Upto(k, f) == StepsThrough(f, k, X, a, g)
           T == {k \in 0..N : ~ \E f : Upto(k, f)}
<1>0. T = {} => \E f : Upto(N, f)
  OBVIOUS
<1> SUFFICES ASSUME T # {} PROVE FALSE
  BY <1>0
<1>1. T \in SUBSET Nat
  OBVIOUS
<1> HIDE DEF Upto
<1>2. PICK k \in T : \A m \in T : k <= m
  BY <1>1, LeastOf
<1>3. k # 0
  <2> DEFINE f == [n \in 0..0 |-> a]
  <2>1. Upto(0, f)
    BY DEF Upto, StepsThrough
  <2> QED BY <2>1
<1>4. k \in 1..N /\ k - 1 \in 0..N /\ ~(k <= k - 1)
  BY <1>3
<1>5. PICK h : Upto(k - 1, h)
  BY <1>2, <1>4
<1> DEFINE f == [n \in 0..k |-> IF n = k THEN g[k][h[k - 1]] ELSE h[n]]
<1>6. \A n \in 0..(k - 1) : f[n] = h[n] /\ h[n] \in X[n]
  BY <1>4, <1>5 DEF Upto, StepsThrough
<1>7. f[k] = g[k][h[k - 1]] /\ f[k - 1] = h[k - 1] /\ f[0] = h[0] /\ h[0] = a
  BY <1>4, <1>5 DEF Upto, StepsThrough
<1>8. f[k] \in X[k]
  <2>1. k - 1 \in 0..(k - 1)
    BY <1>4
  <2>2. h[k - 1] \in X[k - 1]
    BY <2>1, <1>6
  <2> HIDE DEF f
  <2> QED BY <2>2, <1>4, <1>7
<1>9. \A n \in 1..(k - 1) : h[n] = g[n][h[n - 1]]
  BY <1>4, <1>5 DEF Upto, StepsThrough
<1>10. f = [n \in 0..k |-> f[n]]
  OBVIOUS
<1> HIDE DEF f
<1>11. \A n \in 1..k : f[n] = g[n][f[n - 1]]
  <2> TAKE n \in 1..k
  <2>1. CASE n = k
    BY <2>1, <1>4, <1>7
  <2>2. CASE n # k
    <3>1. n \in 1..(k - 1) /\ n \in 0..(k - 1) /\ n - 1 \in 0..(k - 1)
      BY <2>2, <1>4 DEF StepsThrough
    <3> QED BY <3>1, <1>6, <1>9
  <2> QED BY <2>1, <2>2
<1>12. \A n \in 0..k : f[n] \in X[n]
  BY <1>4, <1>6, <1>8
<1>13. Upto(k, f)
  BY <1>7, <1>10, <1>11, <1>12 DEF Upto, StepsThrough
<1> QED BY <1>13

\* Array.filter: what is kept, and that nothing else is.
LEMMA KeepFacts ==
  ASSUME NEW T, NEW s \in Seq(T), NEW S
  PROVE  /\ Keep(s, S) \in Seq(T)
         /\ ToSet(Keep(s, S)) = ToSet(s) \cap S
         /\ Len(Keep(s, S)) <= Len(s)
<1> DEFINE N == Len(s)
           X == [n \in 0..N |-> {x \in Seq(T) : /\ ToSet(x) = {s[i] : i \in 1..n} \cap S
                                                /\ Len(x) <= n}]
           g == [n \in 1..N |-> [x \in X[n - 1] |-> IF s[n] \in S THEN Append(x, s[n]) ELSE x]]
<1>1. N \in Nat
  OBVIOUS
<1>2. << >> \in X[0]
  BY <1>1 DEF ToSet
<1>3. \A n \in 1..N : \A x \in X[n - 1] :
        /\ g[n][x] = IF s[n] \in S THEN Append(x, s[n]) ELSE x
        /\ g[n][x] \in X[n]
  <2> TAKE n \in 1..N
  <2> TAKE x \in X[n - 1]
  <2>1. n - 1 \in 0..N /\ n \in 0..N /\ s[n] \in T
    OBVIOUS
  <2>2. x \in Seq(T) /\ ToSet(x) = {s[i] : i \in 1..(n - 1)} \cap S /\ Len(x) <= n - 1
    BY <2>1
  <2>3. g[n][x] = IF s[n] \in S THEN Append(x, s[n]) ELSE x
    BY <2>1
  <2>4. {s[i] : i \in 1..n} = {s[i] : i \in 1..(n - 1)} \cup {s[n]}
    <3>1. 1..n = 1..(n - 1) \cup {n}
      BY <2>1
    <3> QED BY <3>1
  <2>5. CASE s[n] \in S
    <3> DEFINE y == Append(x, s[n])
    <3>1. y \in Seq(T) /\ Len(y) = Len(x) + 1 /\ Len(y) <= n
      BY <2>1, <2>2
    <3>2. ToSet(y) = ToSet(x) \cup {s[n]}
      <4>1. DOMAIN y = 1..(Len(x) + 1) /\ DOMAIN x = 1..Len(x) /\ Len(x) \in Nat
        BY <3>1, <2>2
      <4>2. \A i \in 1..Len(x) : y[i] = x[i]
        BY <2>1, <2>2
      <4>3. y[Len(x) + 1] = s[n]
        BY <2>1, <2>2
      <4> HIDE DEF y
      <4>4. 1..(Len(x) + 1) = 1..Len(x) \cup {Len(x) + 1}
        BY <4>1
      <4> QED BY <4>1, <4>2, <4>3, <4>4 DEF ToSet
    <3>3. y \in X[n]
      BY <3>1, <3>2, <2>1, <2>2, <2>4, <2>5
    <3> QED BY <3>3, <2>3, <2>5
  <2>6. CASE s[n] \notin S
    <3>1. x \in X[n]
      BY <2>1, <2>2, <2>4, <2>6
    <3> QED BY <3>1, <2>3, <2>6
  <2> QED BY <2>3, <2>5, <2>6
<1> DEFINE R(f) == f = [n \in 0..N |-> IF n = 0 THEN << >>
                          ELSE IF s[n] \in S THEN Append(f[n - 1], s[n]) ELSE f[n - 1]]
<1> HIDE DEF X, g, N
<1>4. PICK h : StepsThrough(h, N, X, << >>, g)
  <2>1. \A n \in 1..N : \A x \in X[n - 1] : g[n][x] \in X[n]
    BY <1>3
  <2> QED BY <1>1, <1>2, <2>1, Recursion
<1>5. R(h)
  <2>1. \A n \in 0..N : n # 0 => n \in 1..N /\ n - 1 \in 0..N
    BY <1>1
  <2>2. \A n \in 0..N : n # 0 =>
          h[n] = IF s[n] \in S THEN Append(h[n - 1], s[n]) ELSE h[n - 1]
    BY <2>1, <1>3, <1>4 DEF StepsThrough
  <2>3. \A n \in 0..N : h[n] = IF n = 0 THEN << >>
                          ELSE IF s[n] \in S THEN Append(h[n - 1], s[n]) ELSE h[n - 1]
    BY <2>2, <1>4 DEF StepsThrough
  <2> QED BY <1>4, <2>3 DEF StepsThrough
<1> DEFINE k == CHOOSE f : R(f)
<1>6. R(k)
  <2> HIDE DEF R
  <2> QED BY <1>5
<1>7. Keep(s, S) = k[N]
  BY DEF Keep, N
<1> HIDE DEF k
<1>8. k[0] \in X[0] /\ \A n \in 1..N : k[n - 1] \in X[n - 1] => k[n] \in X[n]
  <2>1. k[0] = << >>
    BY <1>1, <1>6
  <2>2. ASSUME NEW n \in 1..N, k[n - 1] \in X[n - 1]
        PROVE  k[n] \in X[n]
    <3>1. n \in 0..N /\ n # 0
      BY <1>1
    <3>2. k[n] = IF s[n] \in S THEN Append(k[n - 1], s[n]) ELSE k[n - 1]
      BY <3>1, <1>6
    <3> QED BY <3>2, <2>2, <1>3
  <2> QED BY <2>1, <2>2, <1>2
<1>9. \A n \in 0..N : k[n] \in X[n]
  BY <1>1, <1>8, Inductive
<1>10. k[N] \in X[N]
  BY <1>1, <1>9
<1>11. {s[i] : i \in 1..N} = ToSet(s) /\ N = Len(s)
  BY DEF ToSet, N
<1> QED BY <1>1, <1>7, <1>10, <1>11 DEF X

-------------------------------------------------------------------------------
(* The output areas: types.                                                 *)

OutputRecord == [type : {"stream", "display", "error", "foreign"}, size : Nat]

AreaKey == [cell : Cells, token : Nat, generation : Nat]

ReducerType ==
  [area : AreaKey, outputs : Seq(OutputRecord), bytes : Int, count : Nat, reply : BOOLEAN,
   idle : BOOLEAN, completed : BOOLEAN, status : {"running", "ok", "error", "aborted"},
   error : BOOLEAN, clearPending : BOOLEAN, incomplete : BOOLEAN]

TargetType == [area : AreaKey, index : Nat]

RowType == [id : DisplayIds, targets : Seq(TargetType)]

TableType == Seq(RowType)

Kinds == {"append", "update", "replace", "clear", "setCount", "setState", "appendStream"}

EffectType == [kind : Kinds, area : AreaKey, index : Nat, outputs : Seq(OutputRecord)]

\* What a message is fed to: the reducer, the table and the effects so far.
FedType == [red : ReducerType, table : TableType, effects : Seq(EffectType)]

\* What an effect makes of the outputs of the area it is for.
Follows(O, e, P) ==
  /\ e.kind = "append" => P = O \o e.outputs
  /\ e.kind = "update" => P = [O EXCEPT ![e.index] = e.outputs[1]]
  /\ e.kind \in {"replace", "clear"} => P = e.outputs
  /\ e.kind = "appendStream" => P = [O EXCEPT ![e.index].size = @ + 1]
  /\ e.kind \in {"setCount", "setState"} => P = O

\* The outputs of a reducer, from one effect to the next.
Trail(O, effects, area, from, to) ==
  /\ O \in [0..Len(effects) -> Seq(OutputRecord)]
  /\ O[0] = from /\ O[Len(effects)] = to
  /\ \A n \in 1..Len(effects) :
       IF effects[n].area = area THEN Follows(O[n - 1], effects[n], O[n]) ELSE O[n] = O[n - 1]

\* What a reducer that had the record `old` may make of a message: other areas are
\* only updated, a completed record keeps its count, and the effects say what became
\* of the outputs.
EffectOk(e, old) ==
  /\ e.area # old.area => e.kind = "update"
  /\ e.kind = "update" => Len(e.outputs) = 1
  /\ old.completed => e.kind \notin {"setCount", "setState"}

RecordOk(red, old) ==
  /\ red.area = old.area
  /\ red.completed => red.reply /\ red.idle
  /\ old.completed => red.completed /\ red.count = old.count

\* A step of the reducer that began with the record old.
Fed(s, old) ==
  /\ s \in FedType
  /\ \E O : Trail(O, s.effects, old.area, old.outputs, s.red.outputs)
  /\ \A n \in DOMAIN s.effects : EffectOk(s.effects[n], old)
  /\ RecordOk(s.red, old)

LEMMA FedTyped ==
  ASSUME NEW s \in FedType
  PROVE  /\ s.red \in ReducerType /\ s.table \in TableType /\ s.effects \in Seq(EffectType)
         /\ s = [red |-> s.red, table |-> s.table, effects |-> s.effects]
BY DEF FedType

\* The reducer, the table and the effects make a step of the reducer.
LEMMA FedMade ==
  ASSUME NEW red \in ReducerType, NEW t \in TableType, NEW effects \in Seq(EffectType)
  PROVE  /\ [red |-> red, table |-> t, effects |-> effects] \in FedType
BY DEF FedType

\* Before anything was done for a message.
LEMMA StartFed ==
  ASSUME NEW red \in ReducerType, NEW t \in TableType, red.completed => red.reply /\ red.idle
  PROVE  Fed([red |-> red, table |-> t, effects |-> << >>], red)
<1> DEFINE s == [red |-> red, table |-> t, effects |-> << >>]
           O == [n \in 0..0 |-> red.outputs]
<1>1. << >> \in Seq(EffectType) /\ Len(<< >>) = 0 /\ DOMAIN << >> = {}
  OBVIOUS
<1>2. s \in FedType
  BY <1>1, FedMade
<1>3. red.outputs \in Seq(OutputRecord)
  BY DEF ReducerType
<1>4. Trail(O, << >>, red.area, red.outputs, red.outputs)
  BY <1>3 DEF Trail
<1>5. s.red = red /\ s.effects = << >>
  OBVIOUS
<1> HIDE DEF s, O
<1>6. Trail(O, s.effects, red.area, red.outputs, s.red.outputs)
  BY <1>4, <1>5
<1>7. RecordOk(s.red, red)
  BY <1>5 DEF RecordOk
<1>8. \A n \in DOMAIN s.effects : EffectOk(s.effects[n], red)
  BY <1>1, <1>5
<1>9. Fed(s, red)
  BY <1>2, <1>6, <1>7, <1>8 DEF Fed
<1> QED BY <1>9 DEF s

\* A step that emits nothing and leaves the outputs.
LEMMA QuietFed ==
  ASSUME NEW old, NEW s, Fed(s, old), NEW red \in ReducerType, NEW t \in TableType,
         red.outputs = s.red.outputs, RecordOk(red, old)
  PROVE  Fed([red |-> red, table |-> t, effects |-> s.effects], old)
<1> DEFINE z == [red |-> red, table |-> t, effects |-> s.effects]
<1>1. s \in FedType
  BY DEF Fed
<1>2. z \in FedType
  BY <1>1, FedTyped, FedMade
<1>3. z.red = red /\ z.effects = s.effects
  OBVIOUS
<1> HIDE DEF z
<1>4. PICK O : Trail(O, s.effects, old.area, old.outputs, s.red.outputs)
  BY DEF Fed
<1>5. Trail(O, z.effects, old.area, old.outputs, z.red.outputs)
  BY <1>3, <1>4
<1>6. Fed(z, old)
  BY <1>2, <1>3, <1>5 DEF Fed
<1> QED BY <1>6 DEF z

\* A step that emits one effect, and follows it with its own outputs.
LEMMA EmitFed ==
  ASSUME NEW old, NEW s, Fed(s, old), NEW red \in ReducerType, NEW t \in TableType,
         NEW e \in EffectType, RecordOk(red, old), EffectOk(e, old),
         e.area # old.area => red.outputs = s.red.outputs,
         e.area = old.area => Follows(s.red.outputs, e, red.outputs)
  PROVE  Fed([red |-> red, table |-> t, effects |-> Append(s.effects, e)], old)
<1> DEFINE effects == Append(s.effects, e)
           N == Len(s.effects)
           z == [red |-> red, table |-> t, effects |-> effects]
<1>1. s.effects \in Seq(EffectType)
  BY FedTyped DEF Fed
<1>2. effects \in Seq(EffectType) /\ Len(effects) = N + 1 /\ N \in Nat /\ DOMAIN effects = 1..(N + 1)
  BY <1>1
<1>3. \A n \in 1..N : effects[n] = s.effects[n]
  BY <1>1
<1>4. effects[N + 1] = e
  BY <1>1
<1>5. DOMAIN s.effects = 1..N
  BY <1>1
<1>6. red.outputs \in Seq(OutputRecord)
  BY DEF ReducerType
<1>7. PICK O : Trail(O, s.effects, old.area, old.outputs, s.red.outputs)
  BY DEF Fed
<1> DEFINE P == [n \in 0..(N + 1) |-> IF n = N + 1 THEN red.outputs ELSE O[n]]
<1> HIDE DEF effects, N
<1>8. O \in [0..N -> Seq(OutputRecord)] /\ O[0] = old.outputs /\ O[N] = s.red.outputs
  BY <1>7 DEF Trail, N
<1>9. \A n \in 1..N : IF s.effects[n].area = old.area THEN Follows(O[n - 1], s.effects[n], O[n])
                      ELSE O[n] = O[n - 1]
  BY <1>7 DEF Trail, N
<1>10. P \in [0..(N + 1) -> Seq(OutputRecord)]
  BY <1>2, <1>6, <1>8
<1>11. P[0] = old.outputs /\ P[N + 1] = red.outputs
  BY <1>2, <1>8
<1>12. ASSUME NEW n \in 1..(N + 1)
       PROVE  IF effects[n].area = old.area THEN Follows(P[n - 1], effects[n], P[n])
              ELSE P[n] = P[n - 1]
  <2>1. CASE n = N + 1
    <3>1. P[n] = red.outputs /\ P[n - 1] = s.red.outputs
      BY <2>1, <1>2, <1>8
    <3> HIDE DEF P
    <3> QED BY <3>1, <2>1, <1>4
  <2>2. CASE n # N + 1
    <3>1. n \in 1..N /\ n - 1 \in 0..N /\ n \in 0..N
      BY <2>2, <1>2
    <3>2. P[n] = O[n] /\ P[n - 1] = O[n - 1]
      BY <3>1, <1>2
    <3> HIDE DEF P
    <3> QED BY <3>1, <3>2, <1>3, <1>9
  <2> QED BY <2>1, <2>2
<1> HIDE DEF P
<1>13. Trail(P, effects, old.area, old.outputs, red.outputs)
  BY <1>2, <1>10, <1>11, <1>12 DEF Trail
<1>14. \A n \in DOMAIN effects : EffectOk(effects[n], old)
  <2> TAKE n \in DOMAIN effects
  <2>1. CASE n = N + 1
    BY <2>1, <1>4
  <2>2. CASE n # N + 1
    <3>1. n \in 1..N
      BY <2>2, <1>2
    <3> QED BY <3>1, <1>3, <1>5 DEF Fed
  <2> QED BY <2>1, <2>2
<1>15. z \in FedType
  BY <1>2, FedMade
<1>16. z.red = red /\ z.effects = effects
  OBVIOUS
<1>17. Fed(z, old)
  <2> HIDE DEF z
  <2> QED BY <1>13, <1>14, <1>15, <1>16 DEF Fed
<1> QED BY <1>17 DEF effects

(* The display table, and the handlers of the reducer.                      *)

\* DisplayRegistry.resolve.
LEMMA ResolveTyped ==
  ASSUME NEW t \in TableType, NEW id
  PROVE  Resolve(t, id) \in Seq(TargetType)
<1>1. \A i \in DOMAIN t : t[i] \in RowType
  BY DEF TableType
<1>2. CASE \E i \in DOMAIN t : t[i].id = id
  <2> DEFINE i == CHOOSE i \in DOMAIN t : t[i].id = id
  <2>1. i \in DOMAIN t
    BY <1>2
  <2>2. Resolve(t, id) = t[i].targets
    BY <1>2 DEF Resolve
  <2> HIDE DEF i
  <2> QED BY <2>1, <2>2, <1>1 DEF RowType
<1>3. CASE ~ \E i \in DOMAIN t : t[i].id = id
  BY <1>3 DEF Resolve
<1> QED BY <1>2, <1>3

\* DisplayRegistry.register.
LEMMA RegisterTyped ==
  ASSUME NEW t \in TableType, NEW id \in DisplayIds, NEW target \in TargetType
  PROVE  Register(t, id, target) \in TableType
<1> DEFINE known  == \E i \in DOMAIN t : t[i].id = id
           kept   == IF ~known /\ Len(t) >= MaxDisplayIds THEN Tail(t) ELSE t
           rows   == IF known THEN kept ELSE Append(kept, [id |-> id, targets |-> << >>])
           old    == Resolve(rows, id)
           space  == IF Len(old) >= MaxTargetsPerId THEN Tail(old) ELSE old
           listed == IF target \in ToSet(old) THEN old ELSE Append(space, target)
           res    == [i \in DOMAIN rows |-> IF rows[i].id = id THEN [rows[i] EXCEPT !.targets = listed]
                                            ELSE rows[i]]
<1>1. Register(t, id, target) = res
  BY DEF Register
<1>2. t \in Seq(RowType)
  BY DEF TableType
<1>3. kept \in Seq(RowType)
  <2>1. CASE ~known /\ Len(t) >= MaxDisplayIds
    <3>1. t # << >>
      BY <2>1, <1>2, ReducerAssumption
    <3>2. Tail(t) \in Seq(RowType)
      BY <3>1, <1>2
    <3> QED BY <2>1, <3>2
  <2>2. CASE ~(~known /\ Len(t) >= MaxDisplayIds)
    BY <2>2, <1>2
  <2> QED BY <2>1, <2>2
<1>4. [id |-> id, targets |-> << >>] \in RowType
  BY DEF RowType
<1> HIDE DEF kept, known
<1>5. rows \in Seq(RowType)
  BY <1>3, <1>4
<1> HIDE DEF rows
<1>6. old \in Seq(TargetType)
  BY <1>5, ResolveTyped DEF TableType
<1> HIDE DEF old
<1>7. space \in Seq(TargetType)
  <2>1. CASE Len(old) >= MaxTargetsPerId
    <3>1. old # << >>
      BY <2>1, <1>6, ReducerAssumption
    <3> QED BY <3>1, <2>1, <1>6
  <2>2. CASE ~(Len(old) >= MaxTargetsPerId)
    BY <2>2, <1>6
  <2> QED BY <2>1, <2>2
<1> HIDE DEF space
<1>8. listed \in Seq(TargetType)
  BY <1>6, <1>7
<1> HIDE DEF listed
<1>9. DOMAIN rows = 1..Len(rows) /\ Len(rows) \in Nat /\ \A i \in DOMAIN rows : rows[i] \in RowType
  BY <1>5
<1>10. ASSUME NEW i \in DOMAIN rows
       PROVE  [rows[i] EXCEPT !.targets = listed] \in RowType
  BY <1>8, <1>9 DEF RowType
<1>11. res \in [1..Len(rows) -> RowType]
  BY <1>9, <1>10
<1> HIDE DEF res
<1>12. res \in Seq(RowType)
  BY <1>9, <1>11
<1> QED BY <1>1, <1>12 DEF TableType

\* DisplayRegistry.forgetGeneration.
LEMMA ForgetTyped ==
  ASSUME NEW t \in TableType, NEW area
  PROVE  ForgetGeneration(t, area) \in TableType
<1> DEFINE S(i) == {x \in ToSet(t[i].targets) : x.area # area}
           stripped == [i \in DOMAIN t |-> [t[i] EXCEPT !.targets = Keep(@, {x \in ToSet(@) : x.area # area})]]
           R == {row \in ToSet(stripped) : row.targets # << >>}
<1>1. ForgetGeneration(t, area) = Keep(stripped, R)
  BY DEF ForgetGeneration
<1>2. DOMAIN t = 1..Len(t) /\ Len(t) \in Nat /\ \A i \in DOMAIN t : t[i] \in RowType
  BY DEF TableType
<1>3. ASSUME NEW i \in DOMAIN t
      PROVE  stripped[i] \in RowType
  <2>1. t[i].targets \in Seq(TargetType)
    BY <1>2 DEF RowType
  <2> DEFINE k == Keep(t[i].targets, {x \in ToSet(t[i].targets) : x.area # area})
  <2>2. k \in Seq(TargetType)
    <3> DEFINE q == {x \in ToSet(t[i].targets) : x.area # area}
    <3> HIDE DEF q
    <3>1. Keep(t[i].targets, q) \in Seq(TargetType)
      BY <2>1, KeepFacts
    <3> QED BY <3>1 DEF q
  <2>3. stripped[i] = [t[i] EXCEPT !.targets = k]
    OBVIOUS
  <2> HIDE DEF k, stripped
  <2> QED BY <2>2, <2>3, <1>2 DEF RowType
<1>4. stripped \in [1..Len(t) -> RowType]
  <2>1. stripped = [i \in DOMAIN t |-> stripped[i]]
    OBVIOUS
  <2> HIDE DEF stripped
  <2> QED BY <2>1, <1>2, <1>3
<1> HIDE DEF stripped, R
<1>5. stripped \in Seq(RowType)
  BY <1>2, <1>4
<1>6. Keep(stripped, R) \in Seq(RowType)
  BY <1>5, KeepFacts
<1> QED BY <1>1, <1>6 DEF TableType

LEMMA FedSet ==
  ASSUME NEW s \in FedType, NEW v
  PROVE  /\ [s EXCEPT !.red = v] = [red |-> v, table |-> s.table, effects |-> s.effects]
         /\ [s EXCEPT !.table = v] = [red |-> s.red, table |-> v, effects |-> s.effects]
         /\ [s EXCEPT !.effects = v] = [red |-> s.red, table |-> s.table, effects |-> v]
<1> DEFINE a == s.red
           b == s.table
           c == s.effects
<1>1. s = [red |-> a, table |-> b, effects |-> c]
  BY FedTyped
<1> HIDE DEF a, b, c
<1>2. /\ [s EXCEPT !.red = v] = [red |-> v, table |-> b, effects |-> c]
      /\ [s EXCEPT !.table = v] = [red |-> a, table |-> v, effects |-> c]
      /\ [s EXCEPT !.effects = v] = [red |-> a, table |-> b, effects |-> v]
  BY <1>1
<1> QED BY <1>2 DEF a, b, c

\* takeDeferredClear: the record, and the effect that goes with it.
LEMMA EmptiedIs ==
  ASSUME NEW s \in FedType
  PROVE  Emptied(s) = [red |-> [s.red EXCEPT !.outputs = << >>, !.bytes = 0, !.clearPending = FALSE],
                       table |-> ForgetGeneration(s.table, s.red.area), effects |-> s.effects]
<1> DEFINE a == s.red
           b == s.table
           c == s.effects
           t == ForgetGeneration(b, a.area)
<1>1. s = [red |-> a, table |-> b, effects |-> c]
  BY FedTyped
<1>2. Emptied(s) = [s EXCEPT !.red.outputs = << >>, !.red.bytes = 0, !.red.clearPending = FALSE,
                             !.table = t]
  BY DEF Emptied
<1> HIDE DEF a, b, c, t
<1>3. Emptied(s) = [red |-> [a EXCEPT !.outputs = << >>, !.bytes = 0, !.clearPending = FALSE],
                    table |-> t, effects |-> c]
  BY <1>1, <1>2
<1> QED BY <1>3 DEF a, b, c, t

LEMMA EmptiedRecord ==
  ASSUME NEW s \in FedType
  PROVE  LET z == Emptied(s)
         IN  /\ z \in FedType /\ z.red.outputs = << >> /\ z.effects = s.effects
             /\ z.red.area = s.red.area
             /\ \A old : RecordOk(s.red, old) => RecordOk(z.red, old)
<1> DEFINE red == [s.red EXCEPT !.outputs = << >>, !.bytes = 0, !.clearPending = FALSE]
           t == ForgetGeneration(s.table, s.red.area)
<1>1. s.red \in ReducerType /\ s.table \in TableType /\ s.effects \in Seq(EffectType)
  BY FedTyped
<1>2. t \in TableType
  BY <1>1, ForgetTyped
<1>3. red \in ReducerType /\ red.outputs = << >> /\ red.area = s.red.area
  <2>1. << >> \in Seq(OutputRecord) /\ 0 \in Int
    OBVIOUS
  <2> QED BY <1>1, <2>1 DEF ReducerType
<1>4. \A old : RecordOk(s.red, old) => RecordOk(red, old)
  BY <1>1 DEF ReducerType, RecordOk
<1>5. Emptied(s) = [red |-> red, table |-> t, effects |-> s.effects]
  BY EmptiedIs
<1> HIDE DEF red, t
<1> QED BY <1>1, <1>2, <1>3, <1>4, <1>5, FedMade

\* addOutput: with the deferred clear, within the budget or not.
LEMMA AddOutputFed ==
  ASSUME NEW old, NEW s0, Fed(s0, old), NEW output \in OutputRecord, NEW id \in DisplayIds \cup {NoId}
  PROVE  Fed(AddOutput(s0, output, id), old)
<1> DEFINE cleared == s0.red.clearPending
           s       == IF cleared THEN Emptied(s0) ELSE s0
           area    == s.red.area
           over    == [s EXCEPT !.red.incomplete = TRUE]
           kept    == [s EXCEPT !.red.outputs = Append(@, output), !.red.bytes = @ + output.size]
           target  == [area |-> area, index |-> Len(kept.red.outputs)]
           shown   == IF id = NoId THEN kept ELSE [kept EXCEPT !.table = Register(@, id, target)]
           z       == AddOutput(s0, output, id)
<1>1. s0 \in FedType /\ RecordOk(s0.red, old)
  BY DEF Fed
<1>2. /\ s \in FedType /\ RecordOk(s.red, old) /\ s.effects = s0.effects
      /\ (cleared => s.red.outputs = << >>) /\ (~cleared => s = s0)
  BY <1>1, EmptiedRecord
<1> HIDE DEF s
<1>3. s.red \in ReducerType /\ s.table \in TableType /\ s.effects \in Seq(EffectType)
      /\ s = [red |-> s.red, table |-> s.table, effects |-> s.effects]
  BY <1>2, FedTyped
<1>4. area = old.area /\ area \in AreaKey /\ s.red.outputs \in Seq(OutputRecord) /\ s.red.bytes \in Int
  BY <1>2, <1>3 DEF RecordOk, ReducerType
<1>5. z = IF Exceeds(s.red, output.size)
          THEN IF cleared THEN Emit(over, Effect("clear", area, 0, << >>)) ELSE over
          ELSE Emit(shown, IF cleared THEN Effect("replace", area, 0, shown.red.outputs)
                           ELSE Effect("append", area, 0, <<output>>))
  BY DEF AddOutput, s
<1> DEFINE red1 == [s.red EXCEPT !.incomplete = TRUE]
           red2 == [s.red EXCEPT !.outputs = Append(@, output), !.bytes = @ + output.size]
           t2   == IF id = NoId THEN s.table ELSE Register(s.table, id, target)
<1>6. over = [red |-> red1, table |-> s.table, effects |-> s.effects]
  BY <1>2, FedSet
<1>7. kept = [red |-> red2, table |-> s.table, effects |-> s.effects]
  <2> DEFINE a == s.red
             b == s.table
             c == s.effects
  <2>1. s = [red |-> a, table |-> b, effects |-> c]
    BY <1>3
  <2> DEFINE v == Append(a.outputs, output)
             w == a.bytes + output.size
  <2>2. kept = [s EXCEPT !.red.outputs = v, !.red.bytes = w] 
    BY <2>1
  <2>3. red2 = [a EXCEPT !.outputs = v, !.bytes = w]
    OBVIOUS
  <2> HIDE DEF a, b, c, v, w, red2, kept
  <2>4. kept = [red |-> [a EXCEPT !.outputs = v, !.bytes = w], table |-> b, effects |-> c]
    BY <2>1, <2>2
  <2> QED BY <2>3, <2>4 DEF b, c
<1>8. red1 \in ReducerType /\ red1.outputs = s.red.outputs /\ RecordOk(red1, old)
  BY <1>2, <1>3 DEF ReducerType, RecordOk
<1>9. red2 \in ReducerType /\ red2.outputs = Append(s.red.outputs, output) /\ RecordOk(red2, old)
  <2>1. output.size \in Int
    BY DEF OutputRecord
  <2>2. Append(s.red.outputs, output) \in Seq(OutputRecord) /\ s.red.bytes + output.size \in Int
    BY <1>4, <2>1
  <2> QED BY <2>2, <1>2, <1>3 DEF ReducerType, RecordOk
<1>10. target = [area |-> area, index |-> Len(red2.outputs)]
  BY <1>7
<1>11. target \in TargetType
  <2>1. Len(red2.outputs) \in Nat
    BY <1>4, <1>9
  <2> HIDE DEF red2
  <2> QED BY <2>1, <1>4, <1>10 DEF TargetType
<1> HIDE DEF target
<1>12. t2 \in TableType
  BY <1>3, <1>11, RegisterTyped
<1>13. shown = [red |-> red2, table |-> t2, effects |-> s.effects]
  <2> HIDE DEF red2, kept
  <2> QED BY <1>7
<1> HIDE DEF red1, red2, t2, kept, over, shown, z, area
<1>14. shown.red = red2
  BY <1>13
<1>15. CASE Exceeds(s.red, output.size) /\ ~cleared
  <2>1. z = [red |-> red1, table |-> s.table, effects |-> s0.effects]
    BY <1>15, <1>5, <1>6, <1>2
  <2>2. red1.outputs = s0.red.outputs
    BY <1>15, <1>2, <1>8
  <2>3. Fed([red |-> red1, table |-> s.table, effects |-> s0.effects], old)
    BY <2>2, <1>3, <1>8, QuietFed
  <2> QED BY <2>1, <2>3 DEF z
<1>16. CASE Exceeds(s.red, output.size) /\ cleared
  <2> DEFINE e == Effect("clear", area, 0, << >>)
  <2>1. e \in EffectType /\ e.kind = "clear" /\ e.area = old.area /\ e.outputs = << >>
    <3>1. "clear" \in Kinds /\ << >> \in Seq(OutputRecord) /\ 0 \in Nat
      BY DEF Kinds
    <3>2. area \in AreaKey /\ area = old.area
      BY <1>4 DEF area
    <3> QED BY <3>1, <3>2 DEF Effect, EffectType
  <2> HIDE DEF e
  <2>2. EffectOk(e, old) /\ Follows(s0.red.outputs, e, red1.outputs)
    BY <2>1, <1>2, <1>8, <1>16 DEF EffectOk, Follows
  <2>3. z = Emit(over, e)
    BY <1>5, <1>16 DEF e
  <2>4. z = [red |-> red1, table |-> s.table, effects |-> Append(s0.effects, e)]
    BY <2>3, <1>6, <1>2 DEF Emit
  <2>5. Fed([red |-> red1, table |-> s.table, effects |-> Append(s0.effects, e)], old)
    BY <2>1, <2>2, <1>3, <1>8, EmitFed
  <2> QED BY <2>4, <2>5 DEF z
<1>17. CASE ~Exceeds(s.red, output.size)
  <2> DEFINE e == IF cleared THEN Effect("replace", area, 0, red2.outputs)
                  ELSE Effect("append", area, 0, <<output>>)
  <2>1. e \in EffectType /\ e.area = old.area /\ e.kind = (IF cleared THEN "replace" ELSE "append")
        /\ e.outputs = (IF cleared THEN red2.outputs ELSE <<output>>)
    <3>1. "replace" \in Kinds /\ "append" \in Kinds /\ <<output>> \in Seq(OutputRecord) /\ 0 \in Nat
      BY DEF Kinds
    <3>2. red2.outputs \in Seq(OutputRecord)
      BY <1>9 DEF ReducerType
    <3>3. area \in AreaKey /\ area = old.area
      BY <1>4 DEF area
    <3> QED BY <3>1, <3>2, <3>3 DEF Effect, EffectType
  <2> HIDE DEF e
  <2>2. EffectOk(e, old)
    BY <2>1 DEF EffectOk
  <2>3. Follows(s0.red.outputs, e, red2.outputs)
    <3>1. CASE cleared
      BY <3>1, <2>1 DEF Follows
    <3>2. CASE ~cleared
      <4>1. s0.red.outputs \in Seq(OutputRecord) /\ s0 = s
        BY <3>2, <1>2, <1>4
      <4>2. Append(s0.red.outputs, output) = s0.red.outputs \o <<output>>
        BY <4>1
      <4> QED BY <3>2, <2>1, <4>1, <4>2, <1>9 DEF Follows
    <3> QED BY <3>1, <3>2
  <2>4. z = Emit(shown, e)
    BY <1>5, <1>14, <1>17 DEF e
  <2>5. z = [red |-> red2, table |-> t2, effects |-> Append(s0.effects, e)]
    BY <2>4, <1>13, <1>2 DEF Emit
  <2>6. Fed([red |-> red2, table |-> t2, effects |-> Append(s0.effects, e)], old)
    BY <2>1, <2>2, <2>3, <1>9, <1>12, EmitFed
  <2> QED BY <2>5, <2>6 DEF z
<1> QED BY <1>15, <1>16, <1>17

\* The flags of a record, which leave its outputs alone.
LEMMA QuietUpdate ==
  ASSUME NEW old, NEW s, Fed(s, old), NEW red \in ReducerType, red.outputs = s.red.outputs,
         RecordOk(red, old)
  PROVE  Fed([s EXCEPT !.red = red], old)
<1>1. s \in FedType
  BY DEF Fed
<1>2. [s EXCEPT !.red = red] = [red |-> red, table |-> s.table, effects |-> s.effects]
  BY <1>1, FedSet
<1>3. s.table \in TableType
  BY <1>1, FedTyped
<1>4. Fed([red |-> red, table |-> s.table, effects |-> s.effects], old)
  BY <1>3, QuietFed
<1> QED BY <1>2, <1>4

LEMMA EmitUpdate ==
  ASSUME NEW old, NEW s, Fed(s, old), NEW red \in ReducerType, RecordOk(red, old),
         NEW e \in EffectType, EffectOk(e, old),
         e.area # old.area => red.outputs = s.red.outputs,
         e.area = old.area => Follows(s.red.outputs, e, red.outputs)
  PROVE  Fed(Emit([s EXCEPT !.red = red], e), old)
<1>1. s \in FedType
  BY DEF Fed
<1>2. [s EXCEPT !.red = red] = [red |-> red, table |-> s.table, effects |-> s.effects]
  BY <1>1, FedSet
<1>3. s.table \in TableType
  BY <1>1, FedTyped
<1>4. Emit([s EXCEPT !.red = red], e) = [red |-> red, table |-> s.table, effects |-> Append(s.effects, e)]
  <2> DEFINE z == [s EXCEPT !.red = red]
             b == s.table
             c == s.effects
  <2>1. z = [red |-> red, table |-> b, effects |-> c]
    BY <1>2
  <2> HIDE DEF z, b, c
  <2>2. Emit(z, e) = [red |-> red, table |-> b, effects |-> Append(c, e)]
    BY <2>1 DEF Emit
  <2> QED BY <2>2 DEF z, b, c
<1>5. Fed([red |-> red, table |-> s.table, effects |-> Append(s.effects, e)], old)
  BY <1>3, EmitFed
<1> QED BY <1>4, <1>5

LEMMA FedRecord ==
  ASSUME NEW old, NEW s, Fed(s, old)
  PROVE  /\ s \in FedType /\ s.red \in ReducerType /\ RecordOk(s.red, old)
         /\ s.red.area = old.area /\ s.red.area \in AreaKey
         /\ s.red.outputs \in Seq(OutputRecord) /\ s.red.bytes \in Int /\ s.red.count \in Nat
<1>1. s \in FedType /\ RecordOk(s.red, old)
  BY DEF Fed
<1>2. s.red \in ReducerType
  BY <1>1, FedTyped
<1> QED BY <1>1, <1>2 DEF ReducerType, RecordOk

LEMMA IncompleteFed ==
  ASSUME NEW old, NEW s, Fed(s, old)
  PROVE  Fed([s EXCEPT !.red.incomplete = TRUE], old)
<1> DEFINE red == [s.red EXCEPT !.incomplete = TRUE]
<1>0. s.red \in ReducerType /\ RecordOk(s.red, old)
  BY FedRecord
<1>1. red \in ReducerType /\ red.outputs = s.red.outputs /\ RecordOk(red, old)
  BY <1>0 DEF ReducerType, RecordOk
<1>2. [s EXCEPT !.red.incomplete = TRUE] = [s EXCEPT !.red = red]
  OBVIOUS
<1> HIDE DEF red
<1> QED BY <1>1, <1>2, QuietUpdate

\* handleStream: a new output, or a longer last one.
LEMMA StreamFed ==
  ASSUME NEW old, NEW s, Fed(s, old)
  PROVE  Fed(HandleStream(s), old)
<1> DEFINE n == Len(s.red.outputs)
           grows == ~s.red.clearPending /\ n > 0 /\ s.red.outputs[n].type = "stream"
<1>1. CASE ~grows
  <2>1. HandleStream(s) = AddOutput(s, Output("stream", 1), NoId)
    BY <1>1 DEF HandleStream
  <2>2. Output("stream", 1) \in OutputRecord
    BY DEF Output, OutputRecord
  <2> QED BY <2>1, <2>2, AddOutputFed
<1>2. CASE grows /\ Exceeds(s.red, 1)
  <2>1. HandleStream(s) = [s EXCEPT !.red.incomplete = TRUE]
    BY <1>2 DEF HandleStream
  <2> QED BY <2>1, IncompleteFed
<1>3. CASE grows /\ ~Exceeds(s.red, 1)
  <2> DEFINE o == [s.red.outputs EXCEPT ![n].size = @ + 1]
             b == s.red.bytes + 1
             red == [s.red EXCEPT !.outputs = o, !.bytes = b]
             e == Effect("appendStream", s.red.area, n, << >>)
  <2>1. HandleStream(s) = Emit([s EXCEPT !.red.outputs[n].size = @ + 1, !.red.bytes = @ + 1], e)
    BY <1>3 DEF HandleStream
  <2>2. n \in DOMAIN s.red.outputs /\ n \in Nat
    BY <1>3, FedRecord
  <2>3. o \in Seq(OutputRecord)
    <3>1. s.red.outputs \in Seq(OutputRecord)
      BY FedRecord
    <3>2. s.red.outputs[n] \in OutputRecord
      BY <3>1, <2>2
    <3>3. [s.red.outputs[n] EXCEPT !.size = @ + 1] \in OutputRecord
      BY <3>2 DEF OutputRecord
    <3> HIDE DEF n
    <3> QED BY <3>1, <3>3, <2>2
  <2>4. [s EXCEPT !.red.outputs[n].size = @ + 1, !.red.bytes = @ + 1] = [s EXCEPT !.red = red]
    <3> DEFINE x == s.red
               y == s.table
               z == s.effects
               w == x.outputs
    <3>1. s = [red |-> x, table |-> y, effects |-> z]
      BY FedRecord, FedTyped
    <3>2. red = [x EXCEPT !.outputs = [w EXCEPT ![n].size = @ + 1], !.bytes = x.bytes + 1]
      OBVIOUS
    <3>3. x = [x EXCEPT !.outputs = w]
      BY FedRecord DEF ReducerType
    <3> HIDE DEF x, y, z, red, n
    <3> QED BY <3>1, <3>2
  <2>5. e \in EffectType /\ e.kind = "appendStream" /\ e.area = old.area /\ e.index = n
    <3>1. "appendStream" \in Kinds /\ << >> \in Seq(OutputRecord)
      BY DEF Kinds
    <3>2. s.red.area \in AreaKey /\ s.red.area = old.area
      BY FedRecord
    <3> HIDE DEF n
    <3> QED BY <3>1, <3>2, <2>2 DEF Effect, EffectType
  <2>6. red \in ReducerType /\ red.outputs = o /\ RecordOk(red, old)
    <3>1. b \in Int
      BY FedRecord
    <3>2. s.red \in ReducerType /\ RecordOk(s.red, old)
      BY FedRecord
    <3> HIDE DEF o, b
    <3> QED BY <3>1, <3>2, <2>3 DEF ReducerType, RecordOk
  <2> HIDE DEF e, red
  <2>7. EffectOk(e, old) /\ Follows(s.red.outputs, e, red.outputs)
    BY <2>5, <2>6 DEF EffectOk, Follows
  <2>8. Fed(Emit([s EXCEPT !.red = red], e), old)
    BY <2>5, <2>6, <2>7, EmitUpdate
  <2> QED BY <2>1, <2>4, <2>8
<1> QED BY <1>1, <1>2, <1>3

\* One place that shows a display: in the own area or in that of another run.
LEMMA UpdateTargetFed ==
  ASSUME NEW old, NEW s, Fed(s, old), NEW target \in TargetType, NEW output \in OutputRecord
  PROVE  Fed(UpdateTarget(s, target, output), old)
<1> DEFINE own   == target.area = s.red.area
           known == target.index \in DOMAIN s.red.outputs
           delta == output.size - s.red.outputs[target.index].size
           e     == Effect("update", target.area, target.index, <<output>>)
           o     == [s.red.outputs EXCEPT ![target.index] = output]
           b     == s.red.bytes + delta
           red   == [s.red EXCEPT !.outputs = o, !.bytes = b]
<1>1. s.red \in ReducerType /\ RecordOk(s.red, old) /\ s.red.area = old.area
      /\ s.red.outputs \in Seq(OutputRecord) /\ s.red.bytes \in Int /\ s \in FedType
  BY FedRecord
<1>2. e \in EffectType /\ e.kind = "update" /\ e.area = target.area /\ e.index = target.index
      /\ e.outputs = <<output>> /\ EffectOk(e, old)
  <2>1. "update" \in Kinds /\ <<output>> \in Seq(OutputRecord)
    BY DEF Kinds
  <2>2. target.area \in AreaKey /\ target.index \in Nat
    BY DEF TargetType
  <2>3. Len(<<output>>) = 1
    OBVIOUS
  <2> QED BY <2>1, <2>2, <2>3 DEF Effect, EffectType, EffectOk
<1>3. UpdateTarget(s, target, output) =
        IF ~own THEN Emit(s, e)
        ELSE IF ~known THEN s
        ELSE IF Exceeds(s.red, delta) THEN [s EXCEPT !.red.incomplete = TRUE]
        ELSE Emit([s EXCEPT !.red.outputs[target.index] = output, !.red.bytes = @ + delta], e)
  BY DEF UpdateTarget
<1> HIDE DEF e
<1>4. CASE ~own
  <2>1. [s EXCEPT !.red = s.red] = s
    <3>1. [s EXCEPT !.red = s.red] = [red |-> s.red, table |-> s.table, effects |-> s.effects]
      BY <1>1, FedSet
    <3> QED BY <3>1, <1>1, FedTyped
  <2>2. Fed(Emit([s EXCEPT !.red = s.red], e), old)
    BY <1>1, <1>2, <1>4, EmitUpdate
  <2> QED BY <1>3, <1>4, <2>1, <2>2
<1>5. CASE own /\ ~known
  BY <1>3, <1>5
<1>6. CASE own /\ known /\ Exceeds(s.red, delta)
  <2>1. Fed([s EXCEPT !.red.incomplete = TRUE], old)
    BY IncompleteFed
  <2> QED BY <1>3, <1>6, <2>1
<1>7. CASE own /\ known /\ ~Exceeds(s.red, delta)
  <2>1. delta \in Int
    <3>1. output.size \in Int
      BY DEF OutputRecord
    <3>2. s.red.outputs[target.index] \in OutputRecord
      BY <1>1, <1>7
    <3>3. s.red.outputs[target.index].size \in Int
      BY <3>2 DEF OutputRecord
    <3> QED BY <3>1, <3>3
  <2>2. b \in Int
    <3> HIDE DEF delta
    <3> QED BY <1>1, <2>1
  <2>3. o \in Seq(OutputRecord)
    BY <1>1, <1>7
  <2>4. [s EXCEPT !.red.outputs[target.index] = output, !.red.bytes = @ + delta] = [s EXCEPT !.red = red]
    <3> DEFINE x == s.red
               y == s.table
               z == s.effects
               i == target.index
               w == x.outputs
    <3>1. s = [red |-> x, table |-> y, effects |-> z]
      BY <1>1, FedTyped
    <3>2. red = [x EXCEPT !.outputs = [w EXCEPT ![i] = output], !.bytes = x.bytes + delta]
      OBVIOUS
    <3>3. x = [x EXCEPT !.outputs = w]
      BY <1>1 DEF ReducerType
    <3> HIDE DEF x, y, z, red, delta, i
    <3>4. [s EXCEPT !.red.outputs[i] = output, !.red.bytes = @ + delta] = [s EXCEPT !.red = red]
      BY <3>1, <3>2
    <3> QED BY <3>4 DEF i
  <2>5. red \in ReducerType /\ red.outputs = o /\ RecordOk(red, old)
    <3> HIDE DEF o, b
    <3> QED BY <1>1, <2>2, <2>3 DEF ReducerType, RecordOk
  <2>6. Follows(s.red.outputs, e, red.outputs)
    <3>1. red.outputs = [s.red.outputs EXCEPT ![e.index] = e.outputs[1]]
      BY <1>2, <2>5
    <3> HIDE DEF red
    <3> QED BY <3>1, <1>2 DEF Follows
  <2> HIDE DEF red
  <2>7. Fed(Emit([s EXCEPT !.red = red], e), old)
    BY <1>1, <1>2, <1>7, <2>5, <2>6, EmitUpdate
  <2> QED BY <1>3, <1>7, <2>4, <2>7
<1> QED BY <1>4, <1>5, <1>6, <1>7

\* All of them.
LEMMA HandleUpdateFed ==
  ASSUME NEW old, NEW s, Fed(s, old), NEW msg, msg.size \in Nat
  PROVE  Fed(HandleUpdateDisplay(s, msg), old)
<1> DEFINE targets == Resolve(s.table, msg.id)
           N == Len(targets)
           output == Output("display", msg.size)
           X == [n \in 0..N |-> {z \in FedType : Fed(z, old)}]
           g == [n \in 1..N |-> [z \in {z \in FedType : Fed(z, old)} |-> UpdateTarget(z, targets[n], output)]]
<1>1. s \in FedType /\ s.table \in TableType
  BY FedRecord, FedTyped
<1>2. targets \in Seq(TargetType)
  BY <1>1, ResolveTyped
<1>3. N \in Nat /\ DOMAIN targets = 1..N
  BY <1>2
<1>4. output \in OutputRecord
  BY DEF Output, OutputRecord
<1> HIDE DEF output, targets
<1>5. \A n \in 0..N : \A z : z \in X[n] <=> Fed(z, old)
  <2>1. \A z : Fed(z, old) => z \in FedType
    BY DEF Fed
  <2> QED BY <2>1
<1>6. \A n \in 1..N : \A z \in X[n - 1] :
        g[n][z] = UpdateTarget(z, targets[n], output) /\ g[n][z] \in X[n]
  <2> TAKE n \in 1..N
  <2> TAKE z \in X[n - 1]
  <2>1. n - 1 \in 0..N /\ n \in 0..N
    BY <1>3
  <2>2. Fed(z, old)
    BY <2>1, <1>5
  <2>3. z \in FedType
    BY <2>2 DEF Fed
  <2>4. g[n][z] = UpdateTarget(z, targets[n], output)
    BY <2>2, <2>3
  <2>5. targets[n] \in TargetType
    BY <1>2, <1>3
  <2>6. Fed(UpdateTarget(z, targets[n], output), old)
    BY <2>2, <2>5, <1>4, UpdateTargetFed
  <2> HIDE DEF g, X
  <2> QED BY <2>1, <2>4, <2>6, <1>5
<1> HIDE DEF X, g, N
<1>7. s \in X[0]
  BY <1>3, <1>5
<1>8. PICK h : StepsThrough(h, N, X, s, g)
  <2>1. \A n \in 1..N : \A x \in X[n - 1] : g[n][x] \in X[n]
    BY <1>6
  <2> QED BY <1>3, <1>7, <2>1, Recursion
<1> DEFINE R(f) == f = [n \in 0..N |-> IF n = 0 THEN s ELSE UpdateTarget(f[n - 1], targets[n], output)]
<1>9. R(h)
  <2>1. \A n \in 0..N : n # 0 => n \in 1..N /\ n - 1 \in 0..N
    BY <1>3
  <2>2. \A n \in 0..N : n # 0 => h[n] = UpdateTarget(h[n - 1], targets[n], output)
    BY <2>1, <1>6, <1>8 DEF StepsThrough
  <2>3. \A n \in 0..N : h[n] = IF n = 0 THEN s ELSE UpdateTarget(h[n - 1], targets[n], output)
    BY <2>2, <1>8 DEF StepsThrough
  <2> QED BY <1>8, <2>3 DEF StepsThrough
<1> DEFINE k == CHOOSE f : R(f)
<1>10. R(k)
  <2> HIDE DEF R
  <2> QED BY <1>9
<1>11. HandleUpdateDisplay(s, msg) = k[N]
  BY DEF HandleUpdateDisplay, N, targets, output
<1> HIDE DEF k
<1>12. k[0] \in X[0] /\ \A n \in 1..N : k[n - 1] \in X[n - 1] => k[n] \in X[n]
  <2>1. k[0] = s
    BY <1>3, <1>10
  <2>2. ASSUME NEW n \in 1..N, k[n - 1] \in X[n - 1]
        PROVE  k[n] \in X[n]
    <3>1. n \in 0..N /\ n # 0
      BY <1>3
    <3>2. k[n] = UpdateTarget(k[n - 1], targets[n], output)
      BY <3>1, <1>10
    <3> QED BY <3>2, <2>2, <1>6
  <2> QED BY <2>1, <2>2, <1>7
<1>13. \A n \in 0..N : k[n] \in X[n]
  BY <1>3, <1>12, Inductive
<1>14. k[N] \in X[N] /\ N \in 0..N
  BY <1>3, <1>13
<1> QED BY <1>5, <1>11, <1>14

\* handleError.
LEMMA ErrorFed ==
  ASSUME NEW old, NEW s, Fed(s, old)
  PROVE  Fed(HandleError(s), old)
<1> DEFINE red1 == [s.red EXCEPT !.status = "error"]
           red2 == [s.red EXCEPT !.status = "error", !.error = TRUE]
<1>1. s.red \in ReducerType /\ RecordOk(s.red, old) /\ s \in FedType
  BY FedRecord
<1>2. red1 \in ReducerType /\ red1.outputs = s.red.outputs /\ RecordOk(red1, old)
  BY <1>1 DEF ReducerType, RecordOk
<1>3. red2 \in ReducerType /\ red2.outputs = s.red.outputs /\ RecordOk(red2, old)
  BY <1>1 DEF ReducerType, RecordOk
<1>4. [s EXCEPT !.red.status = "error"] = [s EXCEPT !.red = red1]
  OBVIOUS
<1>5. [s EXCEPT !.red.status = "error", !.red.error = TRUE] = [s EXCEPT !.red = red2]
  <2> DEFINE x == s.red
             y == s.table
             z == s.effects
  <2>1. s = [red |-> x, table |-> y, effects |-> z]
    BY <1>1, FedTyped
  <2>2. red2 = [x EXCEPT !.status = "error", !.error = TRUE]
    OBVIOUS
  <2> HIDE DEF x, y, z, red2
  <2> QED BY <2>1, <2>2
<1> HIDE DEF red1, red2
<1>6. Fed([s EXCEPT !.red = red1], old) /\ Fed([s EXCEPT !.red = red2], old)
  BY <1>2, <1>3, QuietUpdate
<1>7. Output("error", 1) \in OutputRecord
  BY DEF Output, OutputRecord
<1>8. Fed(AddOutput([s EXCEPT !.red = red2], Output("error", 1), NoId), old)
  BY <1>6, <1>7, AddOutputFed
<1> QED BY <1>4, <1>5, <1>6, <1>8 DEF HandleError

\* handleClearOutput: now, or with the next output.
LEMMA ClearFed ==
  ASSUME NEW old, NEW s, Fed(s, old), NEW msg
  PROVE  Fed(HandleClear(s, msg), old)
<1>1. s.red \in ReducerType /\ RecordOk(s.red, old) /\ s \in FedType
  BY FedRecord
<1>2. CASE msg.wait
  <2> DEFINE red == [s.red EXCEPT !.clearPending = TRUE]
  <2>1. red \in ReducerType /\ red.outputs = s.red.outputs /\ RecordOk(red, old)
    BY <1>1 DEF ReducerType, RecordOk
  <2>2. HandleClear(s, msg) = [s EXCEPT !.red = red]
    BY <1>2 DEF HandleClear
  <2> HIDE DEF red
  <2> QED BY <2>1, <2>2, QuietUpdate
<1>3. CASE ~msg.wait
  <2> DEFINE z == Emptied(s)
             red == [z.red EXCEPT !.incomplete = FALSE]
             e == Effect("clear", s.red.area, 0, << >>)
  <2>1. z \in FedType /\ z.red.outputs = << >> /\ z.effects = s.effects /\ RecordOk(z.red, old)
    BY <1>1, EmptiedRecord
  <2>2. HandleClear(s, msg) = Emit([z EXCEPT !.red = red], e)
    BY <1>3 DEF HandleClear
  <2> HIDE DEF z
  <2>3. z.red \in ReducerType /\ z.table \in TableType
    BY <2>1, FedTyped
  <2>4. red \in ReducerType /\ red.outputs = << >> /\ RecordOk(red, old)
    BY <2>1, <2>3 DEF ReducerType, RecordOk
  <2>5. e \in EffectType /\ e.kind = "clear" /\ e.area = old.area /\ e.outputs = << >>
    <3>1. "clear" \in Kinds /\ << >> \in Seq(OutputRecord) /\ 0 \in Nat
      BY DEF Kinds
    <3>2. s.red.area \in AreaKey /\ s.red.area = old.area
      BY FedRecord
    <3> QED BY <3>1, <3>2 DEF Effect, EffectType
  <2> HIDE DEF red, e
  <2>6. EffectOk(e, old) /\ Follows(s.red.outputs, e, red.outputs)
    BY <2>4, <2>5 DEF EffectOk, Follows
  <2>7. Fed([red |-> red, table |-> z.table, effects |-> Append(s.effects, e)], old)
    BY <2>3, <2>4, <2>5, <2>6, EmitFed
  <2>8. [z EXCEPT !.red = red] = [red |-> red, table |-> z.table, effects |-> s.effects]
    <3>1. [z EXCEPT !.red = red] = [red |-> red, table |-> z.table, effects |-> z.effects]
      BY <2>1, FedSet
    <3> QED BY <3>1, <2>1
  <2>9. Emit([z EXCEPT !.red = red], e) = [red |-> red, table |-> z.table, effects |-> Append(s.effects, e)]
    <3> DEFINE x == [z EXCEPT !.red = red]
               b == z.table
               c == s.effects
    <3>1. x = [red |-> red, table |-> b, effects |-> c]
      BY <2>8
    <3> HIDE DEF x, b, c
    <3>2. Emit(x, e) = [red |-> red, table |-> b, effects |-> Append(c, e)]
      BY <3>1 DEF Emit
    <3> QED BY <3>2 DEF x, b, c
  <2> QED BY <2>2, <2>7, <2>9
<1> QED BY <1>2, <1>3

\* maybeComplete: reply and idle, in either order.
LEMMA CompleteFed ==
  ASSUME NEW old, NEW s, Fed(s, old)
  PROVE  Fed(MaybeComplete(s), old)
<1>1. s.red \in ReducerType /\ RecordOk(s.red, old) /\ s \in FedType
  BY FedRecord
<1>2. CASE s.red.completed \/ ~s.red.reply \/ ~s.red.idle
  BY <1>2 DEF MaybeComplete
<1>3. CASE ~s.red.completed /\ s.red.reply /\ s.red.idle
  <2> DEFINE st == IF s.red.status = "running" THEN "ok" ELSE s.red.status
             red == [s.red EXCEPT !.completed = TRUE, !.status = st]
             e1 == Effect("setCount", s.red.area, s.red.count, << >>)
             e2 == Effect("setState", s.red.area, 0, << >>)
             done == [s EXCEPT !.red = red]
             z == Emit(done, e1)
  <2>1. st \in {"running", "ok", "error", "aborted"}
    BY <1>1 DEF ReducerType
  <2>2. ~old.completed
    BY <1>1, <1>3 DEF RecordOk
  <2>3. [s EXCEPT !.red.completed = TRUE, !.red.status = IF @ = "running" THEN "ok" ELSE @] = done
    <3> DEFINE x == s.red
               y == s.table
               w == s.effects
    <3>1. s = [red |-> x, table |-> y, effects |-> w]
      BY <1>1, FedTyped
    <3>2. red = [x EXCEPT !.completed = TRUE, !.status = st] /\ st = IF x.status = "running" THEN "ok" ELSE x.status
      OBVIOUS
    <3>3. [s EXCEPT !.red.completed = TRUE, !.red.status = IF @ = "running" THEN "ok" ELSE @]
            = [s EXCEPT !.red.completed = TRUE, !.red.status = st]
      BY <3>1
    <3> HIDE DEF x, y, w, red, st
    <3> QED BY <3>1, <3>2, <3>3
  <2> HIDE DEF st
  <2>4. red \in ReducerType /\ red.outputs = s.red.outputs /\ RecordOk(red, old)
    BY <1>1, <1>3, <2>1, <2>2 DEF ReducerType, RecordOk
  <2>5. e1 \in EffectType /\ e1.kind = "setCount" /\ e1.area = old.area
    <3>1. "setCount" \in Kinds /\ << >> \in Seq(OutputRecord)
      BY DEF Kinds
    <3>2. s.red.area \in AreaKey /\ s.red.area = old.area /\ s.red.count \in Nat
      BY FedRecord
    <3> QED BY <3>1, <3>2 DEF Effect, EffectType
  <2>6. e2 \in EffectType /\ e2.kind = "setState" /\ e2.area = old.area
    <3>1. "setState" \in Kinds /\ << >> \in Seq(OutputRecord) /\ 0 \in Nat
      BY DEF Kinds
    <3>2. s.red.area \in AreaKey /\ s.red.area = old.area /\ s.red.count \in Nat
      BY FedRecord
    <3> QED BY <3>1, <3>2 DEF Effect, EffectType
  <2>7. MaybeComplete(s) = Emit(z, e2)
    BY <1>3, <2>3 DEF MaybeComplete
  <2> HIDE DEF red, e1, e2
  <2>8. EffectOk(e1, old) /\ Follows(s.red.outputs, e1, red.outputs)
    BY <2>2, <2>4, <2>5 DEF EffectOk, Follows
  <2>9. Fed(z, old)
    BY <2>4, <2>5, <2>8, EmitUpdate
  <2>10. z.red = red
    <3>1. done = [red |-> red, table |-> s.table, effects |-> s.effects]
      BY <1>1, FedSet
    <3> HIDE DEF done
    <3> QED BY <3>1 DEF Emit
  <2> HIDE DEF z
  <2>11. EffectOk(e2, old) /\ Follows(z.red.outputs, e2, z.red.outputs)
    BY <2>2, <2>4, <2>6 DEF EffectOk, Follows
  <2>12. Fed(Emit([z EXCEPT !.red = z.red], e2), old)
    BY <2>4, <2>6, <2>9, <2>10, <2>11, EmitUpdate
  <2>13. [z EXCEPT !.red = z.red] = z
    <3>1. z \in FedType
      BY <2>9 DEF Fed
    <3>2. [z EXCEPT !.red = z.red] = [red |-> z.red, table |-> z.table, effects |-> z.effects]
      BY <3>1, FedSet
    <3> QED BY <3>1, <3>2, FedTyped
  <2> QED BY <2>7, <2>12, <2>13
<1> QED BY <1>2, <1>3

\* handleReply.
LEMMA ReplyFed ==
  ASSUME NEW old, NEW s, Fed(s, old), ~old.completed, NEW msg,
         msg.status \in {"ok", "error", "aborted"}, NEW count \in Nat
  PROVE  Fed(HandleReply(s, msg, count), old)
<1> DEFINE n == IF s.red.count = 0 THEN count ELSE s.red.count
           red == [s.red EXCEPT !.reply = TRUE, !.count = n]
           seen == [s EXCEPT !.red = red]
           red1 == [red EXCEPT !.status = "aborted"]
           st == IF red.status = "running" THEN "ok" ELSE red.status
           red3 == [red EXCEPT !.status = st]
<1>1. s.red \in ReducerType /\ RecordOk(s.red, old) /\ s \in FedType /\ s.red.count \in Nat
  BY FedRecord
<1>2. n \in Nat
  BY <1>1
<1>3. [s EXCEPT !.red.reply = TRUE, !.red.count = IF @ = 0 THEN count ELSE @] = seen
  <2> DEFINE x == s.red
             y == s.table
             w == s.effects
  <2>1. s = [red |-> x, table |-> y, effects |-> w]
    BY <1>1, FedTyped
  <2>2. red = [x EXCEPT !.reply = TRUE, !.count = n] /\ n = IF x.count = 0 THEN count ELSE x.count
    OBVIOUS
  <2>3. [s EXCEPT !.red.reply = TRUE, !.red.count = IF @ = 0 THEN count ELSE @]
          = [s EXCEPT !.red.reply = TRUE, !.red.count = n]
    BY <2>1
  <2> HIDE DEF x, y, w, red, n
  <2> QED BY <2>1, <2>2, <2>3
<1> HIDE DEF n
<1>4. red \in ReducerType /\ red.outputs = s.red.outputs /\ RecordOk(red, old)
  BY <1>1, <1>2 DEF ReducerType, RecordOk
<1>5. st \in {"running", "ok", "error", "aborted"}
  BY <1>4 DEF ReducerType
<1> HIDE DEF red, st
<1>6. red1 \in ReducerType /\ red1.outputs = s.red.outputs /\ RecordOk(red1, old)
  BY <1>4 DEF ReducerType, RecordOk
<1>7. red3 \in ReducerType /\ red3.outputs = s.red.outputs /\ RecordOk(red3, old)
  BY <1>4, <1>5 DEF ReducerType, RecordOk
<1>8. seen = [red |-> red, table |-> s.table, effects |-> s.effects]
  BY <1>1, FedSet
<1>9. Fed(seen, old)
  BY <1>4, QuietUpdate
<1>10. seen.red = red /\ seen.table = s.table /\ seen.effects = s.effects /\ seen \in FedType
  <2> HIDE DEF seen
  <2> QED BY <1>8, <1>9 DEF Fed
<1> HIDE DEF seen
<1>11. [seen EXCEPT !.red.status = "aborted"] = [seen EXCEPT !.red = red1]
  BY <1>10 DEF red1
<1>12. [seen EXCEPT !.red.status = IF @ = "running" THEN "ok" ELSE @] = [seen EXCEPT !.red = red3]
  BY <1>10 DEF red3, st
<1>13. /\ Fed([seen EXCEPT !.red = red1], old) /\ Fed([seen EXCEPT !.red = red3], old)
       /\ Fed(HandleError(seen), old)
  BY <1>4, <1>6, <1>7, <1>9, <1>10, QuietUpdate, ErrorFed
<1>14. HandleReply(s, msg, count) =
         MaybeComplete(CASE msg.status = "aborted" -> [seen EXCEPT !.red = red1]
                         [] msg.status = "error"   -> HandleError(seen)
                         [] msg.status = "ok"      -> [seen EXCEPT !.red = red3])
  BY <1>3, <1>11, <1>12 DEF HandleReply
<1> HIDE DEF red1, red3
<1>15. \/ HandleReply(s, msg, count) = MaybeComplete([seen EXCEPT !.red = red1])
       \/ HandleReply(s, msg, count) = MaybeComplete(HandleError(seen))
       \/ HandleReply(s, msg, count) = MaybeComplete([seen EXCEPT !.red = red3])
  BY <1>14
<1> QED BY <1>13, <1>15, CompleteFed

\* The messages of a kernel, by their type.
LEMMA MessageTypes ==
  ASSUME NEW msg \in Outputs \cup Evidence
  PROVE  /\ msg.type \in {"stream", "error", "clear_output", "display_data", "update_display_data",
                          "execute_input", "idle", "execute_reply"}
         /\ msg.type = "display_data" => msg.id \in DisplayIds /\ msg.size \in Nat
         /\ msg.type = "update_display_data" => msg.size \in Nat
         /\ msg.type = "execute_reply" => msg.status \in {"ok", "error", "aborted"}
         /\ msg \in Outputs => msg.type \notin {"execute_input", "idle", "execute_reply"}
         /\ msg \in Evidence => msg.type \in {"execute_input", "idle", "execute_reply"}
BY ReducerAssumption DEF Outputs, Evidence

\* Every message: the effects, applied in order, make the new outputs from the old.
LEMMA FeedFed ==
  ASSUME NEW red \in ReducerType, NEW t \in TableType, NEW msg \in Outputs \cup Evidence, NEW count \in Nat,
         red.completed => red.reply /\ red.idle,
         msg.type \in {"execute_input", "execute_reply"} => ~red.completed
  PROVE  Fed(FeedReducer(red, t, msg, count), red)
<1> DEFINE s == [red |-> red, table |-> t, effects |-> << >>]
           z == FeedReducer(red, t, msg, count)
<1>1. Fed(s, red)
  BY StartFed
<1>2. s.red = red
  OBVIOUS
<1> HIDE DEF s
<1>3. CASE msg.type = "execute_input"
  <2> DEFINE red1 == [red EXCEPT !.count = count]
  <2>1. red1 \in ReducerType /\ red1.outputs = s.red.outputs /\ RecordOk(red1, red)
    BY <1>2, <1>3 DEF ReducerType, RecordOk
  <2>2. z = [s EXCEPT !.red = red1]
    BY <1>2, <1>3 DEF FeedReducer, s
  <2> HIDE DEF red1, z
  <2>3. Fed(z, red)
    BY <1>1, <2>1, <2>2, QuietUpdate
  <2> QED BY <2>3 DEF z
<1>4. CASE msg.type = "idle"
  <2> DEFINE red1 == [red EXCEPT !.idle = TRUE]
  <2>1. red1 \in ReducerType /\ red1.outputs = s.red.outputs /\ RecordOk(red1, red)
    BY <1>2 DEF ReducerType, RecordOk
  <2>2. z = MaybeComplete([s EXCEPT !.red = red1])
    BY <1>2, <1>4 DEF FeedReducer, s
  <2> HIDE DEF red1, z
  <2>3. Fed(z, red)
    BY <1>1, <2>1, <2>2, QuietUpdate, CompleteFed
  <2> QED BY <2>3 DEF z
<1>5. CASE msg.type = "stream"
  <2>1. z = HandleStream(s)
    BY <1>5 DEF FeedReducer, s
  <2> QED BY <1>1, <2>1, StreamFed
<1>6. CASE msg.type = "display_data"
  <2>1. z = AddOutput(s, Output("display", msg.size), msg.id)
    BY <1>6 DEF FeedReducer, s
  <2>2. Output("display", msg.size) \in OutputRecord /\ msg.id \in DisplayIds \cup {NoId}
    BY <1>6, MessageTypes DEF Output, OutputRecord
  <2> QED BY <1>1, <2>1, <2>2, AddOutputFed
<1>7. CASE msg.type = "update_display_data"
  <2>1. z = HandleUpdateDisplay(s, msg)
    BY <1>7 DEF FeedReducer, s
  <2>2. msg.size \in Nat
    BY <1>7, MessageTypes
  <2> QED BY <1>1, <2>1, <2>2, HandleUpdateFed
<1>8. CASE msg.type = "error"
  <2>1. z = HandleError(s)
    BY <1>8 DEF FeedReducer, s
  <2> QED BY <1>1, <2>1, ErrorFed
<1>9. CASE msg.type = "clear_output"
  <2>1. z = HandleClear(s, msg)
    BY <1>9 DEF FeedReducer, s
  <2> QED BY <1>1, <2>1, ClearFed
<1>10. CASE msg.type = "execute_reply"
  <2>1. z = HandleReply(s, msg, count)
    BY <1>10 DEF FeedReducer, s
  <2>2. msg.status \in {"ok", "error", "aborted"} /\ ~red.completed
    BY <1>10, MessageTypes
  <2> QED BY <1>1, <2>1, <2>2, ReplyFed
<1> QED BY <1>3, <1>4, <1>5, <1>6, <1>7, <1>8, <1>9, <1>10, MessageTypes

-------------------------------------------------------------------------------
(* The areas: types, and the inductive invariant.                           *)

CellType == [token : Nat, outputs : Seq(OutputRecord), count : Nat, state : {"idle", "running"},
             dup : BOOLEAN]

\* The states of a run that has its evidence.
CompletedStates == {"succeeded", "failed", "aborted"}

RunType ==
  [cell : Cells, token : Nat \ {0}, generation : Nat,
   state : CompletedStates \cup {"sent", "not_sent", "unknown"}, red : ReducerType,
   expected : Seq(OutputRecord), memory : Nat \X {"idle", "running"}, lost : BOOLEAN]

WorldType == [doc : [Cells -> CellType], active : [Cells -> Nat], runs : Seq(RunType),
              areas : Seq(Nat), table : TableType]

\* The sink that is current for an id is one of that id, and an id that is not in the
\* document has none.
SinksSound(W) ==
  \A c \in Cells :
    /\ W.active[c] # 0 => W.active[c] \in DOMAIN W.runs /\ W.runs[W.active[c]].cell = c
    /\ W.doc[c] = Absent => W.active[c] = 0
    /\ W.doc[c] # Absent => W.doc[c].token # 0

\* Every run has an area key of its own, and only runs have reachable areas.
KeysSound(W) ==
  /\ \A r \in DOMAIN W.runs : W.runs[r].red.area = AreaOf(W, r)
  /\ \A r, s \in DOMAIN W.runs : AreaOf(W, r) = AreaOf(W, s) => r = s
  /\ ToSet(W.areas) \subseteq DOMAIN W.runs /\ Len(W.areas) <= AreaLimit

\* The document shows what the run that owns an area remembers of it.
Remembered(W) ==
  \A r \in DOMAIN W.runs : CellFor(W, r) =>
    /\ W.doc[W.runs[r].cell].outputs = W.runs[r].expected
    /\ W.runs[r].memory = <<W.doc[W.runs[r].cell].count, W.doc[W.runs[r].cell].state>>

\* Between any two writes.
Base(W) == W \in WorldType /\ SinksSound(W) /\ KeysSound(W) /\ Remembered(W)

\* A run has seen the loss of its area, or its reducer holds what the area was given.
RunRecorded(W, r) == W.runs[r].lost \/ W.runs[r].red.outputs = W.runs[r].expected

Recorded(W) == \A r \in DOMAIN W.runs : RunRecorded(W, r)

\* A settled run has seen its reply and its idle status.
Settled(W) ==
  \A r \in DOMAIN W.runs :
    /\ W.runs[r].state \in CompletedStates => W.runs[r].red.completed
    /\ W.runs[r].red.completed => W.runs[r].red.reply /\ W.runs[r].red.idle

\* PromptEnds, of a world in which the run i is in flight.
Prompts(W, i) ==
  \A r \in DOMAIN W.runs : CellFor(W, r) =>
    /\ W.doc[W.runs[r].cell].state = "running" => i = r \/ W.runs[r].state = "not_sent"
    /\ W.runs[r].state \in CompletedStates =>
         /\ W.doc[W.runs[r].cell].state = "idle"
         /\ W.doc[W.runs[r].cell].count = W.runs[r].red.count

\* Tokens and generation numbers that are given out next are new.
NumbersSound ==
  /\ \A c \in Cells : doc[c].token <= tokens
  /\ \A r \in RunIds :
       /\ runs[r].token <= tokens
       /\ runs[r].token = doc[runs[r].cell].token => runs[r].generation <= counter[runs[r].cell]

\* Routed are the run in flight and those whose late output is awaited.
RoutesSound ==
  /\ routes = ToSet(late) \cup ({inflight} \ {0})
  /\ ToSet(late) \subseteq RunIds /\ Len(late) <= LateRouteLimit
  /\ inflight \notin ToSet(late)
  /\ inflight # 0 => /\ inflight = Len(runs) /\ inflight \in RunIds
                     /\ active[runs[inflight].cell] \in {0, inflight}

\* A run owns the area of c.
Owned(W, c) == W.active[c] # 0 /\ CellFor(W, W.active[c])

\* Nobody owns the area of a cell that a peer touched.
TouchedSound == \A c \in touched : ~Owned(World, c)

\* The types of the state.
AreasTypeOK ==
  /\ World \in WorldType
  /\ counter \in [Cells -> Nat] /\ tokens \in Nat \ {0}
  /\ routes \subseteq Nat /\ late \in Seq(Nat) /\ inflight \in Nat
  /\ touched \subseteq Cells

\* The inductive invariant of the areas.
AInv ==
  /\ AreasTypeOK
  /\ Base(World) /\ Recorded(World) /\ Settled(World) /\ Prompts(World, inflight)
  /\ NumbersSound /\ RoutesSound /\ TouchedSound

-------------------------------------------------------------------------------
(* What an effect on behalf of a run leaves alone.                          *)

\* What no effect changes of any run.
SameRun(a, b) ==
  /\ b.cell = a.cell /\ b.token = a.token /\ b.generation = a.generation /\ b.state = a.state
  /\ b.red.area = a.red.area /\ b.red.count = a.red.count /\ b.red.completed = a.red.completed
  /\ b.red.reply = a.red.reply /\ b.red.idle = a.red.idle

\* From V to W: the cells stay who they are, an area only goes lost, and only the cell
\* of the run that acts has its prompt changed, if its record was not completed.
CellKept(V, W, r, done, c) ==
  /\ W.active[c] \in {V.active[c], 0}
  /\ W.doc[c].token = V.doc[c].token /\ W.doc[c].dup = V.doc[c].dup
  /\ W.doc[c] = Absent <=> V.doc[c] = Absent
  /\ ~Owned(V, c) => W.doc[c] = V.doc[c]
  /\ W.doc[c].state \in {V.doc[c].state, "idle"}
  /\ V.active[c] # r \/ done => W.doc[c].count = V.doc[c].count /\ W.doc[c].state = V.doc[c].state

\* All cells, all runs, and the reachable areas.
Kept(V, W, r, done) ==
  /\ DOMAIN W.runs = DOMAIN V.runs
  /\ \A s \in DOMAIN V.runs : SameRun(V.runs[s], W.runs[s])
  /\ ToSet(W.areas) \subseteq ToSet(V.areas) /\ Len(W.areas) <= Len(V.areas)
  /\ \A c \in Cells : CellKept(V, W, r, done, c)

\* And what it does to the records: that of the run that acts follows the effect.
Writes(V, W, r, e) ==
  /\ W.runs[r].red = V.runs[r].red
  /\ V.runs[r].lost => W.runs[r].lost
  /\ \A s \in DOMAIN V.runs : s # r /\ RunRecorded(V, s) => RunRecorded(W, s)
  /\ \/ W.runs[r].lost
     \/ IF e.area = AreaOf(V, r) THEN Follows(V.runs[r].expected, e, W.runs[r].expected)
        ELSE W.runs[r].expected = V.runs[r].expected

\* What is in a world.
LEMMA WorldTyped ==
  ASSUME NEW W \in WorldType
  PROVE  /\ W.doc \in [Cells -> CellType] /\ W.active \in [Cells -> Nat] /\ W.runs \in Seq(RunType)
         /\ W.areas \in Seq(Nat) /\ W.table \in TableType
         /\ W = [doc |-> W.doc, active |-> W.active, runs |-> W.runs, areas |-> W.areas,
                 table |-> W.table]
         /\ DOMAIN W.runs = 1..Len(W.runs) /\ Len(W.runs) \in Nat
         /\ \A r \in DOMAIN W.runs : W.runs[r] \in RunType /\ W.runs[r].cell \in Cells
         /\ \A c \in Cells : W.doc[c] \in CellType /\ W.active[c] \in Nat
<1>1. /\ W.doc \in [Cells -> CellType] /\ W.active \in [Cells -> Nat] /\ W.runs \in Seq(RunType)
      /\ W.areas \in Seq(Nat) /\ W.table \in TableType
      /\ W = [doc |-> W.doc, active |-> W.active, runs |-> W.runs, areas |-> W.areas,
              table |-> W.table]
  BY DEF WorldType
<1>2. \A r \in DOMAIN W.runs : W.runs[r] \in RunType
  BY <1>1
<1>3. \A r \in DOMAIN W.runs : W.runs[r].cell \in Cells
  BY <1>2 DEF RunType
<1> QED BY <1>1, <1>2, <1>3

LEMMA WorldMade ==
  ASSUME NEW d, NEW a, NEW rs, NEW b, NEW t,
         NEW V, V = [doc |-> d, active |-> a, runs |-> rs, areas |-> b, table |-> t],
         d \in [Cells -> CellType], a \in [Cells -> Nat], rs \in Seq(RunType),
         b \in Seq(Nat), t \in TableType
  PROVE  V \in WorldType
BY DEF WorldType

\* A run with another record of what it wrote.
LEMMA RunUpdated ==
  ASSUME NEW W \in WorldType, NEW s \in DOMAIN W.runs, NEW R \in RunType
  PROVE  LET rs == [W.runs EXCEPT ![s] = R]
         IN  /\ rs \in Seq(RunType) /\ DOMAIN rs = DOMAIN W.runs /\ Len(rs) = Len(W.runs)
             /\ rs[s] = R /\ \A x \in DOMAIN W.runs : x # s => rs[x] = W.runs[x]
<1>1. W.runs \in Seq(RunType)
  BY WorldTyped
<1> QED BY <1>1

LEMMA AbsentToken == Absent.token = 0 /\ Absent.outputs = << >> /\ Absent.dup = FALSE
BY DEF Absent, FreshCell

\* One run, one cell, and the areas.
Changed(W, s, R, cell, A, B, V) ==
  V = [doc |-> [W.doc EXCEPT ![W.runs[s].cell] = cell], active |-> A,
       runs |-> [W.runs EXCEPT ![s] = R], areas |-> B, table |-> W.table]

\* Everything but one run and its cell is as before.
Elsewhere(W, s, R, cell, V) ==
  /\ DOMAIN V.runs = DOMAIN W.runs /\ V.runs[s] = R
  /\ \A x \in DOMAIN W.runs : x # s => V.runs[x] = W.runs[x]
  /\ \A x \in DOMAIN W.runs : SameRun(W.runs[x], V.runs[x])
  /\ ToSet(V.areas) \subseteq ToSet(W.areas) /\ Len(V.areas) <= Len(W.areas)
  /\ \A c \in Cells : /\ V.active[c] \in {W.active[c], 0}
                      /\ V.doc[c] = IF c = W.runs[s].cell THEN cell ELSE W.doc[c]
                      /\ V.doc[c] = Absent <=> W.doc[c] = Absent

\* Such a change of a sound world leaves a sound one.
LEMMA OneChange ==
  ASSUME NEW W, Base(W), NEW s \in DOMAIN W.runs, NEW R, NEW cell, NEW A, NEW B, NEW V,
         Changed(W, s, R, cell, A, B, V),
         R \in RunType, SameRun(W.runs[s], R), cell \in CellType,
         cell.token = W.doc[W.runs[s].cell].token, cell.dup = W.doc[W.runs[s].cell].dup,
         cell = W.doc[W.runs[s].cell] \/ CellFor(W, s),
         A = W.active \/ A = [W.active EXCEPT ![W.runs[s].cell] = 0],
         B \in Seq(Nat), ToSet(B) \subseteq ToSet(W.areas), Len(B) <= Len(W.areas),
         CellFor(W, s) => /\ cell.outputs = R.expected
                          /\ R.memory = <<cell.count, cell.state>>
  PROVE  Base(V) /\ Elsewhere(W, s, R, cell, V)
<1> DEFINE c0 == W.runs[s].cell
<1>1. W \in WorldType /\ SinksSound(W) /\ KeysSound(W) /\ Remembered(W)
  BY DEF Base
<1>2. c0 \in Cells /\ W.runs[s] \in RunType
  BY <1>1, WorldTyped
<1>3. /\ W.doc \in [Cells -> CellType] /\ W.active \in [Cells -> Nat] /\ W.runs \in Seq(RunType)
      /\ W.table \in TableType /\ DOMAIN W.runs = 1..Len(W.runs) /\ Len(W.runs) \in Nat
  BY <1>1, WorldTyped
<1> HIDE DEF c0
<1>4. V = [doc |-> [W.doc EXCEPT ![c0] = cell], active |-> A,
           runs |-> [W.runs EXCEPT ![s] = R], areas |-> B, table |-> W.table]
  BY DEF c0, Changed
<1>5. A \in [Cells -> Nat] /\ \A c \in Cells : A[c] = W.active[c] \/ (c = c0 /\ A[c] = 0)
  BY <1>2, <1>3, SMTT(30) DEF c0
<1>6. [W.doc EXCEPT ![c0] = cell] \in [Cells -> CellType]
  BY <1>2, <1>3
<1>7. [W.runs EXCEPT ![s] = R] \in Seq(RunType)
  BY <1>1, RunUpdated
<1>8. V \in WorldType
  <2> DEFINE d == [W.doc EXCEPT ![c0] = cell]
             rs == [W.runs EXCEPT ![s] = R]
  <2>1. d \in [Cells -> CellType] /\ rs \in Seq(RunType)
    BY <1>6, <1>7
  <2>2. V = [doc |-> d, active |-> A, runs |-> rs, areas |-> B, table |-> W.table]
    BY <1>4
  <2> HIDE DEF d, rs
  <2>3. W.table \in TableType /\ A \in [Cells -> Nat] /\ B \in Seq(Nat)
    BY <1>3, <1>5
  <2> QED BY ONLY <2>1, <2>2, <2>3, WorldMade
<1>9. /\ V.doc = [W.doc EXCEPT ![c0] = cell] /\ V.active = A /\ V.runs = [W.runs EXCEPT ![s] = R]
      /\ V.areas = B
  BY <1>4
<1>10. /\ DOMAIN V.runs = DOMAIN W.runs /\ V.runs[s] = R
       /\ \A x \in DOMAIN W.runs : x # s => V.runs[x] = W.runs[x]
  BY <1>1, <1>9, RunUpdated
<1>11. \A x \in DOMAIN W.runs : SameRun(W.runs[x], V.runs[x])
  BY <1>10 DEF SameRun
<1>12. \A c \in Cells : V.doc[c] = IF c = c0 THEN cell ELSE W.doc[c]
  BY <1>2, <1>3, <1>9
<1>13. \A c \in Cells : V.active[c] \in {W.active[c], 0}
  BY <1>5, <1>9
<1>14. \A x \in DOMAIN W.runs : AreaOf(V, x) = AreaOf(W, x) /\ V.runs[x].cell = W.runs[x].cell
         /\ V.runs[x].token = W.runs[x].token
  BY <1>11 DEF AreaOf, SameRun
<1>15. \A x \in DOMAIN W.runs : W.runs[x].token # 0
  <2>1. \A x \in DOMAIN W.runs : W.runs[x] \in RunType
    BY <1>1, WorldTyped
  <2> QED BY <2>1 DEF RunType
<1>16. \A c \in Cells : V.doc[c] = Absent <=> W.doc[c] = Absent
  <2>1. CASE cell = W.doc[c0]
    BY <2>1, <1>12
  <2>2. CASE CellFor(W, s)
    <3>1. cell.token # 0 /\ W.doc[c0] # Absent
      BY <2>2, <1>15 DEF CellFor, c0
    <3>2. cell # Absent
      BY <3>1, AbsentToken
    <3> QED BY <3>1, <3>2, <1>12
  <2> QED BY <2>1, <2>2 DEF c0
<1>17. \A x \in DOMAIN W.runs : CellFor(V, x) => CellFor(W, x)
  <2> SUFFICES ASSUME NEW x \in DOMAIN W.runs, CellFor(V, x) PROVE CellFor(W, x)
    OBVIOUS
  <2>1. V.runs[x].cell = W.runs[x].cell /\ V.runs[x].token = W.runs[x].token /\ W.runs[x].cell \in Cells
    BY <1>1, <1>14, WorldTyped
  <2> DEFINE c == W.runs[x].cell
  <2>2. V.active[c] = x /\ V.doc[c] # Absent /\ ~V.doc[c].dup /\ V.doc[c].token = W.runs[x].token
    BY <2>1 DEF CellFor
  <2>3. x # 0
    BY <1>3
  <2>4. W.active[c] = x
    BY <2>1, <2>2, <2>3, <1>13
  <2>5. W.doc[c] # Absent
    BY <2>1, <2>2, <1>16
  <2>6. W.doc[c].dup = V.doc[c].dup /\ W.doc[c].token = V.doc[c].token
    BY <2>1, <1>12 DEF c0
  <2> QED BY <2>2, <2>4, <2>5, <2>6 DEF CellFor
<1>18. SinksSound(V)
  <2> SUFFICES ASSUME NEW c \in Cells
               PROVE  /\ V.active[c] # 0 => V.active[c] \in DOMAIN V.runs /\ V.runs[V.active[c]].cell = c
                      /\ V.doc[c] = Absent => V.active[c] = 0
                      /\ V.doc[c] # Absent => V.doc[c].token # 0
    BY DEF SinksSound
  <2>1. /\ W.active[c] # 0 => W.active[c] \in DOMAIN W.runs /\ W.runs[W.active[c]].cell = c
        /\ W.doc[c] = Absent => W.active[c] = 0
        /\ W.doc[c] # Absent => W.doc[c].token # 0
    BY <1>1 DEF SinksSound
  <2>2. V.doc[c].token = W.doc[c].token
    BY <1>12 DEF c0
  <2> QED BY <2>1, <2>2, <1>10, <1>13, <1>14, <1>16
<1>19. KeysSound(V)
  <2>1. \A x \in DOMAIN W.runs : V.runs[x].red.area = AreaOf(V, x)
    <3>1. \A x \in DOMAIN W.runs : W.runs[x].red.area = AreaOf(W, x)
      BY <1>1 DEF KeysSound
    <3> QED BY <3>1, <1>11, <1>14 DEF SameRun
  <2>2. \A x, y \in DOMAIN W.runs : AreaOf(V, x) = AreaOf(V, y) => x = y
    BY <1>1, <1>14 DEF KeysSound
  <2>3. ToSet(V.areas) \subseteq DOMAIN W.runs /\ Len(V.areas) <= AreaLimit
    <3>1. Len(B) \in Nat /\ Len(W.areas) \in Nat /\ Len(W.areas) <= AreaLimit
      BY <1>1, WorldTyped DEF KeysSound
    <3>2. AreaLimit \in Nat
      BY AreasAssumption
    <3> QED BY <3>1, <3>2, <1>1, <1>9 DEF KeysSound
  <2> QED BY <2>1, <2>2, <2>3, <1>10 DEF KeysSound
<1>20. Remembered(V)
  <2> SUFFICES ASSUME NEW x \in DOMAIN W.runs, CellFor(V, x)
               PROVE  /\ V.doc[V.runs[x].cell].outputs = V.runs[x].expected
                      /\ V.runs[x].memory = <<V.doc[V.runs[x].cell].count, V.doc[V.runs[x].cell].state>>
    BY <1>10 DEF Remembered
  <2>1. CellFor(W, x)
    BY <1>17
  <2>2. V.runs[x].cell = W.runs[x].cell /\ W.runs[x].cell \in Cells
    BY <1>1, <1>14, WorldTyped
  <2>3. CASE x = s
    <3>1. V.runs[x] = R /\ V.doc[V.runs[x].cell] = cell
      BY <2>2, <2>3, <1>10, <1>12 DEF c0
    <3> QED BY <3>1, <2>1, <2>3
  <2>4. CASE x # s
    <3>1. V.runs[x] = W.runs[x]
      BY <2>4, <1>10
    <3>2. CASE W.runs[x].cell = c0
      <4>1. W.active[c0] = x
        BY <2>1, <3>2 DEF CellFor
      <4>2. ~CellFor(W, s)
        BY <4>1, <2>4 DEF CellFor, c0
      <4>3. cell = W.doc[c0]
        BY <4>2 DEF c0
      <4>4. V.doc[W.runs[x].cell] = W.doc[W.runs[x].cell]
        BY <4>3, <2>2, <1>12
      <4> QED BY <3>1, <4>4, <2>1, <2>2, <1>1 DEF Remembered
    <3>3. CASE W.runs[x].cell # c0
      <4>1. V.doc[W.runs[x].cell] = W.doc[W.runs[x].cell]
        BY <3>3, <2>2, <1>12
      <4> QED BY <3>1, <4>1, <2>1, <2>2, <1>1 DEF Remembered
    <3> QED BY <3>2, <3>3
  <2> QED BY <2>3, <2>4
<1> QED BY <1>8, <1>9, <1>10, <1>11, <1>12, <1>13, <1>16, <1>18, <1>19, <1>20 DEF Base, c0, Elsewhere

\* What the sink of s writes for an effect: a new cell, which it remembers.
Written(W, s, cell, exp, A, V) ==
  V = [doc |-> [W.doc EXCEPT ![W.runs[s].cell] = cell], active |-> A,
       runs |-> [W.runs EXCEPT ![s] = [@ EXCEPT !.expected = exp,
                                                !.memory = <<cell.count, cell.state>>]],
       areas |-> W.areas, table |-> W.table]

\* One transaction of the sink of a run.
LEMMA OwnWriteIs ==
  ASSUME NEW W \in WorldType, NEW s \in DOMAIN W.runs, NEW cell \in CellType,
         NEW exp \in Seq(OutputRecord)
  PROVE  \E A \in {W.active, [W.active EXCEPT ![W.runs[s].cell] = 0]} :
           Written(W, s, cell, exp, A, OwnWrite(W, s, cell, exp))
<1> DEFINE c == W.runs[s].cell
           d == [W.doc EXCEPT ![c] = cell]
           m == <<cell.count, cell.state>>
           R1 == [W.runs[s] EXCEPT !.expected = exp]
           R2 == [W.runs[s] EXCEPT !.expected = exp, !.memory = m]
           rs1 == [W.runs EXCEPT ![s] = R1]
           rs2 == [W.runs EXCEPT ![s] = R2]
           a0 == [W.active EXCEPT ![c] = 0]
           Z == [W EXCEPT !.doc[c] = cell, !.runs[s].expected = exp]
           Y == Remember(Z, s)
<1>1. /\ W = [doc |-> W.doc, active |-> W.active, runs |-> W.runs, areas |-> W.areas,
              table |-> W.table]
      /\ c \in Cells /\ DOMAIN W.runs = 1..Len(W.runs) /\ W.doc \in [Cells -> CellType]
      /\ W.runs[s] \in RunType /\ W.runs \in Seq(RunType)
  BY WorldTyped
<1>2. d[c] = cell
  BY <1>1
<1>3. rs1[s] = R1 /\ R1.cell = c /\ rs2 = [rs1 EXCEPT ![s].memory = m]
  <2>1. R1.cell = c /\ R2 = [R1 EXCEPT !.memory = m]
    BY <1>1 DEF RunType
  <2>2. rs1[s] = R1
    BY <1>1
  <2>3. rs2 = [rs1 EXCEPT ![s] = R2]
    BY <1>1
  <2> HIDE DEF R1, R2, rs1, rs2, m
  <2>4. [rs1 EXCEPT ![s].memory = m] = [rs1 EXCEPT ![s] = [rs1[s] EXCEPT !.memory = m]]
    OBVIOUS
  <2> QED BY <2>1, <2>2, <2>3, <2>4
<1>4. Z = [doc |-> d, active |-> W.active, runs |-> rs1, areas |-> W.areas, table |-> W.table]
  <2> DEFINE z1 == [W EXCEPT !.doc[c] = cell]
  <2>1. z1 = [doc |-> d, active |-> W.active, runs |-> W.runs, areas |-> W.areas,
              table |-> W.table]
    BY <1>1
  <2>2. Z = [z1 EXCEPT !.runs[s].expected = exp]
    OBVIOUS
  <2> HIDE DEF z1, Z, d
  <2> QED BY <2>1, <2>2
<1>5. OwnWrite(W, s, cell, exp) = ObserveOutputs(Y, c)
  BY DEF OwnWrite
<1>6. OwnWrite(W, s, cell, exp) \in {Y, Invalidate(Y, c)}
  BY <1>5 DEF ObserveOutputs
<1> HIDE DEF Z, d, rs1, rs2, a0, m
<1>7. Z.runs[s].cell = c /\ Z.doc[c] = cell
  BY <1>2, <1>3, <1>4
<1>8. Y = [doc |-> d, active |-> W.active, runs |-> rs2, areas |-> W.areas, table |-> W.table]
  <2>1. Y = [Z EXCEPT !.runs[s].memory = m]
    BY <1>7 DEF Remember, m
  <2>2. Y = [doc |-> d, active |-> W.active, runs |-> [rs1 EXCEPT ![s].memory = m],
             areas |-> W.areas, table |-> W.table]
    BY <2>1, <1>4
  <2> QED BY <2>2, <1>3
<1> HIDE DEF Y
<1>9. Invalidate(Y, c)
        = [doc |-> d, active |-> a0, runs |-> rs2, areas |-> W.areas, table |-> W.table]
  BY <1>8 DEF Invalidate, a0
<1>10. \E A \in {W.active, a0} :
         OwnWrite(W, s, cell, exp)
           = [doc |-> d, active |-> A, runs |-> rs2, areas |-> W.areas, table |-> W.table]
  BY <1>6, <1>8, <1>9
<1>11. rs2 = [W.runs EXCEPT ![s] = [@ EXCEPT !.expected = exp,
                                            !.memory = <<cell.count, cell.state>>]]
  BY DEF rs2, m
<1> QED BY <1>10, <1>11 DEF d, a0, Written

\* A cell with other outputs, another count, or an ended prompt.
LEMMA CellChanged ==
  ASSUME NEW cell \in CellType, NEW o \in Seq(OutputRecord), NEW n \in Nat
  PROVE  /\ LET z == [cell EXCEPT !.outputs = o]
            IN  z \in CellType /\ z.outputs = o /\ z.token = cell.token /\ z.dup = cell.dup
                /\ z.count = cell.count /\ z.state = cell.state
         /\ LET z == [cell EXCEPT !.count = n]
            IN  z \in CellType /\ z.outputs = cell.outputs /\ z.token = cell.token
                /\ z.dup = cell.dup /\ z.state = cell.state
         /\ LET z == [cell EXCEPT !.state = "idle"]
            IN  z \in CellType /\ z.outputs = cell.outputs /\ z.token = cell.token
                /\ z.dup = cell.dup /\ z.count = cell.count /\ z.state = "idle"
         /\ LET z == [cell EXCEPT !.count = n, !.state = "idle"]
            IN  z \in CellType /\ z.outputs = cell.outputs /\ z.token = cell.token
                /\ z.dup = cell.dup /\ z.count = n /\ z.state = "idle"
BY DEF CellType

\* The cell after an effect, and what its run expects there.
AsEffect(old, O, e, cell, exp) ==
  /\ cell.outputs = exp /\ Follows(O, e, exp)
  /\ cell.token = old.token /\ cell.dup = old.dup /\ cell.state \in {old.state, "idle"}
  /\ e.kind \notin {"setCount", "setState"} => cell.count = old.count /\ cell.state = old.state

\* Write: whatever the effect, the cell and the memory of its run change together.
LEMMA WriteFacts ==
  ASSUME NEW W, Base(W), NEW s \in DOMAIN W.runs, CellFor(W, s), NEW e \in EffectType,
         e.kind = "update" => Len(e.outputs) = 1, ~Refused(W, s, e)
  PROVE  /\ W.doc[W.runs[s].cell].outputs = W.runs[s].expected
         /\ e.kind = "update" => e.index \in DOMAIN W.runs[s].expected
         /\ \E cell \in CellType, exp \in Seq(OutputRecord),
               A \in {W.active, [W.active EXCEPT ![W.runs[s].cell] = 0]} :
              /\ Written(W, s, cell, exp, A, Write(W, s, e))
              /\ AsEffect(W.doc[W.runs[s].cell], W.runs[s].expected, e, cell, exp)
<1> DEFINE c == W.runs[s].cell
           old == W.doc[c]
           O == W.runs[s].expected
           V == Write(W, s, e)
           Goal == \E cell \in CellType, exp \in Seq(OutputRecord),
                      A \in {W.active, [W.active EXCEPT ![c] = 0]} :
                     Written(W, s, cell, exp, A, V) /\ AsEffect(old, O, e, cell, exp)
<1>1. W \in WorldType /\ Remembered(W)
  BY DEF Base
<1>2. c \in Cells /\ old \in CellType /\ O \in Seq(OutputRecord) /\ old.outputs = O
  <2>1. W.runs[s] \in RunType /\ c \in Cells /\ old \in CellType
    BY <1>1, WorldTyped
  <2>2. O \in Seq(OutputRecord)
    BY <2>1 DEF RunType
  <2> QED BY <2>1, <2>2, <1>1 DEF Remembered
<1>3. e.outputs \in Seq(OutputRecord) /\ e.index \in Nat /\ e.kind \in Kinds
  BY DEF EffectType
<1>4. ASSUME NEW cell \in CellType, NEW exp \in Seq(OutputRecord), V = OwnWrite(W, s, cell, exp),
             AsEffect(old, O, e, cell, exp)
      PROVE  Goal
  <2>1. \E A \in {W.active, [W.active EXCEPT ![c] = 0]} :
          Written(W, s, cell, exp, A, OwnWrite(W, s, cell, exp))
    BY <1>1, OwnWriteIs
  <2> HIDE DEF V
  <2>2. PICK A \in {W.active, [W.active EXCEPT ![c] = 0]} : Written(W, s, cell, exp, A, V)
    BY <2>1, <1>4
  <2> QED BY <2>2, <1>4, Zenon
<1> HIDE DEF Goal
<1>5. ASSUME e.kind = "append" PROVE Goal
  <2> DEFINE o == O \o e.outputs
             z == [old EXCEPT !.outputs = o]
  <2>1. V = OwnWrite(W, s, z, o)
    BY <1>5, <1>2 DEF Write
  <2>2. o \in Seq(OutputRecord)
    BY <1>2, <1>3
  <2>3. z \in CellType /\ AsEffect(old, O, e, z, o)
    <3>1. z \in CellType /\ z.token = old.token /\ z.dup = old.dup
          /\ z.outputs = o /\ z.count = old.count /\ z.state = old.state
      BY <1>2, <2>2, CellChanged, ZenonT(40)
    <3>2. Follows(O, e, o)
      BY <1>5 DEF Follows
    <3> HIDE DEF z, o
    <3> QED BY <3>1, <3>2, <1>5 DEF AsEffect
  <2> HIDE DEF z, o, V, c, O, old
  <2> QED BY <2>1, <2>2, <2>3, <1>4, Zenon
<1>6. e.kind = "update" => e.index \in DOMAIN O
  BY <1>2 DEF Refused
<1>7. ASSUME e.kind = "update" PROVE Goal
  <2> DEFINE o == [O EXCEPT ![e.index] = e.outputs[1]]
             z == [old EXCEPT !.outputs = o]
  <2>1. V = OwnWrite(W, s, z, o)
    <3>1. [old EXCEPT !.outputs[e.index] = e.outputs[1]] = z
      BY <1>2
    <3>2. V = OwnWrite(W, s, [old EXCEPT !.outputs[e.index] = e.outputs[1]], o)
      BY <1>7 DEF Write
    <3> QED BY <3>1, <3>2
  <2>2. o \in Seq(OutputRecord)
    <3>1. e.outputs[1] \in OutputRecord
      BY <1>3, <1>7
    <3> QED BY <3>1, <1>2, <1>6, <1>7
  <2>3. z \in CellType /\ AsEffect(old, O, e, z, o)
    <3>1. z \in CellType /\ z.token = old.token /\ z.dup = old.dup
          /\ z.outputs = o /\ z.count = old.count /\ z.state = old.state
      BY <1>2, <2>2, CellChanged, ZenonT(40)
    <3>2. Follows(O, e, o)
      BY <1>7 DEF Follows
    <3> HIDE DEF z, o
    <3> QED BY <3>1, <3>2, <1>7 DEF AsEffect
  <2> HIDE DEF z, o, V, c, O, old
  <2> QED BY <2>1, <2>2, <2>3, <1>4, Zenon
<1>8. ASSUME e.kind \in {"replace", "clear"} PROVE Goal
  <2> DEFINE z == [old EXCEPT !.outputs = e.outputs]
  <2>1. V = OwnWrite(W, s, z, e.outputs)
    BY <1>8 DEF Write
  <2>3. z \in CellType /\ AsEffect(old, O, e, z, e.outputs)
    <3>1. z \in CellType /\ z.token = old.token /\ z.dup = old.dup
          /\ z.outputs = e.outputs /\ z.count = old.count /\ z.state = old.state
      BY <1>2, <1>3, CellChanged, ZenonT(40)
    <3>2. Follows(O, e, e.outputs)
      BY <1>8 DEF Follows
    <3> HIDE DEF z
    <3> QED BY <3>1, <3>2, <1>8 DEF AsEffect
  <2> HIDE DEF z, V, c, O, old
  <2> QED BY <2>1, <2>3, <1>3, <1>4, Zenon
<1>9. ASSUME e.kind = "setCount" PROVE Goal
  <2> DEFINE z == [old EXCEPT !.count = e.index]
  <2>1. V = OwnWrite(W, s, z, O)
    BY <1>9 DEF Write
  <2>3. z \in CellType /\ AsEffect(old, O, e, z, O)
    <3>1. z \in CellType /\ z.token = old.token /\ z.dup = old.dup
          /\ z.outputs = O /\ z.state = old.state
      BY <1>2, <1>3 DEF CellType
    <3>2. Follows(O, e, O)
      BY <1>9 DEF Follows
    <3> HIDE DEF z
    <3> QED BY <3>1, <3>2, <1>9 DEF AsEffect
  <2> HIDE DEF z, V, c, O, old
  <2>4. O \in Seq(OutputRecord)
    BY <1>2
  <2> QED BY <2>1, <2>3, <2>4, <1>4, Zenon
<1>10. ASSUME e.kind = "setState" PROVE Goal
  <2> DEFINE z == [old EXCEPT !.state = "idle"]
  <2>1. V = OwnWrite(W, s, z, O)
    BY <1>10 DEF Write
  <2>3. z \in CellType /\ AsEffect(old, O, e, z, O)
    <3>1. z \in CellType /\ z.token = old.token /\ z.dup = old.dup
          /\ z.outputs = O /\ z.state = "idle" /\ z.count = old.count
      BY <1>2, <1>3, CellChanged
    <3>2. Follows(O, e, O)
      BY <1>10 DEF Follows
    <3> HIDE DEF z
    <3> QED BY <3>1, <3>2, <1>10 DEF AsEffect
  <2> HIDE DEF z, V, c, O, old
  <2>4. O \in Seq(OutputRecord)
    BY <1>2
  <2> QED BY <2>1, <2>3, <2>4, <1>4, Zenon
<1>11. ASSUME e.kind = "appendStream" PROVE Goal
  <2> DEFINE i == e.index
             o == [O EXCEPT ![i].size = @ + 1]
             z == [old EXCEPT !.outputs = o]
             d == [W.doc EXCEPT ![c] = z]
             R1 == [W.runs[s] EXCEPT !.expected = o]
             m == <<z.count, z.state>>
             rs1 == [W.runs EXCEPT ![s] = R1]
             Z == [W EXCEPT !.doc[c].outputs[i].size = @ + 1,
                            !.runs[s].expected[i].size = @ + 1]
  <2>1. V = Remember(Z, s)
    BY <1>11 DEF Write, OwnStream
  <2>2. i \in DOMAIN O
    BY <1>2, <1>11 DEF Refused
  <2>3. o \in Seq(OutputRecord)
    <3>1. O[i] \in OutputRecord
      BY <1>2, <2>2
    <3>2. [O[i] EXCEPT !.size = @ + 1] \in OutputRecord
      BY <3>1 DEF OutputRecord
    <3>3. o = [O EXCEPT ![i] = [O[i] EXCEPT !.size = @ + 1]]
      OBVIOUS
    <3> HIDE DEF i, o
    <3> QED BY <3>2, <3>3, <2>2, <1>2
  <2>4. z \in CellType /\ AsEffect(old, O, e, z, o)
    <3>1. z \in CellType /\ z.token = old.token /\ z.dup = old.dup
          /\ z.outputs = o /\ z.count = old.count /\ z.state = old.state
      BY <1>2, <2>3, CellChanged, ZenonT(40)
    <3>2. Follows(O, e, o)
      BY <1>11 DEF Follows
    <3> HIDE DEF z, o
    <3> QED BY <3>1, <3>2, <1>11 DEF AsEffect
  <2>5. Z = [doc |-> d, active |-> W.active, runs |-> rs1, areas |-> W.areas, table |-> W.table]
    <3> DEFINE z1 == [W EXCEPT !.doc[c].outputs[i].size = @ + 1]
               d1 == [W.doc EXCEPT ![c].outputs[i].size = @ + 1]
               rs2 == [W.runs EXCEPT ![s].expected[i].size = @ + 1]
    <3>0. W = [doc |-> W.doc, active |-> W.active, runs |-> W.runs, areas |-> W.areas,
               table |-> W.table]
      BY <1>1, WorldTyped
    <3>1. z1 = [doc |-> d1, active |-> W.active, runs |-> W.runs, areas |-> W.areas,
                table |-> W.table]
      BY <3>0, SMTT(30)
    <3>2. Z = [z1 EXCEPT !.runs[s].expected[i].size = @ + 1]
      OBVIOUS
    <3>3. d1 = d
      BY <1>2
    <3>4. rs2 = rs1
      OBVIOUS
    <3>5. [W.runs EXCEPT ![s].expected[i].size = @ + 1] = rs2
      OBVIOUS
    <3> HIDE DEF z1, Z, d1, d, rs1, rs2
    <3>6. Z = [doc |-> d1, active |-> W.active,
               runs |-> [W.runs EXCEPT ![s].expected[i].size = @ + 1], areas |-> W.areas,
               table |-> W.table]
      BY <3>1, <3>2
    <3> QED BY <3>3, <3>4, <3>5, <3>6
  <2>6. d[c] = z /\ rs1[s].cell = c
    <3>1. W.doc \in [Cells -> CellType] /\ W.runs \in Seq(RunType) /\ W.runs[s] \in RunType
      BY <1>1, WorldTyped
    <3>2. R1.cell = c /\ rs1[s] = R1
      BY <3>1 DEF RunType
    <3> QED BY <3>1, <3>2, <1>2
  <2>7. V = [Z EXCEPT !.runs[s].memory = m]
    <3> HIDE DEF Z, d, z, rs1
    <3>1. Z.runs[s].cell = c /\ Z.doc[c] = z
      BY <2>5, <2>6
    <3> QED BY <3>1, <2>1 DEF Remember, m
  <2> DEFINE R2 == [W.runs[s] EXCEPT !.expected = o, !.memory = m]
  <2>8. [rs1 EXCEPT ![s].memory = m] = [W.runs EXCEPT ![s] = R2]
    <3>1. rs1[s] = R1 /\ R2 = [R1 EXCEPT !.memory = m]
      OBVIOUS
    <3>2. [rs1 EXCEPT ![s] = R2] = [W.runs EXCEPT ![s] = R2]
      OBVIOUS
    <3> HIDE DEF R1, R2, rs1, m
    <3>3. [rs1 EXCEPT ![s].memory = m] = [rs1 EXCEPT ![s] = [rs1[s] EXCEPT !.memory = m]]
      OBVIOUS
    <3> QED BY <3>1, <3>2, <3>3
  <2>9. V = [doc |-> d, active |-> W.active, runs |-> [W.runs EXCEPT ![s] = R2],
             areas |-> W.areas, table |-> W.table]
    <3> HIDE DEF Z, d, rs1, R2, m
    <3>1. V = [doc |-> d, active |-> W.active, runs |-> [rs1 EXCEPT ![s].memory = m],
             areas |-> W.areas, table |-> W.table]
      BY <2>5, <2>7
    <3> QED BY <3>1, <2>8
  <2>10. Written(W, s, z, o, W.active, V)
    <3> HIDE DEF V, z, o
    <3> QED BY <2>9 DEF Written
  <2> HIDE DEF z, o, V, c, O, old
  <2>11. W.active \in {W.active, [W.active EXCEPT ![c] = 0]}
    OBVIOUS
  <2> QED BY <2>3, <2>4, <2>10, <2>11, Zenon DEF Goal
<1> QED BY <1>2, <1>3, <1>5, <1>6, <1>7, <1>8, <1>9, <1>10, <1>11 DEF Goal, Kinds

\* The rest of a world in which one cell was written, and one run.
LEMMA KeptMade ==
  ASSUME NEW W, Base(W), NEW s \in DOMAIN W.runs, NEW r, NEW done, NEW R, NEW cell, NEW V,
         Elsewhere(W, s, R, cell, V),
         cell.token = W.doc[W.runs[s].cell].token, cell.dup = W.doc[W.runs[s].cell].dup,
         cell.state \in {W.doc[W.runs[s].cell].state, "idle"},
         cell = W.doc[W.runs[s].cell] \/ CellFor(W, s),
         s # r \/ done => /\ cell.count = W.doc[W.runs[s].cell].count
                          /\ cell.state = W.doc[W.runs[s].cell].state
  PROVE  Kept(W, V, r, done)
<1>1. s # 0
  <2>1. W \in WorldType
    BY DEF Base
  <2>2. DOMAIN W.runs = 1..Len(W.runs)
    BY <2>1, WorldTyped
  <2> QED BY <2>2
<1>2. ASSUME NEW c \in Cells
      PROVE  CellKept(W, V, r, done, c)
  <2>1. CASE c # W.runs[s].cell \/ cell = W.doc[W.runs[s].cell]
    <3>1. V.doc[c] = W.doc[c]
      BY <2>1 DEF Elsewhere
    <3> QED BY <3>1 DEF CellKept, Elsewhere
  <2>2. CASE c = W.runs[s].cell /\ CellFor(W, s)
    <3>1. W.active[c] = s /\ Owned(W, c)
      BY <2>2, <1>1 DEF CellFor, Owned
    <3>2. V.doc[c] = cell
      BY <2>2 DEF Elsewhere
    <3> QED BY <3>1, <3>2, <2>2 DEF CellKept, Elsewhere
  <2> QED BY <2>1, <2>2
<1> QED BY <1>2 DEF Kept, Elsewhere

\* A loss is recorded on the run that acts, which changes nothing else.
LEMMA LoseKeeps ==
  ASSUME NEW W, Base(W), NEW r \in DOMAIN W.runs, NEW e, NEW done,
         NEW B \in Seq(Nat), ToSet(B) \subseteq ToSet(W.areas), Len(B) <= Len(W.areas),
         NEW V, V = Lose([W EXCEPT !.areas = B], r)
  PROVE  Base(V) /\ Kept(W, V, r, done) /\ Writes(W, V, r, e)
<1> DEFINE R == [W.runs[r] EXCEPT !.lost = TRUE]
           c0 == W.runs[r].cell
           cell == W.doc[c0]
           rs == [W.runs EXCEPT ![r] = R]
           d == [W.doc EXCEPT ![c0] = cell]
<1>1. W \in WorldType /\ Remembered(W)
  BY DEF Base
<1>2. /\ W = [doc |-> W.doc, active |-> W.active, runs |-> W.runs, areas |-> W.areas,
              table |-> W.table]
      /\ W.doc \in [Cells -> CellType] /\ W.runs[r] \in RunType /\ c0 \in Cells /\ cell \in CellType
  BY <1>1, WorldTyped
<1>3. /\ R \in RunType /\ SameRun(W.runs[r], R) /\ R.lost
      /\ R.red = W.runs[r].red /\ R.expected = W.runs[r].expected /\ R.memory = W.runs[r].memory
  BY <1>2 DEF RunType, SameRun
<1>4. Changed(W, r, R, cell, W.active, B, V)
  <2>1. d = W.doc
    BY <1>2
  <2>2. [W EXCEPT !.areas = B]
          = [doc |-> W.doc, active |-> W.active, runs |-> W.runs, areas |-> B, table |-> W.table]
    BY <1>2
  <2>3. [W.runs EXCEPT ![r].lost = TRUE] = rs
    OBVIOUS
  <2> HIDE DEF d, rs
  <2>4. V = [doc |-> W.doc, active |-> W.active, runs |-> [W.runs EXCEPT ![r].lost = TRUE],
             areas |-> B, table |-> W.table]
    BY <2>2 DEF Lose
  <2> QED BY <2>1, <2>3, <2>4 DEF Changed, d, rs
<1>5. CellFor(W, r) => cell.outputs = R.expected /\ R.memory = <<cell.count, cell.state>>
  BY <1>1, <1>3 DEF Remembered
<1> HIDE DEF R
<1>6. Base(V) /\ Elsewhere(W, r, R, cell, V)
  BY <1>2, <1>3, <1>4, <1>5, OneChange
<1>7. Kept(W, V, r, done)
  BY <1>6, KeptMade
<1>8. Writes(W, V, r, e)
  BY <1>3, <1>6 DEF Writes, RunRecorded, Elsewhere
<1> QED BY <1>6, <1>7, <1>8

\* ExecutionReducer.replaceOutput.
LEMMA RecordReplaced ==
  ASSUME NEW red \in ReducerType, NEW i, NEW o \in OutputRecord
  PROVE  LET z == ReplaceOutput(red, i, o)
         IN  /\ z \in ReducerType /\ z.area = red.area /\ z.count = red.count
             /\ z.completed = red.completed /\ z.reply = red.reply /\ z.idle = red.idle
             /\ i \in DOMAIN red.outputs => z.outputs = [red.outputs EXCEPT ![i] = o]
<1>1. CASE i \notin DOMAIN red.outputs
  BY <1>1 DEF ReplaceOutput
<1>2. CASE i \in DOMAIN red.outputs
  <2> DEFINE P == [red.outputs EXCEPT ![i] = o]
             b == red.bytes + o.size - red.outputs[i].size
             z == [red EXCEPT !.outputs = P, !.bytes = b]
  <2>1. ReplaceOutput(red, i, o) = z
    BY <1>2 DEF ReplaceOutput
  <2>2. P \in Seq(OutputRecord) /\ b \in Int
    <3>1. red.outputs \in Seq(OutputRecord) /\ red.bytes \in Int
      BY DEF ReducerType
    <3>2. red.outputs[i] \in OutputRecord
      BY <3>1, <1>2
    <3>3. o.size \in Nat /\ red.outputs[i].size \in Nat
      BY <3>2 DEF OutputRecord
    <3> QED BY <3>1, <3>3, <1>2
  <2> HIDE DEF P, b
  <2>3. /\ z \in ReducerType /\ z.area = red.area /\ z.count = red.count
        /\ z.completed = red.completed /\ z.reply = red.reply /\ z.idle = red.idle
        /\ z.outputs = P
    BY <2>2 DEF ReducerType
  <2> QED BY <2>1, <2>3 DEF P
<1> QED BY <1>1, <1>2

\* The sink of s writes for the run r: for itself, or for a display that s shows.
LEMMA WriteKeeps ==
  ASSUME NEW W, Base(W), NEW r \in DOMAIN W.runs, NEW old, old.area = AreaOf(W, r),
         NEW e \in EffectType, EffectOk(e, old),
         NEW s \in DOMAIN W.runs, AreaOf(W, s) = e.area, CellFor(W, s), ~Refused(W, s, e),
         NEW V, V = OwnerReducer(Write(W, s, e), s, r, e)
  PROVE  Base(V) /\ Kept(W, V, r, old.completed) /\ Writes(W, V, r, e)
<1> DEFINE O == W.runs[s].expected
           was == W.doc[W.runs[s].cell]
<1>1. /\ was.outputs = O /\ e.kind = "update" => e.index \in DOMAIN O
      /\ \E cell \in CellType, exp \in Seq(OutputRecord),
            A \in {W.active, [W.active EXCEPT ![W.runs[s].cell] = 0]} :
           /\ Written(W, s, cell, exp, A, Write(W, s, e))
           /\ AsEffect(was, O, e, cell, exp)
  <2>1. e.kind = "update" => Len(e.outputs) = 1
    BY DEF EffectOk
  <2> QED BY <2>1, WriteFacts
<1>2. PICK cell \in CellType, exp \in Seq(OutputRecord),
           A \in {W.active, [W.active EXCEPT ![W.runs[s].cell] = 0]} :
             Written(W, s, cell, exp, A, Write(W, s, e)) /\ AsEffect(was, O, e, cell, exp)
  BY <1>1
<1>3. s = r <=> e.area = old.area
  BY DEF Base, KeysSound
<1>4. W \in WorldType /\ W.runs[s] \in RunType /\ W.runs[r] \in RunType /\ W.areas \in Seq(Nat)
  <2>1. W \in WorldType
    BY DEF Base
  <2> QED BY <2>1, WorldTyped
<1> DEFINE m == <<cell.count, cell.state>>
           R1 == [W.runs[s] EXCEPT !.expected = exp, !.memory = m]
           o == e.outputs[1]
           q == ReplaceOutput(W.runs[s].red, e.index, o)
           R == IF s # r /\ e.kind = "update" THEN [R1 EXCEPT !.red = q] ELSE R1
           rs1 == [W.runs EXCEPT ![s] = R1]
           rs == [W.runs EXCEPT ![s] = R]
           d == [W.doc EXCEPT ![W.runs[s].cell] = cell]
<1>5. W.runs[s].red \in ReducerType
  BY <1>4 DEF RunType
<1>6. e.kind = "update" =>
        /\ q \in ReducerType /\ q.area = W.runs[s].red.area /\ q.count = W.runs[s].red.count
        /\ q.completed = W.runs[s].red.completed /\ q.reply = W.runs[s].red.reply
        /\ q.idle = W.runs[s].red.idle
        /\ e.index \in DOMAIN W.runs[s].red.outputs =>
             q.outputs = [W.runs[s].red.outputs EXCEPT ![e.index] = o]
  <2> HAVE e.kind = "update"
  <2>1. o \in OutputRecord
    BY DEF EffectType, EffectOk
  <2> DEFINE x == W.runs[s].red
  <2> HIDE DEF o, x
  <2>2. x \in ReducerType
    BY <1>5 DEF x
  <2>3. LET z == ReplaceOutput(x, e.index, o)
        IN  /\ z \in ReducerType /\ z.area = x.area /\ z.count = x.count
            /\ z.completed = x.completed /\ z.reply = x.reply /\ z.idle = x.idle
            /\ e.index \in DOMAIN x.outputs => z.outputs = [x.outputs EXCEPT ![e.index] = o]
    BY <2>1, <2>2, RecordReplaced, ZenonT(40)
  <2> QED BY <2>3, Zenon DEF x
<1> HIDE DEF q, o
<1>7. /\ R1 \in RunType /\ SameRun(W.runs[s], R1) /\ R1.lost = W.runs[s].lost
      /\ R1.red = W.runs[s].red /\ R1.expected = exp /\ R1.memory = m
  <2>1. m \in Nat \X {"idle", "running"}
    BY DEF CellType
  <2> HIDE DEF m
  <2> QED BY <2>1, <1>4 DEF RunType, SameRun
<1> HIDE DEF R1, m
<1>8. /\ R \in RunType /\ SameRun(W.runs[s], R) /\ R.lost = W.runs[s].lost
      /\ R.expected = exp /\ R.memory = m
      /\ R.red = IF s # r /\ e.kind = "update" THEN q ELSE W.runs[s].red
  <2>1. CASE s # r /\ e.kind = "update"
    BY <2>1, <1>6, <1>7 DEF RunType, SameRun
  <2>2. CASE ~(s # r /\ e.kind = "update")
    BY <2>2, <1>7
  <2> QED BY <2>1, <2>2
<1>9. Changed(W, s, R, cell, A, W.areas, V)
  <2>1. Write(W, s, e) = [doc |-> d, active |-> A, runs |-> rs1, areas |-> W.areas,
                          table |-> W.table]
    BY <1>2 DEF Written, R1, m
  <2>2. s \in DOMAIN W.runs /\ rs1[s] = R1
    OBVIOUS
  <2>3. CASE s # r /\ e.kind = "update"
    <3>1. R1.red = W.runs[s].red /\ R = [R1 EXCEPT !.red = q]
      BY <2>3, <1>7
    <3>2. V = [Write(W, s, e) EXCEPT !.runs[s].red = ReplaceOutput(@, e.index, o)]
      BY <2>3 DEF OwnerReducer, o
    <3> HIDE DEF d
    <3>3. V = [doc |-> d, active |-> A,
               runs |-> [rs1 EXCEPT ![s].red = ReplaceOutput(@, e.index, o)],
               areas |-> W.areas, table |-> W.table]
      BY <2>1, <3>2, SMTT(30)
    <3>4. [rs1 EXCEPT ![s].red = ReplaceOutput(@, e.index, o)] = rs
      <4>1. [rs1 EXCEPT ![s].red = ReplaceOutput(@, e.index, o)] = [rs1 EXCEPT ![s].red = q]
        BY <2>2, <3>1 DEF q
      <4>2. [rs1 EXCEPT ![s].red = q] = [rs1 EXCEPT ![s] = [rs1[s] EXCEPT !.red = q]]
        OBVIOUS
      <4>3. [rs1 EXCEPT ![s] = R] = rs
        OBVIOUS
      <4> HIDE DEF rs1, R, rs
      <4> QED BY <4>1, <4>2, <4>3, <3>1, <2>2
    <3> HIDE DEF rs1, R
    <3> QED BY <3>3, <3>4 DEF Changed, d, rs
  <2>4. CASE ~(s # r /\ e.kind = "update")
    <3>1. V = Write(W, s, e) /\ R = R1
      BY <2>4 DEF OwnerReducer
    <3> HIDE DEF R
    <3> QED BY <3>1, <2>1 DEF Changed
  <2> QED BY <2>3, <2>4
<1>10. /\ cell.outputs = exp /\ Follows(O, e, exp)
       /\ cell.token = was.token /\ cell.dup = was.dup /\ cell.state \in {was.state, "idle"}
       /\ e.kind \notin {"setCount", "setState"} => cell.count = was.count /\ cell.state = was.state
  BY <1>2 DEF AsEffect
<1> HIDE DEF R
<1>11. Base(V) /\ Elsewhere(W, s, R, cell, V)
  <2>1. W.areas \in Seq(Nat) /\ ToSet(W.areas) \subseteq ToSet(W.areas) /\ Len(W.areas) <= Len(W.areas)
    BY <1>4
  <2>2. A = W.active \/ A = [W.active EXCEPT ![W.runs[s].cell] = 0]
    OBVIOUS
  <2>3. cell.outputs = R.expected /\ R.memory = <<cell.count, cell.state>>
    BY <1>8, <1>10 DEF m
  <2>4. R \in RunType /\ SameRun(W.runs[s], R)
    BY <1>8
  <2>5. cell.token = W.doc[W.runs[s].cell].token /\ cell.dup = W.doc[W.runs[s].cell].dup
    BY <1>10
  <2> QED BY <2>1, <2>2, <2>3, <2>4, <2>5, <1>9, OneChange
<1>12. s # r \/ old.completed => cell.count = was.count /\ cell.state = was.state
  <2>1. s # r => e.kind = "update"
    BY <1>3 DEF EffectOk
  <2> QED BY <2>1, <1>10 DEF EffectOk
<1>13. Kept(W, V, r, old.completed)
  BY <1>10, <1>11, <1>12, KeptMade
<1>14. Writes(W, V, r, e)
  <2>1. V.runs[s] = R /\ \A x \in DOMAIN W.runs : x # s => V.runs[x] = W.runs[x]
    BY <1>11 DEF Elsewhere
  <2>2. V.runs[r].red = W.runs[r].red /\ V.runs[r].lost = W.runs[r].lost
    BY <2>1, <1>8
  <2>3. ASSUME NEW x \in DOMAIN W.runs, x # r, RunRecorded(W, x) PROVE RunRecorded(V, x)
    <3>1. CASE x # s
      BY <3>1, <2>1, <2>3 DEF RunRecorded
    <3>2. CASE x = s
      <4>1. e.kind = "update"
        BY <3>2, <2>3, <1>3 DEF EffectOk
      <4>2. exp = [O EXCEPT ![e.index] = o]
        BY <4>1, <1>10 DEF Follows, o
      <4>3. R.red = q /\ R.lost = W.runs[s].lost /\ R.expected = exp
        BY <4>1, <3>2, <2>3, <1>8
      <4>4. W.runs[s].red.outputs = O => q.outputs = exp
        BY <4>1, <4>2, <1>1, <1>6
      <4> QED BY <4>3, <4>4, <3>2, <2>1, <2>3 DEF RunRecorded
    <3> QED BY <3>1, <3>2
  <2>4. IF e.area = AreaOf(W, r) THEN Follows(W.runs[r].expected, e, V.runs[r].expected)
        ELSE V.runs[r].expected = W.runs[r].expected
    <3>1. CASE s = r
      <4>1. V.runs[r].expected = exp /\ O = W.runs[r].expected
        BY <3>1, <2>1, <1>8
      <4> QED BY <4>1, <3>1, <1>3, <1>10
    <3>2. CASE s # r
      BY <3>2, <2>1, <1>3
    <3> QED BY <3>1, <3>2
  <2> QED BY <2>2, <2>3, <2>4 DEF Writes
<1> QED BY <1>11, <1>13, <1>14

\* One effect of a message that the run r received.
LEMMA ApplyKeeps ==
  ASSUME NEW W, Base(W), NEW r \in DOMAIN W.runs, NEW old, old.area = AreaOf(W, r),
         NEW e \in EffectType, EffectOk(e, old), NEW V, V = ApplyEffect(W, r, e)
  PROVE  Base(V) /\ Kept(W, V, r, old.completed) /\ Writes(W, V, r, e)
<1> DEFINE owners == {s \in ToSet(W.areas) : AreaOf(W, s) = e.area}
           s == CHOOSE s \in owners : TRUE
<1>1. /\ W \in WorldType /\ KeysSound(W) /\ W.areas \in Seq(Nat) /\ Len(W.areas) \in Nat
      /\ W = [doc |-> W.doc, active |-> W.active, runs |-> W.runs, areas |-> W.areas,
              table |-> W.table]
  <2>1. W \in WorldType /\ KeysSound(W)
    BY DEF Base
  <2> QED BY <2>1, WorldTyped
<1>2. V = IF owners = {} THEN Lose(W, r)
          ELSE IF ~CellFor(W, s) THEN Lose([W EXCEPT !.areas = Keep(@, ToSet(@) \ {s})], r)
          ELSE IF Refused(W, s, e) THEN Lose(W, r)
          ELSE OwnerReducer(Write(W, s, e), s, r, e)
  BY DEF ApplyEffect
<1>3. owners # {} => s \in DOMAIN W.runs /\ AreaOf(W, s) = e.area
  <2>1. owners # {} => s \in owners
    OBVIOUS
  <2> HIDE DEF s
  <2> QED BY <2>1, <1>1 DEF KeysSound
<1> HIDE DEF owners, s
<1>4. CASE V = Lose(W, r)
  <2>1. [W EXCEPT !.areas = W.areas] = W
    BY <1>1
  <2>2. V = Lose([W EXCEPT !.areas = W.areas], r)
    BY <2>1, <1>4
  <2> QED BY <2>2, <1>1, LoseKeeps
<1>5. CASE V = Lose([W EXCEPT !.areas = Keep(@, ToSet(@) \ {s})], r)
  <2> DEFINE B == Keep(W.areas, ToSet(W.areas) \ {s})
  <2>1. B \in Seq(Nat) /\ ToSet(B) \subseteq ToSet(W.areas) /\ Len(B) <= Len(W.areas)
    <3>1. /\ B \in Seq(Nat) /\ ToSet(B) = ToSet(W.areas) \cap (ToSet(W.areas) \ {s})
          /\ Len(B) <= Len(W.areas)
      BY <1>1, KeepFacts
    <3> HIDE DEF B
    <3> QED BY <3>1
  <2>2. V = Lose([W EXCEPT !.areas = B], r)
    BY <1>5
  <2> HIDE DEF B
  <2> QED BY <2>1, <2>2, LoseKeeps
<1>6. CASE /\ owners # {} /\ CellFor(W, s) /\ ~Refused(W, s, e)
           /\ V = OwnerReducer(Write(W, s, e), s, r, e)
  BY <1>3, <1>6, WriteKeeps
<1> QED BY <1>2, <1>4, <1>5, <1>6

\* A run that owns an area after the effects owned it before.
LEMMA OwnerKept ==
  ASSUME NEW U, NEW V, Base(U), Base(V), NEW r, NEW done, Kept(U, V, r, done), NEW c \in Cells,
         Owned(V, c)
  PROVE  Owned(U, c)
<1>1. V.active[c] \in {U.active[c], 0} /\ V.doc[c].token = U.doc[c].token
      /\ V.doc[c].dup = U.doc[c].dup /\ (V.doc[c] = Absent <=> U.doc[c] = Absent)
  BY DEF Kept, CellKept
<1> DEFINE a == V.active[c]
<1>2. a # 0 /\ CellFor(V, a) /\ a = U.active[c]
  BY <1>1 DEF Owned
<1>3. a \in DOMAIN V.runs /\ V.runs[a].cell = c
  BY <1>2 DEF Base, SinksSound
<1>4. U.runs[a].cell = c /\ U.runs[a].token = V.runs[a].token
  BY <1>3 DEF Kept, SameRun
<1> QED BY <1>1, <1>2, <1>3, <1>4 DEF Owned, CellFor

\* Kept goes on over several effects,
LEMMA KeptTransitive ==
  ASSUME NEW U, NEW V, NEW W, Base(U), Base(V), Base(W), NEW r, r # 0, NEW done,
         Kept(U, V, r, done), Kept(V, W, r, done)
  PROVE  Kept(U, W, r, done)
<1>1. Len(U.areas) \in Nat /\ Len(V.areas) \in Nat /\ Len(W.areas) \in Nat
  BY WorldTyped DEF Base
<1>2. DOMAIN W.runs = DOMAIN U.runs /\ \A s \in DOMAIN U.runs : SameRun(U.runs[s], W.runs[s])
  BY DEF Kept, SameRun
<1>3. ToSet(W.areas) \subseteq ToSet(U.areas) /\ Len(W.areas) <= Len(U.areas)
  <2>1. /\ ToSet(V.areas) \subseteq ToSet(U.areas) /\ Len(V.areas) <= Len(U.areas)
        /\ ToSet(W.areas) \subseteq ToSet(V.areas) /\ Len(W.areas) <= Len(V.areas)
    BY DEF Kept
  <2> QED BY <1>1, <2>1
<1>4. ASSUME NEW c \in Cells PROVE CellKept(U, W, r, done, c)
  <2>1. CellKept(U, V, r, done, c) /\ CellKept(V, W, r, done, c)
    BY DEF Kept
  <2>2. Owned(V, c) => Owned(U, c)
    BY OwnerKept
  <2> QED BY <2>1, <2>2 DEF CellKept
<1> QED BY <1>2, <1>3, <1>4 DEF Kept

\* and begins with none.
LEMMA KeptSelf ==
  ASSUME NEW U, Base(U), NEW r, NEW done
  PROVE  Kept(U, U, r, done)
<1>1. Len(U.areas) \in Nat
  BY WorldTyped DEF Base
<1> QED BY <1>1 DEF Kept, CellKept, SameRun

\* All effects of a message, from a world in which the record is already the new one.
AllApplied(start, r, effects) ==
  LET after[n \in 0..Len(effects)] ==
        IF n = 0 THEN start ELSE ApplyEffect(after[n - 1], r, effects[n])
  IN  after[Len(effects)]

\* The effects of a record `old` that became that of r, which lists the outputs O[n]
\* after the first n of them.
Effective(start, r, old, effects, O) ==
  /\ Base(start) /\ r \in DOMAIN start.runs /\ old.area = AreaOf(start, r)
  /\ effects \in Seq(EffectType) /\ \A n \in DOMAIN effects : EffectOk(effects[n], old)
  /\ Trail(O, effects, old.area, old.outputs, start.runs[r].red.outputs)
  /\ start.runs[r].lost \/ start.runs[r].expected = old.outputs
  /\ \A s \in DOMAIN start.runs : s # r => RunRecorded(start, s)

\* All effects of one message, one after the other.
LEMMA EffectsKeep ==
  ASSUME NEW start, NEW r, NEW old, NEW effects, NEW O, Effective(start, r, old, effects, O),
         NEW V, V = AllApplied(start, r, effects)
  PROVE  /\ Base(V) /\ Kept(start, V, r, old.completed)
         /\ V.runs[r].red = start.runs[r].red /\ Recorded(V)
<1> DEFINE N == Len(effects)
           red == start.runs[r].red
           done == old.completed
           Good(W, n) == /\ Base(W) /\ Kept(start, W, r, done)
                         /\ W.runs[r].red = red
                         /\ \A s \in DOMAIN W.runs : s # r => RunRecorded(W, s)
                         /\ W.runs[r].lost \/ W.runs[r].expected = O[n]
           X == [n \in 0..N |-> {W \in WorldType : Good(W, n)}]
           g == [n \in 1..N |-> [W \in X[n - 1] |-> ApplyEffect(W, r, effects[n])]]
<1>0. /\ Base(start) /\ r \in DOMAIN start.runs /\ old.area = AreaOf(start, r)
      /\ effects \in Seq(EffectType) /\ \A n \in DOMAIN effects : EffectOk(effects[n], old)
      /\ Trail(O, effects, old.area, old.outputs, red.outputs)
      /\ start.runs[r].lost \/ start.runs[r].expected = old.outputs
      /\ \A s \in DOMAIN start.runs : s # r => RunRecorded(start, s)
  BY DEF Effective
<1> USE <1>0
<1>1. N \in Nat /\ \A n \in 1..N : effects[n] \in EffectType /\ EffectOk(effects[n], old)
  OBVIOUS
<1>2. Good(start, 0) /\ start \in WorldType
  <2>1. Kept(start, start, r, done)
    BY KeptSelf
  <2>2. O[0] = old.outputs
    BY DEF Trail
  <2> QED BY <2>1, <2>2 DEF Base
<1>3. ASSUME NEW n \in 1..N, NEW W, Good(W, n - 1)
      PROVE  Good(ApplyEffect(W, r, effects[n]), n)
  <2> DEFINE e == effects[n]
             Z == ApplyEffect(W, r, e)
  <2>1. DOMAIN W.runs = DOMAIN start.runs /\ r \in DOMAIN W.runs /\ old.area = AreaOf(W, r)
    BY <1>3 DEF Kept, SameRun, AreaOf
  <2>2. e \in EffectType /\ EffectOk(e, old)
    BY <1>1
  <2>3. Base(W) /\ Kept(start, W, r, done)
    BY <1>3
  <2> HIDE DEF Z, e, Good
  <2>4. Base(Z) /\ Kept(W, Z, r, done) /\ Writes(W, Z, r, e)
    BY <2>1, <2>2, <2>3, ApplyKeeps DEF Z
  <2>5. r # 0
    <3>1. start \in WorldType
      BY DEF Base
    <3>2. DOMAIN start.runs = 1..Len(start.runs)
      BY <3>1, WorldTyped
    <3> QED BY <3>2
  <2>6. Kept(start, Z, r, done)
    BY <2>3, <2>4, <2>5, KeptTransitive
  <2>7. Z.runs[r].red = red
    BY <1>3, <2>4 DEF Writes, Good
  <2>8. \A s \in DOMAIN Z.runs : s # r => RunRecorded(Z, s)
    BY <1>3, <2>4 DEF Writes, Good, Kept
  <2>9. Z.runs[r].lost \/ Z.runs[r].expected = O[n]
    <3>1. IF e.area = old.area THEN Follows(O[n - 1], e, O[n]) ELSE O[n] = O[n - 1]
      BY DEF Trail, e
    <3>2. e.kind \in Kinds
      BY <2>2 DEF EffectType
    <3>3. CASE W.runs[r].lost
      BY <3>3, <2>4 DEF Writes
    <3>4. CASE W.runs[r].expected = O[n - 1]
      <4>1. CASE e.area = old.area
        <5>1. Z.runs[r].lost \/ Follows(O[n - 1], e, Z.runs[r].expected)
          BY <4>1, <3>4, <2>1, <2>4 DEF Writes
        <5> QED BY <5>1, <4>1, <3>1, <3>2 DEF Follows, Kinds
      <4>2. CASE e.area # old.area
        BY <4>2, <3>4, <3>1, <2>1, <2>4 DEF Writes
      <4> QED BY <4>1, <4>2
    <3> QED BY <3>3, <3>4, <1>3 DEF Good
  <2> QED BY <2>4, <2>6, <2>7, <2>8, <2>9 DEF Good, Z, e
<1>4. \A n \in 0..N : X[n] = {W \in WorldType : Good(W, n)}
  OBVIOUS
<1>5. \A W, n : Good(W, n) => W \in WorldType
  BY DEF Base
<1> HIDE DEF Good
<1>6. \A n \in 1..N : \A W \in X[n - 1] :
        g[n][W] = ApplyEffect(W, r, effects[n]) /\ g[n][W] \in X[n]
  <2> TAKE n \in 1..N
  <2> TAKE W \in X[n - 1]
  <2>1. n - 1 \in 0..N /\ n \in 0..N
    BY <1>1
  <2>2. g[n][W] = ApplyEffect(W, r, effects[n])
    BY <2>1
  <2>3. Good(W, n - 1)
    BY <2>1, <1>4
  <2>4. Good(ApplyEffect(W, r, effects[n]), n)
    BY <2>3, <1>3
  <2> QED BY <2>1, <2>2, <2>4, <1>4, <1>5
<1>7. start \in X[0]
  BY <1>1, <1>2, <1>4
<1> DEFINE R(f) == f = [n \in 0..N |-> IF n = 0 THEN start
                                       ELSE ApplyEffect(f[n - 1], r, effects[n])]
<1> HIDE DEF X, g, N
<1>8. PICK h : StepsThrough(h, N, X, start, g)
  <2>1. \A n \in 1..N : \A W \in X[n - 1] : g[n][W] \in X[n]
    BY <1>6
  <2> QED BY <1>1, <1>7, <2>1, Recursion
<1>9. R(h)
  <2>1. \A n \in 0..N : n # 0 => n \in 1..N /\ n - 1 \in 0..N
    BY <1>1
  <2>2. \A n \in 0..N : n # 0 => h[n] = ApplyEffect(h[n - 1], r, effects[n])
    BY <2>1, <1>6, <1>8 DEF StepsThrough
  <2>3. \A n \in 0..N : h[n] = IF n = 0 THEN start ELSE ApplyEffect(h[n - 1], r, effects[n])
    BY <2>2, <1>8 DEF StepsThrough
  <2> QED BY <1>8, <2>3 DEF StepsThrough
<1> DEFINE k == CHOOSE f : R(f)
<1>10. R(k)
  <2> HIDE DEF R
  <2> QED BY <1>9
<1>11. V = k[N]
  BY DEF N, AllApplied
<1> HIDE DEF k
<1>12. k[0] \in X[0] /\ \A n \in 1..N : k[n - 1] \in X[n - 1] => k[n] \in X[n]
  <2>1. k[0] = start
    BY <1>1, <1>10
  <2>2. ASSUME NEW n \in 1..N, k[n - 1] \in X[n - 1]
        PROVE  k[n] \in X[n]
    <3>1. n \in 0..N /\ n # 0
      BY <1>1
    <3>2. k[n] = ApplyEffect(k[n - 1], r, effects[n])
      BY <3>1, <1>10
    <3> QED BY <3>2, <2>2, <1>6
  <2> QED BY <2>1, <2>2, <1>7
<1>13. \A n \in 0..N : k[n] \in X[n]
  BY <1>1, <1>12, Inductive
<1>14. Good(V, N)
  <2>1. V \in X[N]
    BY <1>1, <1>11, <1>13
  <2> QED BY <2>1, <1>1, <1>4
<1>15. O[N] = red.outputs
  BY DEF Trail, N
<1>16. Recorded(V)
  BY <1>14, <1>15 DEF Recorded, RunRecorded, Good
<1> QED BY <1>14, <1>16 DEF Good

-------------------------------------------------------------------------------
(* The steps of the kernel.                                                 *)

\* Kept, when the record or the state of the run that acts changes too.
Moved(U, V, r) ==
  /\ DOMAIN V.runs = DOMAIN U.runs
  /\ \A s \in DOMAIN U.runs :
       /\ V.runs[s].cell = U.runs[s].cell /\ V.runs[s].token = U.runs[s].token
       /\ V.runs[s].generation = U.runs[s].generation
       /\ s # r => SameRun(U.runs[s], V.runs[s])
  /\ ToSet(V.areas) \subseteq ToSet(U.areas) /\ Len(V.areas) <= Len(U.areas)
  /\ \A c \in Cells : CellKept(U, V, r, FALSE, c)

\* Kept is Moved,
LEMMA KeptMoved ==
  ASSUME NEW U, NEW V, NEW r, NEW done, Kept(U, V, r, done)
  PROVE  Moved(U, V, r)
BY DEF Kept, Moved, SameRun, CellKept

\* What belongs to a run afterwards belonged to it before.
LEMMA OwnerMoved ==
  ASSUME NEW U, NEW V, Base(U), Base(V), NEW r, Moved(U, V, r)
  PROVE  /\ \A c \in Cells : Owned(V, c) => Owned(U, c)
         /\ \A s \in DOMAIN U.runs : CellFor(V, s) => CellFor(U, s)
<1>1. ASSUME NEW c \in Cells, NEW a \in DOMAIN U.runs, U.runs[a].cell = c, V.active[c] = a, a # 0,
             V.doc[c] # Absent, ~V.doc[c].dup, V.doc[c].token = V.runs[a].token
      PROVE  U.active[c] = a /\ CellFor(U, a)
  <2>1. CellKept(U, V, r, FALSE, c) /\ V.runs[a].token = U.runs[a].token
    BY DEF Moved
  <2> QED BY <2>1, <1>1 DEF CellKept, CellFor
<1>2. \A s \in DOMAIN U.runs : V.runs[s].cell = U.runs[s].cell
  BY DEF Moved
<1>3. \A s \in DOMAIN U.runs : s # 0 /\ U.runs[s].cell \in Cells
  <2>1. U \in WorldType
    BY DEF Base
  <2>2. DOMAIN U.runs = 1..Len(U.runs) /\ \A s \in DOMAIN U.runs : U.runs[s].cell \in Cells
    BY <2>1, WorldTyped
  <2> QED BY <2>2
<1>4. ASSUME NEW s \in DOMAIN U.runs, CellFor(V, s)
      PROVE  CellFor(U, s)
  <2>1. V.active[U.runs[s].cell] = s /\ V.doc[U.runs[s].cell] # Absent /\ ~V.doc[U.runs[s].cell].dup
        /\ V.doc[U.runs[s].cell].token = V.runs[s].token
    BY <1>2, <1>4 DEF CellFor
  <2> QED BY <2>1, <1>1, <1>3
<1>5. ASSUME NEW c \in Cells, Owned(V, c)
      PROVE  Owned(U, c)
  <2> DEFINE a == V.active[c]
  <2>1. a # 0 /\ CellFor(V, a)
    BY <1>5 DEF Owned
  <2>2. a \in DOMAIN V.runs /\ V.runs[a].cell = c
    BY <2>1 DEF Base, SinksSound
  <2>3. a \in DOMAIN U.runs /\ U.runs[a].cell = c
    BY <2>2, <1>2 DEF Moved
  <2>4. U.active[c] = a
    BY <2>1, <2>2, <2>3, <1>1 DEF CellFor
  <2> QED BY <2>1, <2>3, <2>4, <1>4 DEF Owned
<1> QED BY <1>4, <1>5

\* and Moved goes on over several writes.
LEMMA MovedTransitive ==
  ASSUME NEW U, NEW V, NEW W, Base(U), Base(V), Base(W), NEW r, r # 0,
         Moved(U, V, r), Moved(V, W, r)
  PROVE  Moved(U, W, r)
<1>1. Len(U.areas) \in Nat /\ Len(V.areas) \in Nat /\ Len(W.areas) \in Nat
  BY WorldTyped DEF Base
<1>2. /\ DOMAIN W.runs = DOMAIN U.runs
      /\ \A s \in DOMAIN U.runs :
           /\ W.runs[s].cell = U.runs[s].cell /\ W.runs[s].token = U.runs[s].token
           /\ W.runs[s].generation = U.runs[s].generation
           /\ s # r => SameRun(U.runs[s], W.runs[s])
  BY DEF Moved, SameRun
<1>3. ToSet(W.areas) \subseteq ToSet(U.areas) /\ Len(W.areas) <= Len(U.areas)
  <2>1. /\ ToSet(V.areas) \subseteq ToSet(U.areas) /\ Len(V.areas) <= Len(U.areas)
        /\ ToSet(W.areas) \subseteq ToSet(V.areas) /\ Len(W.areas) <= Len(V.areas)
    BY DEF Moved
  <2> QED BY <1>1, <2>1
<1>4. ASSUME NEW c \in Cells PROVE CellKept(U, W, r, FALSE, c)
  <2>1. CellKept(U, V, r, FALSE, c) /\ CellKept(V, W, r, FALSE, c)
    BY DEF Moved
  <2>2. Owned(V, c) => Owned(U, c)
    BY OwnerMoved
  <2> QED BY <2>1, <2>2 DEF CellKept
<1> QED BY <1>2, <1>3, <1>4 DEF Moved

\* A run gets another record or state, and the display table with it; or the tables
\* of the kernel are emptied.
Rerun(U, r, R, B, t, V) ==
  V = [doc |-> U.doc, active |-> U.active, runs |-> [U.runs EXCEPT ![r] = R],
       areas |-> B, table |-> t]

\* The record of the run that acts may change in between.
LEMMA RunChanged ==
  ASSUME NEW U, Base(U), NEW r \in DOMAIN U.runs, NEW R, NEW B, NEW t, NEW V,
         Rerun(U, r, R, B, t, V), R \in RunType,
         R.cell = U.runs[r].cell, R.token = U.runs[r].token,
         R.generation = U.runs[r].generation, R.red.area = U.runs[r].red.area,
         R.expected = U.runs[r].expected, R.memory = U.runs[r].memory,
         B \in Seq(Nat), ToSet(B) \subseteq ToSet(U.areas), Len(B) <= Len(U.areas),
         t \in TableType
  PROVE  /\ Base(V) /\ Moved(U, V, r)
         /\ V.runs[r] = R /\ \A s \in DOMAIN U.runs : s # r => V.runs[s] = U.runs[s]
         /\ V.doc = U.doc /\ V.active = U.active
<1> DEFINE rs == [U.runs EXCEPT ![r] = R]
<1>1. /\ U \in WorldType /\ SinksSound(U) /\ KeysSound(U) /\ Remembered(U)
      /\ U.doc \in [Cells -> CellType] /\ U.active \in [Cells -> Nat] /\ Len(U.areas) \in Nat
  <2>1. U \in WorldType /\ SinksSound(U) /\ KeysSound(U) /\ Remembered(U)
    BY DEF Base
  <2> QED BY <2>1, WorldTyped
<1>2. /\ rs \in Seq(RunType) /\ DOMAIN rs = DOMAIN U.runs
      /\ rs[r] = R /\ \A s \in DOMAIN U.runs : s # r => rs[s] = U.runs[s]
  BY <1>1, RunUpdated
<1> HIDE DEF rs
<1>3. /\ V = [doc |-> U.doc, active |-> U.active, runs |-> rs, areas |-> B, table |-> t]
      /\ V.doc = U.doc /\ V.active = U.active /\ V.runs = rs /\ V.areas = B
  BY DEF rs, Rerun
<1>4. V \in WorldType
  <2>1. V = [doc |-> U.doc, active |-> U.active, runs |-> rs, areas |-> B, table |-> t]
    BY <1>3
  <2>2. t \in TableType /\ B \in Seq(Nat)
    OBVIOUS
  <2> QED BY ONLY <2>1, <2>2, <1>1, <1>2, WorldMade
<1>5. /\ DOMAIN V.runs = DOMAIN U.runs /\ V.runs[r] = R
      /\ \A s \in DOMAIN U.runs : s # r => V.runs[s] = U.runs[s]
  BY <1>2, <1>3
<1>6. \A s \in DOMAIN U.runs :
        /\ V.runs[s].cell = U.runs[s].cell /\ V.runs[s].token = U.runs[s].token
        /\ V.runs[s].generation = U.runs[s].generation
        /\ V.runs[s].red.area = U.runs[s].red.area
        /\ V.runs[s].expected = U.runs[s].expected /\ V.runs[s].memory = U.runs[s].memory
        /\ AreaOf(V, s) = AreaOf(U, s)
        /\ CellFor(V, s) <=> CellFor(U, s)
  BY <1>3, <1>5 DEF AreaOf, CellFor
<1>7. SinksSound(V)
  BY <1>1, <1>3, <1>5, <1>6 DEF SinksSound
<1>8. KeysSound(V)
  <2>1. ToSet(V.areas) \subseteq DOMAIN V.runs /\ Len(V.areas) <= AreaLimit
    <3>1. Len(B) \in Nat /\ AreaLimit \in Nat
      BY AreasAssumption
    <3> QED BY <3>1, <1>1, <1>3, <1>5 DEF KeysSound
  <2>2. \A s \in DOMAIN V.runs : V.runs[s].red.area = AreaOf(V, s)
    BY <1>1, <1>5, <1>6 DEF KeysSound
  <2>3. \A s, x \in DOMAIN V.runs : AreaOf(V, s) = AreaOf(V, x) => s = x
    BY <1>1, <1>5, <1>6 DEF KeysSound
  <2> QED BY <2>1, <2>2, <2>3 DEF KeysSound
<1>9. Remembered(V)
  BY <1>1, <1>3, <1>5, <1>6 DEF Remembered
<1>10. Moved(U, V, r)
  <2>1. \A s \in DOMAIN U.runs : s # r => SameRun(U.runs[s], V.runs[s])
    BY <1>5 DEF SameRun
  <2>2. ToSet(V.areas) \subseteq ToSet(U.areas) /\ Len(V.areas) <= Len(U.areas)
    BY <1>3
  <2>3. \A c \in Cells : CellKept(U, V, r, FALSE, c)
    BY <1>3 DEF CellKept
  <2> QED BY <2>1, <2>2, <2>3, <1>5, <1>6 DEF Moved
<1> QED BY <1>3, <1>4, <1>5, <1>7, <1>8, <1>9, <1>10 DEF Base

\* finishExecution: the watcher writes the end of the run r, if its area is still open.
LEMMA FinishKeeps ==
  ASSUME NEW W, Base(W), NEW r \in DOMAIN W.runs, W.active[W.runs[r].cell] \in {0, r},
         W.runs[r].state \in CompletedStates \cup {"unknown"},
         NEW V, V = FinishCompletedCells(W, r)
  PROVE  /\ Base(V) /\ Kept(W, V, r, FALSE)
         /\ \A x \in DOMAIN W.runs : V.runs[x].red = W.runs[x].red
         /\ Recorded(W) => Recorded(V)
         /\ CellFor(V, r) => /\ V.doc[V.runs[r].cell].state = "idle"
                             /\ V.doc[V.runs[r].cell].count = V.runs[r].red.count
<1> DEFINE c == W.runs[r].cell
           old == W.doc[c]
           n == W.runs[r].red.count
           cell == [old EXCEPT !.count = n, !.state = "idle"]
           exp == W.runs[r].expected
           m == <<cell.count, cell.state>>
           R == [W.runs[r] EXCEPT !.expected = exp, !.memory = m]
<1>1. /\ W \in WorldType /\ W.runs[r] \in RunType /\ c \in Cells /\ old \in CellType
      /\ W.areas \in Seq(Nat) /\ r # 0
  <2>1. W \in WorldType
    BY DEF Base
  <2>2. DOMAIN W.runs = 1..Len(W.runs)
    BY <2>1, WorldTyped
  <2> QED BY <2>1, <2>2, WorldTyped
<1>2. /\ n \in Nat /\ exp \in Seq(OutputRecord)
  BY <1>1 DEF RunType, ReducerType
<1>3. /\ cell \in CellType /\ cell.outputs = old.outputs /\ cell.token = old.token
      /\ cell.dup = old.dup /\ cell.count = n /\ cell.state = "idle"
  BY <1>1, <1>2 DEF CellType
<1>4. CASE ~(W.active[c] # 0 /\ CellFor(W, W.active[c]))
  <2>1. V = W
    BY <1>4 DEF FinishCompletedCells
  <2>2. ~CellFor(W, r)
    BY <1>1, <1>4 DEF CellFor
  <2> QED BY <2>1, <2>2, KeptSelf
<1>5. CASE W.active[c] # 0 /\ CellFor(W, W.active[c])
  <2>1. W.active[c] = r /\ CellFor(W, r)
    BY <1>5
  <2>2. V = OwnWrite(W, r, cell, exp)
    BY <2>1, <1>1 DEF FinishCompletedCells, CompletedStates
  <2> HIDE DEF cell
  <2>3. PICK A \in {W.active, [W.active EXCEPT ![c] = 0]} : Written(W, r, cell, exp, A, V)
    BY <2>2, <1>1, <1>2, <1>3, OwnWriteIs
  <2>4. /\ R \in RunType /\ SameRun(W.runs[r], R) /\ R.lost = W.runs[r].lost
        /\ R.red = W.runs[r].red /\ R.expected = exp /\ R.memory = m
    <3>1. m \in Nat \X {"idle", "running"}
      BY <1>2, <1>3
    <3> HIDE DEF m
    <3> QED BY <3>1, <1>1, <1>2 DEF RunType, SameRun
  <2>5. Changed(W, r, R, cell, A, W.areas, V)
    BY <2>3 DEF Written, Changed
  <2>6. old.outputs = exp
    BY <2>1 DEF Base, Remembered
  <2> HIDE DEF R, m
  <2>7. Base(V) /\ Elsewhere(W, r, R, cell, V)
    <3>1. W.areas \in Seq(Nat) /\ ToSet(W.areas) \subseteq ToSet(W.areas)
          /\ Len(W.areas) <= Len(W.areas)
      BY <1>1
    <3>2. A = W.active \/ A = [W.active EXCEPT ![W.runs[r].cell] = 0]
      OBVIOUS
    <3>3. cell.outputs = R.expected /\ R.memory = <<cell.count, cell.state>>
      BY <2>4, <2>6, <1>3 DEF m
    <3> QED BY <2>1, <2>4, <2>5, <3>1, <3>2, <3>3, <1>3, OneChange
  <2>8. Kept(W, V, r, FALSE)
    BY <2>1, <2>7, <1>3, KeptMade
  <2>9. V.runs[r] = R /\ (\A x \in DOMAIN W.runs : x # r => V.runs[x] = W.runs[x])
        /\ DOMAIN V.runs = DOMAIN W.runs
    BY <2>7 DEF Elsewhere
  <2>10. \A x \in DOMAIN W.runs : V.runs[x].red = W.runs[x].red
    BY <2>4, <2>9
  <2>11. Recorded(W) => Recorded(V)
    BY <2>4, <2>9 DEF Recorded, RunRecorded
  <2>12. V.doc[c] = cell /\ V.runs[r].cell = c
    BY <2>4, <2>7, <1>1 DEF Elsewhere, SameRun
  <2> QED BY <2>7, <2>8, <2>10, <2>11, <2>12, <1>3
<1> QED BY <1>4, <1>5

\* What the kernel's handlers leave of the rest of the state.
Quiet == counter' = counter /\ tokens' = tokens /\ touched' = touched

\* What a step that is no peer's does to the cells that peers touched.
Stays == \A c \in Cells : c \in touched /\ c \in touched' => doc'[c] = doc[c]

\* The invariant after a step on behalf of the run r, from what the step did.
LEMMA MovedInv ==
  ASSUME AInv, NEW r, r # 0, Quiet, Base(World'), Moved(World, World', r),
         Recorded(World'), Settled(World'), inflight' \in {inflight, 0},
         inflight' # inflight => inflight = r,
         r \in RunIds /\ Current(r)' =>
           LET cell == doc'[runs'[r].cell]
           IN  /\ cell.state = "running" => inflight' = r \/ runs'[r].state = "not_sent"
               /\ runs'[r].state \in CompletedStates =>
                    cell.state = "idle" /\ cell.count = runs'[r].red.count,
         routes' \subseteq Nat, late' \in Seq(Nat), routes' = ToSet(late') \cup ({inflight'} \ {0}),
         ToSet(late') \subseteq RunIds, Len(late') <= LateRouteLimit, inflight' \notin ToSet(late')
  PROVE  AInv' /\ Stays
<1> DEFINE U == World
           V == World'
<1>0. /\ V.doc = doc' /\ V.active = active' /\ V.runs = runs' /\ V.areas = areas'
      /\ U.doc = doc /\ U.active = active /\ U.runs = runs /\ U.areas = areas
  BY DEF World
<1>1. Base(U) /\ Base(V) /\ Moved(U, V, r)
  BY DEF AInv
<1> HIDE DEF U, V
<1>2. U \in WorldType /\ V \in WorldType
  BY <1>1 DEF Base
<1>3. /\ DOMAIN runs' = RunIds /\ RunIds = 1..Len(runs) /\ RunIds' = 1..Len(runs') /\ r # 0
      /\ Len(runs) \in Nat /\ Len(runs') \in Nat
      /\ \A s \in RunIds : runs[s].cell \in Cells
  BY <1>0, <1>1, <1>2, WorldTyped DEF RunIds, Moved
<1>4. /\ \A c \in Cells : Owned(V, c) => Owned(U, c)
      /\ \A s \in RunIds : CellFor(V, s) => CellFor(U, s)
  BY <1>0, <1>1, OwnerMoved DEF RunIds
<1>5. \A c \in Cells : CellKept(U, V, r, FALSE, c)
  BY <1>1 DEF Moved
<1>6. \A s \in RunIds : runs'[s].cell = runs[s].cell /\ runs'[s].token = runs[s].token
        /\ runs'[s].generation = runs[s].generation /\ (s # r => SameRun(runs[s], runs'[s]))
  BY <1>0, <1>1 DEF Moved, RunIds
<1>7. AreasTypeOK'
  <2>1. inflight' \in Nat
    BY DEF AInv, AreasTypeOK
  <2> QED BY <1>2, <2>1 DEF AInv, AreasTypeOK, Quiet, V
<1>8. Prompts(World', inflight')
  <2> SUFFICES ASSUME NEW s \in RunIds, CellFor(V, s)
               PROVE  /\ doc'[runs'[s].cell].state = "running" =>
                           inflight' = s \/ runs'[s].state = "not_sent"
                      /\ runs'[s].state \in CompletedStates =>
                           /\ doc'[runs'[s].cell].state = "idle"
                           /\ doc'[runs'[s].cell].count = runs'[s].red.count
    BY <1>0, <1>3 DEF Prompts, V
  <2>1. CASE s = r
    BY <2>1 DEF Current, V
  <2>2. CASE s # r
    <3>1. CellFor(U, s)
      BY <1>4
    <3>2. U.active[runs[s].cell] = s
      BY <3>1, <1>0 DEF CellFor
    <3>3. /\ doc'[runs[s].cell].state = doc[runs[s].cell].state
          /\ doc'[runs[s].cell].count = doc[runs[s].cell].count
      BY <3>2, <2>2, <1>0, <1>3, <1>5 DEF CellKept
    <3>4. /\ doc[runs[s].cell].state = "running" => inflight = s \/ runs[s].state = "not_sent"
          /\ runs[s].state \in CompletedStates =>
               /\ doc[runs[s].cell].state = "idle"
               /\ doc[runs[s].cell].count = runs[s].red.count
      BY <3>1, <1>0 DEF AInv, Prompts, U, RunIds
    <3>5. inflight = s => inflight' = s
      BY <2>2
    <3>6. SameRun(runs[s], runs'[s]) /\ runs'[s].cell = runs[s].cell
      BY <2>2, <1>6
    <3> QED BY <3>3, <3>4, <3>5, <3>6 DEF SameRun
  <2> QED BY <2>1, <2>2
<1>9. NumbersSound'
  <2>1. NumbersSound
    BY DEF AInv
  <2>2. \A c \in Cells : doc'[c].token = doc[c].token
    BY <1>0, <1>5 DEF CellKept
  <2> QED BY <2>1, <2>2, <1>3, <1>6 DEF NumbersSound, Quiet, RunIds
<1>10. RoutesSound'
  <2>1. RoutesSound
    BY DEF AInv
  <2>2. inflight' # 0 => inflight' = inflight
    OBVIOUS
  <2>3. Len(runs') = Len(runs)
    BY <1>3 DEF RunIds
  <2>4. \A c \in Cells : active'[c] \in {active[c], 0}
    BY <1>0, <1>5 DEF CellKept
  <2>5. RunIds' = RunIds
    BY <1>3, <2>3
  <2>6. inflight' # 0 => active'[runs'[inflight'].cell] \in {0, inflight'}
    BY <2>1, <2>2, <2>4, <1>3, <1>6 DEF RoutesSound
  <2> QED BY <2>1, <2>2, <2>3, <2>5, <2>6 DEF RoutesSound
<1>11. TouchedSound'
  <2>1. \A c \in touched : c \in Cells /\ ~Owned(U, c)
    BY DEF AInv, TouchedSound, AreasTypeOK, U
  <2> QED BY <2>1, <1>4 DEF TouchedSound, Quiet, V
<1>12. Stays
  <2>1. \A c \in touched : c \in Cells /\ ~Owned(U, c)
    BY DEF AInv, TouchedSound, AreasTypeOK, U
  <2> QED BY <2>1, <1>0, <1>5 DEF Stays, CellKept
<1> QED BY <1>7, <1>8, <1>9, <1>10, <1>11, <1>12 DEF AInv

\* Append adds its element to the set.
LEMMA AppendSet ==
  ASSUME NEW T, NEW s \in Seq(T), NEW x
  PROVE  ToSet(Append(s, x)) = ToSet(s) \cup {x}
<1> DEFINE y == Append(s, x)
<1>1. DOMAIN y = 1..(Len(s) + 1) /\ DOMAIN s = 1..Len(s) /\ Len(s) \in Nat
  OBVIOUS
<1>2. (\A i \in 1..Len(s) : y[i] = s[i]) /\ y[Len(s) + 1] = x
  OBVIOUS
<1> HIDE DEF y
<1>3. 1..(Len(s) + 1) = 1..Len(s) \cup {Len(s) + 1}
  BY <1>1
<1>4. ToSet(y) = ToSet(s) \cup {x}
  BY <1>1, <1>2, <1>3 DEF ToSet
<1> QED BY <1>4 DEF y

\* Room for one more in a table of a bounded length: its newest elements stay.
LEMMA NewestFacts ==
  ASSUME NEW T, NEW s \in Seq(T), NEW limit \in Nat \ {0}, NEW kept,
         kept = IF Len(s) >= limit THEN SubSeq(s, Len(s) - limit + 2, Len(s)) ELSE s
  PROVE  kept \in Seq(T) /\ ToSet(kept) \subseteq ToSet(s) /\ Len(kept) <= limit - 1
<1>1. Len(s) \in Nat /\ DOMAIN s = 1..Len(s)
  OBVIOUS
<1>2. CASE Len(s) >= limit
  <2> DEFINE m == Len(s) - limit + 2
             n == Len(s)
  <2>1. m \in 1..(n + 1) /\ n \in 0..n /\ kept = SubSeq(s, m, n) /\ n - m + 1 = limit - 1
    BY <1>1, <1>2
  <2> HIDE DEF m, n
  <2>2. /\ kept \in Seq(T) /\ Len(kept) = limit - 1
        /\ \A i \in 1..Len(kept) : kept[i] \in ToSet(s)
    <3>1. CASE m <= n
      <4>1. m \in 1..n /\ n \in 1..n /\ \A i \in m..n : i \in DOMAIN s
        BY <2>1, <3>1, <1>1 DEF n
      <4>2. kept \in Seq(T) /\ Len(kept) = n - m + 1
        BY <2>1, <4>1, <1>1 DEF n
      <4>3. \A i \in 1..(n - m + 1) : kept[i] = s[m + i - 1]
        <5>1. m \in Int /\ n \in Int /\ \A i \in m..n : s[i] \in T
          BY <4>1, <1>1 DEF n
        <5>2. \A i \in 1..(n - m + 1) : SubSeq(s, m, n)[i] = s[m + i - 1]
          BY ONLY <5>1, SubSeqProperties
        <5> QED BY <5>2, <2>1
      <4>4. \A i \in 1..(n - m + 1) : m + i - 1 \in DOMAIN s
        BY <2>1, <4>1, <1>1 DEF n
      <4> QED BY <4>2, <4>3, <4>4, <2>1 DEF ToSet
    <3>2. CASE ~(m <= n)
      <4>1. n - m + 1 = 0
        BY <3>2, <2>1, <1>1 DEF n
      <4>2. kept = << >>
        BY <4>1, <2>1, <1>1 DEF n
      <4> QED BY <4>1, <4>2, <2>1
    <3> QED BY <3>1, <3>2
  <2>3. DOMAIN kept = 1..Len(kept)
    BY <2>2
  <2>4. ToSet(kept) \subseteq ToSet(s)
    BY <2>2, <2>3 DEF ToSet
  <2> QED BY <2>2, <2>4
<1>3. CASE ~(Len(s) >= limit)
  BY <1>1, <1>3
<1> QED BY <1>2, <1>3

\* keepLateRoute.
LEMMA LateRoutes ==
  ASSUME AInv, NEW V, NEW r \in RunIds, KeepLateRoute(V, r)
  PROVE  /\ late' \in Seq(Nat) /\ routes' = ToSet(late') /\ routes' \subseteq RunIds
         /\ Len(late') <= LateRouteLimit
<1> DEFINE fresh == Keep(late, {a \in ToSet(late) : CellFor(V, a)})
           kept == IF Len(fresh) >= LateRouteLimit
                   THEN SubSeq(fresh, Len(fresh) - LateRouteLimit + 2, Len(fresh)) ELSE fresh
<1>1. late \in Seq(Nat) /\ ToSet(late) \subseteq RunIds
  BY DEF AInv, AreasTypeOK, RoutesSound
<1>2. fresh \in Seq(Nat) /\ ToSet(fresh) \subseteq ToSet(late)
  <2>1. /\ fresh \in Seq(Nat)
        /\ ToSet(fresh) = ToSet(late) \cap {a \in ToSet(late) : CellFor(V, a)}
    BY <1>1, KeepFacts
  <2> HIDE DEF fresh
  <2> QED BY <2>1
<1>3. late' = Append(kept, r) /\ routes' = ToSet(kept) \cup {r}
  BY DEF KeepLateRoute
<1> HIDE DEF fresh
<1>4. LateRouteLimit \in Nat \ {0}
  BY AreasAssumption
<1>5. kept \in Seq(Nat) /\ ToSet(kept) \subseteq ToSet(fresh) /\ Len(kept) <= LateRouteLimit - 1
  BY <1>2, <1>4, NewestFacts
<1> HIDE DEF kept
<1>6. r \in Nat
  BY DEF AInv, Base, WorldType, World, RunIds
<1>7. ToSet(late') = ToSet(kept) \cup {r}
  BY <1>3, <1>5, AppendSet
<1>8. late' \in Seq(Nat) /\ Len(late') = Len(kept) + 1
  BY <1>3, <1>5, <1>6
<1>9. Len(late') <= LateRouteLimit
  <2>1. Len(kept) \in Nat
    BY <1>5
  <2> QED BY <2>1, <1>4, <1>5, <1>8
<1> QED BY <1>1, <1>2, <1>3, <1>5, <1>7, <1>8, <1>9

\* What holds of every run before a step.
LEMMA RunsTyped ==
  ASSUME AInv
  PROVE  /\ World \in WorldType /\ DOMAIN World.runs = RunIds /\ RunIds = 1..Len(runs)
         /\ Len(runs) \in Nat /\ 0 \notin RunIds /\ RunIds \subseteq Nat
         /\ \A r \in RunIds : runs[r] \in RunType /\ runs[r].cell \in Cells
         /\ World.doc = doc /\ World.active = active /\ World.runs = runs /\ World.areas = areas
         /\ World.table = table /\ runs \in Seq(RunType) /\ table \in TableType
         /\ areas \in Seq(Nat) /\ doc \in [Cells -> CellType] /\ active \in [Cells -> Nat]
<1>1. World \in WorldType
  BY DEF AInv, Base
<1>2. /\ World.doc = doc /\ World.active = active /\ World.runs = runs /\ World.areas = areas
      /\ World.table = table
  BY DEF World
<1> QED BY <1>1, <1>2, WorldTyped DEF RunIds

\* A world in which the run in flight may be settled.
MaySettle(W, r, state) ==
  /\ r \in RunIds /\ inflight = r
  /\ Base(W) /\ Moved(World, W, r) /\ Recorded(W)
  /\ state \in CompletedStates \cup {"unknown"}
  /\ W.runs[r].red.completed => W.runs[r].red.reply /\ W.runs[r].red.idle
  /\ state \in CompletedStates => W.runs[r].red.completed

\* Its end is recorded, and the watcher writes it to the document.
LEMMA SettleKeeps ==
  ASSUME AInv, NEW r, NEW W, NEW state, MaySettle(W, r, state),
         NEW V, V = FinishCompletedCells([W EXCEPT !.runs[r].state = state], r)
  PROVE  /\ Base(V) /\ Moved(World, V, r) /\ Recorded(V) /\ Settled(V)
         /\ CellFor(V, r) => /\ V.doc[V.runs[r].cell].state = "idle"
                             /\ V.doc[V.runs[r].cell].count = V.runs[r].red.count
<1>0. /\ r \in RunIds /\ inflight = r
      /\ Base(W) /\ Moved(World, W, r) /\ Recorded(W)
      /\ state \in CompletedStates \cup {"unknown"}
      /\ W.runs[r].red.completed => W.runs[r].red.reply /\ W.runs[r].red.idle
      /\ state \in CompletedStates => W.runs[r].red.completed
  BY DEF MaySettle
<1> USE <1>0
<1> DEFINE R == [W.runs[r] EXCEPT !.state = state]
           rs == [W.runs EXCEPT ![r] = R]
           Z == [W EXCEPT !.runs[r].state = state]
<1>1. /\ W \in WorldType /\ DOMAIN W.runs = RunIds /\ W.runs[r] \in RunType
      /\ W.areas \in Seq(Nat) /\ Len(W.areas) \in Nat /\ W.table \in TableType
      /\ W.runs[r].cell \in Cells /\ r # 0
      /\ W = [doc |-> W.doc, active |-> W.active, runs |-> W.runs, areas |-> W.areas,
              table |-> W.table]
  <2>1. W \in WorldType
    BY DEF Base
  <2>2. DOMAIN W.runs = RunIds
    BY RunsTyped DEF Moved
  <2> QED BY <2>1, <2>2, WorldTyped, RunsTyped
<1>2. Z = [doc |-> W.doc, active |-> W.active, runs |-> rs, areas |-> W.areas, table |-> W.table]
  <2>1. [W.runs EXCEPT ![r].state = state] = rs
    OBVIOUS
  <2> HIDE DEF rs
  <2>2. Z = [doc |-> W.doc, active |-> W.active, runs |-> [W.runs EXCEPT ![r].state = state],
             areas |-> W.areas, table |-> W.table]
    <3>1. Z = [W EXCEPT !.runs = [W.runs EXCEPT ![r].state = state]]
      OBVIOUS
    <3> HIDE DEF Z
    <3> QED BY <3>1, <1>1
  <2> QED BY <2>1, <2>2
<1>3. /\ R \in RunType /\ R.cell = W.runs[r].cell /\ R.token = W.runs[r].token
      /\ R.generation = W.runs[r].generation /\ R.red = W.runs[r].red
      /\ R.expected = W.runs[r].expected /\ R.memory = W.runs[r].memory
      /\ R.lost = W.runs[r].lost /\ R.state = state
  BY <1>1 DEF RunType, CompletedStates
<1> HIDE DEF R, Z
<1>4. /\ Base(Z) /\ Moved(W, Z, r)
      /\ Z.runs[r] = R /\ \A s \in RunIds : s # r => Z.runs[s] = W.runs[s]
      /\ Z.doc = W.doc /\ Z.active = W.active
  <2>1. ToSet(W.areas) \subseteq ToSet(W.areas) /\ Len(W.areas) <= Len(W.areas)
    BY <1>1
  <2>2. R.red.area = W.runs[r].red.area
    BY <1>3
  <2>3. Rerun(W, r, R, W.areas, W.table, Z)
    BY <1>2 DEF rs, Rerun
  <2> QED BY <2>1, <2>2, <2>3, <1>1, <1>3, RunChanged
<1>5. DOMAIN Z.runs = RunIds
  BY <1>1, <1>4 DEF Moved
<1>6. Recorded(Z)
  BY <1>1, <1>3, <1>4, <1>5 DEF Recorded, RunRecorded
<1>7. Z.active[Z.runs[r].cell] \in {0, r}
  <2>1. active[runs[r].cell] \in {0, r}
    BY RunsTyped DEF AInv, RoutesSound
  <2>2. Z.runs[r].cell = runs[r].cell /\ runs[r].cell \in Cells /\ World.active = active
    BY <1>3, <1>4, RunsTyped DEF Moved
  <2>3. W.active[runs[r].cell] \in {active[runs[r].cell], 0}
    BY <2>2 DEF Moved, CellKept
  <2> QED BY <2>1, <2>2, <2>3, <1>4
<1>8. /\ Base(V) /\ Kept(Z, V, r, FALSE)
      /\ \A x \in RunIds : V.runs[x].red = Z.runs[x].red
      /\ Recorded(V)
      /\ CellFor(V, r) => /\ V.doc[V.runs[r].cell].state = "idle"
                          /\ V.doc[V.runs[r].cell].count = V.runs[r].red.count
  <2>1. Z.runs[r].state \in CompletedStates \cup {"unknown"}
    BY <1>3, <1>4
  <2>2. V = FinishCompletedCells(Z, r)
    BY DEF Z
  <2>3. Base(Z) /\ r \in DOMAIN Z.runs
    BY <1>4, <1>5
  <2>4. /\ Base(V) /\ Kept(Z, V, r, FALSE)
        /\ \A x \in DOMAIN Z.runs : V.runs[x].red = Z.runs[x].red
        /\ Recorded(Z) => Recorded(V)
        /\ CellFor(V, r) => /\ V.doc[V.runs[r].cell].state = "idle"
                            /\ V.doc[V.runs[r].cell].count = V.runs[r].red.count
    BY ONLY <2>1, <2>2, <2>3, <1>7, FinishKeeps, ZenonT(40)
  <2> QED BY <2>4, <1>5, <1>6
<1>11. Moved(World, V, r)
  <2>1. Moved(Z, V, r)
    BY <1>8, KeptMoved
  <2>2. Base(World)
    BY DEF AInv
  <2>3. Moved(World, Z, r)
    BY <2>2, <1>1, <1>4, MovedTransitive
  <2> QED BY <2>1, <2>2, <2>3, <1>1, <1>4, <1>8, MovedTransitive
<1>12. V.runs[r].state = state /\ V.runs[r].red = W.runs[r].red
       /\ \A s \in RunIds : s # r => SameRun(runs[s], V.runs[s])
  <2>1. V.runs[r].state = R.state
    BY <1>4, <1>5, <1>8 DEF Kept, SameRun
  <2>2. V.runs[r].red = W.runs[r].red
    BY <1>3, <1>4, <1>8
  <2>3. \A s \in RunIds : s # r => SameRun(runs[s], V.runs[s])
    BY <1>11, RunsTyped DEF Moved
  <2> QED BY <2>1, <2>2, <2>3, <1>3
<1>13. Settled(V)
  <2>1. DOMAIN V.runs = RunIds
    BY <1>5, <1>8 DEF Kept
  <2>2. \A s \in RunIds : /\ runs[s].state \in CompletedStates => runs[s].red.completed
                          /\ runs[s].red.completed => runs[s].red.reply /\ runs[s].red.idle
    BY RunsTyped DEF AInv, Settled
  <2> QED BY <2>1, <2>2, <1>12 DEF Settled, SameRun
<1> QED BY <1>8, <1>11, <1>13

\* And its route is closed, or kept for late output.
LEMMA SettleInv ==
  ASSUME AInv, NEW r, NEW W, NEW state, MaySettle(W, r, state), NEW completed,
         Settle(W, r, state, completed), Quiet
  PROVE  AInv' /\ Stays
<1> DEFINE V == FinishCompletedCells([W EXCEPT !.runs[r].state = state], r)
<1>1. r \in RunIds /\ inflight = r /\ r # 0
  BY RunsTyped DEF MaySettle
<1>8. /\ Base(V) /\ Moved(World, V, r) /\ Recorded(V) /\ Settled(V)
      /\ CellFor(V, r) => /\ V.doc[V.runs[r].cell].state = "idle"
                          /\ V.doc[V.runs[r].cell].count = V.runs[r].red.count
  BY SettleKeeps
<1>9. /\ Becomes(V) /\ inflight' = 0
      /\ IF completed /\ CellFor(V, r) THEN KeepLateRoute(V, r)
         ELSE UNCHANGED late /\ routes' = routes \ {r}
  BY DEF Settle
<1> HIDE DEF V
<1>10. World' = V /\ runs' = V.runs /\ doc' = V.doc
  <2>1. V = [doc |-> V.doc, active |-> V.active, runs |-> V.runs, areas |-> V.areas,
             table |-> V.table]
    BY <1>8, WorldTyped DEF Base
  <2> QED BY <2>1, <1>9 DEF Becomes, World
<1>14. Current(r)' =>
         LET cell == doc'[runs'[r].cell]
         IN  /\ cell.state = "running" => inflight' = r \/ runs'[r].state = "not_sent"
             /\ runs'[r].state \in CompletedStates => cell.state = "idle" /\ cell.count = runs'[r].red.count
  <2>1. Current(r)' => CellFor(V, r)
    BY <1>10 DEF Current
  <2> QED BY <2>1, <1>8, <1>10
<1>15. /\ routes' \subseteq Nat /\ late' \in Seq(Nat) /\ routes' = ToSet(late')
       /\ ToSet(late') \subseteq RunIds /\ Len(late') <= LateRouteLimit
  <2>1. CASE completed /\ CellFor(V, r)
    BY <2>1, <1>1, <1>9, LateRoutes, RunsTyped
  <2>2. CASE ~(completed /\ CellFor(V, r))
    <3>1. RoutesSound /\ late \in Seq(Nat)
      BY DEF AInv, AreasTypeOK
    <3>2. late' = late /\ routes' = routes \ {r}
      BY <2>2, <1>9
    <3>3. routes = ToSet(late) \cup {r} /\ r \notin ToSet(late)
      BY <3>1, <1>1 DEF RoutesSound
    <3>4. routes' = ToSet(late)
      BY <3>2, <3>3
    <3> QED BY <3>1, <3>2, <3>4, RunsTyped DEF RoutesSound
  <2> QED BY <2>1, <2>2
<1>16. /\ Base(World') /\ Moved(World, World', r) /\ Recorded(World') /\ Settled(World')
       /\ inflight' \in {inflight, 0} /\ inflight' # inflight => inflight = r
       /\ routes' = ToSet(late') \cup ({inflight'} \ {0}) /\ inflight' \notin ToSet(late')
  BY <1>1, <1>8, <1>9, <1>10, <1>15, RunsTyped
<1> QED BY <1>1, <1>14, <1>15, <1>16, MovedInv

\* A routed message: to the run in flight, or to one that is finished.
LEMMA ConsumeInv ==
  ASSUME AInv, NEW r \in routes, NEW msg \in Outputs \cup Evidence,
         msg.type \in {"execute_input", "execute_reply"} => ~runs[r].red.completed,
         Consume(r, msg), Quiet
  PROVE  AInv' /\ Stays
<1>1. r \in RunIds /\ r \in Nat /\ r # 0
  BY RunsTyped DEF AInv, RoutesSound
<1> DEFINE old == runs[r].red
           fed == FeedReducer(old, table, msg, r)
           R == [runs[r] EXCEPT !.red = fed.red]
           start == [World EXCEPT !.runs[r].red = fed.red, !.table = fed.table]
           V == Applied(r, fed)
<1>2. old \in ReducerType /\ old.area = AreaOf(World, r) /\ RunRecorded(World, r)
      /\ (old.completed => old.reply /\ old.idle) /\ (runs[r].state \in CompletedStates => old.completed)
  <2>1. old \in ReducerType
    BY <1>1, RunsTyped DEF RunType
  <2>2. old.area = AreaOf(World, r)
    BY <1>1, RunsTyped DEF AInv, Base, KeysSound
  <2> QED BY <2>1, <2>2, <1>1, RunsTyped DEF AInv, Recorded, Settled
<1>3. Fed(fed, old)
  BY <1>1, <1>2, RunsTyped, FeedFed
<1> HIDE DEF fed
<1>4. /\ fed.red \in ReducerType /\ fed.table \in TableType /\ fed.effects \in Seq(EffectType)
      /\ \A n \in DOMAIN fed.effects : EffectOk(fed.effects[n], old)
      /\ fed.red.area = old.area
      /\ fed.red.completed => fed.red.reply /\ fed.red.idle
      /\ old.completed => fed.red.completed /\ fed.red.count = old.count
  BY <1>3 DEF Fed, FedType, RecordOk
<1>5. PICK O : Trail(O, fed.effects, old.area, old.outputs, fed.red.outputs)
  BY <1>3 DEF Fed
<1>6. /\ R \in RunType /\ R.cell = runs[r].cell /\ R.token = runs[r].token
      /\ R.generation = runs[r].generation /\ R.red = fed.red /\ R.state = runs[r].state
      /\ R.expected = runs[r].expected /\ R.memory = runs[r].memory /\ R.lost = runs[r].lost
  <2>1. runs[r] \in RunType
    BY <1>1, RunsTyped
  <2> QED BY <2>1, <1>4 DEF RunType
<1>7. Rerun(World, r, R, areas, fed.table, start)
  <2> DEFINE rs == [runs EXCEPT ![r] = R]
             w1 == [World EXCEPT !.runs[r].red = fed.red]
  <2>1. [runs EXCEPT ![r].red = fed.red] = rs
    OBVIOUS
  <2> HIDE DEF rs
  <2>2. w1 = [doc |-> doc, active |-> active, runs |-> [runs EXCEPT ![r].red = fed.red],
              areas |-> areas, table |-> table]
    BY DEF World
  <2>3. start = [w1 EXCEPT !.table = fed.table]
    OBVIOUS
  <2> HIDE DEF w1, start, R
  <2>4. start = [doc |-> doc, active |-> active, runs |-> rs, areas |-> areas,
                 table |-> fed.table]
    BY <2>1, <2>2, <2>3
  <2> QED BY <2>4, RunsTyped DEF Rerun, rs
<1> HIDE DEF R, start
<1>8. /\ Base(start) /\ Moved(World, start, r)
      /\ start.runs[r] = R /\ \A s \in RunIds : s # r => start.runs[s] = runs[s]
      /\ start.doc = doc /\ start.active = active
  <2>1. /\ areas \in Seq(Nat) /\ ToSet(areas) \subseteq ToSet(World.areas)
        /\ Len(areas) <= Len(World.areas)
    BY RunsTyped
  <2>2. R.red.area = World.runs[r].red.area /\ r \in DOMAIN World.runs /\ Base(World)
    BY <1>1, <1>4, <1>6, RunsTyped DEF AInv
  <2>3. /\ World.runs = runs /\ World.doc = doc /\ World.active = active /\ World.areas = areas
        /\ DOMAIN World.runs = RunIds
    BY RunsTyped
  <2>4. Base(start) /\ Moved(World, start, r)
      /\ start.runs[r] = R /\ (\A s \in DOMAIN World.runs : s # r => start.runs[s] = World.runs[s])
      /\ start.doc = World.doc /\ start.active = World.active
    BY ONLY <2>1, <2>2, <2>3, <1>4, <1>6, <1>7, RunChanged
  <2> QED BY <2>3, <2>4
<1>9. DOMAIN start.runs = RunIds /\ old.area = AreaOf(start, r) /\ start.runs[r].red = fed.red
  BY <1>1, <1>2, <1>6, <1>8, RunsTyped DEF Moved, AreaOf
<1>10. start.runs[r].lost \/ start.runs[r].expected = old.outputs
  BY <1>2, <1>6, <1>8, RunsTyped DEF RunRecorded
<1>11. \A s \in DOMAIN start.runs : s # r => RunRecorded(start, s)
  BY <1>8, <1>9, RunsTyped DEF AInv, Recorded, RunRecorded
<1>12. V = AllApplied(start, r, fed.effects)
  BY DEF Applied, AllApplied, start
<1> HIDE DEF V
<1>13. Base(V) /\ Kept(start, V, r, old.completed) /\ V.runs[r].red = fed.red /\ Recorded(V)
  <2>1. Base(start) /\ r \in DOMAIN start.runs
    BY <1>1, <1>8, <1>9
  <2>2. Effective(start, r, old, fed.effects, O)
    BY <2>1, <1>4, <1>5, <1>9, <1>10, <1>11 DEF Effective
  <2> HIDE DEF old
  <2> QED BY ONLY <2>2, <1>9, <1>12, EffectsKeep
<1>14. Moved(World, V, r)
  <2>1. Base(World) /\ r # 0
    BY <1>1, RunsTyped DEF AInv
  <2>2. Moved(start, V, r)
    BY <1>13, KeptMoved
  <2> QED BY <2>1, <2>2, <1>8, <1>13, MovedTransitive
<1>15. IF inflight = r /\ fed.red.completed THEN Settle(V, r, Outcome(fed.red), TRUE)
       ELSE /\ Becomes(V)
            /\ UNCHANGED inflight
            /\ IF fed.red.completed /\ ~CellFor(V, r)
               THEN routes' = routes \ {r} /\ late' = Keep(late, ToSet(late) \ {r})
               ELSE UNCHANGED <<routes, late>>
  BY DEF Consume, fed, V
<1>16. CASE inflight = r /\ fed.red.completed
  <2>1. Outcome(fed.red) \in CompletedStates
    BY DEF Outcome, CompletedStates
  <2>2. MaySettle(V, r, Outcome(fed.red))
    BY <2>1, <1>1, <1>4, <1>13, <1>14, <1>16 DEF MaySettle
  <2> QED BY <2>2, <1>15, <1>16, SettleInv
<1>17. CASE ~(inflight = r /\ fed.red.completed)
  <2>1. World' = V /\ runs' = V.runs /\ doc' = V.doc /\ inflight' = inflight
    <3>1. V = [doc |-> V.doc, active |-> V.active, runs |-> V.runs, areas |-> V.areas,
               table |-> V.table]
      BY <1>13, WorldTyped DEF Base
    <3> QED BY <3>1, <1>15, <1>17 DEF Becomes, World
  <2>2. V.runs[r].state = runs[r].state /\ \A s \in RunIds : s # r => SameRun(runs[s], V.runs[s])
    BY <1>1, <1>6, <1>8, <1>9, <1>13, <1>14, RunsTyped DEF Kept, SameRun, Moved
  <2>3. DOMAIN V.runs = RunIds
    BY <1>14, RunsTyped DEF Moved
  <2>4. Settled(V)
    <3>1. \A s \in RunIds : /\ runs[s].state \in CompletedStates => runs[s].red.completed
                            /\ runs[s].red.completed => runs[s].red.reply /\ runs[s].red.idle
      BY RunsTyped DEF AInv, Settled
    <3>2. ASSUME NEW s \in RunIds
          PROVE  /\ V.runs[s].state \in CompletedStates => V.runs[s].red.completed
                 /\ V.runs[s].red.completed => V.runs[s].red.reply /\ V.runs[s].red.idle
      <4>1. CASE s # r
        BY <4>1, <3>1, <2>2 DEF SameRun
      <4>2. CASE s = r
        BY <4>2, <2>2, <1>2, <1>4, <1>13
      <4> QED BY <4>1, <4>2
    <3> QED BY <3>2, <2>3 DEF Settled
  <2>5. Current(r)' =>
          LET cell == doc'[runs'[r].cell]
          IN  /\ cell.state = "running" => inflight' = r \/ runs'[r].state = "not_sent"
              /\ runs'[r].state \in CompletedStates =>
                   cell.state = "idle" /\ cell.count = runs'[r].red.count
    <3> HAVE Current(r)'
    <3>1. CellFor(V, r)
      BY <2>1 DEF Current
    <3>2. CellFor(World, r)
      <4>1. Base(World)
        BY DEF AInv
      <4> QED BY <4>1, <3>1, <1>1, <1>13, <1>14, RunsTyped, OwnerMoved
    <3> DEFINE c == runs[r].cell
    <3>3. c \in Cells /\ V.runs[r].cell = c
      BY <1>1, <1>14, RunsTyped DEF Moved
    <3>4. /\ doc[c].state = "running" => inflight = r \/ runs[r].state = "not_sent"
          /\ runs[r].state \in CompletedStates => doc[c].state = "idle" /\ doc[c].count = old.count
      BY <3>2, <1>1, RunsTyped DEF AInv, Prompts
    <3>5. /\ V.doc[c].state \in {doc[c].state, "idle"}
          /\ old.completed => V.doc[c].count = doc[c].count /\ V.doc[c].state = doc[c].state
      BY <3>3, <1>8, <1>13 DEF Kept, CellKept
    <3> QED BY <3>3, <3>4, <3>5, <2>1, <2>2, <1>2, <1>4, <1>13
  <2>6. /\ late' \in Seq(Nat) /\ routes' = ToSet(late') \cup ({inflight} \ {0})
        /\ ToSet(late') \subseteq ToSet(late) /\ Len(late') <= LateRouteLimit
    <3>1. RoutesSound /\ late \in Seq(Nat)
      BY DEF AInv, AreasTypeOK
    <3>2. CASE UNCHANGED <<routes, late>>
      BY <3>1, <3>2 DEF RoutesSound
    <3>3. CASE /\ fed.red.completed
               /\ routes' = routes \ {r} /\ late' = Keep(late, ToSet(late) \ {r})
      <4>1. inflight # r
        BY <1>17, <3>3
      <4>2. /\ late' \in Seq(Nat) /\ ToSet(late') = ToSet(late) \cap (ToSet(late) \ {r})
            /\ Len(late') <= Len(late)
        BY <3>1, <3>3, KeepFacts
      <4>3. Len(late') \in Nat /\ Len(late) \in Nat /\ LateRouteLimit \in Nat
        BY <4>2, <3>1, AreasAssumption
      <4>4. Len(late') <= LateRouteLimit
        BY <4>2, <4>3, <3>1 DEF RoutesSound
      <4>5. routes' = ToSet(late') \cup ({inflight} \ {0})
        BY <4>1, <4>2, <3>1, <3>3 DEF RoutesSound
      <4> QED BY <4>2, <4>4, <4>5
    <3> QED BY <3>2, <3>3, <1>15, <1>17
  <2>7. /\ Base(World') /\ Moved(World, World', r) /\ Recorded(World') /\ Settled(World')
        /\ inflight' \in {inflight, 0} /\ (inflight' # inflight => inflight = r)
        /\ routes' \subseteq Nat /\ routes' = ToSet(late') \cup ({inflight'} \ {0})
        /\ ToSet(late') \subseteq RunIds /\ inflight' \notin ToSet(late')
    <3>1. /\ RoutesSound /\ inflight \in Nat
      BY DEF AInv, AreasTypeOK
    <3> QED BY <3>1, <2>1, <2>4, <2>6, <1>13, <1>14, RunsTyped DEF RoutesSound
  <2> QED BY <2>5, <2>6, <2>7, <1>1, MovedInv
<1> QED BY <1>16, <1>17

\* KernelOutput.
LEMMA KernelOutputInv ==
  ASSUME AInv, NEW r \in routes, NEW msg \in Outputs, KernelOutput(r, msg)
  PROVE  AInv' /\ Stays
<1>1. Consume(r, msg) /\ Quiet
  BY DEF KernelOutput, Quiet
<1>2. msg \in Outputs \cup Evidence /\ msg.type \notin {"execute_input", "execute_reply"}
  BY DEF Outputs
<1> QED BY <1>1, <1>2, ConsumeInv

\* KernelEvidence.
LEMMA KernelEvidenceInv ==
  ASSUME AInv, NEW r \in routes, NEW msg \in Evidence, KernelEvidence(r, msg)
  PROVE  AInv' /\ Stays
<1>1. Consume(r, msg) /\ Quiet
  BY DEF KernelEvidence, Quiet
<1>2. msg \in Outputs \cup Evidence
  OBVIOUS
<1>3. r \in RunIds /\ (runs[r].red.completed => runs[r].red.reply /\ runs[r].red.idle)
  BY RunsTyped DEF AInv, Settled, RoutesSound
<1>4. msg.type \in {"execute_input", "execute_reply"} => ~runs[r].red.completed
  <2>1. CASE msg.type = "execute_input"
    <3>1. runs[r].red = NewReducer(runs[r].red.area)
      BY <2>1 DEF KernelEvidence
    <3>2. ~NewReducer(runs[r].red.area).completed
      BY DEF NewReducer
    <3> QED BY <3>1, <3>2
  <2>2. CASE msg.type = "execute_reply"
    BY <2>2, <1>3 DEF KernelEvidence
  <2> QED BY <2>1, <2>2
<1> QED BY <1>1, <1>2, <1>4, ConsumeInv

\* ChannelLost: the run in flight is of unknown outcome.
LEMMA ChannelLostInv ==
  ASSUME AInv, ChannelLost
  PROVE  AInv' /\ Stays
<1>1. Settle(World, inflight, "unknown", FALSE) /\ Quiet /\ inflight # 0
  BY DEF ChannelLost, Quiet
<1>2. MaySettle(World, inflight, "unknown")
  <2>1. inflight \in RunIds /\ Base(World) /\ Recorded(World)
    BY <1>1 DEF AInv, RoutesSound
  <2>2. Moved(World, World, inflight)
    BY <2>1, KeptSelf, KeptMoved
  <2>3. runs[inflight].red.completed => runs[inflight].red.reply /\ runs[inflight].red.idle
    BY <2>1, RunsTyped DEF AInv, Settled
  <2> QED BY <2>1, <2>2, <2>3, RunsTyped DEF MaySettle, CompletedStates
<1> QED BY <1>1, <1>2, SettleInv

\* The kernel's tables are emptied, whoever runs.
LEMMA TablesEmptied ==
  ASSUME NEW U, Base(U), NEW r,
         NEW V, V = [U EXCEPT !.areas = << >>, !.table = << >>]
  PROVE  Base(V) /\ Kept(U, V, r, TRUE) /\ V.runs = U.runs /\ V.doc = U.doc
<1>1. /\ U \in WorldType /\ SinksSound(U) /\ KeysSound(U) /\ Remembered(U)
      /\ U.doc \in [Cells -> CellType] /\ U.active \in [Cells -> Nat] /\ Len(U.areas) \in Nat
      /\ U.runs \in Seq(RunType)
      /\ U = [doc |-> U.doc, active |-> U.active, runs |-> U.runs, areas |-> U.areas,
              table |-> U.table]
  <2>1. U \in WorldType /\ SinksSound(U) /\ KeysSound(U) /\ Remembered(U)
    BY DEF Base
  <2> QED BY <2>1, WorldTyped
<1>2. V = [doc |-> U.doc, active |-> U.active, runs |-> U.runs, areas |-> << >>, table |-> << >>]
  BY <1>1
<1>3. << >> \in Seq(Nat) /\ << >> \in TableType /\ ToSet(<< >>) = {} /\ Len(<< >>) = 0
  BY DEF TableType, ToSet
<1>4. V \in WorldType
  BY ONLY <1>1, <1>2, <1>3, WorldMade
<1>5. V.doc = U.doc /\ V.active = U.active /\ V.runs = U.runs /\ V.areas = << >>
  BY <1>2
<1>6. \A s : (CellFor(V, s) <=> CellFor(U, s)) /\ AreaOf(V, s) = AreaOf(U, s)
  BY <1>5 DEF CellFor, AreaOf
<1>7. SinksSound(V) /\ Remembered(V)
  BY <1>1, <1>5, <1>6 DEF SinksSound, Remembered
<1>8. KeysSound(V)
  <2>1. 0 <= AreaLimit
    BY AreasAssumption
  <2>2. ToSet(V.areas) \subseteq DOMAIN V.runs /\ Len(V.areas) <= AreaLimit
    BY <2>1, <1>3, <1>5
  <2>3. \A s \in DOMAIN V.runs : V.runs[s].red.area = AreaOf(V, s)
    BY <1>1, <1>5, <1>6 DEF KeysSound
  <2>4. \A s, x \in DOMAIN V.runs : AreaOf(V, s) = AreaOf(V, x) => s = x
    BY <1>1, <1>5, <1>6 DEF KeysSound
  <2> QED BY <2>2, <2>3, <2>4 DEF KeysSound
<1>9. Kept(U, V, r, TRUE)
  <2>1. \A c \in Cells : CellKept(U, V, r, TRUE, c)
    BY <1>5 DEF CellKept
  <2>2. \A s \in DOMAIN U.runs : SameRun(U.runs[s], V.runs[s])
    BY <1>5 DEF SameRun
  <2>3. ToSet(V.areas) \subseteq ToSet(U.areas) /\ Len(V.areas) <= Len(U.areas)
    BY <1>1, <1>3, <1>5
  <2> QED BY <2>1, <2>2, <2>3, <1>5 DEF Kept
<1> QED BY <1>4, <1>5, <1>7, <1>8, <1>9 DEF Base

\* KernelChanged: it ends the run in flight, after the tables are emptied.
LEMMA KernelChangedInv ==
  ASSUME AInv, KernelChanged
  PROVE  AInv' /\ Stays
<1> DEFINE W == [World EXCEPT !.areas = << >>, !.table = << >>]
           V == IF inflight = 0 THEN W
                ELSE FinishCompletedCells([W EXCEPT !.runs[inflight].state = "unknown"], inflight)
<1>0. PICK r : r = IF inflight = 0 THEN Len(runs) + 1 ELSE inflight
  OBVIOUS
<1>1. Becomes(V) /\ late' = << >> /\ routes' = {} /\ inflight' = 0 /\ Quiet
  BY DEF KernelChanged, Quiet
<1>2. r # 0 /\ (inflight # 0 => r \in RunIds /\ r = inflight) /\ (inflight = 0 => r \notin RunIds)
  BY <1>0, RunsTyped DEF AInv, RoutesSound
<1>3. Base(World) /\ Recorded(World) /\ Settled(World)
  BY DEF AInv
<1>4. Base(W) /\ Kept(World, W, r, TRUE) /\ W.runs = runs /\ W.doc = doc
  BY <1>3, TablesEmptied, RunsTyped
<1>5. Moved(World, W, r) /\ Recorded(W) /\ Settled(W)
  BY <1>3, <1>4, KeptMoved, RunsTyped DEF Recorded, RunRecorded, Settled
<1> HIDE DEF W
<1>6. /\ Base(V) /\ Moved(World, V, r) /\ Recorded(V) /\ Settled(V)
      /\ r \in RunIds /\ CellFor(V, r) => /\ V.doc[V.runs[r].cell].state = "idle"
                                         /\ V.doc[V.runs[r].cell].count = V.runs[r].red.count
  <2>1. CASE inflight = 0
    BY <2>1, <1>2, <1>4, <1>5
  <2>2. CASE inflight # 0
    <3>1. MaySettle(W, r, "unknown")
      <4>1. runs[r].red.completed => runs[r].red.reply /\ runs[r].red.idle
        BY <2>2, <1>2, <1>3, RunsTyped DEF Settled
      <4> QED BY <4>1, <2>2, <1>2, <1>4, <1>5 DEF MaySettle, CompletedStates
    <3>2. V = FinishCompletedCells([W EXCEPT !.runs[r].state = "unknown"], r)
      BY <2>2, <1>2
    <3> HIDE DEF V
    <3> QED BY <3>1, <3>2, SettleKeeps
  <2> QED BY <2>1, <2>2
<1> HIDE DEF V
<1>7. World' = V /\ runs' = V.runs /\ doc' = V.doc
  <2>1. V = [doc |-> V.doc, active |-> V.active, runs |-> V.runs, areas |-> V.areas,
             table |-> V.table]
    BY <1>6, WorldTyped DEF Base
  <2> QED BY <2>1, <1>1 DEF Becomes, World
<1>8. r \in RunIds /\ Current(r)' =>
        LET cell == doc'[runs'[r].cell]
        IN  /\ cell.state = "running" => inflight' = r \/ runs'[r].state = "not_sent"
            /\ runs'[r].state \in CompletedStates => cell.state = "idle" /\ cell.count = runs'[r].red.count
  <2>1. Current(r)' => CellFor(V, r)
    BY <1>7 DEF Current
  <2> QED BY <2>1, <1>6, <1>7
<1>9. /\ late' \in Seq(Nat) /\ ToSet(late') = {} /\ Len(late') <= LateRouteLimit
      /\ routes' = ToSet(late') \cup ({inflight'} \ {0})
  <2>1. LateRouteLimit \in Nat
    BY AreasAssumption
  <2> QED BY <2>1, <1>1 DEF ToSet
<1>10. inflight' # inflight => inflight = r
  BY <1>1, <1>2
<1>11. Base(World') /\ Moved(World, World', r) /\ Recorded(World') /\ Settled(World')
  BY <1>6, <1>7
<1> QED BY <1>1, <1>2, <1>8, <1>9, <1>10, <1>11, MovedInv

\* begin: a new run gets the area of c, under a key that no run ever had.
LEMMA OpenInv ==
  ASSUME AInv, NEW c \in Cells, CanBegin(c), NEW state,
         Becomes(OpenGeneration(c, state)),
         counter' = [counter EXCEPT ![c] = Generation(c)], touched' = touched \ {c},
         tokens' = tokens, late' = late,
         \/ /\ state = "sent" /\ inflight' = Len(runs) + 1
            /\ routes' = routes \cup {Len(runs) + 1}
         \/ state = "not_sent" /\ inflight' = inflight /\ routes' = routes
  PROVE  AInv' /\ Stays
<1> DEFINE r == Len(runs) + 1
           cell == [doc[c] EXCEPT !.outputs = << >>, !.count = 0, !.state = "running"]
           area == [cell |-> c, token |-> cell.token, generation |-> Generation(c)]
           run == [cell |-> c, token |-> cell.token, generation |-> Generation(c), state |-> state,
                   red |-> NewReducer(area), expected |-> << >>, memory |-> <<0, "running">>,
                   lost |-> FALSE]
           d == [doc EXCEPT ![c] = cell]
           a == [active EXCEPT ![c] = r]
           rs == Append(runs, run)
           Z == [doc |-> d, active |-> a, runs |-> rs, areas |-> areas, table |-> table]
           live == Keep(areas, {x \in ToSet(areas) : CellFor(Z, x)})
           kept == IF Len(live) >= AreaLimit THEN SubSeq(live, Len(live) - AreaLimit + 2, Len(live))
                   ELSE live
           V == [doc |-> d, active |-> a, runs |-> rs, areas |-> Append(kept, r), table |-> table]
<1>1. OpenGeneration(c, state) = V
  <2>1. [World EXCEPT !.doc[c] = cell, !.active[c] = r, !.runs = Append(@, run)] = Z
    <3> DEFINE w1 == [World EXCEPT !.doc[c] = cell]
               w2 == [w1 EXCEPT !.active[c] = r]
    <3>1. w1 = [doc |-> d, active |-> active, runs |-> runs, areas |-> areas, table |-> table]
      <4> HIDE DEF cell
      <4> QED BY DEF World
    <3>2. [World EXCEPT !.doc[c] = cell, !.active[c] = r, !.runs = Append(@, run)]
            = [w2 EXCEPT !.runs = Append(@, run)]
      OBVIOUS
    <3> HIDE DEF cell, r, run, w1, d
    <3>3. w2 = [doc |-> d, active |-> a, runs |-> runs, areas |-> areas, table |-> table]
      BY <3>1
    <3> HIDE DEF w2, a
    <3>4. [w2 EXCEPT !.runs = Append(@, run)]
            = [doc |-> d, active |-> a, runs |-> Append(runs, run), areas |-> areas, table |-> table]
      BY <3>3
    <3> QED BY <3>2, <3>4
  <2>2. OpenGeneration(c, state)
          = RememberArea([World EXCEPT !.doc[c] = cell, !.active[c] = r, !.runs = Append(@, run)], r)
    BY DEF OpenGeneration
  <2>3. Z.areas = areas
    OBVIOUS
  <2>4. RememberArea(Z, r) = [Z EXCEPT !.areas = Append(kept, r)]
    <3> HIDE DEF Z, r
    <3> QED BY <2>3 DEF RememberArea
  <2>5. [Z EXCEPT !.areas = Append(kept, r)] = V
    <3> DEFINE B == Append(kept, r)
    <3> HIDE DEF B, d, a, rs
    <3>1. [Z EXCEPT !.areas = B] = [doc |-> d, active |-> a, runs |-> rs, areas |-> B, table |-> table]
      OBVIOUS
    <3> QED BY <3>1 DEF B
  <2> HIDE DEF Z, V, kept, r
  <2> QED BY <2>1, <2>2, <2>4, <2>5
<1>2. /\ Base(World) /\ Recorded(World) /\ Settled(World) /\ Prompts(World, inflight)
      /\ NumbersSound /\ RoutesSound /\ TouchedSound /\ AreasTypeOK
  BY DEF AInv
<1>3. /\ inflight = 0 /\ doc[c] # Absent /\ doc[c].token # 0 /\ doc[c].token \in Nat
      /\ doc[c] \in CellType /\ Generation(c) \in Nat /\ Generation(c) = counter[c] + 1
      /\ counter \in [Cells -> Nat] /\ tokens \in Nat
      /\ counter' \in [Cells -> Nat] /\ counter'[c] = counter[c] + 1
      /\ \A x \in Cells : x # c => counter'[x] = counter[x]
  <2>1. doc[c] \in CellType /\ inflight = 0 /\ doc[c] # Absent
    BY RunsTyped DEF CanBegin
  <2>2. doc[c].token # 0
    BY <2>1, <1>2, RunsTyped DEF Base, SinksSound
  <2>3. doc[c].token \in Nat
    BY <2>1 DEF CellType
  <2>4. counter \in [Cells -> Nat] /\ tokens \in Nat
    BY <1>2 DEF AreasTypeOK
  <2> QED BY <2>1, <2>2, <2>3, <2>4 DEF Generation
<1>4. /\ cell \in CellType /\ cell.token = doc[c].token /\ cell.dup = doc[c].dup
      /\ cell.outputs = << >> /\ cell.count = 0 /\ cell.state = "running" /\ cell # Absent
  <2> DEFINE q == doc[c]
  <2> HIDE DEF q
  <2>0. q \in CellType /\ cell = [q EXCEPT !.outputs = << >>, !.count = 0, !.state = "running"]
    BY <1>3 DEF q
  <2> HIDE DEF cell
  <2>1. /\ cell \in CellType /\ cell.token = doc[c].token /\ cell.dup = doc[c].dup
        /\ cell.outputs = << >> /\ cell.count = 0 /\ cell.state = "running"
    <3>1. << >> \in Seq(OutputRecord) /\ 0 \in Nat
      OBVIOUS
    <3>2. /\ cell \in CellType /\ cell.token = q.token /\ cell.dup = q.dup
          /\ cell.outputs = << >> /\ cell.count = 0 /\ cell.state = "running"
      BY <2>0, <3>1 DEF CellType
    <3> QED BY <3>2 DEF q
  <2> QED BY <2>1, <1>3, AbsentToken
<1>5. area \in AreaKey
  BY <1>3, <1>4 DEF AreaKey
<1> HIDE DEF cell
<1>6. /\ NewReducer(area) \in ReducerType /\ NewReducer(area).area = area
      /\ NewReducer(area).outputs = << >> /\ ~NewReducer(area).completed
  <2> HIDE DEF area
  <2> QED BY <1>5 DEF NewReducer, ReducerType
<1>7. /\ run \in RunType /\ run.cell = c /\ run.token = doc[c].token
      /\ run.generation = Generation(c) /\ run.state = state /\ run.red.area = area
      /\ run.red.outputs = << >> /\ ~run.red.completed /\ run.expected = << >>
      /\ run.memory = <<0, "running">> /\ state \in {"sent", "not_sent"}
  <2>1. NewReducer(area) \in ReducerType /\ cell.token \in Nat \ {0} /\ Generation(c) \in Nat
    BY <1>3, <1>4, <1>6
  <2>2. state \in {"sent", "not_sent"}
    OBVIOUS
  <2> DEFINE q == NewReducer(area)
             g == Generation(c)
  <2> HIDE DEF q, g
  <2>3. [cell |-> c, token |-> cell.token, generation |-> g, state |-> state,
         red |-> q, expected |-> << >>, memory |-> <<0, "running">>, lost |-> FALSE] \in RunType
    BY <2>1, <2>2 DEF RunType, q, g, CompletedStates
  <2> QED BY <2>2, <2>3, <1>4, <1>6 DEF q, g
<1> HIDE DEF run
<1>8. /\ r \in Nat /\ r # 0 /\ r \notin RunIds /\ RunIds = 1..Len(runs)
      /\ rs \in Seq(RunType) /\ DOMAIN rs = RunIds \cup {r} /\ Len(rs) = r
      /\ rs[r] = run /\ \A s \in RunIds : rs[s] = runs[s]
  <2>1. runs \in Seq(RunType) /\ RunIds = 1..Len(runs) /\ Len(runs) \in Nat
    BY RunsTyped
  <2>2. rs \in Seq(RunType) /\ Len(rs) = r /\ rs[r] = run /\ \A s \in RunIds : rs[s] = runs[s]
    BY <2>1, <1>7
  <2>3. DOMAIN rs = RunIds \cup {r}
    <3>1. DOMAIN rs = 1..r
      BY <2>2
    <3> QED BY <3>1, <2>1
  <2> QED BY <2>1, <2>2, <2>3
<1>9. /\ d \in [Cells -> CellType] /\ d[c] = cell /\ \A x \in Cells : x # c => d[x] = doc[x]
      /\ a \in [Cells -> Nat] /\ a[c] = r /\ \A x \in Cells : x # c => a[x] = active[x]
  <2>1. doc \in [Cells -> CellType] /\ active \in [Cells -> Nat]
    BY RunsTyped
  <2>2. r \in Nat
    BY <1>8
  <2> HIDE DEF r
  <2> QED BY <2>1, <2>2, <1>4
<1>10. /\ Append(kept, r) \in Seq(Nat) /\ ToSet(Append(kept, r)) \subseteq RunIds \cup {r}
       /\ Len(Append(kept, r)) <= AreaLimit
  <2>1. areas \in Seq(Nat) /\ ToSet(areas) \subseteq RunIds
    BY <1>2, RunsTyped DEF Base, KeysSound
  <2>2. live \in Seq(Nat) /\ ToSet(live) \subseteq ToSet(areas)
    <3> DEFINE S == {x \in ToSet(areas) : CellFor(Z, x)}
    <3> HIDE DEF S
    <3>1. /\ Keep(areas, S) \in Seq(Nat) /\ ToSet(Keep(areas, S)) = ToSet(areas) \cap S
      BY <2>1, KeepFacts
    <3>2. live = Keep(areas, S)
      BY DEF S
    <3> HIDE DEF live
    <3> QED BY <3>1, <3>2
  <2> HIDE DEF live
  <2>3. AreaLimit \in Nat \ {0}
    BY AreasAssumption
  <2>4. kept \in Seq(Nat) /\ ToSet(kept) \subseteq ToSet(live) /\ Len(kept) <= AreaLimit - 1
    BY <2>2, <2>3, NewestFacts
  <2> HIDE DEF kept, r
  <2>5. ToSet(Append(kept, r)) = ToSet(kept) \cup {r}
    BY <2>4, AppendSet
  <2>6. Append(kept, r) \in Seq(Nat) /\ Len(Append(kept, r)) = Len(kept) + 1 /\ Len(kept) \in Nat
    BY <2>4, <1>8
  <2>7. Len(Append(kept, r)) <= AreaLimit
    BY <2>3, <2>4, <2>6
  <2> QED BY <2>1, <2>2, <2>4, <2>5, <2>6, <2>7
<1>11. /\ V.doc = d /\ V.active = a /\ V.runs = rs /\ V.areas = Append(kept, r)
       /\ V \in WorldType
  <2> DEFINE B == Append(kept, r)
  <2>1. B \in Seq(Nat) /\ table \in TableType
    BY <1>10, RunsTyped
  <2>2. V = [doc |-> d, active |-> a, runs |-> rs, areas |-> B, table |-> table]
    OBVIOUS
  <2> HIDE DEF d, a, rs, B, V
  <2>3. V \in WorldType
    BY ONLY <2>1, <2>2, <1>8, <1>9, WorldMade
  <2> QED BY <2>2, <2>3 DEF B
<1> HIDE DEF r, d, a, rs, kept, V, live, Z
<1>12. World' = V /\ doc' = d /\ active' = a /\ runs' = rs /\ areas' = V.areas /\ RunIds' = RunIds \cup {r}
  <2>1. V = [doc |-> V.doc, active |-> V.active, runs |-> V.runs, areas |-> V.areas,
             table |-> V.table]
    BY <1>11, WorldTyped
  <2> QED BY <2>1, <1>1, <1>8, <1>11 DEF Becomes, World, RunIds
<1>13. ASSUME NEW s \in RunIds
       PROVE  /\ AreaOf(V, s) = AreaOf(World, s)
              /\ CellFor(V, s) => CellFor(World, s) /\ runs[s].cell # c
  <2>1. V.runs[s] = runs[s] /\ runs[s].cell \in Cells /\ s # r
    BY <1>8, <1>11, RunsTyped
  <2>2. AreaOf(V, s) = AreaOf(World, s)
    BY <2>1, RunsTyped DEF AreaOf
  <2>3. CellFor(V, s) => runs[s].cell # c
    BY <2>1, <1>9, <1>11 DEF CellFor
  <2>4. runs[s].cell # c => (CellFor(V, s) <=> CellFor(World, s))
    BY <2>1, <1>9, <1>11, RunsTyped DEF CellFor
  <2> QED BY <2>2, <2>3, <2>4
<1>14. AreaOf(V, r) = area
  BY <1>4, <1>7, <1>8, <1>11 DEF AreaOf
<1>15. SinksSound(V)
  <2> SUFFICES ASSUME NEW x \in Cells
               PROVE  /\ V.active[x] # 0 => V.active[x] \in DOMAIN V.runs /\ V.runs[V.active[x]].cell = x
                      /\ V.doc[x] = Absent => V.active[x] = 0
                      /\ V.doc[x] # Absent => V.doc[x].token # 0
    BY DEF SinksSound
  <2>1. CASE x = c
    BY <2>1, <1>3, <1>4, <1>7, <1>8, <1>9, <1>11
  <2>2. CASE x # c
    <3>1. /\ active[x] # 0 => active[x] \in RunIds /\ runs[active[x]].cell = x
          /\ doc[x] = Absent => active[x] = 0
          /\ doc[x] # Absent => doc[x].token # 0
      BY <1>2, RunsTyped DEF Base, SinksSound
    <3> QED BY <2>2, <3>1, <1>8, <1>9, <1>11
  <2> QED BY <2>1, <2>2
<1>16. KeysSound(V)
  <2>1. \A s \in RunIds : AreaOf(World, s) # area
    <3> SUFFICES ASSUME NEW s \in RunIds, AreaOf(World, s) = area PROVE FALSE
      OBVIOUS
    <3>1. runs[s].cell = c /\ runs[s].token = doc[c].token /\ runs[s].generation = Generation(c)
      BY <1>4, RunsTyped DEF AreaOf
    <3>2. runs[s].generation <= counter[c]
      BY <3>1, <1>2 DEF NumbersSound
    <3> QED BY <3>1, <3>2, <1>3
  <2>2. \A s \in RunIds : V.runs[s].red.area = AreaOf(V, s)
    BY <1>2, <1>8, <1>11, <1>13, RunsTyped DEF Base, KeysSound
  <2>3. V.runs[r].red.area = AreaOf(V, r)
    BY <1>7, <1>8, <1>11, <1>14
  <2>4. \A s, x \in RunIds : AreaOf(V, s) = AreaOf(V, x) => s = x
    BY <1>2, <1>13, RunsTyped DEF Base, KeysSound
  <2>5. \A s \in RunIds : AreaOf(V, s) # AreaOf(V, r)
    BY <2>1, <1>13, <1>14
  <2>6. DOMAIN V.runs = RunIds \cup {r}
    BY <1>8, <1>11
  <2>7. ToSet(V.areas) \subseteq DOMAIN V.runs /\ Len(V.areas) <= AreaLimit
    BY <2>6, <1>10, <1>11
  <2> QED BY <2>2, <2>3, <2>4, <2>5, <2>6, <2>7 DEF KeysSound
<1>17. Remembered(V)
  <2> SUFFICES ASSUME NEW s \in RunIds \cup {r}, CellFor(V, s)
               PROVE  /\ V.doc[V.runs[s].cell].outputs = V.runs[s].expected
                      /\ V.runs[s].memory = <<V.doc[V.runs[s].cell].count, V.doc[V.runs[s].cell].state>>
    BY <1>8, <1>11 DEF Remembered
  <2>1. CASE s = r
    BY <2>1, <1>4, <1>7, <1>8, <1>9, <1>11
  <2>2. CASE s \in RunIds
    <3>1. CellFor(World, s) /\ runs[s].cell # c /\ runs[s].cell \in Cells
      BY <2>2, <1>13, RunsTyped
    <3>2. V.runs[s] = runs[s] /\ V.doc[runs[s].cell] = doc[runs[s].cell]
      BY <3>1, <2>2, <1>8, <1>9, <1>11
    <3> QED BY <3>1, <3>2, <2>2, <1>2, RunsTyped DEF Base, Remembered
  <2> QED BY <2>1, <2>2
<1>18. Base(V)
  BY <1>11, <1>15, <1>16, <1>17 DEF Base
<1>19. Recorded(V) /\ Settled(V)
  <2>1. DOMAIN V.runs = RunIds \cup {r} /\ V.runs[r] = run /\ \A s \in RunIds : V.runs[s] = runs[s]
    BY <1>8, <1>11
  <2>2. Recorded(V)
    BY <2>1, <1>2, <1>7, RunsTyped DEF Recorded, RunRecorded
  <2>3. Settled(V)
    BY <2>1, <1>2, <1>7, RunsTyped DEF Settled, CompletedStates
  <2> QED BY <2>2, <2>3
<1>20. Prompts(V, inflight')
  <2> SUFFICES ASSUME NEW s \in RunIds \cup {r}, CellFor(V, s)
               PROVE  /\ V.doc[V.runs[s].cell].state = "running" =>
                           inflight' = s \/ V.runs[s].state = "not_sent"
                      /\ V.runs[s].state \in CompletedStates =>
                           /\ V.doc[V.runs[s].cell].state = "idle"
                           /\ V.doc[V.runs[s].cell].count = V.runs[s].red.count
    BY <1>8, <1>11 DEF Prompts
  <2>1. CASE s = r
    <3>1. V.runs[s] = run
      BY <2>1, <1>8, <1>11
    <3>2. state = "sent" => inflight' = r
      BY DEF r
    <3> QED BY <2>1, <3>1, <3>2, <1>7 DEF CompletedStates
  <2>2. CASE s \in RunIds
    <3>1. CellFor(World, s) /\ runs[s].cell # c /\ runs[s].cell \in Cells /\ s # 0
      BY <2>2, <1>13, RunsTyped
    <3>2. V.runs[s] = runs[s] /\ V.doc[runs[s].cell] = doc[runs[s].cell]
      BY <3>1, <2>2, <1>8, <1>9, <1>11
    <3>3. /\ doc[runs[s].cell].state = "running" => inflight = s \/ runs[s].state = "not_sent"
          /\ runs[s].state \in CompletedStates =>
               /\ doc[runs[s].cell].state = "idle"
               /\ doc[runs[s].cell].count = runs[s].red.count
      BY <2>2, <3>1, <1>2, RunsTyped DEF Prompts
    <3> QED BY <3>1, <3>2, <3>3, <1>3
  <2> QED BY <2>1, <2>2
<1>21. NumbersSound'
  <2>1. \A x \in Cells : doc'[x].token = doc[x].token
    BY <1>4, <1>9, <1>12
  <2>2. \A x \in Cells : doc'[x].token <= tokens'
    BY <2>1, <1>2 DEF NumbersSound
  <2>3. runs'[r].token <= tokens' /\ runs'[r].generation <= counter'[runs'[r].cell]
    BY <1>2, <1>3, <1>7, <1>8, <1>12 DEF NumbersSound
  <2>4. ASSUME NEW s \in RunIds
        PROVE  /\ runs'[s].token <= tokens'
               /\ runs'[s].token = doc'[runs'[s].cell].token => runs'[s].generation <= counter'[runs'[s].cell]
    <3>1. runs'[s] = runs[s] /\ runs[s].cell \in Cells /\ runs[s] \in RunType
      BY <1>8, <1>12, RunsTyped
    <3>2. counter[runs[s].cell] <= counter'[runs[s].cell]
      BY <3>1, <1>3
    <3>3. /\ runs[s].token <= tokens
          /\ runs[s].token = doc[runs[s].cell].token => runs[s].generation <= counter[runs[s].cell]
      BY <1>2 DEF NumbersSound
    <3>4. runs[s].generation \in Nat /\ counter[runs[s].cell] \in Nat /\ counter'[runs[s].cell] \in Nat
      BY <3>1, <1>3 DEF RunType
    <3> QED BY <3>1, <3>2, <3>3, <3>4, <2>1
  <2> QED BY <2>2, <2>3, <2>4, <1>12 DEF NumbersSound
<1>22. RoutesSound'
  <2>1. /\ routes = ToSet(late) /\ ToSet(late) \subseteq RunIds /\ Len(late) <= LateRouteLimit
        /\ 0 \notin ToSet(late)
    BY <1>2, <1>3, RunsTyped DEF RoutesSound
  <2>2. CASE inflight' = r /\ routes' = routes \cup {r}
    <3>1. Len(runs') = r /\ active'[runs'[r].cell] = r /\ r \in RunIds'
      BY <1>7, <1>8, <1>9, <1>12
    <3> QED BY <2>1, <2>2, <3>1, <1>8, <1>12 DEF RoutesSound
  <2>3. CASE inflight' = 0 /\ routes' = routes
    BY <2>1, <2>3, <1>12 DEF RoutesSound
  <2> QED BY <2>2, <2>3, <1>3 DEF r
<1>23. TouchedSound'
  <2> SUFFICES ASSUME NEW x \in touched, x # c, Owned(V, x) PROVE FALSE
    BY <1>12 DEF TouchedSound
  <2>1. x \in Cells /\ ~Owned(World, x)
    BY <1>2 DEF TouchedSound, AreasTypeOK
  <2>2. V.active[x] = active[x] /\ active[x] # 0 /\ CellFor(V, active[x])
    BY <2>1, <1>9, <1>11 DEF Owned
  <2>3. active[x] \in RunIds
    BY <2>1, <2>2, <1>2, RunsTyped DEF Base, SinksSound
  <2>4. CellFor(World, active[x])
    BY <2>2, <2>3, <1>13
  <2> QED BY <2>1, <2>2, <2>4, RunsTyped DEF Owned
<1>24. AreasTypeOK'
  <2>1. /\ routes' \subseteq Nat /\ late' \in Seq(Nat) /\ inflight' \in Nat /\ touched' \subseteq Cells
        /\ tokens' \in Nat \ {0}
    BY <1>2, <1>8 DEF AreasTypeOK, r
  <2> QED BY <2>1, <1>3, <1>11, <1>12 DEF AreasTypeOK
<1>25. Stays
  BY <1>9, <1>12 DEF Stays
<1> QED BY <1>12, <1>18, <1>19, <1>20, <1>21, <1>22, <1>23, <1>24, <1>25 DEF AInv

\* BeginCell, and the request that throws.
LEMMA BeginInv ==
  ASSUME AInv, NEW c \in Cells, BeginCell(c) \/ BeginThrows(c)
  PROVE  AInv' /\ Stays
<1>1. CASE BeginCell(c)
  BY <1>1, OpenInv DEF BeginCell
<1>2. CASE BeginThrows(c)
  BY <1>2, OpenInv DEF BeginThrows
<1> QED BY <1>1, <1>2

-------------------------------------------------------------------------------
(* The steps of the peers, and the release of the replica.                  *)

\* After a peer's transaction nobody owns the area of c, or two cells answer to the id.
LEMMA PeerStep ==
  ASSUME AInv, NEW c \in Cells, NEW cell \in CellType, NEW A,
         Becomes([doc |-> [doc EXCEPT ![c] = cell], active |-> A, runs |-> runs, areas |-> areas,
                  table |-> table]),
         A = active \/ A = [active EXCEPT ![c] = 0], A[c] = 0 \/ (cell.dup /\ cell # Absent),
         cell # Absent => cell.token # 0, tokens' \in {tokens, tokens + 1},
         \/ cell.token = doc[c].token /\ counter' = counter
         \/ cell.token = tokens + 1 /\ tokens' = tokens + 1 /\ counter' = counter
         \/ cell = Absent /\ counter' = [counter EXCEPT ![c] = 0],
         touched' = touched \cup {c}, UNCHANGED <<routes, late, inflight>>
  PROVE  AInv'
<1> DEFINE d == [doc EXCEPT ![c] = cell]
           V == [doc |-> d, active |-> A, runs |-> runs, areas |-> areas, table |-> table]
<1>1. /\ Base(World) /\ Recorded(World) /\ Settled(World) /\ Prompts(World, inflight)
      /\ NumbersSound /\ RoutesSound /\ TouchedSound /\ AreasTypeOK
  BY DEF AInv
<1>2. /\ d \in [Cells -> CellType] /\ d[c] = cell /\ \A x \in Cells : x # c => d[x] = doc[x]
      /\ A \in [Cells -> Nat] /\ \A x \in Cells : A[x] \in {active[x], 0}
      /\ \A x \in Cells : x # c => A[x] = active[x]
  BY RunsTyped
<1>3. /\ World' = V /\ doc' = d /\ active' = A /\ runs' = runs /\ areas' = areas
      /\ RunIds' = RunIds
      /\ V.doc = d /\ V.active = A /\ V.runs = runs /\ V.areas = areas
  BY DEF Becomes, World, RunIds
<1>4. V \in WorldType
  <2>1. /\ V = [doc |-> d, active |-> A, runs |-> runs, areas |-> areas, table |-> table]
        /\ runs \in Seq(RunType) /\ areas \in Seq(Nat) /\ table \in TableType
    BY RunsTyped
  <2> HIDE DEF V, d
  <2> QED BY ONLY <2>1, <1>2, WorldMade
<1> HIDE DEF V, d
<1>5. ASSUME NEW s \in RunIds
      PROVE  /\ AreaOf(V, s) = AreaOf(World, s)
             /\ CellFor(V, s) => CellFor(World, s) /\ runs[s].cell # c
  <2>1. V.runs[s] = runs[s] /\ runs[s].cell \in Cells /\ s # 0
    BY <1>3, RunsTyped
  <2>2. AreaOf(V, s) = AreaOf(World, s)
    BY <2>1, RunsTyped DEF AreaOf
  <2>3. CellFor(V, s) => runs[s].cell # c
    BY <2>1, <1>2, <1>3 DEF CellFor
  <2>4. runs[s].cell # c => (CellFor(V, s) <=> CellFor(World, s))
    BY <2>1, <1>2, <1>3, RunsTyped DEF CellFor
  <2> QED BY <2>2, <2>3, <2>4
<1>6. SinksSound(V)
  <2> SUFFICES ASSUME NEW x \in Cells
               PROVE  /\ A[x] # 0 => A[x] \in RunIds /\ runs[A[x]].cell = x
                      /\ d[x] = Absent => A[x] = 0
                      /\ d[x] # Absent => d[x].token # 0
    BY <1>3, RunsTyped DEF SinksSound
  <2>1. /\ active[x] # 0 => active[x] \in RunIds /\ runs[active[x]].cell = x
        /\ doc[x] = Absent => active[x] = 0
        /\ doc[x] # Absent => doc[x].token # 0
    BY <1>1, RunsTyped DEF Base, SinksSound
  <2>2. CASE x = c
    BY <2>1, <2>2, <1>2
  <2>3. CASE x # c
    BY <2>1, <2>3, <1>2
  <2> QED BY <2>2, <2>3
<1>7. KeysSound(V)
  <2>1. ToSet(V.areas) \subseteq DOMAIN V.runs /\ Len(V.areas) <= AreaLimit
    BY <1>1, <1>3, RunsTyped DEF Base, KeysSound
  <2>2. \A s \in DOMAIN V.runs : V.runs[s].red.area = AreaOf(V, s)
    BY <1>1, <1>3, <1>5, RunsTyped DEF Base, KeysSound
  <2>3. \A s, x \in DOMAIN V.runs : AreaOf(V, s) = AreaOf(V, x) => s = x
    <3>1. \A s, x \in RunIds : AreaOf(World, s) = AreaOf(World, x) => s = x
      BY <1>1, RunsTyped DEF Base, KeysSound
    <3>2. \A s \in RunIds : AreaOf(V, s) = AreaOf(World, s)
      BY <1>5
    <3>3. DOMAIN V.runs = RunIds
      BY <1>3, RunsTyped
    <3> QED BY ONLY <3>1, <3>2, <3>3, Zenon
  <2> QED BY <2>1, <2>2, <2>3 DEF KeysSound
<1>8. ASSUME NEW s \in RunIds, CellFor(V, s)
      PROVE  /\ CellFor(World, s) /\ V.runs[s] = runs[s]
             /\ V.doc[runs[s].cell] = doc[runs[s].cell]
  BY <1>2, <1>3, <1>5, <1>8, RunsTyped
<1>9. DOMAIN V.runs = RunIds
  BY <1>3, RunsTyped
<1>10. Remembered(V) /\ Prompts(V, inflight')
  <2>1. Remembered(V)
    <3> SUFFICES ASSUME NEW s \in RunIds, CellFor(V, s)
                 PROVE  /\ V.doc[V.runs[s].cell].outputs = V.runs[s].expected
                        /\ V.runs[s].memory = <<V.doc[V.runs[s].cell].count, V.doc[V.runs[s].cell].state>>
      BY <1>9 DEF Remembered
    <3>1. CellFor(World, s) /\ V.runs[s] = runs[s] /\ V.doc[runs[s].cell] = doc[runs[s].cell]
      BY <1>8
    <3> QED BY <3>1, <1>1, RunsTyped DEF Base, Remembered
  <2>2. Prompts(V, inflight')
    <3> SUFFICES ASSUME NEW s \in RunIds, CellFor(V, s)
                 PROVE  /\ V.doc[V.runs[s].cell].state = "running" =>
                             inflight = s \/ V.runs[s].state = "not_sent"
                        /\ V.runs[s].state \in CompletedStates =>
                             /\ V.doc[V.runs[s].cell].state = "idle"
                             /\ V.doc[V.runs[s].cell].count = V.runs[s].red.count
      BY <1>9 DEF Prompts
    <3>1. CellFor(World, s) /\ V.runs[s] = runs[s] /\ V.doc[runs[s].cell] = doc[runs[s].cell]
      BY <1>8
    <3> QED BY <3>1, <1>1, RunsTyped DEF Prompts
  <2> QED BY <2>1, <2>2
<1>11. Recorded(V) /\ Settled(V)
  BY <1>1, <1>3, RunsTyped DEF Recorded, RunRecorded, Settled
<1>12. NumbersSound'
  <2>0. tokens \in Nat /\ counter \in [Cells -> Nat] /\ doc \in [Cells -> CellType]
    BY <1>1, RunsTyped DEF AreasTypeOK
  <2>1. ASSUME NEW x \in Cells PROVE doc'[x].token <= tokens'
    <3>1. doc[x].token <= tokens /\ doc[x].token \in Nat
      BY <2>0, <1>1 DEF NumbersSound, CellType
    <3>2. CASE x # c
      BY <3>1, <3>2, <2>0, <1>2, <1>3
    <3>3. CASE x = c
      BY <3>1, <3>3, <2>0, <1>2, <1>3, AbsentToken
    <3> QED BY <3>2, <3>3
  <2>2. ASSUME NEW s \in RunIds
        PROVE  /\ runs[s].token <= tokens'
               /\ runs[s].token = doc'[runs[s].cell].token => runs[s].generation <= counter'[runs[s].cell]
    <3>1. /\ runs[s].token <= tokens
          /\ runs[s].token = doc[runs[s].cell].token => runs[s].generation <= counter[runs[s].cell]
      BY <1>1 DEF NumbersSound
    <3>2. runs[s].token \in Nat \ {0} /\ runs[s].cell \in Cells
      <4>1. runs[s] \in RunType /\ runs[s].cell \in Cells
        BY RunsTyped
      <4> QED BY <4>1 DEF RunType
    <3>3. runs[s].token <= tokens'
      BY <3>1, <3>2, <2>0
    <3>4. CASE runs[s].cell # c
      BY <3>1, <3>2, <3>3, <3>4, <2>0, <1>2, <1>3
    <3>5. CASE runs[s].cell = c
      BY <3>1, <3>2, <3>3, <3>5, <2>0, <1>2, <1>3, AbsentToken
    <3> QED BY <3>4, <3>5
  <2> QED BY <2>1, <2>2, <1>3 DEF NumbersSound
<1>13. RoutesSound'
  <2>1. inflight # 0 => inflight = Len(runs) /\ inflight \in RunIds
                        /\ active[runs[inflight].cell] \in {0, inflight}
    BY <1>1 DEF RoutesSound
  <2>2. inflight # 0 => A[runs[inflight].cell] \in {0, inflight}
    BY <2>1, <1>2, RunsTyped
  <2> QED BY <2>1, <2>2, <1>1, <1>3 DEF RoutesSound
<1>14. TouchedSound'
  <2> SUFFICES ASSUME NEW x \in touched \cup {c}, Owned(V, x) PROVE FALSE
    BY <1>3 DEF TouchedSound
  <2>1. x \in Cells /\ (x # c => ~Owned(World, x))
    BY <1>1 DEF TouchedSound, AreasTypeOK
  <2>2. A[x] # 0 /\ CellFor(V, A[x]) /\ A[x] = active[x]
    BY <2>1, <1>2, <1>3 DEF Owned
  <2>3. A[x] \in RunIds /\ runs[A[x]].cell = x
    BY <2>1, <2>2, <1>1, RunsTyped DEF Base, SinksSound
  <2>4. CellFor(World, A[x]) /\ x # c
    BY <2>2, <2>3, <1>5
  <2> QED BY <2>1, <2>2, <2>4, RunsTyped DEF Owned
<1>15. AreasTypeOK'
  <2>1. counter' \in [Cells -> Nat] /\ tokens' \in Nat \ {0} /\ touched' \subseteq Cells
    BY <1>1 DEF AreasTypeOK
  <2> QED BY <2>1, <1>1, <1>3, <1>4 DEF AreasTypeOK
<1> QED BY <1>3, <1>4, <1>6, <1>7, <1>10, <1>11, <1>12, <1>13, <1>14, <1>15 DEF AInv, Base

\* A cell that was just added, and one that is not there.
LEMMA FreshTyped ==
  ASSUME NEW t \in Nat
  PROVE  /\ FreshCell(t) \in CellType /\ FreshCell(t).token = t /\ Absent \in CellType
         /\ t # 0 => FreshCell(t) # Absent
<1>1. << >> \in Seq(OutputRecord)
  OBVIOUS
<1>2. FreshCell(t) \in CellType /\ FreshCell(t).token = t /\ FreshCell(0) \in CellType
  BY <1>1 DEF FreshCell, CellType
<1> QED BY <1>2, AbsentToken DEF Absent

\* The world in which c has another cell.
LEMMA DocWritten ==
  ASSUME NEW c, NEW cell
  PROVE  LET d == [doc EXCEPT ![c] = cell]
             W == [World EXCEPT !.doc[c] = cell]
         IN  /\ W = [doc |-> d, active |-> active, runs |-> runs, areas |-> areas, table |-> table]
             /\ Invalidate(W, c) = [doc |-> d, active |-> [active EXCEPT ![c] = 0], runs |-> runs,
                                    areas |-> areas, table |-> table]
<1> DEFINE d == [doc EXCEPT ![c] = cell]
           W == [World EXCEPT !.doc[c] = cell]
<1>1. W = [doc |-> d, active |-> active, runs |-> runs, areas |-> areas, table |-> table]
  BY DEF World
<1> HIDE DEF W, d
<1>2. Invalidate(W, c) = [doc |-> d, active |-> [active EXCEPT ![c] = 0], runs |-> runs,
                          areas |-> areas, table |-> table]
  BY <1>1 DEF Invalidate
<1> QED BY <1>1, <1>2 DEF W, d

\* The observer takes the area away from whoever owned it.
LEMMA PeerWriteSeen ==
  ASSUME AInv, NEW c \in Cells, doc[c] # Absent, ~doc[c].dup, NEW cell \in PeerValues(doc[c])
  PROVE  LET d == [doc EXCEPT ![c] = cell]
             W == ObserveOutputs([World EXCEPT !.doc[c] = cell], c)
         IN  /\ cell \in CellType /\ cell.token = doc[c].token /\ cell.dup = doc[c].dup
             /\ \E A \in {active, [active EXCEPT ![c] = 0]} :
                  /\ A[c] = 0
                  /\ W = [doc |-> d, active |-> A, runs |-> runs, areas |-> areas, table |-> table]
<1> DEFINE old == doc[c]
           d == [doc EXCEPT ![c] = cell]
           Z == [World EXCEPT !.doc[c] = cell]
           r == active[c]
<1>1. old \in CellType /\ doc \in [Cells -> CellType] /\ active \in [Cells -> Nat]
  BY RunsTyped
<1>2. /\ cell \in CellType /\ cell.token = old.token /\ cell.dup = old.dup /\ cell # old
      /\ cell = [token |-> cell.token, outputs |-> cell.outputs, count |-> cell.count,
                 state |-> cell.state, dup |-> cell.dup]
      /\ old = [token |-> old.token, outputs |-> old.outputs, count |-> old.count,
                state |-> old.state, dup |-> old.dup]
  <2> HIDE DEF old
  <2>1. \/ cell = [old EXCEPT !.outputs = Append(@, Foreign)]
        \/ cell = [old EXCEPT !.outputs = << >>, !.count = 0, !.state = "running"]
        \/ cell = [old EXCEPT !.state = "idle"]
    BY DEF PeerValues, old
  <2>2. cell # old
    BY DEF PeerValues, old
  <2>3. old.outputs \in Seq(OutputRecord) /\ Foreign \in OutputRecord
    BY <1>1 DEF CellType, Foreign, Output, OutputRecord
  <2>4. Append(old.outputs, Foreign) \in Seq(OutputRecord) /\ << >> \in Seq(OutputRecord)
    BY <2>3
  <2>5. cell \in CellType /\ cell.token = old.token /\ cell.dup = old.dup
    <3> DEFINE o == Append(old.outputs, Foreign)
    <3> HIDE DEF o
    <3>1. old \in CellType /\ o \in Seq(OutputRecord) /\ << >> \in Seq(OutputRecord)
      BY <2>4, <1>1 DEF o, old
    <3>2. CASE cell = [old EXCEPT !.outputs = Append(@, Foreign)]
      <4>1. cell = [old EXCEPT !.outputs = o]
        BY <3>2 DEF o
      <4> QED BY ONLY <4>1, <3>1 DEF CellType
    <3>3. CASE cell = [old EXCEPT !.outputs = << >>, !.count = 0, !.state = "running"]
      BY ONLY <3>3, <3>1 DEF CellType
    <3>4. CASE cell = [old EXCEPT !.state = "idle"]
      BY ONLY <3>4, <3>1 DEF CellType
    <3> QED BY <3>2, <3>3, <3>4, <2>1
  <2> QED BY <2>2, <2>5, <1>1 DEF CellType
<1>3. /\ Z = [doc |-> d, active |-> active, runs |-> runs, areas |-> areas, table |-> table]
      /\ Invalidate(Z, c) = [doc |-> d, active |-> [active EXCEPT ![c] = 0], runs |-> runs,
                             areas |-> areas, table |-> table]
  BY DocWritten
<1>4. d[c] = cell
  BY <1>1
<1> HIDE DEF Z, d
<1>5. ~MatchesRememberedState(Z, c)
  <2> SUFFICES ASSUME MatchesRememberedState(Z, c) PROVE FALSE
    OBVIOUS
  <2>1. /\ r # 0 /\ runs[r].expected = cell.outputs
        /\ runs[r].memory = <<cell.count, cell.state>> /\ CellFor(Z, r)
    BY <1>3, <1>4 DEF MatchesRememberedState
  <2>2. r \in RunIds /\ runs[r].cell = c
    BY <2>1, RunsTyped DEF AInv, Base, SinksSound
  <2>3. CellFor(World, r)
    BY <2>1, <2>2, <1>2, <1>3, <1>4, RunsTyped DEF CellFor
  <2>4. old.outputs = runs[r].expected /\ runs[r].memory = <<old.count, old.state>>
    BY <2>2, <2>3, RunsTyped DEF AInv, Base, Remembered
  <2>5. cell.outputs = old.outputs /\ cell.count = old.count /\ cell.state = old.state
    BY <2>1, <2>4
  <2> HIDE DEF old
  <2> QED BY <2>5, <1>2
<1>6. ObserveOutputs(Z, c) = Invalidate(Z, c)
  BY <1>5 DEF ObserveOutputs
<1>7. [active EXCEPT ![c] = 0][c] = 0
  BY <1>1
<1> QED BY <1>2, <1>3, <1>6, <1>7 DEF Z, d

\* Every transaction of a peer.
LEMMA PeerInv ==
  ASSUME AInv, NEW c \in Cells, Peer(c)
  PROVE  AInv'
<1>1. touched' = touched \cup {c} /\ UNCHANGED <<routes, late, inflight>>
  BY DEF Peer
<1>2. /\ doc[c] \in CellType /\ active \in [Cells -> Nat] /\ tokens \in Nat
      /\ doc[c] # Absent => doc[c].token # 0
      /\ doc[c] = Absent => active[c] = 0
      /\ [active EXCEPT ![c] = 0][c] = 0
  BY RunsTyped DEF AInv, Base, SinksSound, AreasTypeOK
<1>3. CASE PeerWrites(c)
  <2>1. PICK cell \in PeerValues(doc[c]) : Becomes(ObserveOutputs([World EXCEPT !.doc[c] = cell], c))
    BY <1>3 DEF PeerWrites
  <2>2. doc[c] # Absent /\ ~doc[c].dup /\ counter' = counter /\ tokens' = tokens
    BY <1>3 DEF PeerWrites
  <2>3. /\ cell \in CellType /\ cell.token = doc[c].token /\ cell.dup = doc[c].dup
        /\ \E A \in {active, [active EXCEPT ![c] = 0]} :
             /\ A[c] = 0
             /\ ObserveOutputs([World EXCEPT !.doc[c] = cell], c)
                  = [doc |-> [doc EXCEPT ![c] = cell], active |-> A, runs |-> runs, areas |-> areas,
                     table |-> table]
    BY <2>2, PeerWriteSeen
  <2>4. PICK A \in {active, [active EXCEPT ![c] = 0]} :
          /\ A[c] = 0
          /\ Becomes([doc |-> [doc EXCEPT ![c] = cell], active |-> A, runs |-> runs,
                      areas |-> areas, table |-> table])
    BY <2>1, <2>3
  <2> QED BY <2>2, <2>3, <2>4, <1>1, <1>2, PeerStep
<1>4. CASE PeerReplaces(c)
  <2>1. tokens' = tokens + 1 /\ counter' = counter
        /\ Becomes(Invalidate([World EXCEPT !.doc[c] = FreshCell(tokens + 1)], c))
    BY <1>4 DEF PeerReplaces
  <2>2. FreshCell(tokens + 1) \in CellType /\ FreshCell(tokens + 1).token = tokens + 1
    BY <1>2, FreshTyped
  <2> DEFINE cell == FreshCell(tokens + 1)
             A == [active EXCEPT ![c] = 0]
  <2>3. Becomes([doc |-> [doc EXCEPT ![c] = cell], active |-> A, runs |-> runs,
                areas |-> areas, table |-> table])
    BY <2>1, DocWritten
  <2>4. (A = active \/ A = [active EXCEPT ![c] = 0]) /\ (A[c] = 0 \/ (cell.dup /\ cell # Absent))
    BY <2>2, <1>2
  <2>5. cell \in CellType /\ cell.token = tokens + 1 /\ (cell # Absent => cell.token # 0)
    BY <2>2, <1>2, AbsentToken
  <2> HIDE DEF A, cell
  <2> QED BY <2>1, <2>2,
           <1>1, <1>2, <2>3, <2>4, <2>5, PeerStep
<1>5. CASE PeerDeletes(c)
  <2>1. /\ tokens' = tokens /\ counter' = [counter EXCEPT ![c] = 0]
        /\ Becomes(Invalidate([World EXCEPT !.doc[c] = Absent], c))
    BY <1>5 DEF PeerDeletes
  <2>2. Absent \in CellType
    BY <1>2, FreshTyped
  <2> DEFINE cell == Absent
             A == [active EXCEPT ![c] = 0]
  <2>3. Becomes([doc |-> [doc EXCEPT ![c] = cell], active |-> A, runs |-> runs,
                areas |-> areas, table |-> table])
    BY <2>1, DocWritten
  <2>4. (A = active \/ A = [active EXCEPT ![c] = 0]) /\ (A[c] = 0 \/ (cell.dup /\ cell # Absent))
    BY <2>2, <1>2
  <2>5. cell \in CellType /\ cell = Absent
    BY <2>2, <1>2, AbsentToken
  <2> HIDE DEF A, cell
  <2> QED BY <2>1, <2>2,
           <1>1, <1>2, <2>3, <2>4, <2>5, PeerStep
<1>6. CASE PeerAdds(c)
  <2>1. tokens' = tokens + 1 /\ counter' = counter /\ doc[c] = Absent
        /\ Becomes([World EXCEPT !.doc[c] = FreshCell(tokens + 1)])
    BY <1>6 DEF PeerAdds
  <2>2. FreshCell(tokens + 1) \in CellType /\ FreshCell(tokens + 1).token = tokens + 1
    BY <1>2, FreshTyped
  <2> DEFINE cell == FreshCell(tokens + 1)
             A == active
  <2>3. Becomes([doc |-> [doc EXCEPT ![c] = cell], active |-> A, runs |-> runs,
                areas |-> areas, table |-> table])
    BY <2>1, DocWritten
  <2>4. (A = active \/ A = [active EXCEPT ![c] = 0]) /\ (A[c] = 0 \/ (cell.dup /\ cell # Absent))
    BY <2>1, <2>2, <1>2
  <2>5. cell \in CellType /\ cell.token = tokens + 1 /\ (cell # Absent => cell.token # 0)
    BY <2>1, <2>2, <1>2, AbsentToken
  <2> HIDE DEF A, cell
  <2> QED BY <2>1, <2>2,
           <1>1, <1>2, <2>3, <2>4, <2>5, PeerStep
<1>7. CASE PeerDuplicates(c)
  <2> DEFINE cell == [doc[c] EXCEPT !.dup = TRUE]
  <2>1. [World EXCEPT !.doc[c].dup = TRUE] = [World EXCEPT !.doc[c] = cell]
    BY DEF World
  <2>2. doc[c] # Absent /\ counter' = counter /\ tokens' = tokens
        /\ Becomes([World EXCEPT !.doc[c] = cell])
    BY <2>1, <1>7 DEF PeerDuplicates
  <2>3. cell \in CellType /\ cell.token = doc[c].token /\ cell.dup
    BY <1>2 DEF CellType
  <2>4. cell # Absent
    BY <2>3, AbsentToken
  <2> DEFINE A == active
  <2>5. Becomes([doc |-> [doc EXCEPT ![c] = cell], active |-> A, runs |-> runs,
                areas |-> areas, table |-> table])
    BY <2>2, DocWritten
  <2>6. (A = active \/ A = [active EXCEPT ![c] = 0]) /\ (A[c] = 0 \/ (cell.dup /\ cell # Absent))
    BY <2>3, <2>4
  <2> HIDE DEF A, cell
  <2> QED BY <2>2, <2>3, <2>4,
           <1>1, <1>2, <2>5, <2>6, PeerStep
<1>8. CASE ServerRenames(c)
  <2> DEFINE cell == [doc[c] EXCEPT !.dup = FALSE]
  <2>0. doc[c] # Absent /\ counter' = counter
    BY <1>8 DEF ServerRenames
  <2>1. [World EXCEPT !.doc[c].dup = FALSE] = [World EXCEPT !.doc[c] = cell]
    BY DEF World
  <2>2. CASE /\ tokens' = tokens
             /\ Becomes(Invalidate([World EXCEPT !.doc[c].dup = FALSE], c))
    <3>1. Becomes(Invalidate([World EXCEPT !.doc[c] = cell], c))
      BY <2>1, <2>2
    <3>2. cell \in CellType /\ cell.token = doc[c].token
      BY <1>2 DEF CellType
    <3> DEFINE A == [active EXCEPT ![c] = 0]
    <3>3. Becomes([doc |-> [doc EXCEPT ![c] = cell], active |-> A, runs |-> runs,
                  areas |-> areas, table |-> table])
      BY <3>1, DocWritten
    <3>4. (A = active \/ A = [active EXCEPT ![c] = 0]) /\ (A[c] = 0 \/ (cell.dup /\ cell # Absent))
      BY <1>2
    <3> HIDE DEF A, cell
    <3> QED BY <3>1, <3>2, <2>0, <2>2,
             <1>1, <1>2, <3>3, <3>4, PeerStep
  <2>3. CASE /\ tokens' = tokens + 1
             /\ Becomes(Invalidate([World EXCEPT !.doc[c] = FreshCell(tokens + 1)], c))
    <3>1. FreshCell(tokens + 1) \in CellType /\ FreshCell(tokens + 1).token = tokens + 1
      BY <1>2, FreshTyped
    <3> DEFINE new == FreshCell(tokens + 1)
               A == [active EXCEPT ![c] = 0]
    <3>2. Becomes([doc |-> [doc EXCEPT ![c] = new], active |-> A, runs |-> runs,
                  areas |-> areas, table |-> table])
      BY <2>3, DocWritten
    <3>3. (A = active \/ A = [active EXCEPT ![c] = 0]) /\ (A[c] = 0 \/ (new.dup /\ new # Absent))
      BY <3>1, <1>2
    <3>4. new \in CellType /\ new.token = tokens + 1 /\ (new # Absent => new.token # 0)
      BY <3>1, <1>2, AbsentToken
    <3> HIDE DEF A, new
    <3> QED BY <3>1, <2>0, <2>3,
             <1>1, <1>2, <3>2, <3>3, <3>4, PeerStep
  <2> QED BY <2>2, <2>3, <1>8 DEF ServerRenames
<1> QED BY <1>3, <1>4, <1>5, <1>6, <1>7, <1>8 DEF Peer

\* The generations end, and the document stays as it is.
LEMMA DisposeInv ==
  ASSUME AInv, Dispose
  PROVE  AInv' /\ Stays
<1> DEFINE A == [c \in Cells |-> 0]
           V == [doc |-> doc, active |-> A, runs |-> runs, areas |-> areas, table |-> table]
<1>1. /\ Base(World) /\ Recorded(World) /\ Settled(World) /\ NumbersSound /\ RoutesSound
      /\ TouchedSound /\ AreasTypeOK
  BY DEF AInv
<1>2. /\ World' = V /\ doc' = doc /\ active' = A /\ runs' = runs /\ areas' = areas
      /\ RunIds' = RunIds
      /\ V.doc = doc /\ V.active = A /\ V.runs = runs /\ V.areas = areas
      /\ UNCHANGED <<counter, routes, late, inflight, tokens, touched>>
  BY DEF Dispose, Becomes, World, RunIds
<1>3. V \in WorldType
  <2>1. /\ V = [doc |-> doc, active |-> A, runs |-> runs, areas |-> areas, table |-> table]
        /\ runs \in Seq(RunType) /\ areas \in Seq(Nat) /\ table \in TableType
        /\ doc \in [Cells -> CellType] /\ A \in [Cells -> Nat]
    BY RunsTyped
  <2> HIDE DEF V, A
  <2> QED BY ONLY <2>1, WorldMade
<1>4. \A x \in Cells : A[x] = 0
  OBVIOUS
<1> HIDE DEF A, V
<1>5. \A s \in RunIds : ~CellFor(V, s) /\ AreaOf(V, s) = AreaOf(World, s)
  BY <1>2, <1>4, RunsTyped DEF CellFor, AreaOf
<1>6. DOMAIN V.runs = RunIds
  BY <1>2, RunsTyped
<1>7. SinksSound(V)
  BY <1>1, <1>2, <1>4, RunsTyped DEF SinksSound, Base
<1>8. KeysSound(V)
  <2>1. ToSet(V.areas) \subseteq DOMAIN V.runs /\ Len(V.areas) <= AreaLimit
    BY <1>1, <1>2, RunsTyped DEF Base, KeysSound
  <2>2. \A s \in DOMAIN V.runs : V.runs[s].red.area = AreaOf(V, s)
    BY <1>1, <1>2, <1>5, RunsTyped DEF Base, KeysSound
  <2>3. \A s, x \in DOMAIN V.runs : AreaOf(V, s) = AreaOf(V, x) => s = x
    BY <1>1, <1>2, <1>5, RunsTyped DEF Base, KeysSound
  <2> QED BY <2>1, <2>2, <2>3 DEF KeysSound
<1>9. Remembered(V) /\ Prompts(V, inflight')
  BY <1>5, <1>6 DEF Remembered, Prompts
<1>10. Recorded(V) /\ Settled(V)
  BY <1>1, <1>2, RunsTyped DEF Recorded, RunRecorded, Settled
<1>11. NumbersSound' /\ AreasTypeOK'
  BY <1>1, <1>2, <1>3 DEF NumbersSound, AreasTypeOK
<1>12. RoutesSound'
  BY <1>1, <1>2, <1>4, RunsTyped DEF RoutesSound
<1>13. TouchedSound'
  <2>1. \A x \in touched : ~Owned(V, x)
    BY <1>1, <1>2, <1>4 DEF Owned, AreasTypeOK
  <2> QED BY <2>1, <1>2 DEF TouchedSound
<1> QED BY <1>2, <1>3, <1>7, <1>8, <1>9, <1>10, <1>11, <1>12, <1>13 DEF AInv, Base, Stays

\* The empty notebook.
LEMMA AreasInit ==
  ASSUME AInit
  PROVE  AInv
<1>1. /\ doc = [c \in Cells |-> FreshCell(1)] /\ active = [c \in Cells |-> 0]
      /\ counter = [c \in Cells |-> 0] /\ runs = << >> /\ areas = << >> /\ table = << >>
      /\ routes = {} /\ late = << >> /\ inflight = 0 /\ tokens = 1 /\ touched = {}
  BY DEF AInit
<1>2. /\ FreshCell(1) \in CellType /\ FreshCell(1).token = 1 /\ FreshCell(1) # Absent
  BY FreshTyped
<1>3. /\ doc \in [Cells -> CellType] /\ active \in [Cells -> Nat] /\ runs \in Seq(RunType)
      /\ areas \in Seq(Nat) /\ table \in TableType
  BY <1>1, <1>2 DEF TableType
<1>4. /\ World.doc = doc /\ World.active = active /\ World.runs = runs /\ World.areas = areas
      /\ World = [doc |-> doc, active |-> active, runs |-> runs, areas |-> areas, table |-> table]
  BY DEF World
<1>5. World \in WorldType
  BY ONLY <1>3, <1>4, WorldMade
<1>6. DOMAIN World.runs = {} /\ RunIds = {}
  BY <1>1, <1>4 DEF RunIds
<1>7. /\ AreaLimit \in Nat /\ LateRouteLimit \in Nat /\ ToSet(<< >>) = {} /\ Len(<< >>) = 0
  BY AreasAssumption DEF ToSet
<1>8. SinksSound(World)
  BY <1>1, <1>2, <1>4 DEF SinksSound
<1>9. KeysSound(World)
  BY <1>1, <1>4, <1>6, <1>7 DEF KeysSound
<1>10. Remembered(World) /\ Recorded(World) /\ Settled(World) /\ Prompts(World, inflight)
  BY <1>6 DEF Remembered, Recorded, Settled, Prompts
<1>11. NumbersSound
  BY <1>1, <1>2, <1>6 DEF NumbersSound
<1>12. RoutesSound /\ TouchedSound
  BY <1>1, <1>6, <1>7 DEF RoutesSound, TouchedSound
<1>13. AreasTypeOK
  BY <1>1, <1>5 DEF AreasTypeOK
<1> QED BY <1>5, <1>8, <1>9, <1>10, <1>11, <1>12, <1>13 DEF AInv, Base

\* One case per action.
LEMMA AreasStep ==
  ASSUME AInv, [ANext]_avars
  PROVE  AInv' /\ (Stays \/ \E d \in Cells : Peer(d))
<1>1. ASSUME NEW c \in Cells, BeginCell(c) \/ BeginThrows(c) PROVE AInv' /\ Stays
  BY <1>1, BeginInv
<1>2. ASSUME NEW c \in Cells, Peer(c) PROVE AInv'
  BY <1>2, PeerInv
<1>3. ASSUME NEW r \in routes, NEW msg \in Outputs, KernelOutput(r, msg) PROVE AInv' /\ Stays
  BY <1>3, KernelOutputInv
<1>4. ASSUME NEW r \in routes, NEW msg \in Evidence, KernelEvidence(r, msg) PROVE AInv' /\ Stays
  BY <1>4, KernelEvidenceInv
<1>5. CASE KernelChanged
  BY <1>5, KernelChangedInv
<1>6. CASE ChannelLost
  BY <1>6, ChannelLostInv
<1>7. CASE Dispose
  BY <1>7, DisposeInv
<1>8. CASE UNCHANGED avars
  <2>1. /\ UNCHANGED <<doc, active, runs, areas, table>>
        /\ UNCHANGED <<counter, routes, late, inflight, tokens, touched>>
    BY <1>8 DEF avars, writers
  <2>2. World' = World /\ RunIds' = RunIds
    BY <2>1 DEF World, RunIds
  <2>3. AInv'
    BY <2>1, <2>2 DEF AInv, AreasTypeOK, NumbersSound, RoutesSound, TouchedSound
  <2> QED BY <2>1, <2>3 DEF Stays
<1> QED BY <1>1, <1>2, <1>3, <1>4, <1>5, <1>6, <1>7, <1>8 DEF ANext

LEMMA AreasInvariant == ASpec => []AInv
<1>1. AInit => AInv
  BY AreasInit
<1>2. AInv /\ [ANext]_avars => AInv'
  BY AreasStep
<1> QED BY <1>1, <1>2, PTL DEF ASpec

\* A run that was not told it lost its area wrote all its outputs there, and the document
\* shows exactly those while the area is its own: through clears, deferred clears, updates
\* by other runs, budgets, evictions and peers (output-reducer.ts, applyEffect).
THEOREM AreasShowRuns == ASpec => []AreaShowsTheRun
<1>1. AInv => AreaShowsTheRun
  BY RunsTyped DEF AInv, AreaShowsTheRun, Current, Recorded, RunRecorded, Base, Remembered
<1> QED BY <1>1, AreasInvariant, PTL

\* Messages are routed to the run in flight and the kept late routes alone, no two
\* reachable areas share a key although generation numbers recur, and no settled run
\* leaves its prompt running (execution-registry.ts: keepLateRoute, areaKey;
\* service/execution.ts: the watcher).
THEOREM NothingIsLeft == ASpec => []RunsLeaveNothing
<1>1. AInv => RoutesAreOwned
  BY RunsTyped DEF AInv, RoutesAreOwned, RoutesSound, Base, KeysSound
<1>2. AInv => PromptEnds
  BY RunsTyped DEF AInv, PromptEnds, Prompts, Current, CompletedStates
<1>3. AInv => RunsLeaveNothing
  BY <1>1, <1>2 DEF RunsLeaveNothing
<1> QED BY <1>3, AreasInvariant, PTL

\* Once a peer changed a cell's area, no late output, display update, watcher or loss of
\* the kernel writes to it again, until a new run begins there (generations.ts:254).
THEOREM PeersAreLeftAlone == ASpec => PeerChangesStay
<1>1. AInv /\ [ANext]_avars =>
        \A c \in Cells : c \in touched /\ c \in touched' /\ doc'[c] # doc[c] => \E d \in Cells : Peer(d)
  BY AreasStep DEF Stays
<1>2. AInv /\ [ANext]_avars =>
        [\A c \in Cells : c \in touched /\ c \in touched' /\ doc'[c] # doc[c] =>
           \E d \in Cells : Peer(d)]_avars
  BY <1>1
<1> QED BY <1>2, AreasInvariant, PTL DEF ASpec, PeerChangesStay
=============================================================================
