------------------------- MODULE HighLevelQueueProofs -------------------------
(* Proofs about HighLevelQueue: its types, that the queue holds exactly the   *)
(* calls that wait, that no request is sent twice, that it is a batch server, *)
(* and that every call is given the answers to what it asked for.             *)
EXTENDS HighLevelQueue, FiniteSetTheorems, SequenceTheorems, TLAPS

\* QueueHoldsWaiting in terms of positions: no call is twice in the queue, all
\* its calls wait, every waiting call is in it, and the batch is its head.
Positions ==
  /\ \A n, m \in DOMAIN queue : queue[n] = queue[m] => n = m
  /\ \A n \in DOMAIN queue : status[queue[n]] = "queued"
  /\ \A c \in Callers : status[c] = "queued" => \E n \in DOMAIN queue : queue[n] = c
  /\ Len(batch) <= Len(queue)
  /\ \A n \in DOMAIN batch : batch[n] = queue[n]

\* The inductive invariant
QueueInv == QueueTypeOK /\ Positions

-----------------------------------------------------------------------------
(* What the actions that end a batch have in common *)

\* Taking the batch off the head of the queue keeps the other waiting calls
LEMMA FinishInv ==
  ASSUME QueueInv, NEW outcome \in Over, Finish(outcome), phase # "free",
         up' = up, asked' = asked, DOMAIN answer' = Callers
  PROVE  QueueInv'
<1> DEFINE k == Len(batch)  m == Len(queue)
<1>1. /\ queue \in Seq(Callers) /\ batch \in Seq(Callers)
      /\ k \in Nat /\ m \in Nat /\ k <= m
      /\ DOMAIN queue = 1..m /\ DOMAIN batch = 1..k
  BY DEF QueueInv, QueueTypeOK, Positions
<1>2. /\ queue' \in Seq(Callers)
      /\ Len(queue') = m - k
      /\ DOMAIN queue' = 1..(m - k)
      /\ \A n \in 1..(m - k) : queue'[n] = queue[k + n]
  <2>1. queue' = SubSeq(queue, k + 1, m)
    BY DEF Finish, Remaining
  <2>2. /\ k + 1 \in Int /\ m \in Int /\ m - (k + 1) + 1 = m - k
        /\ (IF k + 1 <= m THEN m - (k + 1) + 1 ELSE 0) = m - k
    <3> HIDE DEF k, m
    <3>1. k \in Nat /\ m \in Nat /\ k <= m
      BY <1>1
    <3>2. k = m \/ k + 1 <= m
      BY <3>1
    <3> QED BY <3>1, <3>2
  <2>6. \A i \in (k + 1)..m : i \in 1..m /\ queue[i] \in Callers
    BY <1>1
  <2>3. /\ queue' \in Seq(Callers)
        /\ Len(queue') = m - k
        /\ \A n \in 1..(m - k) : queue'[n] = queue[(k + 1) + n - 1]
    <3> HIDE DEF k, m
    <3> QED BY <2>1, <2>2, <2>6, SubSeqProperties
  <2>4. \A n \in 1..(m - k) : (k + 1) + n - 1 = k + n
    BY <1>1
  <2>5. DOMAIN queue' = 1..(m - k)
    BY <2>3, LenProperties
  <2> QED BY <2>3, <2>4, <2>5
<1>3. \A c \in Callers : c \in ToSet(batch) <=> \E n \in 1..k : queue[n] = c
  BY <1>1 DEF QueueInv, Positions, ToSet
<1>4. \A c \in Callers : status'[c] = IF \E n \in 1..k : queue[n] = c THEN outcome ELSE status[c]
  BY <1>3 DEF Finish, Told
<1>5. QueueTypeOK'
  <2>1. status' \in [Callers -> {"idle"} \cup Waiting \cup Over]
    BY DEF QueueInv, QueueTypeOK, Finish, Told
  <2> QED BY <1>2, <2>1 DEF QueueInv, QueueTypeOK, Finish
<1>6. \A n, j \in 1..(m - k) : queue'[n] = queue'[j] => n = j
  <2> SUFFICES ASSUME NEW n \in 1..(m - k), NEW j \in 1..(m - k), queue'[n] = queue'[j]
               PROVE  n = j
    OBVIOUS
  <2>1. k + n \in DOMAIN queue /\ k + j \in DOMAIN queue
    BY <1>1
  <2>2. queue[k + n] = queue[k + j]
    BY <1>2
  <2>3. k + n = k + j
    BY <2>1, <2>2 DEF QueueInv, Positions
  <2> QED BY <1>1, <2>3
<1>7. \A n \in 1..(m - k) : status'[queue'[n]] = "queued"
  <2> TAKE n \in 1..(m - k)
  <2>1. k + n \in 1..m /\ queue'[n] = queue[k + n] /\ queue[k + n] \in Callers
    BY <1>1, <1>2
  <2>2. ~\E j \in 1..k : queue[j] = queue[k + n]
    BY <1>1, <2>1 DEF QueueInv, Positions
  <2> QED BY <1>1, <1>4, <2>1, <2>2 DEF QueueInv, Positions
<1>8. \A c \in Callers : status'[c] = "queued" => \E n \in 1..(m - k) : queue'[n] = c
  <2> SUFFICES ASSUME NEW c \in Callers, status'[c] = "queued"
               PROVE  \E n \in 1..(m - k) : queue'[n] = c
    OBVIOUS
  <2>1. status[c] = "queued" /\ ~\E n \in 1..k : queue[n] = c
    BY <1>4 DEF Over
  <2>2. PICK j \in 1..m : queue[j] = c
    BY <1>1, <2>1 DEF QueueInv, Positions
  <2>3. j - k \in 1..(m - k) /\ k + (j - k) = j
    BY <1>1, <2>1, <2>2
  <2> QED BY <1>2, <2>2, <2>3
<1>9. Positions'
  <2>1. batch' = <<>>
    BY DEF Finish
  <2>2. Len(batch') = 0 /\ DOMAIN batch' = {}
    BY <2>1
  <2>3. Len(batch') <= Len(queue') /\ \A n \in DOMAIN batch' : batch'[n] = queue'[n]
    BY <1>1, <1>2, <2>2
  <2> QED BY <1>2, <1>6, <1>7, <1>8, <2>3 DEF Positions
<1> QED BY <1>5, <1>9 DEF QueueInv

\* The end of the process forgets every waiting call
LEMMA ExitInv == ASSUME QueueInv, Exit PROVE QueueInv'
<1>1. /\ up' = FALSE /\ phase' = "free" /\ asked' = asked /\ answer' = answer
      /\ queue' = <<>> /\ batch' = <<>> /\ line' = <<>>
      /\ status' = [c \in Callers |-> IF status[c] \in Waiting THEN "lost" ELSE status[c]]
  BY DEF Exit
<1>2. status' \in [Callers -> {"idle"} \cup Waiting \cup Over]
  BY <1>1 DEF QueueInv, QueueTypeOK, Over
<1>3. QueueTypeOK'
  <2>1. <<>> \in Seq(Callers) /\ <<>> \in Seq(Callers \X Nat)
    OBVIOUS
  <2>2. asked \in [Callers -> {<<>>} \cup Arrays] /\ DOMAIN answer = Callers
    BY DEF QueueInv, QueueTypeOK
  <2> QED BY <1>1, <1>2, <2>1, <2>2 DEF QueueTypeOK
<1>4. \A c \in Callers : status'[c] # "queued"
  BY <1>1 DEF Waiting
<1>5. Positions'
  BY <1>1, <1>4 DEF Positions
<1> QED BY <1>3, <1>5 DEF QueueInv

-----------------------------------------------------------------------------
(* One lemma per action *)

LEMMA ReceiveInv == ASSUME QueueInv, NEW c \in Callers, Receive(c) PROVE QueueInv'
<1>1. PICK w \in Arrays : asked' = [asked EXCEPT ![c] = w]
  BY DEF Receive
<1>2. status[c] = "idle" /\ status' = [status EXCEPT ![c] = "auth"]
  BY DEF Receive
<1>3. /\ up' = up /\ answer' = answer /\ queue' = queue /\ phase' = phase
      /\ batch' = batch /\ line' = line
  BY DEF Receive
<1>4. \A n \in DOMAIN queue : queue[n] # c
  BY <1>2 DEF QueueInv, Positions
<1>5. Todo' = Todo
  <2>1. \A n \in DOMAIN batch : asked'[batch[n]] = asked[batch[n]]
    BY <1>1, <1>4 DEF QueueInv, Positions, QueueTypeOK
  <2> QED BY <1>3, <2>1 DEF Todo
<1>6. QueueTypeOK'
  BY <1>1, <1>2, <1>3, <1>5 DEF QueueInv, QueueTypeOK, Waiting
<1>7. Positions'
  BY <1>2, <1>3, <1>4 DEF QueueInv, QueueTypeOK, Positions
<1> QED BY <1>6, <1>7 DEF QueueInv

LEMMA AdmitInv == ASSUME QueueInv, NEW c \in Callers, Admit(c) PROVE QueueInv'
<1>1. status[c] = "auth" /\ up' = up /\ asked' = asked /\ answer' = answer
      /\ phase' = phase /\ batch' = batch /\ line' = line
  BY DEF Admit
<1>2. Todo' = Todo
  BY <1>1 DEF Todo
<1>3. \A n \in DOMAIN queue : queue[n] # c
  BY <1>1 DEF QueueInv, Positions
<1>4. CASE status' = [status EXCEPT ![c] = "queued"] /\ queue' = Append(queue, c)
  <2> DEFINE m == Len(queue)
  <2>1. /\ m \in Nat /\ DOMAIN queue = 1..m /\ queue' \in Seq(Callers)
        /\ DOMAIN queue' = 1..(m + 1) /\ Len(queue') = m + 1
        /\ queue'[m + 1] = c
        /\ \A n \in 1..m : queue'[n] = queue[n]
    BY <1>4 DEF QueueInv, QueueTypeOK
  <2>2. \A n \in 1..(m + 1) : n \in 1..m \/ n = m + 1
    BY <2>1
  <2>3. \A n, j \in 1..(m + 1) : queue'[n] = queue'[j] => n = j
    BY <1>3, <2>1, <2>2 DEF QueueInv, Positions
  <2>4. \A n \in 1..(m + 1) : status'[queue'[n]] = "queued"
    BY <1>3, <1>4, <2>1, <2>2, SMTT(30) DEF QueueInv, QueueTypeOK, Positions
  <2>5. \A d \in Callers : status'[d] = "queued" => \E n \in 1..(m + 1) : queue'[n] = d
    BY <1>4, <2>1 DEF QueueInv, QueueTypeOK, Positions
  <2>6. Len(batch') <= m + 1 /\ \A n \in DOMAIN batch' : batch'[n] = queue'[n]
    <3>1. Len(batch) \in Nat /\ Len(batch) <= m /\ \A n \in DOMAIN batch : batch[n] = queue[n]
      BY DEF QueueInv, QueueTypeOK, Positions
    <3>2. \A n \in DOMAIN batch : n \in 1..m
      BY <2>1, <3>1, LenProperties DEF QueueInv, QueueTypeOK
    <3> QED BY <1>1, <2>1, <3>1, <3>2
  <2>7. Positions'
    BY <2>1, <2>3, <2>4, <2>5, <2>6 DEF Positions
  <2>8. QueueTypeOK'
    BY <1>1, <1>2, <1>4, <2>1 DEF QueueInv, QueueTypeOK, Waiting
  <2> QED BY <2>7, <2>8 DEF QueueInv
<1>5. CASE status' = [status EXCEPT ![c] = "refused"] /\ UNCHANGED queue
  <2>1. QueueTypeOK'
    BY <1>1, <1>2, <1>5 DEF QueueInv, QueueTypeOK, Over
  <2>2. Positions'
    BY <1>1, <1>3, <1>5 DEF QueueInv, QueueTypeOK, Positions
  <2> QED BY <2>1, <2>2 DEF QueueInv
<1> QED BY <1>4, <1>5 DEF Admit

LEMMA ProcessQueueInv == ASSUME QueueInv, ProcessQueue PROVE QueueInv'
<1>1. CASE Exit
  BY <1>1, ExitInv
<1>2. CASE ~Exit
  <2>1. /\ phase = "free" /\ queue # <<>> /\ batch' = queue
        /\ phase' = IF \A c \in ToSet(queue) : asked[c] = <<>> THEN "ledger" ELSE "mapping"
        /\ UNCHANGED <<up, status, asked, answer, queue, line, forwarded, verdict>>
    BY <1>2 DEF ProcessQueue
  <2>2. line = <<>>
    BY <2>1 DEF QueueInv, QueueTypeOK
  <2>3. phase' = "mapping" => Todo' # {}
    <3> SUFFICES ASSUME phase' = "mapping" PROVE Todo' # {}
      OBVIOUS
    <3>1. PICK n \in DOMAIN queue : asked[queue[n]] # <<>>
      BY <2>1 DEF ToSet
    <3>2. asked[queue[n]] \in Seq(Requests)
      BY QueueAssumption, <3>1 DEF QueueInv, QueueTypeOK
    <3>3. 1 \in DOMAIN asked[queue[n]]
      BY <3>1, <3>2
    <3>4. ToSet(line') = {}
      BY <2>1, <2>2 DEF ToSet
    <3>5. <<n, 1>> \in Todo'
      BY <2>1, <3>1, <3>3, <3>4 DEF Todo
    <3> QED BY <3>5
  <2>4. QueueTypeOK'
    BY <2>1, <2>2, <2>3 DEF QueueInv, QueueTypeOK
  <2>5. Positions'
    BY <2>1 DEF QueueInv, QueueTypeOK, Positions
  <2> QED BY <2>4, <2>5 DEF QueueInv
<1> QED BY <1>1, <1>2

LEMMA MapRequestInv == ASSUME QueueInv, MapRequest PROVE QueueInv'
<1>1. PICK p \in Todo :
        LET r == <<batch[p[1]], p[2]>> IN
          IF RequestOf(r) \notin Known
          THEN Respond(<<Response(r, FALSE)>>)
          ELSE /\ line' = Append(line, r)
               /\ IF Todo = {p} THEN phase' = "ledger" ELSE phase' = phase
               /\ UNCHANGED <<status, answer, queue, batch>>
  BY DEF MapRequest
<1>2. phase = "mapping" /\ up' = up /\ asked' = asked
  BY DEF MapRequest
<1> DEFINE r == <<batch[p[1]], p[2]>>
<1>3. CASE RequestOf(r) \notin Known
  <2>1. Finish("answered") /\ DOMAIN answer' = Callers
    BY <1>1, <1>3 DEF Respond
  <2> QED BY <1>2, <2>1, FinishInv DEF Over
<1>4. CASE RequestOf(r) \in Known
  <2>1. /\ line' = Append(line, r)
        /\ IF Todo = {p} THEN phase' = "ledger" ELSE phase' = phase
        /\ UNCHANGED <<status, answer, queue, batch>>
    BY <1>1, <1>4
  <2>2. p[1] \in DOMAIN batch /\ p[2] \in DOMAIN asked[batch[p[1]]]
    BY DEF Todo
  <2>3. batch[p[1]] \in Callers /\ asked[batch[p[1]]] \in Seq(Requests)
    BY QueueAssumption, <2>2 DEF QueueInv, QueueTypeOK
  <2>4. r \in Callers \X Nat
    BY <2>2, <2>3
  <2>5. ToSet(line') = ToSet(line) \cup {r}
    <3>1. /\ line \in Seq(Callers \X Nat) /\ DOMAIN line = 1..Len(line) /\ Len(line) \in Nat
          /\ DOMAIN line' = 1..(Len(line) + 1)
          /\ line'[Len(line) + 1] = r
          /\ \A n \in 1..Len(line) : line'[n] = line[n]
      BY <2>1, <2>4 DEF QueueInv, QueueTypeOK
    <3>2. 1..(Len(line) + 1) = 1..Len(line) \cup {Len(line) + 1}
      BY <3>1
    <3>3. \A n \in 1..Len(line) : line'[n] = line[n]
      BY <3>1
    <3>4. DOMAIN line' = DOMAIN line \cup {Len(line) + 1} /\ DOMAIN line = 1..Len(line)
      BY <3>1, <3>2
    <3> QED BY <3>1, <3>3, <3>4 DEF ToSet
  <2>6. phase' = "mapping" => Todo' # {}
    <3> SUFFICES ASSUME Todo # {p} PROVE Todo' # {}
      BY <2>1
    <3>1. PICK q \in Todo : q # p
      OBVIOUS
    <3>2. /\ q[1] \in DOMAIN batch /\ q[2] \in DOMAIN asked[batch[q[1]]]
          /\ q = <<q[1], q[2]>> /\ p = <<p[1], p[2]>>
          /\ <<batch[q[1]], q[2]>> \notin ToSet(line)
      BY DEF Todo
    <3>3. <<batch[q[1]], q[2]>> # r
      <4>1. q[1] # p[1] => batch[q[1]] # batch[p[1]]
        BY <2>2, <3>2, SMTT(30) DEF QueueInv, QueueTypeOK, Positions
      <4> QED BY <3>1, <3>2, <4>1
    <3>4. q \in Todo'
      BY <1>2, <2>1, <2>5, <3>2, <3>3 DEF Todo
    <3> QED BY <3>4
  <2>7. batch # <<>>
    BY <1>2 DEF QueueInv, QueueTypeOK
  <2>8. QueueTypeOK'
    BY <1>2, <2>1, <2>4, <2>6, <2>7 DEF QueueInv, QueueTypeOK
  <2>9. Positions'
    BY <2>1 DEF QueueInv, Positions
  <2> QED BY <2>8, <2>9 DEF QueueInv
<1> QED BY <1>3, <1>4

LEMMA LedgerAnswersInv == ASSUME QueueInv, NEW oks, LedgerAnswers(oks) PROVE QueueInv'
<1>1. /\ phase = "ledger" /\ up' = up /\ asked' = asked
      /\ Finish("answered") /\ DOMAIN answer' = Callers
  BY DEF LedgerAnswers, Respond
<1> QED BY <1>1, FinishInv DEF Over

LEMMA BatchFailsInv == ASSUME QueueInv, BatchFails PROVE QueueInv'
<1>1. /\ phase # "free" /\ up' = up /\ asked' = asked
      /\ Finish("failed") /\ DOMAIN answer' = Callers
  BY DEF BatchFails, QueueInv, QueueTypeOK
<1> QED BY <1>1, FinishInv DEF Over

LEMMA RestartInv == ASSUME QueueInv, Restart PROVE QueueInv'
<1>1. Todo' = Todo
  BY DEF Restart, Todo
<1>2. QueueTypeOK'
  BY <1>1 DEF QueueInv, QueueTypeOK, Restart
<1>3. Positions'
  BY DEF QueueInv, Positions, Restart
<1> QED BY <1>2, <1>3 DEF QueueInv

LEMMA QueueStutterInv == ASSUME QueueInv, UNCHANGED queueVars PROVE QueueInv'
<1>1. Todo' = Todo
  BY DEF queueVars, Todo
<1>2. QueueTypeOK'
  BY <1>1 DEF QueueInv, QueueTypeOK, queueVars
<1>3. Positions'
  BY DEF QueueInv, Positions, queueVars
<1> QED BY <1>2, <1>3 DEF QueueInv

LEMMA QueueInitInv == QueueInit => QueueInv
  BY DEF QueueInit, QueueInv, QueueTypeOK, Positions, Todo

-----------------------------------------------------------------------------
\* The steps of the queue, taken alone or with a ledger that answers
QueueMove ==
  \/ \E c \in Callers : Receive(c) \/ Admit(c)
  \/ ProcessQueue \/ MapRequest \/ BatchFails \/ Exit \/ Restart
  \/ \E oks : LedgerAnswers(oks)
  \/ UNCHANGED queueVars

LEMMA MoveInv == ASSUME QueueInv, QueueMove PROVE QueueInv'
BY ReceiveInv, AdmitInv, ProcessQueueInv, MapRequestInv, LedgerAnswersInv, BatchFailsInv,
   ExitInv, RestartInv, QueueStutterInv DEF QueueMove

LEMMA NextIsMove == [QueueNext]_queueVars => QueueMove
BY DEF QueueNext, Process, Stop, QueueMove

\* The queue keeps its types, and its calls are those that wait, for any calls,
\* arrays, failures and stops.
THEOREM QueueInvariant == QueueSpec => []QueueInv
BY QueueInitInv, MoveInv, NextIsMove, PTL DEF QueueSpec

\* The variables keep their types; while requests are mapped there is one left.
THEOREM QueueTypeCorrect == QueueSpec => []QueueTypeOK
<1>1. QueueInv => QueueTypeOK
  BY DEF QueueInv
<1> QED BY <1>1, QueueInvariant, PTL

\* A sequence without repetitions has as many places as elements
LEMMA NoRepetition ==
  ASSUME NEW S, NEW q \in Seq(S), \A n, m \in DOMAIN q : q[n] = q[m] => n = m
  PROVE  Len(q) = Cardinality(ToSet(q))
<1>1. Len(q) \in Nat /\ DOMAIN q = 1..Len(q)
  OBVIOUS
<1>2. IsFiniteSet(1..Len(q)) /\ Cardinality(1..Len(q)) = Len(q)
  <2>1. 1 \in Int /\ Len(q) \in Int /\ Len(q) >= 0
    BY <1>1
  <2>2. /\ IsFiniteSet(1..Len(q))
        /\ Cardinality(1..Len(q)) = IF 1 > Len(q) THEN 0 ELSE Len(q) - 1 + 1
    BY <2>1, FS_Interval
  <2> QED BY <2>1, <2>2
<1>3. q \in [1..Len(q) -> ToSet(q)]
  BY <1>1 DEF ToSet
<1>4. q \in Bijection(1..Len(q), ToSet(q))
  BY <1>1, <1>3 DEF Bijection, Injection, IsInjective, Surjection, ToSet
<1>5. ExistsBijection(1..Len(q), ToSet(q))
  BY <1>4 DEF ExistsBijection
<1> QED BY <1>2, <1>5, FS_Bijection

\* The queue holds exactly the calls that wait, none twice, and those being
\* processed are its head.
THEOREM QueueAlwaysHoldsWaiting == QueueSpec => []QueueHoldsWaiting
<1>1. ASSUME QueueInv PROVE QueueHoldsWaiting
  <2>1. queue \in Seq(Callers) /\ batch \in Seq(Callers)
    BY <1>1 DEF QueueInv, QueueTypeOK
  <2>2. ToSet(queue) = {c \in Callers : status[c] = "queued"}
    BY <1>1, <2>1 DEF QueueInv, Positions, ToSet
  <2>3. Len(queue) = Cardinality(ToSet(queue))
    BY <1>1, <2>1, NoRepetition DEF QueueInv, Positions
  <2>4. IsPrefix(batch, queue)
    <3>1. /\ Len(batch) \in Nat /\ Len(batch) <= Len(queue)
          /\ DOMAIN batch = 1..Len(batch)
          /\ \A n \in 1..Len(batch) : batch[n] = queue[n]
      BY <1>1, <2>1 DEF QueueInv, Positions
    <3>2. SubSeq(batch, 1, Len(batch)) = SubSeq(queue, 1, Len(batch))
      BY <2>1, <3>1
    <3> QED BY <3>1, <3>2 DEF IsPrefix
  <2> QED BY <2>2, <2>3, <2>4 DEF QueueHoldsWaiting
<1> QED BY <1>1, QueueInvariant, PTL

-----------------------------------------------------------------------------
(* No request is sent twice *)

Distinct(q) == \A n, m \in DOMAIN q : q[n] = q[m] => n = m

\* The requests mapped are of the batch, and those sent of calls that are over
\* or of the batch that the ledger has
SentInv ==
  /\ forwarded \in Seq(Callers \X Nat) /\ Distinct(forwarded)
  /\ Distinct(line) /\ \A n \in DOMAIN line : line[n][1] \in ToSet(batch)
  /\ \A n \in DOMAIN forwarded :
       \/ status[forwarded[n][1]] \in Over
       \/ phase = "ledger" /\ forwarded[n][1] \in ToSet(batch)

LEMMA InBatchWaits ==
  ASSUME QueueInv, NEW c \in ToSet(batch)
  PROVE  c \in Callers /\ status[c] = "queued"
  BY DEF QueueInv, QueueTypeOK, Positions, ToSet

\* A step in which calls come and go, but not those whose requests were sent
LEMMA SentStays ==
  ASSUME QueueInv, SentInv, UNCHANGED <<forwarded, line, batch, phase>>,
         \A c \in Callers : status[c] \in Over => status'[c] \in Over
  PROVE  SentInv'
<1>1. \A n \in DOMAIN forwarded : forwarded[n][1] \in Callers
  BY DEF SentInv
<1> QED BY <1>1 DEF SentInv, Distinct

\* The calls of a batch are over when it ends
LEMMA FinishSent ==
  ASSUME QueueInv, SentInv, NEW outcome \in Over, Finish(outcome), UNCHANGED forwarded
  PROVE  SentInv'
<1>1. \A n \in DOMAIN forwarded : forwarded[n][1] \in Callers
  BY DEF SentInv
<1>2. line' = <<>> /\ \A c \in Callers : status'[c] = IF c \in ToSet(batch) THEN outcome ELSE status[c]
  BY DEF Finish, Told
<1>3. \A n \in DOMAIN forwarded : status'[forwarded[n][1]] \in Over
  BY <1>1, <1>2 DEF SentInv
<1> QED BY <1>2, <1>3 DEF SentInv, Distinct

LEMMA ExitSent == ASSUME QueueInv, SentInv, Exit PROVE SentInv'
<1>1. \A n \in DOMAIN forwarded : forwarded[n][1] \in Callers
  BY DEF SentInv
<1>2. UNCHANGED forwarded /\ line' = <<>>
      /\ \A c \in Callers : status'[c] = IF status[c] \in Waiting THEN "lost" ELSE status[c]
  BY DEF Exit
<1>3. \A n \in DOMAIN forwarded : status'[forwarded[n][1]] \in Over
  <2> TAKE n \in DOMAIN forwarded
  <2>1. status[forwarded[n][1]] \in Over \/ status[forwarded[n][1]] = "queued"
    BY InBatchWaits DEF SentInv
  <2> QED BY <1>1, <1>2, <2>1 DEF Over, Waiting
<1> QED BY <1>2, <1>3 DEF SentInv, Distinct

\* A request that is mapped was not yet, and with the last of them all are sent
LEMMA MapRequestSent == ASSUME QueueInv, SentInv, MapRequest PROVE SentInv'
<1>1. phase = "mapping" /\ UNCHANGED asked
  BY DEF MapRequest
<1>2. PICK p \in Todo :
        LET r == <<batch[p[1]], p[2]>> IN
          IF RequestOf(r) \notin Known
          THEN Respond(<<Response(r, FALSE)>>) /\ UNCHANGED forwarded
          ELSE /\ line' = Append(line, r)
               /\ IF Todo = {p} THEN phase' = "ledger" /\ forwarded' = forwarded \o line'
                                ELSE UNCHANGED <<phase, forwarded>>
               /\ UNCHANGED <<status, answer, queue, batch>>
  BY DEF MapRequest
<1> DEFINE r == <<batch[p[1]], p[2]>>
<1>3. CASE RequestOf(r) \notin Known
  <2>1. Finish("answered") /\ UNCHANGED forwarded
    BY <1>2, <1>3 DEF Respond
  <2> QED BY <2>1, FinishSent DEF Over
<1>4. CASE RequestOf(r) \in Known
  <2>1. /\ line' = Append(line, r) /\ UNCHANGED <<status, batch>>
        /\ IF Todo = {p} THEN phase' = "ledger" /\ forwarded' = forwarded \o line'
                         ELSE UNCHANGED <<phase, forwarded>>
    BY <1>2, <1>4
  <2>2. /\ p[1] \in DOMAIN batch /\ p[2] \in DOMAIN asked[batch[p[1]]] /\ r \notin ToSet(line)
    BY DEF Todo
  <2>3. r \in Callers \X Nat /\ r[1] \in ToSet(batch)
    <3>1. batch[p[1]] \in Callers /\ asked[batch[p[1]]] \in Seq(Requests)
      BY QueueAssumption, <2>2 DEF QueueInv, QueueTypeOK
    <3>2. p[2] \in Nat
      BY <2>2, <3>1
    <3> QED BY <2>2, <3>1, <3>2 DEF ToSet
  <2> HIDE DEF r
  <2>4. /\ line \in Seq(Callers \X Nat) /\ Len(line) \in Nat /\ DOMAIN line = 1..Len(line)
        /\ line' \in Seq(Callers \X Nat) /\ Len(line') = Len(line) + 1
        /\ DOMAIN line' = 1..(Len(line) + 1) /\ line'[Len(line) + 1] = r
        /\ \A n \in 1..Len(line) : line'[n] = line[n]
    BY <2>1, <2>3 DEF QueueInv, QueueTypeOK
  <2>5. Distinct(line)' /\ \A n \in DOMAIN line' : line'[n][1] \in ToSet(batch)
    <3>1. \A n \in 1..Len(line) : line[n] # r /\ line[n][1] \in ToSet(batch)
      BY <2>2, <2>4 DEF ToSet, SentInv
    <3>2. \A n \in 1..(Len(line) + 1) : n \in 1..Len(line) \/ n = Len(line) + 1
      BY <2>4
    <3>3. Distinct(line)
      BY DEF SentInv
    <3>4. \A n, m \in DOMAIN line' : line'[n] = line'[m] => n = m
      BY <2>4, <3>1, <3>2, <3>3 DEF Distinct
    <3> QED BY <2>3, <2>4, <3>1, <3>2, <3>4 DEF Distinct
  <2>6. \A n \in DOMAIN forwarded : status[forwarded[n][1]] \in Over
    BY <1>1 DEF SentInv
  <2>7. CASE Todo # {p}
    <3>1. UNCHANGED <<phase, forwarded>>
      BY <2>1, <2>7
    <3> QED BY <2>1, <2>5, <2>6, <3>1 DEF SentInv, Distinct
  <2>8. CASE Todo = {p}
    <3>1. forwarded' = forwarded \o line' /\ phase' = "ledger"
      BY <2>1, <2>8
    <3> DEFINE a == Len(forwarded)
               b == Len(line')
    <3>2. /\ a \in Nat /\ b \in Nat /\ DOMAIN forwarded = 1..a /\ DOMAIN line' = 1..b
          /\ forwarded' \in Seq(Callers \X Nat) /\ DOMAIN forwarded' = 1..(a + b)
          /\ \A n \in 1..a : forwarded'[n] = forwarded[n]
          /\ \A n \in 1..b : forwarded'[a + n] = line'[n]
      <4>1. forwarded \in Seq(Callers \X Nat) /\ line' \in Seq(Callers \X Nat)
        BY <2>4 DEF SentInv
      <4>2. \A f, g \in Seq(Callers \X Nat) :
              /\ Len(f) \in Nat /\ DOMAIN f = 1..Len(f) /\ f \o g \in Seq(Callers \X Nat)
              /\ DOMAIN (f \o g) = 1..(Len(f) + Len(g))
              /\ \A n \in 1..Len(f) : (f \o g)[n] = f[n]
              /\ \A n \in 1..Len(g) : (f \o g)[Len(f) + n] = g[n]
        OBVIOUS
      <4> QED BY <3>1, <4>1, <4>2
    <3>3. \A n \in 1..a : status[forwarded[n][1]] \in Over /\ forwarded[n][1] \notin ToSet(batch)
      BY <2>6, <3>2, InBatchWaits DEF Over
    <3>4. \A n \in 1..b : line'[n][1] \in ToSet(batch)
      BY <2>5, <3>2
    <3> HIDE DEF a, b
    <3>5. \A n \in 1..(a + b) : n \in 1..a \/ \E k \in 1..b : n = a + k
      <4> TAKE n \in 1..(a + b)
      <4>1. n \notin 1..a => n - a \in 1..b /\ n = a + (n - a)
        BY <3>2
      <4> QED BY <4>1
    <3>6. \A n, m \in 1..(a + b) : forwarded'[n] = forwarded'[m] => n = m
      <4> SUFFICES ASSUME NEW n \in 1..(a + b), NEW m \in 1..(a + b), forwarded'[n] = forwarded'[m]
                   PROVE  n = m
        OBVIOUS
      <4>1. CASE n \in 1..a /\ m \in 1..a
        BY <3>2, <4>1 DEF SentInv, Distinct
      <4>2. CASE \E k \in 1..b, j \in 1..b : n = a + k /\ m = a + j
        <5>1. PICK k \in 1..b, j \in 1..b : n = a + k /\ m = a + j
          BY <4>2
        <5>2. line'[k] = line'[j]
          BY <3>2, <5>1
        <5>3. k = j
          BY <2>5, <3>2, <5>2 DEF Distinct
        <5> QED BY <5>1, <5>3
      <4>3. \A i \in 1..a, k \in 1..b : forwarded'[i] # forwarded'[a + k]
        <5> TAKE i \in 1..a, k \in 1..b
        <5>1. forwarded'[i] = forwarded[i] /\ forwarded[i][1] \notin ToSet(batch)
          BY <3>2, <3>3
        <5>2. forwarded'[a + k] = line'[k] /\ line'[k][1] \in ToSet(batch)
          BY <3>2, <3>4
        <5> QED BY <5>1, <5>2
      <4> QED BY <3>5, <4>1, <4>2, <4>3
    <3>7. \A n \in 1..(a + b) : status[forwarded'[n][1]] \in Over \/ forwarded'[n][1] \in ToSet(batch)
      <4>1. \A n \in 1..a : status[forwarded'[n][1]] \in Over
        BY <3>2, <3>3
      <4>2. \A k \in 1..b : forwarded'[a + k][1] \in ToSet(batch)
        BY <3>2, <3>4
      <4> QED BY <3>5, <4>1, <4>2
    <3>8. Distinct(forwarded)'
      BY <3>2, <3>6 DEF Distinct
    <3> QED BY <2>1, <2>5, <3>1, <3>2, <3>7, <3>8 DEF SentInv
  <2> QED BY <2>7, <2>8
<1> QED BY <1>3, <1>4

LEMMA MoveSent == ASSUME QueueInv, SentInv, QueueMove PROVE SentInv'
<1>1. ASSUME NEW c \in Callers, Receive(c) \/ Admit(c) PROVE SentInv'
  <2>1. \A d \in Callers : status[d] \in Over => status'[d] \in Over
    BY <1>1 DEF Receive, Admit, Over, QueueInv, QueueTypeOK
  <2> QED BY <1>1, <2>1, SentStays DEF Receive, Admit
<1>2. CASE ProcessQueue
  <2>1. CASE ~Exit
    <3>1. phase = "free" /\ UNCHANGED <<status, line, forwarded>>
      BY <1>2, <2>1 DEF ProcessQueue
    <3>2. line = <<>>
      BY <3>1 DEF QueueInv, QueueTypeOK
    <3> QED BY <3>1, <3>2 DEF SentInv, Distinct
  <2> QED BY <2>1, ExitSent
<1>3. ASSUME NEW oks, LedgerAnswers(oks) PROVE SentInv'
  BY <1>3, FinishSent DEF LedgerAnswers, Respond, Over
<1>4. CASE BatchFails
  BY <1>4, FinishSent DEF BatchFails, Over
<1>5. CASE Restart \/ UNCHANGED queueVars
  BY <1>5, SentStays DEF Restart, queueVars
<1> QED BY <1>1, <1>2, <1>3, <1>4, <1>5, MapRequestSent, ExitSent DEF QueueMove

\* Whatever fails, stops or comes again, no request is sent to the ledger twice:
\* each call is in one batch, and a batch is sent when its last request is mapped.
THEOREM RequestsTakenOnce == QueueSpec => []TakenOnce
<1>1. QueueInit => SentInv
  BY DEF QueueInit, SentInv, Distinct
<1>2. SentInv => TakenOnce
  BY NoRepetition DEF SentInv, Distinct, TakenOnce
<1> QED BY <1>1, <1>2, QueueInitInv, MoveInv, MoveSent, NextIsMove, PTL DEF QueueSpec

-----------------------------------------------------------------------------
(* The queue implements BatchServer *)

waitingNow == ToSet(queue) \ ToSet(batch)
servingNow == ToSet(batch)
outcomeNow == [c \in Callers |-> IF status[c] \in Over THEN status[c] ELSE "none"]

\* What the abstract server sees of a state: those waiting and those served are
\* the calls with status queued, and none of them has an outcome
LEMMA ServerView ==
  ASSUME QueueInv
  PROVE  /\ waitingNow \cup servingNow = {c \in Callers : status[c] = "queued"}
         /\ ToSet(queue) = {c \in Callers : status[c] = "queued"}
         /\ servingNow \subseteq ToSet(queue)
         /\ phase = "free" <=> servingNow = {}
         /\ \A c \in Callers : status[c] \notin Over <=> outcomeNow[c] = "none"
<1>1. queue \in Seq(Callers) /\ batch \in Seq(Callers)
  BY DEF QueueInv, QueueTypeOK
<1>2. ToSet(queue) = {c \in Callers : status[c] = "queued"}
  BY <1>1 DEF QueueInv, Positions, ToSet
<1>3. servingNow \subseteq ToSet(queue)
  BY <1>1 DEF QueueInv, Positions, ToSet, servingNow
<1>4. phase = "free" <=> servingNow = {}
  <2>1. batch = <<>> <=> DOMAIN batch = {}
    BY <1>1
  <2>2. DOMAIN batch = {} <=> servingNow = {}
    BY DEF servingNow, ToSet
  <2> QED BY <2>1, <2>2 DEF QueueInv, QueueTypeOK
<1>5. \A c \in Callers : status[c] \notin Over <=> outcomeNow[c] = "none"
  BY DEF Over, outcomeNow
<1> QED BY <1>2, <1>3, <1>4, <1>5 DEF waitingNow, servingNow

\* However a batch ends, it is served: the others go on waiting
LEMMA FinishServes ==
  ASSUME QueueInv, QueueInv', NEW how \in {"answered", "failed"}, Finish(how), phase # "free"
  PROVE  Server!Serve
<1>1. /\ servingNow # {} /\ servingNow' = {}
      /\ ToSet(queue) = {c \in Callers : status[c] = "queued"}
  <2>1. batch' = <<>>
    BY DEF Finish
  <2> QED BY <2>1, ServerView DEF servingNow, ToSet
<1>2. ToSet(queue)' = {c \in Callers : status'[c] = "queued"}
  BY DEF QueueInv, QueueTypeOK, Positions, ToSet
<1>3. \A c \in Callers : status'[c] = IF c \in servingNow THEN how ELSE status[c]
  BY DEF Finish, Told, servingNow
<1>4. waitingNow' = waitingNow
  BY <1>1, <1>2, <1>3 DEF waitingNow, servingNow
<1>5. outcomeNow' = [c \in Callers |-> IF c \in servingNow THEN how ELSE outcomeNow[c]]
  BY <1>3 DEF outcomeNow, Over
<1> QED BY <1>1, <1>4, <1>5 DEF Server!Serve, Server!Ends, waitingNow, servingNow, outcomeNow

\* The end of the process loses all that wait, and those whose token is still
\* being verified
LEMMA ExitLoses == ASSUME QueueInv, Exit PROVE Server!Lose
<1> DEFINE C == {c \in Callers : status[c] \in Waiting}
<1>1. C \subseteq {c \in Callers : outcomeNow[c] = "none"}
  BY ServerView DEF Waiting, Over
<1>2. waitingNow \cup servingNow \subseteq C
  BY ServerView DEF Waiting
<1>3. outcomeNow' = [c \in Callers |-> IF c \in C THEN "lost" ELSE outcomeNow[c]]
  <2>1. \A c \in Callers : status'[c] = IF c \in C THEN "lost" ELSE status[c]
    BY DEF Exit
  <2> QED BY <2>1 DEF outcomeNow, Over
<1>4. waitingNow' = {} /\ servingNow' = {}
  BY DEF Exit, waitingNow, servingNow, ToSet
<1> QED BY <1>1, <1>2, <1>3, <1>4 DEF Server!Lose, Server!Ends, waitingNow, servingNow, outcomeNow

\* A call that is admitted joins those waiting, one that is not is refused
LEMMA AdmitServes ==
  ASSUME QueueInv, QueueInv', NEW c \in Callers, Admit(c)
  PROVE  Server!Join(c) \/ Server!Refuse(c)
<1>1. status[c] = "auth" /\ batch' = batch
  BY DEF Admit
<1>2. outcomeNow[c] = "none" /\ c \notin waitingNow \cup servingNow
  BY <1>1, ServerView DEF Over
<1>3. servingNow' = servingNow
  BY <1>1 DEF servingNow
<1>4. CASE status' = [status EXCEPT ![c] = "queued"]
  <2>1. ToSet(queue)' = {d \in Callers : status'[d] = "queued"}
    BY DEF QueueInv, QueueTypeOK, Positions, ToSet
  <2>2. status \in [Callers -> {"idle"} \cup Waiting \cup Over]
    BY DEF QueueInv, QueueTypeOK
  <2>3. ToSet(queue)' = ToSet(queue) \cup {c}
    BY <1>4, <2>1, <2>2, ServerView
  <2>4. waitingNow' = waitingNow \cup {c}
    BY <1>2, <1>3, <2>3 DEF waitingNow, servingNow
  <2>5. outcomeNow' = outcomeNow
    BY <1>1, <1>4, <2>2 DEF outcomeNow, Over
  <2>6. Server!Join(c)
    BY <1>2, <1>3, <2>4, <2>5 DEF Server!Join, waitingNow, servingNow, outcomeNow
  <2> QED BY <2>6
<1>5. CASE status' = [status EXCEPT ![c] = "refused"] /\ UNCHANGED queue
  <2>1. status \in [Callers -> {"idle"} \cup Waiting \cup Over]
    BY DEF QueueInv, QueueTypeOK
  <2>2. outcomeNow' = [d \in Callers |-> IF d \in {c} THEN "refused" ELSE outcomeNow[d]]
    BY <1>5, <2>1 DEF outcomeNow, Over
  <2>3. waitingNow' = waitingNow
    BY <1>1, <1>5 DEF waitingNow
  <2>4. Server!Refuse(c)
    BY <1>2, <1>3, <2>2, <2>3 DEF Server!Refuse, Server!Ends, waitingNow, servingNow, outcomeNow
  <2> QED BY <2>4
<1> QED BY <1>4, <1>5 DEF Admit

\* The timer takes everyone who waits
LEMMA ProcessQueueTakes ==
  ASSUME QueueInv, ProcessQueue, ~Exit
  PROVE  Server!Take
<1>1. phase = "free" /\ queue # <<>> /\ batch' = queue /\ UNCHANGED <<status, queue>>
  BY DEF ProcessQueue
<1>2. servingNow = {} /\ waitingNow = ToSet(queue)
  BY <1>1, ServerView DEF waitingNow, servingNow
<1>3. waitingNow # {}
  <2>1. queue \in Seq(Callers)
    BY DEF QueueInv, QueueTypeOK
  <2>2. 1 \in DOMAIN queue
    BY <1>1, <2>1
  <2> QED BY <1>2, <2>2 DEF ToSet
<1>4. servingNow' = waitingNow /\ waitingNow' = {} /\ outcomeNow' = outcomeNow
  BY <1>1, <1>2 DEF waitingNow, servingNow, outcomeNow
<1> QED BY <1>2, <1>3, <1>4 DEF Server!Take, waitingNow, servingNow, outcomeNow

\* What leaves queue, batch and outcomes alone is not seen
LEMMA UnseenStutters ==
  ASSUME UNCHANGED <<queue, batch>>, outcomeNow' = outcomeNow
  PROVE  UNCHANGED Server!serverVars
  BY DEF Server!serverVars, outcomeNow

LEMMA ReceiveUnseen ==
  ASSUME QueueInv, NEW c \in Callers, Receive(c)
  PROVE  UNCHANGED Server!serverVars
<1>1. status[c] = "idle" /\ status' = [status EXCEPT ![c] = "auth"]
  BY DEF Receive
<1>2. outcomeNow' = outcomeNow
  BY <1>1 DEF QueueInv, QueueTypeOK, outcomeNow, Over
<1> QED BY <1>2, UnseenStutters DEF Receive

\* A request that can be mapped is not seen; one that cannot ends the batch
LEMMA ProcessServes ==
  ASSUME QueueInv, QueueInv', Process
  PROVE  Server!Serve \/ UNCHANGED Server!serverVars
<1>1. CASE MapRequest
  <2>1. phase = "mapping"
    BY <1>1 DEF MapRequest
  <2>2. \/ Finish("answered")
        \/ UNCHANGED <<status, queue, batch>>
    BY <1>1 DEF MapRequest, Respond
  <2>3. CASE UNCHANGED <<status, queue, batch>>
    BY <2>3, UnseenStutters DEF outcomeNow
  <2> QED BY <2>1, <2>2, <2>3, FinishServes
<1>2. CASE \E oks \in [DOMAIN line -> BOOLEAN] : LedgerAnswers(oks)
  BY <1>2, FinishServes DEF LedgerAnswers, Respond
<1>3. CASE MayFail /\ BatchFails
  BY <1>3, FinishServes DEF BatchFails
<1> QED BY <1>1, <1>2, <1>3 DEF Process

\* Whatever calls arrive, fail or are cut off, the queue serves them batch after
\* batch: everyone who waits, together, once, and with one outcome.
THEOREM QueueServesBatches == QueueSpec => ServesBatches
<1>1. QueueInit => Server!ServerInit
  BY DEF QueueInit, Server!ServerInit, ToSet, Over
<1>2. QueueInv /\ QueueInv' /\ [QueueNext]_queueVars => [Server!ServerNext]_(Server!serverVars)
  <2> SUFFICES ASSUME QueueInv, QueueInv', [QueueNext]_queueVars
               PROVE  Server!ServerNext \/ UNCHANGED Server!serverVars
    OBVIOUS
  <2>1. CASE \E c \in Callers : Receive(c) \/ Admit(c)
    BY <2>1, ReceiveUnseen, AdmitServes DEF Server!ServerNext
  <2>2. CASE ProcessQueue
    BY <2>2, ExitLoses, ProcessQueueTakes DEF Server!ServerNext
  <2>3. CASE Process
    BY <2>3, ProcessServes DEF Server!ServerNext
  <2>4. CASE Stop
    BY <2>4, ExitLoses DEF Stop, Server!ServerNext
  <2>5. CASE Restart \/ UNCHANGED queueVars
    BY <2>5, UnseenStutters DEF Restart, queueVars, outcomeNow
  <2> QED BY <2>1, <2>2, <2>3, <2>4, <2>5 DEF QueueNext
<1> QED BY <1>1, <1>2, QueueInvariant, PTL DEF QueueSpec, ServesBatches, Server!ServerSpec
-----------------------------------------------------------------------------
(* Parts of sequences *)

LEMMA FinitePlaces ==
  ASSUME NEW m \in Nat, NEW I \in SUBSET (1..m)
  PROVE  IsFiniteSet(I) /\ Cardinality(I) \in Nat
<1>1. IsFiniteSet(1..m)
  BY FS_Interval
<1>2. IsFiniteSet(I)
  BY <1>1, FS_Subset
<1> QED BY <1>2, FS_CardinalityType

\* For each number up to that of the places there is a place with that rank
LEMMA NthPlace ==
  ASSUME NEW m \in Nat, NEW I \in SUBSET (1..m), NEW k \in 1..Cardinality(I)
  PROVE  Nth(I, k) \in I /\ Cardinality({j \in I : j <= Nth(I, k)}) = k
<1> DEFINE upTo(i) == {j \in I : j <= i}
           rank == [i \in I |-> Cardinality(upTo(i))]
<1>1. IsFiniteSet(I) /\ Cardinality(I) \in Nat
  BY FinitePlaces
<1>2. ASSUME NEW i \in I
      PROVE  IsFiniteSet(upTo(i)) /\ Cardinality(upTo(i)) \in 1..Cardinality(I)
  <2>1. upTo(i) \in SUBSET I /\ i \in upTo(i)
    BY <1>2
  <2> HIDE DEF upTo
  <2>2. IsFiniteSet(upTo(i)) /\ Cardinality(upTo(i)) <= Cardinality(I)
    BY <1>1, <2>1, FS_Subset
  <2>3. Cardinality(upTo(i)) \in Nat /\ Cardinality(upTo(i)) # 0
    BY <2>1, <2>2, FS_CardinalityType, FS_EmptySet
  <2> QED BY <1>1, <2>2, <2>3
<1>3. ASSUME NEW i \in I, NEW j \in I, i < j PROVE Cardinality(upTo(i)) # Cardinality(upTo(j))
  <2>1. upTo(i) \in SUBSET upTo(j)
    <3>1. \A n \in I : n <= i => n <= j
      BY <1>3
    <3> QED BY <3>1
  <2>2. j \in upTo(j) /\ j \notin upTo(i)
    BY <1>3
  <2> HIDE DEF upTo
  <2> QED BY <1>2, <2>1, <2>2, FS_Subset
<1>4. \A i, j \in I : rank[i] = rank[j] => i = j
  <2> SUFFICES ASSUME NEW i \in I, NEW j \in I, rank[i] = rank[j], i # j PROVE FALSE
    OBVIOUS
  <2>1. i < j \/ j < i
    OBVIOUS
  <2> QED BY <1>3, <2>1
<1>5. rank \in [I -> 1..Cardinality(I)] /\ \A i \in I : rank[i] = Cardinality(upTo(i))
  BY <1>2
<1> HIDE DEF rank
<1>6. rank \in Injection(I, 1..Cardinality(I))
  BY <1>4, <1>5 DEF Injection, IsInjective
<1>7. IsFiniteSet(1..Cardinality(I)) /\ Cardinality(1..Cardinality(I)) = Cardinality(I)
  BY <1>1, FS_Interval
<1>8. rank \in Surjection(I, 1..Cardinality(I))
  BY <1>6, <1>7, FS_Injection
<1>9. PICK i \in I : rank[i] = k
  BY <1>8 DEF Surjection
<1>10. Cardinality(upTo(i)) = k
  BY <1>5, <1>9
<1>11. \E n \in I : Cardinality({j \in I : j <= n}) = k
  BY <1>10
<1> QED BY <1>11 DEF Nth

\* What is selected is in the sequence
LEMMA AtElement ==
  ASSUME NEW s, NEW m \in Nat, NEW I \in SUBSET (1..m), NEW a, a = At(s, I)
  PROVE  Len(a) = Cardinality(I) /\ \A k \in DOMAIN a : a[k] \in {s[i] : i \in I}
<1>1. Cardinality(I) \in Nat
  BY FinitePlaces
<1>2. a = [k \in 1..Cardinality(I) |-> s[Nth(I, k)]]
  BY DEF At
<1>3. \A k \in 1..Cardinality(I) : Nth(I, k) \in I
  BY NthPlace
<1>4. a \in Seq({s[i] : i \in I})
  <2>1. \A k \in 1..Cardinality(I) : a[k] \in {s[i] : i \in I}
    BY <1>2, <1>3
  <2>2. a \in [1..Cardinality(I) -> {s[i] : i \in I}]
    BY <1>2, <2>1
  <2> QED BY <1>1, <2>2
<1>5. Len(a) = Cardinality(I) /\ DOMAIN a = 1..Cardinality(I)
  BY <1>1, <1>2, <1>4
<1> QED BY <1>2, <1>3, <1>5

\* The places are a stretch: so is what is selected
LEMMA AtStretch ==
  ASSUME NEW s, NEW a \in Nat, NEW b \in Nat, NEW I, I = (a + 1)..(a + b), NEW f, f = At(s, I)
  PROVE  DOMAIN f = 1..b /\ \A k \in 1..b : f[k] = s[a + k]
<1>1. Cardinality(I) = b
  BY FS_Interval
<1>2. ASSUME NEW k \in 1..b PROVE Nth(I, k) = a + k
  <2>1. I \in SUBSET (1..(a + b)) /\ k \in 1..Cardinality(I) /\ a + b \in Nat
    BY <1>1
  <2>2. Nth(I, k) \in I /\ Cardinality({j \in I : j <= Nth(I, k)}) = k
    BY <2>1, NthPlace
  <2>3. PICK n \in I : n = Nth(I, k)
    BY <2>2
  <2>4. {j \in I : j <= n} = (a + 1)..n
    BY <2>3
  <2>5. Cardinality((a + 1)..n) = n - a
    BY FS_Interval
  <2>6. n - a = k
    BY <2>2, <2>3, <2>4, <2>5
  <2> QED BY <2>3, <2>6
<1>3. f = [k \in 1..b |-> s[Nth(I, k)]]
  BY <1>1 DEF At
<1> QED BY <1>2, <1>3

\* A set of places has a first
LEMMA FirstPlace ==
  ASSUME NEW m \in Nat, NEW I \in SUBSET (1..m), I # {}
  PROVE  Min(I) \in I
<1>1. IsFiniteSet(I) /\ Cardinality(I) \in Nat /\ Cardinality(I) # 0
  BY FinitePlaces, FS_EmptySet
<1>2. 1 \in 1..Cardinality(I)
  BY <1>1
<1> DEFINE n == Nth(I, 1)
<1>3. n \in I /\ Cardinality({j \in I : j <= n}) = 1
  BY <1>2, NthPlace
<1> HIDE DEF n
<1>4. PICK x : {j \in I : j <= n} = {x}
  BY <1>1, <1>3, FS_Subset, FS_Singleton
<1>5. \A j \in I : n <= j
  BY <1>3, <1>4
<1> QED BY <1>3, <1>5 DEF Min

-----------------------------------------------------------------------------
(* The order in which requests are mapped *)

\* The m-th request mapped comes right after those of its call that are before it
InBlock(m) ==
  /\ line[m][2] \in DOMAIN asked[line[m][1]] /\ line[m][2] <= m
  /\ \A j \in 1..line[m][2] : line[(m - line[m][2]) + j] = <<line[m][1], j>>

\* Calls are mapped in the order of the batch, and each from its first request to
\* its last.  A call that has not come asks for nothing.
LineInv ==
  /\ \A c \in Callers : status[c] = "idle" => asked[c] = <<>>
  /\ \A m \in DOMAIN line : InBlock(m)
  /\ \A m, k \in DOMAIN line : \A p, q \in DOMAIN batch :
       m <= k /\ line[m][1] = batch[p] /\ line[k][1] = batch[q] =>
         Before(<<p, line[m][2]>>, <<q, line[k][2]>>)
  /\ \A m \in DOMAIN line : \A p \in DOMAIN batch : line[m][1] = batch[p] =>
       \A t \in Todo : Before(<<p, line[m][2]>>, t)
  /\ phase = "ledger" => Todo = {}

LEMMA BatchFacts ==
  ASSUME QueueInv
  PROVE  /\ batch \in Seq(Callers) /\ Len(batch) \in Nat /\ DOMAIN batch = 1..Len(batch)
         /\ \A p, q \in DOMAIN batch : batch[p] = batch[q] => p = q
         /\ \A p \in DOMAIN batch : status[batch[p]] = "queued" /\ batch[p] \in Callers
<1>1. /\ batch \in Seq(Callers) /\ Len(batch) \in Nat /\ DOMAIN batch = 1..Len(batch)
      /\ queue \in Seq(Callers) /\ Len(queue) \in Nat /\ DOMAIN queue = 1..Len(queue)
      /\ Len(batch) <= Len(queue)
  BY DEF QueueInv, QueueTypeOK, Positions
<1>2. \A p \in DOMAIN batch : p \in DOMAIN queue /\ batch[p] = queue[p]
  BY <1>1 DEF QueueInv, Positions
<1> QED BY <1>1, <1>2 DEF QueueInv, Positions

\* Calls come and go, but not those of the batch
LEMMA LineStays ==
  ASSUME LineInv, UNCHANGED <<line, batch, phase>>,
         \A m \in DOMAIN line : asked'[line[m][1]] = asked[line[m][1]],
         \A p \in DOMAIN batch : asked'[batch[p]] = asked[batch[p]],
         \A c \in Callers : status'[c] = "idle" => asked'[c] = <<>>
  PROVE  LineInv'
<1>1. Todo' = Todo
  BY DEF Todo
<1>2. \A m \in DOMAIN line' : InBlock(m)'
  BY DEF LineInv, InBlock
<1> QED BY <1>1, <1>2 DEF LineInv, Before

\* No batch is there any more
LEMMA LineEmpty ==
  ASSUME LineInv, UNCHANGED asked, line' = <<>>, phase' # "ledger",
         \A c \in Callers : status'[c] = "idle" => status[c] = "idle"
  PROVE  LineInv'
<1>1. DOMAIN line' = {}
  OBVIOUS
<1> QED BY <1>1 DEF LineInv

LEMMA FinishLine ==
  ASSUME QueueInv, LineInv, NEW outcome \in Over, Finish(outcome), UNCHANGED asked
  PROVE  LineInv'
<1>1. /\ line' = <<>> /\ phase' = "free"
      /\ \A c \in Callers : status'[c] = "idle" => status[c] = "idle"
  BY DEF Finish, Told, Over
<1> QED BY <1>1, LineEmpty

LEMMA ExitLine == ASSUME QueueInv, LineInv, Exit PROVE LineInv'
<1>1. /\ line' = <<>> /\ phase' = "free" /\ UNCHANGED asked
      /\ \A c \in Callers : status'[c] = "idle" => status[c] = "idle"
  BY DEF Exit
<1> QED BY <1>1, LineEmpty

LEMMA ReceiveLine == ASSUME QueueInv, SentInv, LineInv, NEW c \in Callers, Receive(c) PROVE LineInv'
<1>1. status[c] = "idle" /\ status' = [status EXCEPT ![c] = "auth"] /\ UNCHANGED <<line, batch, phase>>
  BY DEF Receive
<1>2. PICK w \in Arrays : asked' = [asked EXCEPT ![c] = w]
  BY DEF Receive
<1>3. c \notin ToSet(batch)
  BY <1>1, InBatchWaits
<1>4. \A p \in DOMAIN batch : asked'[batch[p]] = asked[batch[p]]
  BY <1>2, <1>3 DEF ToSet, QueueInv, QueueTypeOK
<1>5. \A m \in DOMAIN line : asked'[line[m][1]] = asked[line[m][1]]
  BY <1>2, <1>3, InBatchWaits DEF SentInv, QueueInv, QueueTypeOK
<1>6. \A d \in Callers : status'[d] = "idle" => asked'[d] = <<>>
  BY <1>1, <1>2 DEF LineInv, QueueInv, QueueTypeOK
<1> QED BY <1>1, <1>4, <1>5, <1>6, LineStays

LEMMA AdmitLine == ASSUME QueueInv, LineInv, NEW c \in Callers, Admit(c) PROVE LineInv'
<1>1. /\ UNCHANGED <<asked, line, batch, phase>>
      /\ \A d \in Callers : status'[d] = "idle" => status[d] = "idle"
  BY DEF Admit, QueueInv, QueueTypeOK
<1> QED BY <1>1, LineStays DEF LineInv

LEMMA ProcessQueueLine == ASSUME QueueInv, LineInv, ProcessQueue PROVE LineInv'
<1>1. CASE Exit
  BY <1>1, ExitLine
<1>2. CASE ~Exit
  <2>1. /\ phase = "free" /\ batch' = queue
        /\ phase' = IF \A c \in ToSet(queue) : asked[c] = <<>> THEN "ledger" ELSE "mapping"
        /\ UNCHANGED <<status, asked, line>>
    BY <1>2 DEF ProcessQueue
  <2>2. DOMAIN line' = {}
    BY <2>1 DEF QueueInv, QueueTypeOK
  <2>3. phase' = "ledger" => Todo' = {}
    <3> SUFFICES ASSUME phase' = "ledger" PROVE Todo' = {}
      OBVIOUS
    <3>1. \A n \in DOMAIN batch' : asked'[batch'[n]] = <<>>
      BY <2>1 DEF ToSet
    <3>2. \A n \in DOMAIN batch' : {n} \X DOMAIN asked'[batch'[n]] = {}
      BY <3>1
    <3> QED BY <3>2 DEF Todo
  <2> QED BY <2>1, <2>2, <2>3 DEF LineInv
<1> QED BY <1>1, <1>2

\* The request that is mapped is the first to do
LEMMA MapRequestLine == ASSUME QueueInv, SentInv, LineInv, MapRequest PROVE LineInv'
<1>1. phase = "mapping" /\ UNCHANGED asked
  BY DEF MapRequest
<1>2. PICK p \in Todo :
        /\ \A q \in Todo : Before(p, q)
        /\ LET r == <<batch[p[1]], p[2]>> IN
             IF RequestOf(r) \notin Known
             THEN Respond(<<Response(r, FALSE)>>)
             ELSE /\ line' = Append(line, r)
                  /\ IF Todo = {p} THEN phase' = "ledger" ELSE UNCHANGED phase
                  /\ UNCHANGED <<status, batch>>
  BY DEF MapRequest
<1> DEFINE r == <<batch[p[1]], p[2]>>
<1>3. CASE RequestOf(r) \notin Known
  BY <1>1, <1>2, <1>3, FinishLine DEF Respond, Over
<1>4. CASE RequestOf(r) \in Known
  <2>1. /\ line' = Append(line, r) /\ UNCHANGED <<status, batch>>
        /\ IF Todo = {p} THEN phase' = "ledger" ELSE UNCHANGED phase
    BY <1>2, <1>4
  <2>2. /\ p = <<p[1], p[2]>> /\ p[1] \in DOMAIN batch /\ p[2] \in DOMAIN asked[batch[p[1]]]
        /\ r \notin ToSet(line)
    BY DEF Todo
  <2>3. /\ asked[batch[p[1]]] \in Seq(Requests) /\ p[1] \in Nat /\ p[2] \in Nat /\ p[2] >= 1
        /\ DOMAIN asked[batch[p[1]]] = 1..Len(asked[batch[p[1]]]) /\ Len(asked[batch[p[1]]]) \in Nat
        /\ batch[p[1]] \in Callers
    <3>1. batch[p[1]] \in Callers /\ p[1] \in Nat
      BY <2>2, BatchFacts
    <3>2. asked[batch[p[1]]] \in Seq(Requests)
      <4>1. asked[batch[p[1]]] \in {<<>>} \cup Arrays
        BY <3>1 DEF QueueInv, QueueTypeOK
      <4>2. <<>> \in Seq(Requests) /\ Arrays \subseteq Seq(Requests)
        BY QueueAssumption
      <4> QED BY <4>1, <4>2
    <3> QED BY <2>2, <3>1, <3>2
  <2>4. r[1] = batch[p[1]] /\ r[2] = p[2] /\ r \in Callers \X Nat
    BY <2>3
  <2> HIDE DEF r
  <2> DEFINE L == Len(line)
  <2>5. /\ line \in Seq(Callers \X Nat) /\ L \in Nat /\ DOMAIN line = 1..L
        /\ DOMAIN line' = 1..(L + 1) /\ line'[L + 1] = r
        /\ \A n \in 1..L : line'[n] = line[n] /\ line[n] # r
        /\ \A n \in 1..L : line[n] = <<line[n][1], line[n][2]>> /\ line[n][2] \in Nat
    <3>1. line \in Seq(Callers \X Nat)
      BY DEF QueueInv, QueueTypeOK
    <3>2. \A n \in DOMAIN line : line[n] # r
      BY <2>2 DEF ToSet
    <3> QED BY <2>1, <2>4, <3>1, <3>2
  <2> HIDE DEF L
  <2>6. \A n \in 1..(L + 1) : n \in 1..L \/ n = L + 1
    BY <2>5
  <2>7. Todo' \subseteq Todo \ {p}
    <3>1. ToSet(line') = ToSet(line) \cup {r}
      <4>1. DOMAIN line' = DOMAIN line \cup {L + 1}
        BY <2>5, <2>6
      <4>2. \A n \in DOMAIN line : line'[n] = line[n]
        BY <2>5
      <4>3. ToSet(line') = {line'[n] : n \in DOMAIN line \cup {L + 1}}
        BY <4>1 DEF ToSet
      <4>4. ToSet(line) = {line'[n] : n \in DOMAIN line}
        BY <4>2 DEF ToSet
      <4>5. line'[L + 1] = r
        BY <2>5
      <4> QED BY <4>3, <4>4, <4>5
    <3> QED BY <1>1, <2>1, <2>2, <3>1 DEF Todo, r
  <2>8. ASSUME p[2] > 1
        PROVE  L > 0 /\ line[L] = <<batch[p[1]], p[2] - 1>>
    <3> DEFINE t == <<p[1], p[2] - 1>>
    <3>1. p[2] - 1 \in DOMAIN asked[batch[p[1]]]
      BY <2>2, <2>3, <2>8
    <3>2. t \notin Todo
      BY <1>2, <2>3 DEF Before
    <3>3. <<batch[p[1]], p[2] - 1>> \in ToSet(line)
      BY <2>2, <3>1, <3>2 DEF Todo
    <3>4. PICK m \in 1..L : line[m] = <<batch[p[1]], p[2] - 1>>
      BY <2>5, <3>3 DEF ToSet
    <3>5. L \in DOMAIN line /\ m \in DOMAIN line /\ m <= L
      BY <2>5, <3>4
    <3>6. PICK q \in DOMAIN batch : line[L][1] = batch[q]
      BY <3>5 DEF SentInv, ToSet
    <3>7. Before(<<p[1], p[2] - 1>>, <<q, line[L][2]>>)
      <4>1. line[m][1] = batch[p[1]] /\ line[m][2] = p[2] - 1
        BY <3>4
      <4> QED BY <2>2, <3>5, <3>6, <4>1 DEF LineInv
    <3>8. Before(<<q, line[L][2]>>, p)
      BY <3>5, <3>6 DEF LineInv
    <3>9. q = p[1] /\ line[L][2] \in {p[2] - 1, p[2]}
      <4>1. q \in Nat /\ line[L][2] \in Nat
        BY <2>5, <3>5, <3>6, BatchFacts
      <4> QED BY <2>3, <3>7, <3>8, <4>1 DEF Before
    <3>10. line[L] # <<batch[p[1]], p[2]>>
      BY <2>5, <3>5 DEF r
    <3> QED BY <2>5, <3>5, <3>6, <3>9, <3>10
  <2>9. ASSUME NEW m \in 1..(L + 1) PROVE InBlock(m)'
    <3>1. CASE m \in 1..L
      <4>1. InBlock(m)
        BY <2>5, <3>1 DEF LineInv
      <4>2. line[m][2] \in Nat /\ line[m][2] <= m
        BY <2>5, <3>1, <4>1 DEF InBlock
      <4>3. \A j \in 1..line[m][2] : (m - line[m][2]) + j \in 1..L
        BY <2>5, <3>1, <4>2
      <4> QED BY <1>1, <2>5, <3>1, <4>1, <4>3 DEF InBlock
    <3>2. CASE m = L + 1
      <4>1. line'[m] = r /\ r[2] \in DOMAIN asked[r[1]]
        BY <2>2, <2>4, <2>5, <3>2
      <4>2. CASE p[2] = 1
        <5>1. r = <<r[1], 1>>
          BY <2>4, <4>2 DEF r
        <5>2. r[2] = 1 /\ (m - 1) + 1 = m /\ 1 <= m
          BY <2>4, <2>5, <3>2, <4>2
        <5> QED BY <1>1, <4>1, <5>1, <5>2 DEF InBlock
      <4>3. CASE p[2] > 1
        <5>1. L \in 1..L /\ line[L] = <<batch[p[1]], p[2] - 1>>
          BY <2>5, <2>8, <4>3
        <5>2. InBlock(L) /\ line[L][1] = r[1] /\ line[L][2] = p[2] - 1
          BY <2>4, <2>5, <5>1 DEF LineInv
        <5>3. p[2] - 1 <= L /\ \A j \in 1..(p[2] - 1) : line[(L - (p[2] - 1)) + j] = <<r[1], j>>
          BY <5>2 DEF InBlock
        <5>4. p[2] <= L + 1
          BY <2>3, <2>5, <5>3
        <5>5. ASSUME NEW j \in 1..p[2] PROVE line'[((L + 1) - p[2]) + j] = <<r[1], j>>
          <6>1. CASE j \in 1..(p[2] - 1)
            <7>1. ((L + 1) - p[2]) + j = (L - (p[2] - 1)) + j
              <8>1. \A x, y, z \in Int : ((x + 1) - y) + z = (x - (y - 1)) + z
                OBVIOUS
              <8>2. L \in Int /\ p[2] \in Int /\ j \in Int
                BY <2>3, <2>5
              <8> QED BY <8>1, <8>2
            <7>2. (L - (p[2] - 1)) + j \in 1..L
              <8>1. \A x, y \in Nat : \A z \in 1..(y - 1) : y - 1 <= x => (x - (y - 1)) + z \in 1..x
                OBVIOUS
              <8>2. L \in Nat /\ p[2] \in Nat
                BY <2>3, <2>5
              <8> QED BY <8>1, <8>2, <5>3, <6>1
            <7> QED BY <2>5, <5>3, <6>1, <7>1, <7>2
          <6>2. CASE j = p[2]
            <7>1. ((L + 1) - p[2]) + j = L + 1
              BY <2>3, <2>5, <6>2
            <7> QED BY <2>4, <2>5, <6>2, <7>1 DEF r
          <6>3. j \in 1..(p[2] - 1) \/ j = p[2]
            BY <2>3
          <6> QED BY <6>1, <6>2, <6>3
        <5> QED BY <1>1, <2>4, <3>2, <4>1, <5>4, <5>5 DEF InBlock
      <4> QED BY <2>3, <4>2, <4>3
    <3> QED BY <2>6, <3>1, <3>2
  <2>10. ASSUME NEW m \in 1..(L + 1), NEW k \in 1..(L + 1), NEW a \in DOMAIN batch, NEW b \in DOMAIN batch,
                m <= k, line'[m][1] = batch[a], line'[k][1] = batch[b]
         PROVE  Before(<<a, line'[m][2]>>, <<b, line'[k][2]>>)
    <3>1. CASE k \in 1..L
      <4>1. m \in 1..L
        BY <2>5, <2>10, <3>1
      <4> QED BY <2>5, <2>10, <3>1, <4>1 DEF LineInv
    <3>2. CASE k = L + 1 /\ m \in 1..L
      <4>1. b = p[1] /\ line'[k][2] = p[2]
        BY <2>2, <2>4, <2>5, <2>10, <3>2, BatchFacts
      <4>2. Before(<<a, line[m][2]>>, p)
        BY <2>5, <2>10, <3>2 DEF LineInv
      <4> QED BY <2>2, <2>5, <3>2, <4>1, <4>2
    <3>3. CASE k = L + 1 /\ m = L + 1
      <4>1. a = b /\ a \in Nat
        BY <2>10, <3>3, BatchFacts
      <4> QED BY <2>4, <2>3, <2>5, <3>3, <4>1 DEF Before
    <3> QED BY <2>6, <3>1, <3>2, <3>3
  <2>11. ASSUME NEW m \in 1..(L + 1), NEW a \in DOMAIN batch, line'[m][1] = batch[a], NEW t \in Todo'
         PROVE  Before(<<a, line'[m][2]>>, t)
    <3>1. t \in Todo
      BY <2>7
    <3>2. CASE m \in 1..L
      BY <2>5, <2>11, <3>1, <3>2 DEF LineInv
    <3>3. CASE m = L + 1
      <4>1. a = p[1] /\ line'[m][2] = p[2]
        BY <2>2, <2>4, <2>5, <2>11, <3>3, BatchFacts
      <4> QED BY <1>2, <2>2, <3>1, <4>1
    <3> QED BY <2>6, <3>2, <3>3
  <2>12. phase' = "ledger" => Todo' = {}
    BY <1>1, <2>1, <2>7
  <2> QED BY <1>1, <2>1, <2>5, <2>9, <2>10, <2>11, <2>12 DEF LineInv
<1> QED BY <1>3, <1>4

-----------------------------------------------------------------------------
(* What is answered *)

AnswersInv == ExactAnswers /\ OwnAnswers

\* An id that a call of the batch asks for has an owner
LEMMA OwnerAsked ==
  ASSUME QueueInv, NEW id, NEW p \in DOMAIN batch, id \in AskedIds(batch[p])
  PROVE  Owner(id) \in ToSet(batch) /\ id \in AskedIds(Owner(id))
<1> DEFINE I == {i \in 1..Len(batch) : id \in AskedIds(batch[i])}
<1>1. I \in SUBSET (1..Len(batch)) /\ p \in I /\ DOMAIN batch = 1..Len(batch) /\ Len(batch) \in Nat
  BY BatchFacts
<1>2. Owner(id) = batch[IF I # {} THEN Min(I) ELSE 0]
  BY DEF Owner, SelectInSeq
<1>3. \A i \in I : id \in AskedIds(batch[i])
  OBVIOUS
<1> HIDE DEF I
<1>4. Min(I) \in I
  BY <1>1, FirstPlace
<1>5. Owner(id) = batch[Min(I)] /\ Min(I) \in DOMAIN batch
  BY <1>1, <1>2, <1>4
<1> QED BY <1>3, <1>4, <1>5 DEF ToSet

\* Ids that no other call uses go to the call that does
LEMMA OwnerOf ==
  ASSUME QueueInv, NEW id, NEW c \in ToSet(batch), id \in AskedIds(c), OwnIds(c)
  PROVE  Owner(id) = c
<1>1. PICK p \in DOMAIN batch : batch[p] = c
  BY DEF ToSet
<1>2. Owner(id) \in Callers /\ id \in AskedIds(Owner(id))
  BY <1>1, OwnerAsked, InBatchWaits
<1> QED BY <1>2 DEF OwnIds

\* A step that answers nobody
LEMMA AnswersStay ==
  ASSUME AnswersInv, UNCHANGED answer, verdict \subseteq verdict',
         \A c \in Callers : status'[c] = "answered" => status[c] = "answered",
         \A c \in Callers : asked'[c] = asked[c] \/ (asked[c] = <<>> /\ status'[c] # "answered"),
         \A p \in ToSet(forwarded') : p \in ToSet(forwarded) \/ status'[p[1]] # "answered"
  PROVE  AnswersInv'
<1>1. \A c \in Callers : AskedIds(c) \subseteq AskedIds(c)'
  BY DEF AskedIds
<1>2. OwnAnswers'
  BY <1>1 DEF AnswersInv, OwnAnswers
<1>3. ASSUME NEW c \in Callers, status'[c] = "answered", OwnIds(c)'
      PROVE  AnsweredEach(c)' \/ Untouched(c)'
  <2>1. OwnIds(c)
    BY <1>1, <1>3 DEF OwnIds
  <2>2. AnsweredEach(c) \/ Untouched(c)
    BY <1>3, <2>1 DEF AnswersInv, ExactAnswers
  <2>3. AnsweredEach(c) => AnsweredEach(c)'
    BY <1>3 DEF AnsweredEach
  <2>4. Untouched(c) => Untouched(c)'
    BY <1>3 DEF Untouched
  <2> QED BY <2>2, <2>3, <2>4
<1> QED BY <1>2, <1>3 DEF AnswersInv, ExactAnswers

\* A batch is answered, with responses to what its calls asked for
LEMMA RespondAnswers ==
  ASSUME QueueInv, AnswersInv, NEW responses, NEW m \in Nat, DOMAIN responses = 1..m,
         \A n \in 1..m : \E p \in DOMAIN batch : responses[n].id \in AskedIds(batch[p]),
         Respond(responses), UNCHANGED <<asked, forwarded>>, verdict \subseteq verdict',
         \A c \in ToSet(batch) : OwnIds(c) => AnsweredEach(c)' \/ Untouched(c)'
  PROVE  AnswersInv'
<1>1. /\ \A c \in Callers : status'[c] = IF c \in ToSet(batch) THEN "answered" ELSE status[c]
      /\ \A c \in Callers \ ToSet(batch) : answer'[c] = answer[c]
      /\ \A c \in Callers \cap ToSet(batch) :
           answer'[c] = At(responses, {n \in DOMAIN responses : Owner(responses[n].id) = c})
  BY DEF Respond, Finish, Told
<1>2. ASSUME NEW c \in Callers PROVE \A n \in DOMAIN answer'[c] : answer'[c][n].id \in AskedIds(c)'
  <2>1. AskedIds(c)' = AskedIds(c)
    BY DEF AskedIds
  <2>2. CASE c \notin ToSet(batch)
    BY <1>1, <2>1, <2>2 DEF AnswersInv, OwnAnswers
  <2>3. CASE c \in ToSet(batch)
    <3> DEFINE I == {n \in DOMAIN responses : Owner(responses[n].id) = c}
    <3>1. I \in SUBSET (1..m) /\ \A i \in I : responses[i].id \in AskedIds(c)
      BY OwnerAsked
    <3>2. answer'[c] = At(responses, I)
      BY <1>1, <2>3
    <3> HIDE DEF I
    <3>3. \A n \in DOMAIN answer'[c] : answer'[c][n] \in {responses[i] : i \in I}
      BY <3>1, <3>2, AtElement
    <3> QED BY <2>1, <3>1, <3>3
  <2> QED BY <2>2, <2>3
<1>3. ASSUME NEW c \in Callers, status'[c] = "answered", OwnIds(c)'
      PROVE  AnsweredEach(c)' \/ Untouched(c)'
  <2>1. OwnIds(c)
    <3>1. \A d \in Callers : AskedIds(d)' = AskedIds(d)
      BY DEF AskedIds
    <3> QED BY <1>3, <3>1 DEF OwnIds
  <2>2. CASE c \in ToSet(batch)
    BY <2>1, <2>2
  <2>3. CASE c \notin ToSet(batch)
    <3>1. answer'[c] = answer[c] /\ status[c] = "answered"
      BY <1>1, <1>3, <2>3
    <3>2. AnsweredEach(c) \/ Untouched(c)
      BY <2>1, <3>1 DEF AnswersInv, ExactAnswers
    <3> QED BY <3>1, <3>2 DEF AnsweredEach, Untouched
  <2> QED BY <2>2, <2>3
<1> QED BY <1>2, <1>3 DEF AnswersInv, OwnAnswers, ExactAnswers

\* The single error response for an account that is unknown
LEMMA UnknownAnswers ==
  ASSUME QueueInv, SentInv, LineInv, AnswersInv, NEW p \in Todo, phase = "mapping",
         Respond(<<Response(<<batch[p[1]], p[2]>>, FALSE)>>), UNCHANGED <<asked, forwarded, verdict>>
  PROVE  AnswersInv'
<1> DEFINE r == <<batch[p[1]], p[2]>>
           responses == <<Response(r, FALSE)>>
<1>1. /\ DOMAIN responses = 1..1 /\ \A n \in 1..1 : responses[n] = Response(r, FALSE)
  OBVIOUS
<1>2. p[1] \in DOMAIN batch /\ p[2] \in DOMAIN asked[batch[p[1]]]
  BY DEF Todo
<1>3. Response(r, FALSE).id \in AskedIds(batch[p[1]]) /\ Response(r, FALSE).ok = FALSE
  BY <1>2 DEF Response, RequestOf, AskedIds
<1>4. ASSUME NEW c \in ToSet(batch) PROVE Untouched(c)'
  <2> DEFINE I == {n \in DOMAIN responses : Owner(responses[n].id) = c}
  <2>1. c \in Callers /\ status[c] = "queued"
    BY <1>4, InBatchWaits
  <2>2. answer'[c] = At(responses, I) /\ I \in SUBSET (1..1)
    BY <1>1, <1>4, <2>1 DEF Respond
  <2> HIDE DEF I
  <2>3. Cardinality(I) <= 1
    <3>1. IsFiniteSet(1..1) /\ Cardinality(1..1) = 1
      <4>1. 1 \in Int /\ 1..1 = {1}
        OBVIOUS
      <4> QED BY <4>1, FS_Singleton
    <3> QED BY <2>2, <3>1, FS_Subset
  <2>4. /\ Len(answer'[c]) = Cardinality(I)
        /\ \A n \in DOMAIN answer'[c] : answer'[c][n] \in {responses[i] : i \in I}
    <3>1. 1 \in Nat
      OBVIOUS
    <3> HIDE DEF responses
    <3> QED BY <2>2, <3>1, AtElement
  <2>5. \A q \in ToSet(forwarded') : q[1] # c
    <3>1. \A n \in DOMAIN forwarded : status[forwarded[n][1]] \in Over
      BY DEF SentInv
    <3> QED BY <2>1, <3>1 DEF ToSet, Over
  <2>6. \A n \in DOMAIN answer'[c] : ~answer'[c][n].ok
    BY <1>1, <1>3, <2>2, <2>4
  <2> QED BY <2>3, <2>4, <2>5, <2>6 DEF Untouched
<1>5. \A n \in 1..1 : \E q \in DOMAIN batch : responses[n].id \in AskedIds(batch[q])
  BY <1>1, <1>2, <1>3
<1>6. 1 \in Nat /\ Respond(responses) /\ verdict \subseteq verdict'
  OBVIOUS
<1> HIDE DEF responses
<1> QED BY <1>1, <1>4, <1>5, <1>6, RespondAnswers

\* Where the requests of a call of the batch are when all are mapped
LEMMA BlockOf ==
  ASSUME QueueInv, SentInv, LineInv, Todo = {}, NEW c \in ToSet(batch)
  PROVE  /\ Len(asked[c]) \in Nat /\ DOMAIN asked[c] = 1..Len(asked[c])
         /\ \E a \in Nat :
              /\ {n \in DOMAIN line : line[n][1] = c} = (a + 1)..(a + Len(asked[c]))
              /\ \A i \in 1..Len(asked[c]) : line[a + i] = <<c, i>>
<1> DEFINE N == Len(asked[c])
<1>1. c \in Callers /\ N \in Nat /\ DOMAIN asked[c] = 1..N
  <2>1. c \in Callers
    BY InBatchWaits
  <2>2. asked[c] \in {<<>>} \cup Arrays
    BY <2>1 DEF QueueInv, QueueTypeOK
  <2>3. <<>> \in Seq(Requests) /\ Arrays \subseteq Seq(Requests)
    BY QueueAssumption
  <2>4. asked[c] \in Seq(Requests)
    BY <2>2, <2>3
  <2> QED BY <2>1, <2>4
<1>2. /\ line \in Seq(Callers \X Nat) /\ Len(line) \in Nat /\ DOMAIN line = 1..Len(line)
      /\ \A n \in DOMAIN line : line[n] = <<line[n][1], line[n][2]>>
  BY DEF QueueInv, QueueTypeOK
<1>3. \A n \in DOMAIN line : line[n][1] = c => line[n][2] \in 1..N /\ line[n] = <<c, line[n][2]>>
  BY <1>1, <1>2 DEF LineInv, InBlock
<1> HIDE DEF N
<1>4. SUFFICES \E a \in Nat : /\ {n \in DOMAIN line : line[n][1] = c} = (a + 1)..(a + N)
                             /\ \A i \in 1..N : line[a + i] = <<c, i>>
  BY <1>1 DEF N
<1>5. CASE N = 0
  <2>1. {n \in DOMAIN line : line[n][1] = c} = (0 + 1)..(0 + N)
    BY <1>3, <1>5
  <2> QED BY <1>5, <2>1
<1>6. CASE N > 0
  <2>1. PICK p \in DOMAIN batch : batch[p] = c
    BY DEF ToSet
  <2>2. <<p, N>> \notin Todo /\ N \in DOMAIN asked[c]
    BY <1>1, <1>6
  <2>3. <<c, N>> \in ToSet(line)
    BY <2>1, <2>2 DEF Todo
  <2>4. PICK k \in DOMAIN line : line[k] = <<c, N>>
    BY <2>3 DEF ToSet
  <2>5. N <= k /\ \A j \in 1..N : line[(k - N) + j] = <<c, j>>
    <3>1. line[k][1] = c /\ line[k][2] = N /\ InBlock(k)
      BY <2>4 DEF LineInv
    <3> QED BY <3>1 DEF InBlock
  <2> DEFINE a == k - N
  <2>6. k \in Nat /\ k <= Len(line) /\ a \in Nat /\ \A j \in 1..N : line[a + j] = <<c, j>> /\ a + j \in DOMAIN line
    <3>1. k \in Nat /\ k <= Len(line) /\ N \in Nat
      BY <1>1, <1>2
    <3>2. \A x, y, z \in Nat : y <= x /\ x <= z => x - y \in Nat /\ \A j \in 1..y : (x - y) + j \in 1..z
      OBVIOUS
    <3> QED BY <1>2, <2>5, <3>1, <3>2
  <2> HIDE DEF a
  <2>7. ASSUME NEW n \in DOMAIN line, line[n][1] = c PROVE n \in (a + 1)..(a + N)
    <3>1. line[n][2] \in 1..N /\ line[n] = line[a + line[n][2]]
      BY <1>3, <2>6, <2>7
    <3>2. a + line[n][2] \in DOMAIN line
      BY <2>6, <3>1
    <3>3. n = a + line[n][2]
      BY <3>1, <3>2 DEF SentInv, Distinct
    <3>4. a \in Nat /\ N \in Nat
      BY <1>1, <2>6
    <3> QED BY <3>1, <3>3, <3>4
  <2>8. ASSUME NEW n \in (a + 1)..(a + N) PROVE n \in DOMAIN line /\ line[n][1] = c
    <3>1. n - a \in 1..N /\ n = a + (n - a)
      BY <1>1, <2>6
    <3>2. line[n] = <<c, n - a>> /\ n \in DOMAIN line
      BY <2>6, <3>1
    <3> QED BY <3>2
  <2>9. {n \in DOMAIN line : line[n][1] = c} = (a + 1)..(a + N)
    BY <1>2, <2>7, <2>8
  <2> QED BY <2>6, <2>9
<1>7. N = 0 \/ N > 0
  BY <1>1
<1> QED BY <1>5, <1>6, <1>7

\* The ledger's answers go to those who asked, in the order they asked
LEMMA LedgerAnswersAnswers ==
  ASSUME QueueInv, SentInv, LineInv, AnswersInv, NEW oks, LedgerAnswers(oks) PROVE AnswersInv'
<1> DEFINE responses == [n \in DOMAIN line |-> Response(line[n], oks[n])]
<1>1. /\ Respond(responses) /\ UNCHANGED <<asked, forwarded>> /\ phase = "ledger" /\ Todo = {}
      /\ verdict' = verdict \cup {<<line[n], oks[n]>> : n \in DOMAIN line}
  BY DEF LedgerAnswers, LineInv
<1>2. Len(line) \in Nat /\ DOMAIN line = 1..Len(line) /\ DOMAIN responses = 1..Len(line)
  BY DEF QueueInv, QueueTypeOK
<1>3. \A n \in DOMAIN line : /\ responses[n].id = RequestId[asked[line[n][1]][line[n][2]]]
                            /\ responses[n].ok = oks[n]
  BY DEF Response, RequestOf
<1> HIDE DEF responses
<1>4. \A n \in DOMAIN line : line[n][1] \in ToSet(batch) /\ responses[n].id \in AskedIds(line[n][1])
  BY <1>3 DEF SentInv, LineInv, InBlock, AskedIds
<1>5. ASSUME NEW c \in ToSet(batch), OwnIds(c) PROVE AnsweredEach(c)'
  <2> DEFINE I == {n \in DOMAIN responses : Owner(responses[n].id) = c}
             N == Len(asked[c])
  <2>1. c \in Callers /\ N \in Nat /\ DOMAIN asked[c] = 1..N
    BY <1>1, BlockOf, InBatchWaits
  <2>2. PICK a \in Nat : /\ {n \in DOMAIN line : line[n][1] = c} = (a + 1)..(a + N)
                        /\ \A i \in 1..N : line[a + i] = <<c, i>>
    BY <1>1, BlockOf
  <2>3. \A n \in DOMAIN line : Owner(responses[n].id) = c <=> line[n][1] = c
    <3> TAKE n \in DOMAIN line
    <3>1. line[n][1] = c => Owner(responses[n].id) = c
      BY <1>4, <1>5, OwnerOf
    <3>2. ASSUME Owner(responses[n].id) = c PROVE line[n][1] = c
      <4>1. PICK p \in DOMAIN batch : batch[p] = line[n][1]
        BY <1>4 DEF ToSet
      <4>2. responses[n].id \in AskedIds(c)
        BY <1>4, <3>2, <4>1, OwnerAsked
      <4>3. line[n][1] \in Callers
        BY <1>4, InBatchWaits
      <4> QED BY <1>4, <1>5, <4>2, <4>3 DEF OwnIds
    <3> QED BY <3>1, <3>2
  <2>4. I = (a + 1)..(a + N)
    BY <1>2, <2>2, <2>3
  <2>5. answer'[c] = At(responses, I)
    BY <1>1, <1>5, <2>1 DEF Respond
  <2> HIDE DEF I, N
  <2>6. DOMAIN answer'[c] = 1..N /\ \A i \in 1..N : answer'[c][i] = responses[a + i]
    <3>1. N \in Nat /\ a \in Nat
      BY <2>1
    <3> QED BY <2>4, <2>5, <3>1, AtStretch
  <2>7. ASSUME NEW i \in 1..N
        PROVE  /\ answer'[c][i].id = RequestId[asked[c][i]]
               /\ <<<<c, i>>, answer'[c][i].ok>> \in verdict'
    <3>1. a + i \in (a + 1)..(a + N)
      BY <2>1
    <3>2. a + i \in DOMAIN line /\ line[a + i] = <<c, i>> /\ answer'[c][i] = responses[a + i]
      BY <2>2, <2>6, <3>1
    <3> QED BY <1>1, <1>3, <3>2
  <2>8. DOMAIN answer'[c] = DOMAIN asked[c]
    BY <2>1, <2>6
  <2> QED BY <1>1, <2>1, <2>7, <2>8 DEF AnsweredEach
<1>6. \A n \in 1..Len(line) : \E p \in DOMAIN batch : responses[n].id \in AskedIds(batch[p])
  BY <1>2, <1>4 DEF ToSet
<1> QED BY <1>1, <1>2, <1>5, <1>6, RespondAnswers

\* The requests sent are of calls that wait for their answers
LEMMA MapRequestAnswers ==
  ASSUME QueueInv, SentInv, LineInv, AnswersInv, MapRequest PROVE AnswersInv'
<1>1. phase = "mapping" /\ UNCHANGED <<asked, verdict>>
  BY DEF MapRequest
<1>2. PICK p \in Todo :
        LET r == <<batch[p[1]], p[2]>> IN
          IF RequestOf(r) \notin Known
          THEN Respond(<<Response(r, FALSE)>>) /\ UNCHANGED forwarded
          ELSE /\ UNCHANGED <<status, answer, batch>>
               /\ UNCHANGED forwarded \/ forwarded' = forwarded \o line'
  BY DEF MapRequest
<1> DEFINE r == <<batch[p[1]], p[2]>>
<1>3. CASE RequestOf(r) \notin Known
  BY <1>1, <1>2, <1>3, UnknownAnswers
<1>4. CASE RequestOf(r) \in Known
  <2>1. UNCHANGED <<status, answer, batch>>
    BY <1>2, <1>4
  <2>2. /\ forwarded \in Seq(Callers \X Nat) /\ line' \in Seq(Callers \X Nat)
        /\ \A n \in DOMAIN line' : line'[n][1] \in ToSet(batch)
    <3>1. QueueInv' /\ SentInv'
      BY MapRequestInv, MapRequestSent
    <3> QED BY <2>1, <3>1 DEF SentInv, QueueInv, QueueTypeOK
  <2>3. ASSUME NEW q \in ToSet(forwarded \o line') PROVE q \in ToSet(forwarded) \/ q \in ToSet(line')
    <3>1. \A f, g \in Seq(Callers \X Nat) :
            /\ DOMAIN (f \o g) = 1..(Len(f) + Len(g)) /\ Len(f) \in Nat /\ Len(g) \in Nat
            /\ DOMAIN f = 1..Len(f) /\ DOMAIN g = 1..Len(g)
            /\ \A n \in 1..(Len(f) + Len(g)) : (f \o g)[n] = IF n <= Len(f) THEN f[n] ELSE g[n - Len(f)]
      OBVIOUS
    <3>2. PICK n \in DOMAIN (forwarded \o line') : (forwarded \o line')[n] = q
      BY DEF ToSet
    <3>3. \/ n \in DOMAIN forwarded /\ q = forwarded[n]
          \/ n - Len(forwarded) \in DOMAIN line' /\ q = line'[n - Len(forwarded)]
      <4>1. /\ DOMAIN (forwarded \o line') = 1..(Len(forwarded) + Len(line'))
            /\ Len(forwarded) \in Nat /\ Len(line') \in Nat
            /\ DOMAIN forwarded = 1..Len(forwarded) /\ DOMAIN line' = 1..Len(line')
        BY <2>2, <3>1
      <4>2. n \in 1..(Len(forwarded) + Len(line'))
        BY <4>1, <3>2
      <4>3. CASE n <= Len(forwarded)
        <5>1. n \in 1..Len(forwarded)
          BY <4>1, <4>2, <4>3
        <5>2. (forwarded \o line')[n] = forwarded[n]
          BY <2>2, <3>1, <4>2, <4>3
        <5> QED BY <3>2, <4>1, <5>1, <5>2
      <4>4. CASE n > Len(forwarded)
        <5>1. n - Len(forwarded) \in 1..Len(line') /\ ~(n <= Len(forwarded))
          BY <4>1, <4>2, <4>4
        <5>2. (forwarded \o line')[n] = line'[n - Len(forwarded)]
          BY <2>2, <3>1, <4>2, <5>1
        <5> QED BY <3>2, <4>1, <5>1, <5>2
      <4> QED BY <4>1, <4>2, <4>3, <4>4
    <3> QED BY <3>3 DEF ToSet
  <2>4. ASSUME NEW q \in ToSet(line') PROVE status'[q[1]] # "answered"
    <3>1. q[1] \in ToSet(batch)
      BY <2>2 DEF ToSet
    <3> QED BY <2>1, <3>1, InBatchWaits
  <2>5. \A q \in ToSet(forwarded') : q \in ToSet(forwarded) \/ status'[q[1]] # "answered"
    BY <1>2, <1>4, <2>3, <2>4
  <2> QED BY <1>1, <2>1, <2>5, AnswersStay
<1> QED BY <1>3, <1>4

LEMMA OthersAnswer ==
  ASSUME QueueInv, LineInv, AnswersInv,
         \/ \E c \in Callers : Receive(c) \/ Admit(c)
         \/ ProcessQueue \/ BatchFails \/ Exit \/ Restart \/ UNCHANGED queueVars
  PROVE  AnswersInv'
<1>1. UNCHANGED <<answer, verdict, forwarded>>
  BY DEF Receive, Admit, ProcessQueue, BatchFails, Exit, Restart, queueVars
<1>2. \A c \in Callers : status'[c] = "answered" => status[c] = "answered"
  BY DEF QueueInv, QueueTypeOK, Receive, Admit, ProcessQueue, BatchFails, Finish, Told, Exit, Restart, queueVars
<1>3. ASSUME NEW c \in Callers
      PROVE  asked'[c] = asked[c] \/ (asked[c] = <<>> /\ status'[c] # "answered")
  <2>1. CASE UNCHANGED asked
    BY <2>1
  <2>2. CASE \E d \in Callers : Receive(d)
    <3>1. PICK d \in Callers : Receive(d)
      BY <2>2
    <3>2. CASE c = d
      BY <3>1, <3>2 DEF Receive, LineInv, QueueInv, QueueTypeOK
    <3>3. CASE c # d
      BY <3>1, <3>3 DEF Receive, QueueInv, QueueTypeOK
    <3> QED BY <3>2, <3>3
  <2> QED BY <2>1, <2>2 DEF Admit, ProcessQueue, BatchFails, Exit, Restart, queueVars
<1> QED BY <1>1, <1>2, <1>3, AnswersStay

-----------------------------------------------------------------------------
(* The answers are exact                                                      *)

QueueAnswersInv == QueueInv /\ SentInv /\ LineInv /\ AnswersInv

LEMMA QueueAnswersInit == QueueInit => QueueAnswersInv
<1> SUFFICES ASSUME QueueInit PROVE SentInv /\ LineInv /\ AnswersInv
  BY QueueInitInv DEF QueueAnswersInv
<1>1. DOMAIN line = {} /\ DOMAIN forwarded = {} /\ forwarded \in Seq(Callers \X Nat) /\ phase = "free"
  BY DEF QueueInit
<1>2. \A c \in Callers : asked[c] = <<>> /\ status[c] = "idle" /\ DOMAIN answer[c] = {}
  BY DEF QueueInit
<1> QED BY <1>1, <1>2 DEF SentInv, LineInv, AnswersInv, ExactAnswers, OwnAnswers, Distinct

LEMMA MoveLine == ASSUME QueueInv, SentInv, LineInv, QueueMove PROVE LineInv'
<1>1. ASSUME NEW oks, LedgerAnswers(oks) PROVE LineInv'
  BY <1>1, FinishLine DEF LedgerAnswers, Respond, Over
<1>2. CASE BatchFails
  BY <1>2, FinishLine DEF BatchFails, Over
<1>3. CASE Restart \/ UNCHANGED queueVars
  <2>1. UNCHANGED <<asked, status, line, batch, phase>>
    BY <1>3 DEF Restart, queueVars
  <2> QED BY <2>1, LineStays DEF LineInv
<1> QED BY <1>1, <1>2, <1>3, ReceiveLine, AdmitLine, ProcessQueueLine, MapRequestLine, ExitLine
        DEF QueueMove

LEMMA MoveAnswers == ASSUME QueueAnswersInv, QueueMove PROVE QueueAnswersInv'
<1>1. AnswersInv'
  BY MapRequestAnswers, LedgerAnswersAnswers, OthersAnswer DEF QueueAnswersInv, QueueMove
<1> QED BY <1>1, MoveInv, MoveSent, MoveLine DEF QueueAnswersInv

\* The invariant of what is on its way to the callers, in the queue and at the ledger.
THEOREM QueueAnswersInvariant == QueueSpec => []QueueAnswersInv
BY QueueAnswersInit, MoveAnswers, NextIsMove, PTL DEF QueueSpec

\* A call whose ids no other call uses is answered with what the ledger said of
\* each of its requests, in their order, whichever calls it was batched with; or
\* none of its requests reached the ledger.  For any batches, repeated ids,
\* failures and stops.
THEOREM ExactlyAnswered == QueueSpec => []ExactAnswers
<1>1. QueueAnswersInv => ExactAnswers
  BY DEF QueueAnswersInv, AnswersInv
<1> QED BY <1>1, QueueAnswersInvariant, PTL

\* No call is given a response to an id it did not ask for, also when ids repeat
\* within a call or between calls.
THEOREM OwnAnswered == QueueSpec => []OwnAnswers
<1>1. QueueAnswersInv => OwnAnswers
  BY DEF QueueAnswersInv, AnswersInv
<1> QED BY <1>1, QueueAnswersInvariant, PTL
=============================================================================
