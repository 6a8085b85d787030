----------------------- MODULE AccountsAndBalancesProofs -----------------------
(* Proofs about AccountsAndBalances: while the connection holds and the queue *)
(* is not restarted, the ledger gets one batch at a time, so that what is     *)
(* proved of the serial ledger holds of the two services; whatever breaks,    *)
(* what is proved of the ledger does; and what a client is told is what the   *)
(* ledger did.                                                                *)
EXTENDS AccountsAndBalances, HighLevelQueueProofs, BuiltinLedgerBalanceProofs

\* The workload of the ledger is whatever the queue may send it
AnyBatch == \A w \in Seq(HighLevel) : w # <<>> => w \in Workload

\* The requests the queue has mapped are requests of calls it received
MappedInv ==
  /\ \A c \in Callers : status[c] # "idle" => asked[c] # <<>>
  /\ \A n \in DOMAIN line : /\ status[line[n][1]] # "idle"
                            /\ line[n][2] \in DOMAIN asked[line[n][1]]
  /\ phase = "ledger" => line # <<>>

\* A batch runs in the ledger only while the queue awaits it
CarryInv ==
  /\ carrying \subseteq Calls
  /\ \A k, l \in carrying : k = l
  /\ carrying # {} => phase = "ledger"
  /\ \A k \in Calls : BatchActive(k) => k \in carrying

SystemInv == QueueInv /\ Inv /\ MappedInv /\ CarryInv

-----------------------------------------------------------------------------
(* Steps of the ledger *)

\* A resumed call was active, keeps its requests and leaves the others alone
LEMMA ResumeFrame ==
  ASSUME Inv, NEW c \in Calls, Resume(c)
  PROVE  /\ reqs' = reqs
         /\ pc[c] \in Active
         /\ \A d \in Calls \ {c} : pc'[d] = pc[d] /\ resp'[d] = resp[d]
<1> DEFINE Framed == /\ reqs' = reqs
                     /\ pc[c] \in Active
                     /\ \A d \in Calls \ {c} : pc'[d] = pc[d] /\ resp'[d] = resp[d]
<1>1. pc \in [Calls -> {"idle"} \cup Active \cup Ended] /\ resp \in [Calls -> Seq(BOOLEAN)]
  BY DEF Inv, TypeOK
<1>2. CASE CheckLiquid(c)
  BY <1>1, <1>2 DEF CheckLiquid, Answer, BeginFlush, Active
<1>3. CASE CreateEntry(c)
  BY <1>1, <1>3 DEF CreateEntry, Throw, Reject, Answer, BeginFlush, Active
<1>4. CASE PostInBatch(c)
  <2>1. pc[c] = "store" /\ reqs' = reqs
    BY <1>4 DEF PostInBatch
  <2>2. \E b : Throw(c, b) \/ NextLeg(c, b)
    BY <1>4 DEF PostInBatch
  <2>3. \A d \in Calls \ {c} : pc'[d] = pc[d] /\ resp'[d] = resp[d]
    BY <1>1, <2>2 DEF Throw, NextLeg, Reject, Answer, BeginFlush
  <2> QED BY <2>1, <2>3 DEF Active
<1>5. CASE DebitDirect(c)
  BY <1>1, <1>5 DEF DebitDirect, Reject, Active
<1>6. CASE CreditDirect(c)
  BY <1>1, <1>6 DEF CreditDirect, Reject, Active
<1>7. CASE CompleteDirect(c)
  BY <1>1, <1>7 DEF CompleteDirect, Answer, BeginFlush, Active
<1>8. CASE FlushEntries(c) \/ FlushAccounts(c)
  BY <1>1, <1>8 DEF FlushEntries, FlushAccounts, Active
<1>9. CASE RepoFails(c)
  <2>1. Reject(c) /\ reqs' = reqs /\ pc[c] \in Active
    BY <1>9 DEF RepoFails, Active
  <2> QED BY <1>1, <2>1 DEF Reject
<1> QED BY <1>2, <1>3, <1>4, <1>5, <1>6, <1>7, <1>8, <1>9 DEF Resume

\* So it makes no batch active that was not
LEMMA ResumeBatches ==
  ASSUME Inv, NEW c \in Calls, Resume(c), NEW d \in Calls, BatchActive(d)'
  PROVE  BatchActive(d)
BY ResumeFrame DEF BatchActive

\* A call that arrives leaves the others alone
LEMMA ArriveFrame ==
  ASSUME Inv, NEW c \in Calls, NEW w, Arrive(c, w)
  PROVE  /\ reqs'[c] = w
         /\ \A d \in Calls \ {c} : BatchActive(d)' => BatchActive(d)
<1>1. /\ pc \in [Calls -> {"idle"} \cup Active \cup Ended]
      /\ reqs \in [Calls -> Seq(HighLevel) \cup Seq(LowLevel)]
  BY DEF Inv, TypeOK
<1>2. /\ reqs' = [reqs EXCEPT ![c] = w]
      /\ pc' = [pc EXCEPT ![c] = EntryPoint(w[1])]
  BY DEF Arrive
<1> QED BY <1>1, <1>2 DEF BatchActive

-----------------------------------------------------------------------------
(* Steps of the queue *)

\* The array the queue sends is one the ledger is meant for
LEMMA MappedIsBatch ==
  ASSUME QueueInv, MappedInv, phase = "ledger"
  PROVE  Mapped \in Seq(HighLevel) /\ Mapped # <<>>
<1>1. /\ line \in Seq(Callers \X Nat)
      /\ asked \in [Callers -> {<<>>} \cup Arrays]
  BY DEF QueueInv, QueueTypeOK
<1>2. /\ Len(line) \in Nat /\ DOMAIN line = 1..Len(line)
      /\ \A n \in 1..Len(line) : line[n] \in Callers \X Nat
  BY <1>1
<1>3. ASSUME NEW n \in 1..Len(line) PROVE RequestOf(line[n]) \in HighLevel
  <2>1. line[n][1] \in Callers /\ line[n][2] \in DOMAIN asked[line[n][1]]
    BY <1>2 DEF MappedInv
  <2>2. asked[line[n][1]] \in Seq(Requests)
    BY <1>1, <2>1, QueueAssumption
  <2> QED BY <2>1, <2>2, CompositionAssumption DEF RequestOf
<1>4. Mapped \in Seq(HighLevel) /\ Len(Mapped) = Len(line)
  BY <1>2, <1>3 DEF Mapped
<1>5. Len(line) # 0
  BY <1>1 DEF MappedInv
<1> QED BY <1>4, <1>5

\* When a batch ends nothing is mapped any more
LEMMA FinishMapped ==
  ASSUME QueueInv, MappedInv, NEW outcome, Finish(outcome), asked' = asked
  PROVE  MappedInv'
<1>1. \A c \in Callers : status'[c] # "idle" => status[c] # "idle"
  BY DEF QueueInv, QueueTypeOK, Positions, Finish, Told, ToSet
<1> QED BY <1>1 DEF MappedInv, Finish

LEMMA ReceiveMapped ==
  ASSUME QueueInv, MappedInv, NEW c \in Callers, Receive(c) PROVE MappedInv'
<1>1. PICK w \in Arrays : asked' = [asked EXCEPT ![c] = w]
  BY DEF Receive
<1>2. /\ status[c] = "idle" /\ status' = [status EXCEPT ![c] = "auth"]
      /\ line' = line /\ phase' = phase
  BY DEF Receive
<1>3. w # <<>>
  BY CompositionAssumption
<1>4. \A n \in DOMAIN line : line[n][1] \in Callers \ {c}
  BY <1>2 DEF MappedInv, QueueInv, QueueTypeOK
<1> QED BY <1>1, <1>2, <1>3, <1>4 DEF MappedInv, QueueInv, QueueTypeOK

LEMMA AdmitMapped ==
  ASSUME QueueInv, MappedInv, NEW c \in Callers, Admit(c) PROVE MappedInv'
<1>1. /\ status[c] = "auth"
      /\ status' = [status EXCEPT ![c] = "queued"] \/ status' = [status EXCEPT ![c] = "refused"]
      /\ asked' = asked /\ line' = line /\ phase' = phase
  BY DEF Admit
<1>2. \A d \in Callers : status'[d] # "idle" <=> status[d] # "idle"
  BY <1>1 DEF QueueInv, QueueTypeOK
<1>3. \A n \in DOMAIN line : line[n][1] \in Callers
  BY DEF QueueInv, QueueTypeOK
<1> QED BY <1>1, <1>2, <1>3 DEF MappedInv

LEMMA ProcessQueueMapped ==
  ASSUME QueueInv, MappedInv, ProcessQueue PROVE MappedInv' /\ phase' # "ledger"
<1>1. CASE Exit
  <2>1. \A c \in Callers : status'[c] # "idle" => status[c] # "idle"
    BY <1>1 DEF Exit, Waiting
  <2> QED BY <1>1, <2>1 DEF Exit, MappedInv
<1>2. CASE ~Exit
  <2>1. /\ phase = "free" /\ queue # <<>>
        /\ phase' = IF \A c \in ToSet(queue) : asked[c] = <<>> THEN "ledger" ELSE "mapping"
        /\ status' = status /\ asked' = asked /\ line' = line
    BY <1>2 DEF ProcessQueue
  <2>2. line = <<>>
    BY <2>1 DEF QueueInv, QueueTypeOK
  <2>3. 1 \in DOMAIN queue /\ queue[1] \in Callers /\ queue[1] \in ToSet(queue)
    BY <2>1 DEF QueueInv, QueueTypeOK, ToSet
  <2>4. asked[queue[1]] # <<>>
    BY <2>3 DEF QueueInv, Positions, MappedInv
  <2>5. phase' = "mapping"
    BY <2>1, <2>3, <2>4
  <2> QED BY <2>1, <2>2, <2>5 DEF MappedInv
<1> QED BY <1>1, <1>2

LEMMA MapRequestMapped ==
  ASSUME QueueInv, MappedInv, MapRequest PROVE MappedInv'
<1>1. PICK p \in Todo :
        LET r == <<batch[p[1]], p[2]>> IN
          \/ Respond(<<Response(r, FALSE)>>)
          \/ line' = Append(line, r) /\ status' = status
  BY DEF MapRequest
<1>2. phase = "mapping" /\ asked' = asked
  BY DEF MapRequest
<1> DEFINE r == <<batch[p[1]], p[2]>>
<1>3. CASE Respond(<<Response(r, FALSE)>>)
  BY <1>2, <1>3, FinishMapped DEF Respond
<1>4. CASE line' = Append(line, r) /\ status' = status
  <2>1. p[1] \in DOMAIN batch /\ p[2] \in DOMAIN asked[batch[p[1]]]
    BY DEF Todo
  <2>2. batch[p[1]] \in Callers /\ asked[batch[p[1]]] \in Seq(Requests)
    BY QueueAssumption, <2>1 DEF QueueInv, QueueTypeOK
  <2>3. r \in Callers \X Nat
    BY <2>1, <2>2
  <2>4. status[batch[p[1]]] = "queued"
    <3>1. p[1] \in DOMAIN queue /\ batch[p[1]] = queue[p[1]]
      BY <2>1 DEF QueueInv, QueueTypeOK, Positions
    <3> QED BY <3>1 DEF QueueInv, Positions
  <2>5. /\ Len(line) \in Nat /\ DOMAIN line = 1..Len(line)
        /\ DOMAIN line' = 1..(Len(line) + 1)
        /\ line'[Len(line) + 1] = r
        /\ \A n \in 1..Len(line) : line'[n] = line[n]
        /\ line' # <<>>
    BY <1>4, <2>3 DEF QueueInv, QueueTypeOK
  <2>6. \A n \in DOMAIN line' : n \in DOMAIN line \/ line'[n] = r
    BY <2>5
  <2> QED BY <1>2, <1>4, <2>1, <2>4, <2>5, <2>6 DEF MappedInv
<1> QED BY <1>1, <1>3, <1>4

-----------------------------------------------------------------------------
(* Steps of the system: each keeps SystemInv and is a step of the serial      *)
(* ledger or leaves the ledger alone.                                         *)

Refines == SystemInv' /\ [SerialNext]_vars

\* What a step of the queue alone has to show
LEMMA QueueSide ==
  ASSUME SystemInv, vars' = vars, QueueInv', MappedInv',
         \/ carrying' = carrying /\ (carrying # {} => phase' = "ledger")
         \/ carrying' = {} /\ \A k \in carrying : pc[k] \notin Active
  PROVE  Refines
<1>1. Inv'
  BY NextInv DEF SystemInv
<1>2. \A k \in Calls : BatchActive(k)' <=> BatchActive(k)
  BY DEF BatchActive, vars
<1>3. CarryInv'
  BY <1>2 DEF SystemInv, CarryInv, BatchActive
<1> QED BY <1>1, <1>3 DEF Refines, SystemInv

\* What a step of the ledger alone has to show
LEMMA LedgerSide ==
  ASSUME SystemInv, queueVars' = queueVars, SerialNext, CarryInv'
  PROVE  Refines
<1>1. Inv'
  BY NextInv, SerialIsNext DEF SystemInv
<1>2. QueueInv'
  BY QueueStutterInv DEF SystemInv
<1>3. MappedInv'
  BY DEF SystemInv, MappedInv, queueVars
<1> QED BY <1>1, <1>2, <1>3 DEF Refines, SystemInv

LEMMA QueueStepRefines == ASSUME SystemInv, QueueStep PROVE Refines
<1>1. vars' = vars /\ carrying' = carrying
  BY DEF QueueStep
<1>2. ASSUME NEW c \in Callers, Receive(c) PROVE Refines
  <2>1. phase' = phase
    BY <1>2 DEF Receive
  <2> QED BY <1>1, <1>2, <2>1, QueueSide, ReceiveInv, ReceiveMapped DEF SystemInv, CarryInv
<1>3. ASSUME NEW c \in Callers, Admit(c) PROVE Refines
  <2>1. phase' = phase
    BY <1>3 DEF Admit
  <2> QED BY <1>1, <1>3, <2>1, QueueSide, AdmitInv, AdmitMapped DEF SystemInv, CarryInv
<1>4. CASE ProcessQueue
  <2>1. carrying = {}
    BY <1>4 DEF ProcessQueue, SystemInv, CarryInv
  <2> QED BY <1>1, <1>4, <2>1, QueueSide, ProcessQueueInv, ProcessQueueMapped DEF SystemInv
<1>5. CASE MapRequest
  <2>1. carrying = {}
    BY <1>5 DEF MapRequest, SystemInv, CarryInv
  <2> QED BY <1>1, <1>5, <2>1, QueueSide, MapRequestInv, MapRequestMapped DEF SystemInv
<1>6. CASE Restart
  <2>1. /\ status' = status /\ asked' = asked /\ line' = line /\ phase' = phase
    BY <1>6 DEF Restart
  <2>2. MappedInv'
    BY <2>1 DEF SystemInv, MappedInv
  <2> QED BY <1>1, <1>6, <2>1, <2>2, QueueSide, RestartInv DEF SystemInv, CarryInv
<1>7. CASE phase = "mapping" /\ BatchFails
  <2>1. carrying = {}
    BY <1>7 DEF SystemInv, CarryInv
  <2>2. MappedInv'
    BY <1>7, FinishMapped DEF BatchFails, SystemInv
  <2> QED BY <1>1, <1>7, <2>1, <2>2, QueueSide, BatchFailsInv DEF SystemInv
<1> QED BY <1>2, <1>3, <1>4, <1>5, <1>6, <1>7 DEF QueueStep

LEMMA UndeliveredRefines == ASSUME SystemInv, Undelivered PROVE Refines
<1>1. vars' = vars /\ carrying' = carrying /\ carrying = {} /\ BatchFails
  BY DEF Undelivered
<1>2. MappedInv'
  BY <1>1, FinishMapped DEF BatchFails, SystemInv
<1> QED BY <1>1, <1>2, QueueSide, BatchFailsInv DEF SystemInv

\* The queue hears of the end of a batch only when the ledger is done with it
LEMMA LedgerRepliesRefines ==
  ASSUME SystemInv, NEW k \in Calls, LedgerReplies(k) PROVE Refines
<1>1. /\ k \in carrying /\ vars' = vars /\ carrying' = {}
      /\ pc[k] \in Ended
      /\ LedgerAnswers(resp[k]) \/ BatchFails
  BY DEF LedgerReplies, Ended
<1>2. \A l \in carrying : pc[l] \notin Active
  BY <1>1 DEF SystemInv, CarryInv, Ended, Active
<1>3. QueueInv'
  BY <1>1, LedgerAnswersInv, BatchFailsInv DEF SystemInv
<1>4. MappedInv'
  <2>1. asked' = asked /\ \E outcome : Finish(outcome)
    BY <1>1 DEF LedgerAnswers, BatchFails, Respond
  <2> QED BY <2>1, FinishMapped DEF SystemInv
<1> QED BY <1>1, <1>2, <1>3, <1>4, QueueSide

\* A batch is delivered only when no other runs
LEMMA DeliverRefines ==
  ASSUME AnyBatch, SystemInv, NEW k \in Calls, Deliver(k) PROVE Refines
<1>1. /\ phase = "ledger" /\ carrying = {} /\ carrying' = {k}
      /\ Arrive(k, Mapped) /\ queueVars' = queueVars
  BY DEF Deliver
<1>2. Mapped \in Workload
  BY <1>1, MappedIsBatch DEF AnyBatch, SystemInv
<1>3. \A d \in Calls : ~BatchActive(d)
  BY <1>1 DEF SystemInv, CarryInv
<1>4. SerialNext
  BY <1>1, <1>2, <1>3 DEF SerialNext, StartSerial
<1>5. phase' = "ledger"
  BY <1>1 DEF queueVars
<1>6. CarryInv'
  BY <1>1, <1>3, <1>5, ArriveFrame DEF SystemInv, CarryInv
<1> QED BY <1>1, <1>4, <1>6, LedgerSide

LEMMA LedgerStepRefines == ASSUME SystemInv, LedgerStep PROVE Refines
<1>1. queueVars' = queueVars /\ carrying' = carrying
  BY DEF LedgerStep
<1>2. phase' = phase
  BY <1>1 DEF queueVars
<1>3. ASSUME NEW k \in Direct, NEW w \in Workload, ~InBatch(w[1]), Arrive(k, w)
      PROVE  Refines
  <2>1. k \in Calls
    BY CompositionAssumption
  <2>2. SerialNext
    BY <1>3, <2>1 DEF SerialNext, StartSerial
  <2>3. \A d \in Calls : BatchActive(d)' => BatchActive(d)
    BY <1>3, <2>1, ArriveFrame DEF SystemInv, BatchActive
  <2>4. CarryInv'
    BY <1>1, <1>2, <2>3 DEF SystemInv, CarryInv
  <2> QED BY <1>1, <2>2, <2>4, LedgerSide
<1>4. ASSUME NEW k \in Calls, Resume(k) PROVE Refines
  <2>1. SerialNext
    BY <1>4 DEF SerialNext
  <2>2. CarryInv'
    BY <1>1, <1>2, <1>4, ResumeBatches DEF SystemInv, CarryInv
  <2> QED BY <1>1, <2>1, <2>2, LedgerSide
<1> QED BY <1>3, <1>4 DEF LedgerStep

LEMMA SystemInitInv == SystemInit => SystemInv
<1> SUFFICES ASSUME SystemInit PROVE SystemInv
  OBVIOUS
<1>1. QueueInv /\ Inv
  BY QueueInitInv, InitInv DEF SystemInit
<1>2. MappedInv
  BY DEF SystemInit, QueueInit, MappedInv
<1>3. CarryInv
  BY DEF SystemInit, Init, CarryInv, BatchActive, Active
<1> QED BY <1>1, <1>2, <1>3 DEF SystemInv

LEMMA SystemRefines ==
  ASSUME AnyBatch, ~LinkMayBreak, ~MayExit, SystemInv, [SystemNext]_systemVars
  PROVE  Refines
<1>1. CASE UNCHANGED systemVars
  <2>1. vars' = vars /\ queueVars' = queueVars /\ carrying' = carrying
    BY <1>1 DEF systemVars
  <2>2. QueueInv' /\ MappedInv' /\ phase' = phase
    BY <2>1, QueueStutterInv DEF SystemInv, MappedInv, queueVars
  <2> QED BY <2>1, <2>2, QueueSide DEF SystemInv, CarryInv
<1>2. CASE LinkBreaks \/ StopQueue
  BY <1>2 DEF LinkBreaks, StopQueue, Stop
<1>3. CASE \E k \in Calls : Deliver(k) \/ LedgerReplies(k)
  BY <1>3, DeliverRefines, LedgerRepliesRefines
<1> QED BY <1>1, <1>2, <1>3, QueueStepRefines, LedgerStepRefines, UndeliveredRefines
        DEF SystemNext

-----------------------------------------------------------------------------
\* The system implements the serial ledger: with a connection that holds and no
\* restart of the queue, the ledger never runs two batches at a time, whatever
\* the callers send and whichever repository, mapping or ledger call fails.
THEOREM ServedSerially ==
  ASSUME AnyBatch, ~LinkMayBreak, ~MayExit
  PROVE  SystemSpec => LedgerServedSerially
<1>1. SystemInv /\ [SystemNext]_systemVars => SystemInv' /\ [SerialNext]_vars
  BY SystemRefines DEF Refines
<1>2. SystemInit => Init
  BY DEF SystemInit
<1> QED BY <1>1, <1>2, SystemInitInv, PTL DEF SystemSpec, LedgerServedSerially, SerialSpec

\* So no payer overruns its liquidity, although the ledger itself lets batches
\* overlap: the queue of the other service is what makes the check sound.
THEOREM LiquidityEndToEnd ==
  ASSUME AnyBatch, ~LinkMayBreak, ~MayExit, FundingOnly, InitiallyCovered
  PROVE  SystemSpec => []LiquidityCovered
BY ServedSerially, LiquidityAlwaysCovered, PTL DEF LedgerServedSerially

\* Nor is anything lost that the ledger answered with success: its entries are
\* in the journal, and the balances it left are stored when the queue hears of
\* the batch.
THEOREM AnswersLastEndToEnd ==
  ASSUME AnyBatch, ~LinkMayBreak, ~MayExit
  PROVE  SystemSpec => []AcknowledgedJournaled /\ AnsweredMeansStored
BY ServedSerially, AcknowledgedStaysJournaled, AnsweredIsStored, PTL DEF LedgerServedSerially

-----------------------------------------------------------------------------
(* The system implements the ledger, whatever breaks *)

\* What the queue does in the system it could do alone
LEMMA SystemMoves == [SystemNext]_systemVars => QueueMove
BY DEF SystemNext, systemVars, QueueStep, LedgerStep, Deliver, LedgerReplies, Undelivered,
       LinkBreaks, StopQueue, Stop, QueueMove

LEMMA MoveMapped == ASSUME QueueInv, MappedInv, QueueMove PROVE MappedInv'
<1>1. CASE Exit
  <2>1. \A c \in Callers : status'[c] # "idle" => status[c] # "idle"
    BY <1>1 DEF Exit, Waiting
  <2> QED BY <1>1, <2>1 DEF Exit, MappedInv
<1>2. CASE BatchFails \/ \E oks : LedgerAnswers(oks)
  <2>1. asked' = asked /\ \E outcome : Finish(outcome)
    BY <1>2 DEF LedgerAnswers, BatchFails, Respond
  <2> QED BY <2>1, FinishMapped
<1>3. CASE Restart \/ UNCHANGED queueVars
  <2>1. UNCHANGED <<asked, status, line, phase>>
    BY <1>3 DEF Restart, queueVars
  <2> QED BY <2>1 DEF MappedInv
<1> QED BY <1>1, <1>2, <1>3, ReceiveMapped, AdmitMapped, ProcessQueueMapped, MapRequestMapped
        DEF QueueMove

LEMMA SystemLedger ==
  ASSUME AnyBatch, QueueInv, MappedInv, [SystemNext]_systemVars
  PROVE  [Next]_vars
<1>1. ASSUME NEW k \in Calls, Deliver(k) PROVE Next
  <2>1. phase = "ledger" /\ Arrive(k, Mapped)
    BY <1>1 DEF Deliver
  <2>2. Mapped \in Workload
    BY <2>1, MappedIsBatch DEF AnyBatch
  <2> QED BY <2>1, <2>2 DEF Next, Start
<1>2. CASE LedgerStep
  BY <1>2, CompositionAssumption DEF LedgerStep, Next, Start
<1>3. CASE QueueStep \/ Undelivered \/ LinkBreaks \/ StopQueue \/ UNCHANGED systemVars
  BY <1>3 DEF QueueStep, Undelivered, LinkBreaks, StopQueue, systemVars
<1>4. ASSUME NEW k \in Calls, LedgerReplies(k) PROVE UNCHANGED vars
  BY <1>4 DEF LedgerReplies
<1> QED BY <1>1, <1>2, <1>3, <1>4 DEF SystemNext

\* Also when the connection breaks and the queue is restarted, the ledger gets
\* nothing but calls it is meant for: what is proved of the ledger whose batches
\* may overlap holds of the two services.
THEOREM LedgerServed == ASSUME AnyBatch PROVE SystemSpec => Spec
<1>1. SystemInit => QueueInv /\ MappedInv /\ Init
  BY QueueInitInv DEF SystemInit, QueueInit, MappedInv
<1>2. QueueInv /\ MappedInv /\ [SystemNext]_systemVars => (QueueInv /\ MappedInv)' /\ [Next]_vars
  BY SystemMoves, SystemLedger, MoveInv, MoveMapped
<1> QED BY <1>1, <1>2, PTL DEF SystemSpec, Spec

\* What a hub owes agrees with what its payers have reserved, and the balances
\* are explained by the answers, whatever the connection does.
THEOREM TallyEndToEnd ==
  ASSUME AnyBatch, OneHub, IsFiniteSet(Accounts), Tallied(InitBalance)
  PROVE  SystemSpec => []HubTally /\ []BalancesExplained
BY LedgerServed, HubTallies, BalancesAreExplained, PTL

\* For any batches and whatever the connection does: every balance that no
\* half-done commit has changed is what the answers tell.
THEOREM AnswersTellEndToEnd ==
  ASSUME AnyBatch, OneHub, IsFiniteSet(Accounts), Tallied(InitBalance)
  PROVE  SystemSpec => []AnswersTellBalances
BY LedgerServed, AnswersTell, PTL

\* With clients that settle a transfer once and only after they were told that it is
\* reserved, and whatever the connection does: what is pending for a payer is what
\* its answers say is reserved and not settled, unless a commit of its was left half
\* done (BuiltinLedger's run find_half_commit shows one).
THEOREM ReservationsEndToEnd ==
  ASSUME AnyBatch, Disciplined, OneHub, IsFiniteSet(Accounts), Tallied(InitBalance),
         NoneReserved
  PROVE  SystemSpec => []PendingIsReserved
BY LedgerServed, PendingReserved, PTL

\* For the same clients, if every transfer names a payee that can be credited: a
\* commit is all or nothing.
THEOREM CommitsEndToEnd ==
  ASSUME AnyBatch, Disciplined, OneHub, IsFiniteSet(Accounts), Tallied(InitBalance),
         NoneReserved, \A t \in Transfers : Payable(Transfer[t])
  PROVE  SystemSpec => []CommitAllOrNothing
BY LedgerServed, PayableAllOrNothing, PTL

\* While the connection holds and the queue is not restarted: when no call runs and
\* none has failed the journal has, for such clients, the entries of the requests that
\* succeeded and what refused commits left behind, each once, and no others.
THEOREM JournalEndToEnd ==
  ASSUME AnyBatch, ~LinkMayBreak, ~MayExit,
         Disciplined, OneHub, IsFiniteSet(Accounts), Tallied(InitBalance), NoneReserved
  PROVE  SystemSpec => []JournalExact
BY ServedSerially, JournalIsExact, PTL DEF LedgerServedSerially

-----------------------------------------------------------------------------
(* What a client is told holds in the ledger *)

\* The ledger runs what the queue has mapped; and what it told the queue of a
\* request is what it answered to that request.
ReplyInv ==
  /\ \A k \in carrying : k \notin Direct /\ reqs[k] = Mapped
  /\ \A v \in verdict :
       /\ v[1][1] \in Callers /\ status[v[1][1]] # "idle"
       /\ v[2] => \E k \in Calls : \E n \in DOMAIN resp[k] :
                    pc[k] = "done" /\ resp[k][n] /\ reqs[k][n] = RequestOf(v[1])

\* A call that has come keeps its requests
LEMMA MoveKeeps ==
  ASSUME QueueInv, QueueMove, NEW c \in Callers, status[c] # "idle"
  PROVE  status'[c] # "idle" /\ asked'[c] = asked[c]
<1>1. ASSUME NEW d \in Callers, Receive(d) \/ Admit(d)
      PROVE  status'[c] # "idle" /\ asked'[c] = asked[c]
  BY <1>1 DEF Receive, Admit, QueueInv, QueueTypeOK
<1>2. ASSUME NEW outcome \in Over, Finish(outcome), UNCHANGED asked
      PROVE  status'[c] # "idle" /\ asked'[c] = asked[c]
  BY <1>2 DEF Finish, Told, Over
<1>3. CASE Exit
  BY <1>3 DEF Exit
<1>4. CASE MapRequest
  <2>1. UNCHANGED asked /\ (UNCHANGED status \/ Finish("answered"))
    BY <1>4 DEF MapRequest, Respond
  <2> QED BY <1>2, <2>1 DEF Over
<1>5. CASE BatchFails \/ \E oks : LedgerAnswers(oks)
  <2>1. UNCHANGED asked /\ \E outcome \in Over : Finish(outcome)
    BY <1>5 DEF BatchFails, LedgerAnswers, Respond, Over
  <2> QED BY <1>2, <2>1
<1>6. CASE ProcessQueue \/ Restart \/ UNCHANGED queueVars
  BY <1>3, <1>6 DEF ProcessQueue, Restart, queueVars
<1> QED BY <1>1, <1>3, <1>4, <1>5, <1>6 DEF QueueMove

\* The verdicts stand while the ledger's answers and the calls' requests do
LEMMA VerdictsStand ==
  ASSUME ReplyInv, NEW v \in verdict,
         \A c \in Callers : status[c] # "idle" => status'[c] # "idle" /\ asked'[c] = asked[c],
         \A k \in Calls : pc[k] = "done" =>
           pc'[k] = "done" /\ reqs'[k] = reqs[k] /\ resp'[k] = resp[k]
  PROVE  /\ v[1][1] \in Callers /\ status'[v[1][1]] # "idle"
         /\ v[2] => \E k \in Calls : \E n \in DOMAIN resp'[k] :
                      pc'[k] = "done" /\ resp'[k][n] /\ reqs'[k][n] = RequestOf(v[1])'
<1>1. v[1][1] \in Callers /\ status[v[1][1]] # "idle"
  BY DEF ReplyInv
<1>2. status'[v[1][1]] # "idle" /\ RequestOf(v[1])' = RequestOf(v[1])
  BY <1>1 DEF RequestOf
<1>3. ASSUME v[2]
      PROVE  \E k \in Calls : \E n \in DOMAIN resp'[k] :
               pc'[k] = "done" /\ resp'[k][n] /\ reqs'[k][n] = RequestOf(v[1])'
  <2>0. PICK k \in Calls : \E n \in DOMAIN resp[k] :
          pc[k] = "done" /\ resp[k][n] /\ reqs[k][n] = RequestOf(v[1])
    BY <1>3 DEF ReplyInv
  <2>1. PICK n \in DOMAIN resp[k] : pc[k] = "done" /\ resp[k][n] /\ reqs[k][n] = RequestOf(v[1])
    BY <2>0
  <2>2. pc'[k] = "done" /\ reqs'[k] = reqs[k] /\ resp'[k] = resp[k]
    BY <2>1
  <2>3. n \in DOMAIN resp'[k] /\ resp'[k][n] /\ reqs'[k][n] = RequestOf(v[1])'
    BY <1>2, <2>1, <2>2
  <2> QED BY <2>2, <2>3
<1> QED BY <1>1, <1>2, <1>3

\* A call that is done stays as it is
LEMMA DoneStays ==
  ASSUME Inv, [Next]_vars, NEW k \in Calls, pc[k] = "done"
  PROVE  pc'[k] = "done" /\ reqs'[k] = reqs[k] /\ resp'[k] = resp[k]
<1>1. CASE UNCHANGED vars
  BY <1>1 DEF vars
<1>2. ASSUME NEW c \in Calls, Start(c) PROVE pc'[k] = "done" /\ reqs'[k] = reqs[k] /\ resp'[k] = resp[k]
  BY <1>2 DEF Start, Arrive, Inv, TypeOK
<1>3. ASSUME NEW c \in Calls, Resume(c) PROVE pc'[k] = "done" /\ reqs'[k] = reqs[k] /\ resp'[k] = resp[k]
  <2>1. /\ reqs' = reqs /\ pc[c] \in Active
        /\ \A d \in Calls \ {c} : pc'[d] = pc[d] /\ resp'[d] = resp[d]
    BY <1>3, ResumeFrame
  <2>2. k # c
    BY <2>1 DEF Active
  <2> QED BY <2>1, <2>2
<1> QED BY <1>1, <1>2, <1>3 DEF Next

\* What the ledger replies is of the requests the queue has mapped, one by one
LEMMA RepliesVerdict ==
  ASSUME SystemInv, ReplyInv, Complete, NEW k \in Calls, LedgerReplies(k), NEW v \in verdict' \ verdict
  PROVE  /\ v[1][1] \in Callers /\ status[v[1][1]] # "idle"
         /\ v[2] => /\ pc[k] = "done"
                    /\ \E n \in DOMAIN resp[k] : resp[k][n] /\ reqs[k][n] = RequestOf(v[1])
<1>1. /\ k \in carrying /\ pc[k] = "done"
      /\ verdict' = verdict \cup {<<line[n], resp[k][n]>> : n \in DOMAIN line}
  BY DEF LedgerReplies, LedgerAnswers, BatchFails
<1>2. PICK n \in DOMAIN line : v = <<line[n], resp[k][n]>>
  BY <1>1
<1>3. line \in Seq(Callers \X Nat) /\ line[n][1] \in Callers /\ status[line[n][1]] # "idle"
  BY DEF SystemInv, MappedInv, QueueInv, QueueTypeOK
<1>4. DOMAIN resp[k] = DOMAIN line /\ reqs[k][n] = RequestOf(line[n])
  <2>1. reqs[k] = Mapped
    BY <1>1 DEF ReplyInv
  <2>2. resp[k] \in Seq(BOOLEAN) /\ reqs[k] \in Seq(HighLevel) \cup Seq(LowLevel)
    BY DEF SystemInv, Inv, TypeOK
  <2>3. Len(resp[k]) = Len(reqs[k])
    BY <1>1 DEF Complete, Answered
  <2>4. DOMAIN resp[k] = DOMAIN reqs[k]
    BY <2>2, <2>3
  <2>5. DOMAIN Mapped = DOMAIN line /\ Mapped[n] = RequestOf(line[n])
    BY DEF Mapped
  <2> QED BY <2>1, <2>4, <2>5
<1> QED BY <1>1, <1>2, <1>3, <1>4

\* What the queue awaits stays what it has mapped
LEMMA CarriedStands ==
  ASSUME SystemInv, ReplyInv, [SystemNext]_systemVars, NEW k \in carrying'
  PROVE  k \notin Direct /\ reqs'[k] = Mapped'
<1> DEFINE Stands == k \notin Direct /\ reqs'[k] = Mapped'
<1>1. k \in carrying => k \in Calls /\ k \notin Direct /\ reqs[k] = Mapped /\ phase = "ledger"
  BY DEF SystemInv, CarryInv, ReplyInv
<1>2. line \in Seq(Callers \X Nat)
  BY DEF SystemInv, QueueInv, QueueTypeOK
<1>3. ASSUME UNCHANGED <<line, vars, carrying>>, QueueMove PROVE Stands
  <2>1. \A n \in DOMAIN line : line[n][1] \in Callers /\ status[line[n][1]] # "idle"
    BY <1>2 DEF SystemInv, MappedInv
  <2>2. \A n \in DOMAIN line : RequestOf(line[n])' = RequestOf(line[n])
    BY <1>3, <2>1, MoveKeeps DEF SystemInv, RequestOf
  <2>3. Mapped' = Mapped
    BY <1>3, <2>2 DEF Mapped
  <2> QED BY <1>1, <1>3, <2>3 DEF vars
<1>4. CASE QueueStep
  <2>1. phase = "ledger" /\ UNCHANGED <<vars, carrying>>
    BY <1>1, <1>4 DEF QueueStep
  <2>2. UNCHANGED line
    BY <1>4, <2>1 DEF QueueStep, Receive, Admit, ProcessQueue, MapRequest, Restart
  <2>3. QueueMove
    BY SystemMoves
  <2> QED BY <1>3, <2>1, <2>2, <2>3
<1>5. CASE LedgerStep
  <2>1. UNCHANGED <<queueVars, carrying>>
    BY <1>5 DEF LedgerStep
  <2>2. Mapped' = Mapped
    BY <2>1 DEF Mapped, RequestOf, queueVars
  <2>3. ASSUME NEW d \in Direct, NEW w, Arrive(d, w) PROVE reqs'[k] = reqs[k]
    BY <1>1, <2>1, <2>3, CompositionAssumption DEF Arrive, SystemInv, Inv, TypeOK
  <2>4. ASSUME NEW c \in Calls, Resume(c) PROVE reqs'[k] = reqs[k]
    BY <2>4, ResumeFrame DEF SystemInv
  <2> QED BY <1>1, <1>5, <2>1, <2>2, <2>3, <2>4 DEF LedgerStep
<1>6. ASSUME NEW c \in Calls, Deliver(c) PROVE Stands
  <2>1. k = c /\ c \notin Direct /\ UNCHANGED queueVars /\ reqs'[c] = Mapped
    BY <1>6 DEF Deliver, Arrive, SystemInv, Inv, TypeOK
  <2>2. Mapped' = Mapped
    BY <2>1 DEF Mapped, RequestOf, queueVars
  <2> QED BY <2>1, <2>2
<1>7. CASE UNCHANGED systemVars
  <2>1. UNCHANGED <<line, vars, carrying>> /\ QueueMove
    BY <1>7, SystemMoves DEF systemVars, queueVars
  <2> QED BY <1>3, <2>1
<1>8. CASE LinkBreaks \/ StopQueue \/ (\E c \in Calls : LedgerReplies(c))
  BY <1>8 DEF LinkBreaks, StopQueue, LedgerReplies
<1>9. CASE Undelivered
  BY <1>1, <1>9 DEF Undelivered
<1> QED BY <1>4, <1>5, <1>6, <1>7, <1>8, <1>9 DEF SystemNext

\* Verdicts are what the ledger replied
LEMMA OnlyReplies ==
  ASSUME SystemInv, [SystemNext]_systemVars, NEW v \in verdict', v \notin verdict
  PROVE  \E k \in Calls : LedgerReplies(k)
<1>1. QueueStep => UNCHANGED verdict
  BY DEF QueueStep, Receive, Admit, ProcessQueue, Exit, MapRequest, Restart, BatchFails
<1>2. LedgerStep \/ (\E k \in Calls : Deliver(k)) \/ UNCHANGED systemVars => UNCHANGED verdict
  BY DEF LedgerStep, Deliver, systemVars, queueVars
<1>3. Undelivered \/ LinkBreaks \/ StopQueue => UNCHANGED verdict
  BY DEF Undelivered, LinkBreaks, StopQueue, Stop, Exit, BatchFails
<1> QED BY <1>1, <1>2, <1>3 DEF SystemNext

LEMMA ReplyNext ==
  ASSUME AnyBatch, SystemInv, ReplyInv, Complete, [SystemNext]_systemVars PROVE ReplyInv'
<1>1. \A k \in carrying' : k \notin Direct /\ reqs'[k] = Mapped'
  BY CarriedStands
<1>2. QueueMove /\ [Next]_vars
  BY SystemMoves, SystemLedger DEF SystemInv
<1>3. \A c \in Callers : status[c] # "idle" => status'[c] # "idle" /\ asked'[c] = asked[c]
  BY <1>2, MoveKeeps DEF SystemInv
<1>4. \A k \in Calls : pc[k] = "done" => pc'[k] = "done" /\ reqs'[k] = reqs[k] /\ resp'[k] = resp[k]
  BY <1>2, DoneStays DEF SystemInv
<1>5. ASSUME NEW v \in verdict'
      PROVE  /\ v[1][1] \in Callers /\ status'[v[1][1]] # "idle"
             /\ v[2] => \E k \in Calls : \E n \in DOMAIN resp'[k] :
                          pc'[k] = "done" /\ resp'[k][n] /\ reqs'[k][n] = RequestOf(v[1])'
  <2>1. CASE v \in verdict
    BY <1>3, <1>4, <2>1, VerdictsStand
  <2>2. CASE v \notin verdict
    <3>1. PICK k \in Calls : LedgerReplies(k)
      BY <2>2, OnlyReplies
    <3>2. /\ v[1][1] \in Callers /\ status[v[1][1]] # "idle"
          /\ v[2] => /\ pc[k] = "done"
                     /\ \E n \in DOMAIN resp[k] : resp[k][n] /\ reqs[k][n] = RequestOf(v[1])
      BY <2>2, <3>1, RepliesVerdict
    <3>3. RequestOf(v[1])' = RequestOf(v[1])
      BY <1>3, <3>2 DEF RequestOf
    <3>4. UNCHANGED <<pc, reqs, resp>>
      BY <3>1 DEF LedgerReplies, vars
    <3> QED BY <1>3, <3>2, <3>3, <3>4
  <2> QED BY <2>1, <2>2
<1> QED BY <1>1, <1>5 DEF ReplyInv

EveryInv == SystemInv /\ QueueAnswersInv /\ KeptInv /\ Complete /\ ReplyInv

\* A request with an id of its own that was answered with success was run by the
\* ledger with success, and its entries are in the journal: while the connection
\* holds and the queue is not restarted, whatever calls are batched together and
\* whatever fails.
THEOREM SuccessAlwaysJournaled ==
  ASSUME AnyBatch, ~LinkMayBreak, ~MayExit
  PROVE  SystemSpec => []SuccessJournaled
<1>1. SystemInit => EveryInv
  <2>1. SystemInit => ReplyInv
    BY DEF SystemInit, QueueInit, ReplyInv
  <2> QED BY <2>1, SystemInitInv, QueueAnswersInit, InitKept, CompleteInit DEF SystemInit, EveryInv
<1>2. EveryInv /\ [SystemNext]_systemVars => EveryInv'
  <2> SUFFICES ASSUME EveryInv, [SystemNext]_systemVars PROVE EveryInv'
    OBVIOUS
  <2>1. SystemInv' /\ [SerialNext]_vars
    BY SystemRefines DEF Refines, EveryInv
  <2>2. QueueAnswersInv'
    BY SystemMoves, MoveAnswers DEF EveryInv
  <2>3. KeptInv' /\ Complete'
    BY <2>1, NextKept, CompleteNext, SerialIsNext DEF EveryInv, SystemInv
  <2>4. ReplyInv'
    BY ReplyNext DEF EveryInv
  <2> QED BY <2>1, <2>2, <2>3, <2>4 DEF EveryInv
<1>3. EveryInv => SuccessJournaled
  <2> SUFFICES ASSUME EveryInv, NEW c \in Callers, status[c] = "answered", OwnIds(c),
                      NEW i \in DOMAIN answer[c], answer[c][i].ok
               PROVE  \E k \in Calls : \E n \in DOMAIN resp[k] :
                        /\ resp[k][n]
                        /\ reqs[k][n] = asked[c][i]
                        /\ \A e \in LegIds(<<k, n>>) : \E m \in DOMAIN journal : journal[m] = e
    BY DEF SuccessJournaled
  <2>1. AnsweredEach(c) \/ Untouched(c)
    BY DEF EveryInv, QueueAnswersInv, AnswersInv, ExactAnswers
  <2>2. AnsweredEach(c)
    BY <2>1 DEF Untouched
  <2> DEFINE v == <<<<c, i>>, answer[c][i].ok>>
  <2>3. v \in verdict /\ v[2] /\ RequestOf(v[1]) = asked[c][i]
    BY <2>2 DEF AnsweredEach, RequestOf
  <2> HIDE DEF v
  <2>0. PICK k \in Calls : \E n \in DOMAIN resp[k] :
          pc[k] = "done" /\ resp[k][n] /\ reqs[k][n] = RequestOf(v[1])
    BY <2>3 DEF EveryInv, ReplyInv
  <2>4. PICK n \in DOMAIN resp[k] : pc[k] = "done" /\ resp[k][n] /\ reqs[k][n] = RequestOf(v[1])
    BY <2>0
  <2>5. n \in DOMAIN reqs[k]
    <3>1. resp[k] \in Seq(BOOLEAN) /\ reqs[k] \in Seq(HighLevel) \cup Seq(LowLevel)
      BY DEF EveryInv, SystemInv, Inv, TypeOK
    <3>2. Len(resp[k]) = Len(reqs[k])
      BY <2>4 DEF EveryInv, Complete, Answered
    <3> QED BY <3>1, <3>2
  <2>6. ASSUME NEW e \in LegIds(<<k, n>>) PROVE \E m \in DOMAIN journal : journal[m] = e
    <3>1. <<k, n>> \in RequestIds
      BY <2>5 DEF RequestIds
    <3>2. e[1] = k /\ e[2] = n /\ e \in EntriesAsked
      BY <3>1 DEF LegIds, EntriesAsked
    <3>3. e \in AcceptedIds
      BY <2>4, <3>2 DEF AcceptedIds, Accepted
    <3>4. AcknowledgedJournaled
      BY KeptMeansJournaled DEF EveryInv
    <3> QED BY <2>4, <3>2, <3>3, <3>4 DEF AcknowledgedJournaled
  <2> QED BY <2>3, <2>4, <2>6
<1> QED BY <1>1, <1>2, <1>3, PTL DEF SystemSpec
=============================================================================
