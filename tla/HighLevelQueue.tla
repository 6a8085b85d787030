---------------------------- MODULE HighLevelQueue ----------------------------
(***************************************************************************)
(* The queue of high-level requests of the chart-of-accounts service       *)
(* (GrpcHandlers of grpc-svc) and AccountsAndBalancesAggregate's           *)
(* processHighLevelBatch behind it.                                        *)
(*                                                                         *)
(* Every ProcessHighLevelBatch call is put in _queue.  A timer runs        *)
(* _processQueue, which takes the whole queue when it is not already       *)
(* processing, maps the accounts of all its requests, sends them to the    *)
(* ledger as one array, and hands each response to the call that asked.    *)
(***************************************************************************)
EXTENDS Integers, Sequences, SequencesExt, Selections

CONSTANTS
  Callers,        \* ProcessHighLevelBatch calls received; each is made once
  Requests,       \* high-level requests
  RequestId,      \* the requestId of each
  Valid,          \* those that have every field their type requires
  Known,          \* those whose accounts are in the chart of accounts
  Arrays,         \* the request arrays a call may carry
  MayFail,        \* the CoA repository or the ledger may reject
  MayExit         \* the process may be stopped at any time

VARIABLES
  up,             \* the process runs
  status,         \* how far each call is
  asked,          \* its request array
  answer,         \* the responses it was given
  queue,          \* _queue
  phase,          \* "free" is _processing = false, else what is awaited
  batch,          \* queueCopy: the calls being processed
  line,           \* highLevelRequests: <<call, index>> of those mapped so far
  forwarded,      \* history: the requests sent to the ledger, in order
  verdict         \* history: what the ledger answered to each

queueVars == <<up, status, asked, answer, queue, phase, batch, line, forwarded, verdict>>

Waiting == {"auth", "queued"}
Over == {"answered", "failed", "refused", "lost"}

ASSUME QueueAssumption ==
  /\ Valid \subseteq Requests /\ Known \subseteq Requests
  /\ Arrays \subseteq Seq(Requests)
  /\ {MayFail, MayExit} \subseteq BOOLEAN

-----------------------------------------------------------------------------
(* Grouping requests and re-assembling responses *)

RequestOf(p) == asked[p[1]][p[2]]

\* The places <<n, i>> in the batch of the requests still to be mapped: the
\* i-th of the n-th call
Todo ==
  LET places == UNION {{n} \X DOMAIN asked[batch[n]] : n \in DOMAIN batch}
  IN {p \in places : <<batch[p[1]], p[2]>> \notin ToSet(line)}

\* Call after call, and in each call request after request
Before(p, q) == p[1] < q[1] \/ (p[1] = q[1] /\ p[2] <= q[2])

Response(p, ok) == [id |-> RequestId[RequestOf(p)], ok |-> ok]

AskedIds(c) == {RequestId[asked[c][i]] : i \in DOMAIN asked[c]}

\* (mutant) every response goes to the first call of the batch
OwnerFirst(id) == batch[1]

\* The call a response goes to: the first of the batch with a request of that id
Owner(id) == batch[SelectInSeq(batch, LAMBDA c : id \in AskedIds(c))]

Told(outcome) == [c \in Callers |-> IF c \in ToSet(batch) THEN outcome ELSE status[c]]

\* The calls that arrived while the batch was processed.  The code takes each
\* call of the batch out by its id; nothing else leaves the queue meanwhile, so
\* they are its head.
Remaining == SubSeq(queue, Len(batch) + 1, Len(queue))

\* (mutant) _processing is not reset after a failure
FinishHolding(outcome) ==
  /\ status' = Told(outcome)
  /\ queue' = Remaining
  /\ phase' = IF outcome = "failed" THEN phase ELSE "free"
  /\ batch' = <<>> /\ line' = <<>>

\* (mutant) the calls that failed stay in the queue, to be tried again
FinishRetrying(outcome) ==
  /\ status' = Told(outcome)
  /\ queue' = IF outcome = "failed" THEN queue ELSE Remaining
  /\ phase' = "free"
  /\ batch' = <<>> /\ line' = <<>>

\* (mutant) the queue is emptied, with what arrived during the processing
FinishClearing(outcome) ==
  /\ status' = Told(outcome)
  /\ queue' = <<>>
  /\ phase' = "free"
  /\ batch' = <<>> /\ line' = <<>>

\* Every call of the batch is called back and leaves the queue
Finish(outcome) ==
  /\ status' = Told(outcome)
  /\ queue' = Remaining
  /\ phase' = "free"
  /\ batch' = <<>> /\ line' = <<>>

Respond(responses) ==
  /\ answer' = [c \in Callers |->
                  IF c \in ToSet(batch)
                  THEN At(responses, {n \in DOMAIN responses : Owner(responses[n].id) = c})
                  ELSE answer[c]]
  /\ Finish("answered")

\* The process ends: memory is gone and the callers' connections break
Exit ==
  /\ up' = FALSE
  /\ status' = [c \in Callers |-> IF status[c] \in Waiting THEN "lost" ELSE status[c]]
  /\ queue' = <<>>
  /\ phase' = "free"
  /\ batch' = <<>> /\ line' = <<>>
  /\ UNCHANGED <<asked, answer, forwarded, verdict>>

-----------------------------------------------------------------------------
QueueInit ==
  /\ up = TRUE
  /\ status = [c \in Callers |-> "idle"]
  /\ asked = [c \in Callers |-> <<>>]
  /\ answer = [c \in Callers |-> <<>>]
  /\ queue = <<>>
  /\ phase = "free"
  /\ batch = <<>> /\ line = <<>>
  /\ forwarded = <<>>
  /\ verdict = {}

\* A call arrives and awaits the verification of its token
Receive(c) ==
  /\ up /\ status[c] = "idle"
  /\ \E w \in Arrays : asked' = [asked EXCEPT ![c] = w]
  /\ status' = [status EXCEPT ![c] = "auth"]
  /\ UNCHANGED <<up, answer, queue, phase, batch, line, forwarded, verdict>>

\* The token is good and the call is queued, or it is refused
Admit(c) ==
  /\ status[c] = "auth"
  /\ \/ /\ status' = [status EXCEPT ![c] = "queued"]
        /\ queue' = Append(queue, c)
     \/ /\ status' = [status EXCEPT ![c] = "refused"]
        /\ UNCHANGED queue
  /\ UNCHANGED <<up, asked, answer, phase, batch, line, forwarded, verdict>>

\* The timer fires with 50 ms gone by, or over 200 requests waiting.  A request
\* without a required field makes the loop throw where nothing catches it: the
\* rejected promise ends the process.
ProcessQueue ==
  /\ up /\ phase = "free" /\ queue # <<>>
  /\ IF \A c \in ToSet(queue) : ToSet(asked[c]) \subseteq Valid
     THEN /\ batch' = queue
          /\ phase' = IF \A c \in ToSet(queue) : asked[c] = <<>> THEN "ledger" ELSE "mapping"
          /\ UNCHANGED <<up, status, asked, answer, queue, line, forwarded, verdict>>
     ELSE Exit

\* The accounts of the next request are fetched.  One that is unknown ends the
\* whole batch with that single error response; after the last request the
\* array is sent to the ledger.
MapRequest ==
  /\ phase = "mapping"
  /\ \E p \in Todo :
       /\ \A q \in Todo : Before(p, q)
       /\ LET r == <<batch[p[1]], p[2]>> IN
          IF RequestOf(r) \notin Known
          THEN /\ Respond(<<Response(r, FALSE)>>)
               /\ UNCHANGED forwarded
          ELSE /\ line' = Append(line, r)
               /\ IF Todo = {p}
                  THEN phase' = "ledger" /\ forwarded' = forwarded \o line'
                  ELSE UNCHANGED <<phase, forwarded>>
               /\ UNCHANGED <<status, answer, queue, batch>>
  /\ UNCHANGED <<up, asked, verdict>>

\* The ledger answers the requests in their order, oks[n] to the n-th
LedgerAnswers(oks) ==
  /\ phase = "ledger"
  /\ Respond([n \in DOMAIN line |-> Response(line[n], oks[n])])
  /\ verdict' = verdict \cup {<<line[n], oks[n]>> : n \in DOMAIN line}
  /\ UNCHANGED <<up, asked, forwarded>>

\* The CoA repository or the ledger rejects: every call of the batch gets the error
BatchFails ==
  /\ phase \in {"mapping", "ledger"}
  /\ Finish("failed")
  /\ UNCHANGED <<up, asked, answer, forwarded, verdict>>

Stop == MayExit /\ up /\ Exit

Restart ==
  /\ ~up
  /\ up' = TRUE
  /\ UNCHANGED <<status, asked, answer, queue, phase, batch, line, forwarded, verdict>>

\* What the service does with the batch it is processing
Process ==
  \/ MapRequest
  \/ \E oks \in [DOMAIN line -> BOOLEAN] : LedgerAnswers(oks)
  \/ MayFail /\ BatchFails

QueueNext ==
  \/ \E c \in Callers : Receive(c) \/ Admit(c)
  \/ ProcessQueue \/ Process \/ Stop \/ Restart

QueueSpec == QueueInit /\ [][QueueNext]_queueVars
-----------------------------------------------------------------------------
(* Properties *)

QueueTypeOK ==
  /\ up \in BOOLEAN
  /\ status \in [Callers -> {"idle"} \cup Waiting \cup Over]
  /\ asked \in [Callers -> {<<>>} \cup Arrays]
  /\ DOMAIN answer = Callers
  /\ queue \in Seq(Callers) /\ batch \in Seq(Callers)
  /\ line \in Seq(Callers \X Nat)
  /\ phase \in {"free", "mapping", "ledger"}
  /\ phase = "free" <=> batch = <<>>
  /\ batch = <<>> => line = <<>>
  /\ phase = "mapping" => Todo # {}

\* No call is forgotten and none is there twice: the queue holds exactly the
\* calls that wait, those being processed first, also when calls arrive
\* during the processing and when it fails.
QueueHoldsWaiting ==
  /\ ToSet(queue) = {c \in Callers : status[c] = "queued"}
  /\ Len(queue) = Cardinality(ToSet(queue))
  /\ IsPrefix(batch, queue)

\* A request is sent to the ledger at most once, whatever failed before.
TakenOnce == Len(forwarded) = Cardinality(ToSet(forwarded))

\* The ids of call c are its own: no other call uses one
OwnIds(c) == \A d \in Callers \ {c} : AskedIds(c) \cap AskedIds(d) = {}

AnsweredEach(c) ==
  /\ DOMAIN answer[c] = DOMAIN asked[c]
  /\ \A i \in DOMAIN asked[c] : /\ answer[c][i].id = RequestId[asked[c][i]]
                                /\ <<<<c, i>>, answer[c][i].ok>> \in verdict

\* Turned away before the ledger saw it
Untouched(c) ==
  /\ \A p \in ToSet(forwarded) : p[1] # c
  /\ Len(answer[c]) <= 1
  /\ \A n \in DOMAIN answer[c] : ~answer[c][n].ok

\* An answered call whose request ids no other call uses has, for each of its
\* requests and in their order, what the ledger said of that request, whichever
\* calls it was batched with; or its batch named an unknown account, and then
\* none of its requests reached the ledger.
ExactAnswers ==
  \A c \in Callers : status[c] = "answered" /\ OwnIds(c) =>
                       AnsweredEach(c) \/ Untouched(c)

\* Also when request ids repeat, no call is given a response it did not ask for.
OwnAnswers ==
  \A c \in Callers : \A n \in DOMAIN answer[c] : answer[c][n].id \in AskedIds(c)

\* What a caller may rely on: batch after batch everyone who waits is served,
\* together and with the same outcome, those who come during the processing
\* in the next batch, and an outcome once given is never changed.
Server ==
  INSTANCE BatchServer WITH
    waiting <- ToSet(queue) \ ToSet(batch),
    serving <- ToSet(batch),
    outcome <- [c \in Callers |-> IF status[c] \in Over THEN status[c] ELSE "none"]

ServesBatches == Server!ServerSpec

\* Every call that arrived is answered, refused or failed, or its connection
\* breaks when the service ends.
CallsEnd == \A c \in Callers : status[c] \in Waiting ~> status[c] \in Over
=============================================================================
