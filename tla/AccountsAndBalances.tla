-------------------------- MODULE AccountsAndBalances --------------------------
(***************************************************************************)
(* The two services together: the queue of grpc-svc sends its batches over *)
(* gRPC to builtin-ledger-grpc-svc, which runs every call it receives at   *)
(* once.  Nothing but the queue's _processing keeps two batches apart.     *)
(*                                                                         *)
(* The module composes HighLevelQueue and BuiltinLedger; its own state is  *)
(* the one gRPC call the queue may be awaiting.                            *)
(***************************************************************************)
EXTENDS HighLevelQueue, BuiltinLedger

CONSTANTS
  Direct,         \* ledger calls that carry low-level entries, made past the queue
  LinkMayBreak    \* the connection between the services may drop during a call

VARIABLE
  carrying        \* the ledger call the queue awaits: none, or one

systemVars == <<queueVars, vars, carrying>>

\* Disciplined, which the runs leave FALSE, restricts the clients of the queue:
\* only behaviours are looked at in which every batch is well formed when it is
\* delivered.
ASSUME CompositionAssumption ==
  /\ Requests \subseteq HighLevel
  /\ <<>> \notin Arrays
  /\ Direct \subseteq Calls
  /\ LinkMayBreak \in BOOLEAN

-----------------------------------------------------------------------------
SystemInit == QueueInit /\ Init /\ carrying = {}

\* The requests of the batch with their accounts mapped, in the order of line
Mapped == [n \in DOMAIN line |-> RequestOf(line[n])]

\* The queue's own steps, up to the call to the ledger adapter
QueueStep ==
  /\ \/ \E c \in Callers : Receive(c) \/ Admit(c)
     \/ ProcessQueue \/ MapRequest \/ Restart
     \/ MayFail /\ phase = "mapping" /\ BatchFails
  /\ UNCHANGED <<vars, carrying>>

\* The call reaches the ledger, or it does not
Deliver(k) ==
  /\ phase = "ledger" /\ carrying = {} /\ k \notin Direct
  /\ Arrive(k, Mapped)
  /\ carrying' = {k}
  /\ UNCHANGED queueVars

Undelivered ==
  /\ MayFail
  /\ phase = "ledger" /\ carrying = {}
  /\ BatchFails
  /\ UNCHANGED <<vars, carrying>>

\* (mutant) the call has a deadline
LedgerRepliesOrDeadline(k) ==
  /\ k \in carrying
  /\ \/ pc[k] = "done" /\ LedgerAnswers(resp[k])
     \/ pc[k] # "done" /\ BatchFails
  /\ carrying' = {}
  /\ UNCHANGED vars

\* (mutant) an error of the ledger is not caught
LedgerRepliesUncaught(k) ==
  /\ k \in carrying
  /\ pc[k] = "done" /\ LedgerAnswers(resp[k])
  /\ carrying' = {}
  /\ UNCHANGED vars

\* The ledger's responses, or its error, reach the queue
LedgerReplies(k) ==
  /\ k \in carrying
  /\ \/ pc[k] = "done" /\ LedgerAnswers(resp[k])
     \/ pc[k] = "failed" /\ BatchFails
  /\ carrying' = {}
  /\ UNCHANGED vars

\* The connection drops: the queue's promise is rejected, the ledger goes on
LinkBreaks ==
  /\ LinkMayBreak
  /\ carrying # {}
  /\ BatchFails
  /\ carrying' = {}
  /\ UNCHANGED vars

\* The chart-of-accounts service is stopped, whatever it awaits
StopQueue ==
  /\ Stop
  /\ carrying' = {}
  /\ UNCHANGED vars

\* Low-level calls, which pass the queue, and the calls the ledger is running
LedgerStep ==
  /\ \/ \E k \in Direct, w \in Workload : ~InBatch(w[1]) /\ Arrive(k, w)
     \/ \E k \in Calls : Resume(k)
  /\ UNCHANGED <<queueVars, carrying>>

SystemNext ==
  \/ QueueStep \/ LedgerStep
  \/ \E k \in Calls : Deliver(k) \/ LedgerReplies(k)
  \/ Undelivered \/ LinkBreaks \/ StopQueue

SystemSpec == SystemInit /\ [][SystemNext]_systemVars

\* The token is verified or not, the timer of the queue fires, the CoA
\* repository answers, and the service is restarted when it ends; the ledger's
\* awaits settle and its event loop runs every continuation that is ready; a
\* call sent is delivered or fails, and a reply reaches the queue.
FairSystemSpec ==
  /\ SystemSpec
  /\ \A c \in Callers : WF_systemVars(Admit(c) /\ UNCHANGED <<vars, carrying>>)
  /\ WF_systemVars((ProcessQueue \/ Restart) /\ UNCHANGED <<vars, carrying>>)
  /\ WF_systemVars((MapRequest \/ (MayFail /\ phase = "mapping" /\ BatchFails))
                     /\ UNCHANGED <<vars, carrying>>)
  /\ WF_systemVars(Undelivered \/ \E k \in Calls : Deliver(k))
  /\ \A k \in Calls : /\ WF_systemVars(Resume(k) /\ UNCHANGED <<queueVars, carrying>>)
                      /\ WF_systemVars(LedgerReplies(k))

-----------------------------------------------------------------------------
(* Properties.  LiquidityCovered, HubTally and AnswersTellBalances of        *)
(* BuiltinLedger and CallsEnd of HighLevelQueue are also properties of the   *)
(* composed system.                                                          *)

\* The queue gives the ledger what LiquidityCovered needs of its clients: it
\* never sends a batch while the ledger still runs another, through invalid
\* requests, failing repositories and errors of the ledger.  The composed
\* system implements the serial ledger.
LedgerServedSerially == SerialSpec

\* What a client is told holds in the other service: a request with an id of
\* its own that was answered with success was run by the ledger with success,
\* and all its entries are in the journal.
SuccessJournaled ==
  \A c \in Callers : status[c] = "answered" /\ OwnIds(c) =>
    \A i \in DOMAIN answer[c] : answer[c][i].ok =>
      \E k \in Calls : \E n \in DOMAIN resp[k] :
        /\ resp[k][n]
        /\ reqs[k][n] = asked[c][i]
        /\ \A e \in LegIds(<<k, n>>) : \E m \in DOMAIN journal : journal[m] = e
=============================================================================
