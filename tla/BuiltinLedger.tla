---------------------------- MODULE BuiltinLedger ----------------------------
(***************************************************************************)
(* The BuiltinLedgerAggregate of builtin-ledger-grpc-svc: gRPC calls that  *)
(* run processHighLevelBatch or createJournalEntries against one set of    *)
(* in-memory accounts, a cache of unflushed journal entries and the        *)
(* repositories behind them.                                               *)
(*                                                                         *)
(* JavaScript runs a call without interruption between two awaits, so one  *)
(* action is what a call does from one await to the next, and the calls    *)
(* interleave only there.  A call that awaits a repository is resumed by   *)
(* the action that also lets the repository's write take effect.           *)
(***************************************************************************)
EXTENDS Integers, Sequences, FiniteSets, FiniteSetsExt

CONSTANTS
  Calls,          \* gRPC calls received by the ledger; each runs once
  AccountIds,     \* account ids a request may name
  Accounts,       \* the accounts that exist, already in the account cache
  Currencies,     \* ISO currency codes
  CurrencyOf,     \* the currency of every account
  Transfers,      \* transfer ids
  Transfer,       \* per transfer: payer, payee, hub, amount, currency
  LiquidityOf,    \* payer position account -> its liquidity account
  NetDebitCap,    \* payer position account -> its net debit cap
  Postings,       \* names of low-level journal entries
  Posting,        \* per posting: the entry createJournalEntries is asked for
  Workload,       \* the request arrays a call may carry
  InitBalance,    \* balances when the accounts were loaded
  Disciplined,    \* the transfers service settles only what it reserved
  RepoMayFail     \* a repository call may reject, before or after its write

VARIABLES
  pc,             \* where each call is suspended
  reqs,           \* the call's request array
  resp,           \* its responses so far; Len(resp[c]) + 1 is the one under way
  leg,            \* which journal entry of that request is being posted
  sent,           \* entries handed to storeNewJournalEntries by _flush
  snap,           \* balances handed to updateAccounts or to a single update
  bal,            \* the account objects of _accountCache
  db,             \* the accounts collection
  entriesCache,   \* _entriesCache, in insertion order
  journal         \* the journal entries collection, in insertion order

vars == <<pc, reqs, resp, leg, sent, snap, bal, db, entriesCache, journal>>

-----------------------------------------------------------------------------
(* Data *)

Fields == {"pendDr", "pendCr", "postDr", "postCr"}
Balance == [Fields -> Nat]
NatPos == Nat \ {0}

TransferTerms ==
  [payer: AccountIds, payee: AccountIds, hub: AccountIds,
   amount: NatPos, currency: Currencies]

\* The arguments of one _createJournalEntry
Leg == [dr: AccountIds, cr: AccountIds, amount: Int, pending: BOOLEAN,
        currency: Currencies]

HighLevel == [type: {"reserve", "commit", "cancel"}, t: Transfers]
LowLevel == [type: {"entry"}, t: Postings]
Request == HighLevel \cup LowLevel

EntryIds == Calls \X NatPos \X {1, 2}

Active == {"check", "fetch", "store", "debit", "credit", "flushEntries", "flushAccounts"}
Ended == {"done", "failed"}

Payers == {Transfer[t].payer : t \in Transfers}

ASSUME AccountsAssumption ==
  /\ Accounts \subseteq AccountIds
  /\ CurrencyOf \in [Accounts -> Currencies]
  /\ InitBalance \in [Accounts -> Balance]

ASSUME RequestsAssumption ==
  /\ Transfer \in [Transfers -> TransferTerms]
  /\ LiquidityOf \in [Payers -> AccountIds]
  /\ NetDebitCap \in [Payers -> Int]
  /\ Posting \in [Postings -> Leg]

\* A call carries high-level requests or low-level entries, never both: they
\* are two different gRPC methods.
ASSUME WorkloadAssumption ==
  \A w \in Workload :
    /\ w \in Seq(HighLevel) \cup Seq(LowLevel)
    /\ w # <<>>

ASSUME ModesAssumption == {Disciplined, RepoMayFail} \subseteq BOOLEAN

-----------------------------------------------------------------------------
(* Journal entries of a request *)

\* (mutant) the reservation is credited to the payee, not to the hub
ReservationToPayee(tr, amount) ==
  [dr |-> tr.payer, cr |-> tr.payee, amount |-> amount, pending |-> TRUE,
   currency |-> tr.currency]

Reservation(tr, amount) ==
  [dr |-> tr.payer, cr |-> tr.hub, amount |-> amount, pending |-> TRUE,
   currency |-> tr.currency]

Movement(tr) ==
  [dr |-> tr.payer, cr |-> tr.payee, amount |-> tr.amount, pending |-> FALSE,
   currency |-> tr.currency]

\* (mutant) the commit does not cancel the reservation
LegsUncancelled(req) ==
  CASE req.type = "reserve" -> <<Reservation(Transfer[req.t], Transfer[req.t].amount)>>
    [] req.type = "cancel" -> <<Reservation(Transfer[req.t], -Transfer[req.t].amount)>>
    [] req.type = "commit" -> <<Movement(Transfer[req.t])>>
    [] req.type = "entry" -> <<Posting[req.t]>>

\* checkLiquidAndReserve posts a pending entry, cancelReservation its negative,
\* cancelReservationAndCommit the negative and then the posted entry.
Legs(req) ==
  CASE req.type = "reserve" -> <<Reservation(Transfer[req.t], Transfer[req.t].amount)>>
    [] req.type = "cancel" -> <<Reservation(Transfer[req.t], -Transfer[req.t].amount)>>
    [] req.type = "commit" -> <<Reservation(Transfer[req.t], -Transfer[req.t].amount),
                                Movement(Transfer[req.t])>>
    [] req.type = "entry" -> <<Posting[req.t]>>

InBatch(req) == req.type # "entry"

Current(c) == reqs[c][Len(resp[c]) + 1]
CurrentLeg(c) == Legs(Current(c))[leg[c]]
CurrentId(c) == <<c, Len(resp[c]) + 1, leg[c]>>

DebitField(l) == IF l.pending THEN "pendDr" ELSE "postDr"
CreditField(l) == IF l.pending THEN "pendCr" ELSE "postCr"

Add(b, a, f, amount) == [b EXCEPT ![a][f] = @ + amount]
Debit(b, l) == Add(b, l.dr, DebitField(l), l.amount)
Credit(b, l) == Add(b, l.cr, CreditField(l), l.amount)

\* (mutant) debits are not checked
CanDebitUnchecked(b, l) == TRUE

\* (mutant) credits are not checked
CanCreditUnchecked(b, l) == TRUE

CanDebit(b, l) == b[l.dr][DebitField(l)] + l.amount >= 0
CanCredit(b, l) == b[l.cr][CreditField(l)] + l.amount >= 0

-----------------------------------------------------------------------------
(* The liquidity check *)

\* What the payer owes or has promised, net of what it was paid
Exposure(b, p) == b[p].postDr + b[p].pendDr - b[p].postCr

Cover(b, p) ==
  LET liq == LiquidityOf[p] IN b[liq].postCr - b[liq].postDr - NetDebitCap[p]

\* (mutant) the check forgets what is already reserved
CheckPostedOnly(b, p, amount) == b[p].postDr - b[p].postCr + amount <= Cover(b, p)

CheckParticipantLiquidity(b, p, amount) == Exposure(b, p) + amount <= Cover(b, p)

-----------------------------------------------------------------------------
(* Program order of a call *)

\* The first await of a request
EntryPoint(req) == IF req.type = "reserve" THEN "check" ELSE "fetch"

\* (mutant) the queue is released before the batch is flushed
BatchUntilFlush(c) ==
  pc[c] \in Active \ {"flushEntries", "flushAccounts"} /\ InBatch(reqs[c][1])

BatchActive(c) == pc[c] \in Active /\ InBatch(reqs[c][1])

\* _flush up to its first await, with the balances b in memory
BeginFlush(c, b) ==
  IF entriesCache # <<>>
  THEN /\ pc' = [pc EXCEPT ![c] = "flushEntries"]
       /\ sent' = [sent EXCEPT ![c] = entriesCache]
       /\ UNCHANGED snap
  ELSE /\ pc' = [pc EXCEPT ![c] = "flushAccounts"]
       /\ snap' = [snap EXCEPT ![c] = b]
       /\ UNCHANGED sent

\* The request under way is answered; the loop turns to the next one, flushes
\* when a batch has none left, or returns when a low-level call has none left.
Answer(c, ok, b) ==
  /\ resp' = [resp EXCEPT ![c] = Append(@, ok)]
  /\ leg' = [leg EXCEPT ![c] = 1]
  /\ IF Len(resp[c]) + 1 < Len(reqs[c])
     THEN /\ pc' = [pc EXCEPT ![c] = EntryPoint(reqs[c][Len(resp[c]) + 2])]
          /\ UNCHANGED <<sent, snap>>
     ELSE IF InBatch(Current(c))
     THEN BeginFlush(c, b)
     ELSE /\ pc' = [pc EXCEPT ![c] = "done"]
          /\ UNCHANGED <<sent, snap>>

\* The call rejects: the client gets an error and no responses
Reject(c) ==
  /\ pc' = [pc EXCEPT ![c] = "failed"]
  /\ UNCHANGED <<resp, leg, sent, snap>>

\* An exception while posting: a batch answers the request with success false
\* and goes on, a low-level call rejects.
Throw(c, b) == IF InBatch(Current(c)) THEN Answer(c, FALSE, b) ELSE Reject(c)

NextLeg(c, b) ==
  IF leg[c] < Len(Legs(Current(c)))
  THEN /\ leg' = [leg EXCEPT ![c] = @ + 1]
       /\ pc' = [pc EXCEPT ![c] = "fetch"]
       /\ UNCHANGED <<resp, sent, snap>>
  ELSE Answer(c, TRUE, b)

-----------------------------------------------------------------------------
(* Clients (outside this repository) *)

Sent(type, t) ==
  \E c \in Calls : \E i \in DOMAIN reqs[c] : reqs[c][i] = [type |-> type, t |-> t]

Acknowledged(type, t) ==
  \E c \in Calls : \E i \in DOMAIN resp[c] :
    pc[c] = "done" /\ resp[c][i] /\ reqs[c][i] = [type |-> type, t |-> t]

\* The transfers service reserves a transfer once, settles it once, and only
\* after the reservation was acknowledged.
WellFormed(w) ==
  /\ \A i, j \in DOMAIN w : w[i].t = w[j].t => i = j
  /\ \A i \in DOMAIN w :
       CASE w[i].type = "reserve" -> ~Sent("reserve", w[i].t)
         [] w[i].type \in {"commit", "cancel"} ->
              /\ Acknowledged("reserve", w[i].t)
              /\ ~Sent("commit", w[i].t)
              /\ ~Sent("cancel", w[i].t)
         [] OTHER -> TRUE

-----------------------------------------------------------------------------
Init ==
  /\ pc = [c \in Calls |-> "idle"]
  /\ reqs = [c \in Calls |-> <<>>]
  /\ resp = [c \in Calls |-> <<>>]
  /\ leg = [c \in Calls |-> 1]
  /\ sent = [c \in Calls |-> <<>>]
  /\ snap = [c \in Calls |-> InitBalance]
  /\ bal = InitBalance
  /\ db = InitBalance
  /\ entriesCache = <<>>
  /\ journal = <<>>

\* A call arrives with the requests w
Arrive(c, w) ==
  /\ pc[c] = "idle"
  /\ Disciplined => WellFormed(w)
  /\ reqs' = [reqs EXCEPT ![c] = w]
  /\ pc' = [pc EXCEPT ![c] = EntryPoint(w[1])]
  /\ UNCHANGED <<resp, leg, sent, snap, bal, db, entriesCache, journal>>

Start(c) == \E w \in Workload : Arrive(c, w)

\* The same, from a client that sends no batch while it awaits another: the
\* queue of one chart-of-accounts service.
StartSerial(c) ==
  \E w \in Workload :
    /\ InBatch(w[1]) => \A d \in Calls : ~BatchActive(d)
    /\ Arrive(c, w)

\* checkLiquidAndReserve resumes with the payer's accounts
CheckLiquid(c) ==
  LET tr == Transfer[Current(c).t] IN
  /\ pc[c] = "check"
  /\ IF /\ {tr.payer, LiquidityOf[tr.payer]} \subseteq Accounts
        /\ CheckParticipantLiquidity(bal, tr.payer, tr.amount)
     THEN /\ pc' = [pc EXCEPT ![c] = "fetch"]
          /\ UNCHANGED <<resp, leg, sent, snap>>
     ELSE Answer(c, FALSE, bal)
  /\ UNCHANGED <<reqs, bal, db, entriesCache, journal>>

\* _createJournalEntry resumes with both accounts, validates them and stores
\* the entry: a batch in _entriesCache, a low-level call in the repository.
\* The refusal of equal accounts, made before the await, is part of this step.
CreateEntry(c) ==
  LET l == CurrentLeg(c)
      valid == /\ l.dr # l.cr
               /\ {l.dr, l.cr} \subseteq Accounts
               /\ CurrencyOf[l.dr] = l.currency
               /\ CurrencyOf[l.cr] = l.currency
  IN
  /\ pc[c] = "fetch"
  /\ IF valid
     THEN /\ pc' = [pc EXCEPT ![c] = "store"]
          /\ UNCHANGED <<resp, leg, sent, snap>>
     ELSE Throw(c, bal)
  /\ entriesCache' = IF valid /\ InBatch(Current(c))
                     THEN Append(entriesCache, CurrentId(c)) ELSE entriesCache
  /\ UNCHANGED <<reqs, bal, db, journal>>

\* The rest of _createJournalEntry in a batch: both balances in memory.  A
\* credit below zero is refused after the debit was made.
PostInBatch(c) ==
  LET l == CurrentLeg(c) IN
  /\ pc[c] = "store"
  /\ InBatch(Current(c))
  /\ IF ~CanDebit(bal, l)
     THEN bal' = bal /\ Throw(c, bal)
     ELSE IF ~CanCredit(Debit(bal, l), l)
     THEN bal' = Debit(bal, l) /\ Throw(c, Debit(bal, l))
     ELSE LET b == Credit(Debit(bal, l), l) IN bal' = b /\ NextLeg(c, b)
  /\ UNCHANGED <<reqs, db, entriesCache, journal>>

-----------------------------------------------------------------------------
(* createJournalEntries: every write goes to the repository at once *)

\* storeNewJournalEntry answered: debit in memory, then ask for the update
DebitDirect(c) ==
  LET l == CurrentLeg(c) IN
  /\ pc[c] = "store"
  /\ ~InBatch(Current(c))
  /\ journal' = Append(journal, CurrentId(c))
  /\ IF CanDebit(bal, l)
     THEN /\ bal' = Debit(bal, l)
          /\ snap' = [snap EXCEPT ![c] = bal']
          /\ pc' = [pc EXCEPT ![c] = "debit"]
          /\ UNCHANGED <<resp, leg, sent>>
     ELSE UNCHANGED bal /\ Reject(c)
  /\ UNCHANGED <<reqs, db, entriesCache>>

DebitUpdate(c) ==
  LET l == CurrentLeg(c) f == DebitField(l)
  IN [db EXCEPT ![l.dr][f] = snap[c][l.dr][f]]

CreditUpdate(c) ==
  LET l == CurrentLeg(c) f == CreditField(l)
  IN [db EXCEPT ![l.cr][f] = snap[c][l.cr][f]]

\* (mutant) the credit is computed from the balances read before the await
CreditDirectStale(c) ==
  LET l == CurrentLeg(c) IN
  /\ pc[c] = "debit"
  /\ db' = DebitUpdate(c)
  /\ IF CanCredit(snap[c], l)
     THEN /\ bal' = Credit(snap[c], l)
          /\ snap' = [snap EXCEPT ![c] = bal']
          /\ pc' = [pc EXCEPT ![c] = "credit"]
          /\ UNCHANGED <<resp, leg, sent>>
     ELSE UNCHANGED bal /\ Reject(c)
  /\ UNCHANGED <<reqs, entriesCache, journal>>

\* updateAccountDebitBalanceAndTimestamp answered: now the credit
CreditDirect(c) ==
  LET l == CurrentLeg(c) IN
  /\ pc[c] = "debit"
  /\ db' = DebitUpdate(c)
  /\ IF CanCredit(bal, l)
     THEN /\ bal' = Credit(bal, l)
          /\ snap' = [snap EXCEPT ![c] = bal']
          /\ pc' = [pc EXCEPT ![c] = "credit"]
          /\ UNCHANGED <<resp, leg, sent>>
     ELSE UNCHANGED bal /\ Reject(c)
  /\ UNCHANGED <<reqs, entriesCache, journal>>

\* updateAccountCreditBalanceAndTimestamp answered: the entry is complete
CompleteDirect(c) ==
  /\ pc[c] = "credit"
  /\ db' = CreditUpdate(c)
  /\ Answer(c, TRUE, bal)
  /\ UNCHANGED <<reqs, bal, entriesCache, journal>>

-----------------------------------------------------------------------------
(* _flush *)

\* storeNewJournalEntries answered: the whole cache is cleared and every
\* cached account is handed to updateAccounts.
FlushEntries(c) ==
  /\ pc[c] = "flushEntries"
  /\ journal' = journal \o sent[c]
  /\ entriesCache' = <<>>
  /\ snap' = [snap EXCEPT ![c] = bal]
  /\ pc' = [pc EXCEPT ![c] = "flushAccounts"]
  /\ sent' = [sent EXCEPT ![c] = <<>>]
  /\ UNCHANGED <<reqs, resp, leg, bal, db>>

\* updateAccounts answered: the responses are returned
FlushAccounts(c) ==
  /\ pc[c] = "flushAccounts"
  /\ db' = snap[c]
  /\ pc' = [pc EXCEPT ![c] = "done"]
  /\ UNCHANGED <<reqs, resp, leg, sent, snap, bal, entriesCache, journal>>

\* The update of one balance finds it already stored, by the flush of a batch
\* meanwhile: it modifies nothing, and the repository rejects it for that unless
\* the timestamp (not modelled) differs.
Unmodified(c) ==
  \/ pc[c] = "debit" /\ DebitUpdate(c) = db
  \/ pc[c] = "credit" /\ CreditUpdate(c) = db

\* A repository call rejects, having made all, a part or none of its write:
\* an ordered insertMany stops at a prefix, a bulkWrite after any of its
\* replacements (updateAccounts throws also when one of them changed nothing).
\* Nothing done in memory is taken back.
RepoFails(c) ==
  /\ RepoMayFail \/ Unmodified(c)
  /\ \/ /\ pc[c] = "store" /\ ~InBatch(Current(c))
        /\ journal' \in {journal, Append(journal, CurrentId(c))}
        /\ UNCHANGED db
     \/ /\ pc[c] = "debit"
        /\ db' \in {db, DebitUpdate(c)}
        /\ UNCHANGED journal
     \/ /\ pc[c] = "credit"
        /\ db' \in {db, CreditUpdate(c)}
        /\ UNCHANGED journal
     \/ /\ pc[c] = "flushEntries"
        /\ \E n \in 0..Len(sent[c]) : journal' = journal \o SubSeq(sent[c], 1, n)
        /\ UNCHANGED db
     \/ /\ pc[c] = "flushAccounts"
        /\ \E written \in SUBSET Accounts :
             db' = [a \in Accounts |-> IF a \in written THEN snap[c][a] ELSE db[a]]
        /\ UNCHANGED journal
  /\ Reject(c)
  /\ UNCHANGED <<reqs, bal, entriesCache>>

\* What the event loop does for a call that is not waiting to arrive
Resume(c) ==
  \/ CheckLiquid(c) \/ CreateEntry(c) \/ PostInBatch(c)
  \/ DebitDirect(c) \/ CreditDirect(c) \/ CompleteDirect(c)
  \/ FlushEntries(c) \/ FlushAccounts(c) \/ RepoFails(c)

Next == \E c \in Calls : Start(c) \/ Resume(c)

Spec == Init /\ [][Next]_vars

SerialNext == \E c \in Calls : StartSerial(c) \/ Resume(c)

SerialSpec == Init /\ [][SerialNext]_vars
-----------------------------------------------------------------------------
(* Properties *)

\* Types.  Balances stay natural numbers whatever the interleaving: an entry
\* that would take a debit or credit balance below zero is refused in the same
\* step that would have made it.
TypeOK ==
  /\ pc \in [Calls -> {"idle"} \cup Active \cup Ended]
  /\ reqs \in [Calls -> Seq(HighLevel) \cup Seq(LowLevel)]
  /\ resp \in [Calls -> Seq(BOOLEAN)]
  /\ leg \in [Calls -> {1, 2}]
  /\ sent \in [Calls -> Seq(EntryIds)]
  /\ snap \in [Calls -> [Accounts -> Balance]]
  /\ bal \in [Accounts -> Balance]
  /\ db \in [Accounts -> Balance]
  /\ entriesCache \in Seq(EntryIds)
  /\ journal \in Seq(EntryIds)

Quiet == \A c \in Calls : pc[c] \notin Active

\* No payer ever owes and promises, net of what it was paid, more than its
\* liquidity account holds beyond its net debit cap: the liquidity check and
\* the reservation it allows act as one step (grpc-svc/README.md:8-9).
LiquidityCovered ==
  \A p \in Payers : {p, LiquidityOf[p]} \subseteq Accounts =>
                      Exposure(bal, p) <= Cover(bal, p)

\* What LiquidityCovered rests on besides the code: liquidity accounts are not
\* position accounts, low-level entries take nothing from either, and the
\* accounts were covered when they were loaded.
FundingOnly ==
  LET kept == Payers \cup {LiquidityOf[p] : p \in Payers} IN
  /\ \A p, q \in Payers : LiquidityOf[p] # q
  /\ \A n \in Postings : /\ Posting[n].dr \notin kept
                         /\ Posting[n].cr \in kept => Posting[n].amount >= 0

InitiallyCovered ==
  \A p \in Payers : {p, LiquidityOf[p]} \subseteq Accounts =>
                      Exposure(InitBalance, p) <= Cover(InitBalance, p)

\* The pending credit of a hub account is the tally of what is in flight: the
\* sum of the reservations of the payers it serves (grpc-svc/README.md:11).
Hubs == {Transfer[t].hub : t \in Transfers}

Served(h) == {p \in Payers \cap Accounts : CurrencyOf[p] = CurrencyOf[h]}

Tallied(b) ==
  \A h \in Hubs \cap Accounts :
    b[h].pendCr = SumFunction([p \in Served(h) |-> b[p].pendDr])

HubTally == Tallied(bal)

\* What HubTally rests on besides the code: a currency has one hub account, the
\* hub's, and low-level entries leave what is reserved alone.
OneHub ==
  /\ \A h, k \in Hubs \cap Accounts : CurrencyOf[h] = CurrencyOf[k] => h = k
  /\ \A n \in Postings : Posting[n].pending => /\ Posting[n].dr \notin Payers
                                              /\ Posting[n].cr \notin Hubs

\* What the pending debits of the payers rest on besides the code: nothing was
\* reserved when the accounts were loaded.
NoneReserved == \A p \in Payers \cap Accounts : InitBalance[p].pendDr = 0

\* The entries <<c, i, k>> the calls ask for: the k-th of the i-th request of c
RequestIds == UNION {{<<c, i>> : i \in DOMAIN reqs[c]} : c \in Calls}

LegIds(r) == {<<r[1], r[2], k>> : k \in DOMAIN Legs(reqs[r[1]][r[2]])}

EntriesAsked == UNION {LegIds(r) : r \in RequestIds}

Accepted(c, i) == i \in DOMAIN resp[c] /\ resp[c][i]

\* Those whose debit (credit) is in the balances if answers are the truth: all
\* the legs of a request answered with success, the legs done of the request
\* under way, and the half-posted leg of a low-level call.
Posted(half) ==
  {e \in EntriesAsked :
     \/ Accepted(e[1], e[2])
     \/ e[2] = Len(resp[e[1]]) + 1 /\ e[3] < leg[e[1]]
     \/ e[2] = Len(resp[e[1]]) + 1 /\ e[3] = leg[e[1]] /\ pc[e[1]] \in half}

\* What a half-done commit leaves behind.  README.md:28 of grpc-svc asks for all
\* or nothing; the code has made its first entry, the cancellation, when it
\* finds that the payee cannot be credited (it is the payer, unknown, or has
\* another currency), and answers false without taking that entry back.
Payable(tr) ==
  /\ tr.payee # tr.payer
  /\ tr.payee \in Accounts
  /\ CurrencyOf[tr.payee] = tr.currency

LeftBehind ==
  {e \in EntriesAsked :
     /\ e[2] \in DOMAIN resp[e[1]] /\ ~resp[e[1]][e[2]]
     /\ reqs[e[1]][e[2]].type = "commit" /\ e[3] = 1
     /\ ~Payable(Transfer[reqs[e[1]][e[2]].t])}

LegOf(e) == Legs(reqs[e[1]][e[2]])[e[3]]

SumOf(E) == SumFunction([e \in E |-> LegOf(e).amount])

ExplainedAt(b, debits, credits, a, pending) ==
  LET on == [pending |-> pending]
      drs == {e \in debits : LegOf(e).dr = a /\ LegOf(e).pending = pending}
      crs == {e \in credits : LegOf(e).cr = a /\ LegOf(e).pending = pending}
  IN /\ b[a][DebitField(on)] = InitBalance[a][DebitField(on)] + SumOf(drs)
     /\ b[a][CreditField(on)] = InitBalance[a][CreditField(on)] + SumOf(crs)

\* The balances a half-done commit has changed: pending ones of its payer and hub
HalfDone(a, pending) ==
  \E e \in LeftBehind :
    LegOf(e).pending = pending /\ a \in {LegOf(e).dr, LegOf(e).cr}

Failed == {c \in Calls : pc[c] = "failed"}

\* Every balance in memory but those a half-done commit has changed is its
\* initial value plus the entries of exactly the requests answered with
\* success, at every await and for any interleaving: no update is lost, made
\* twice, or made for a request that was answered with a failure.  It holds of
\* batches whose flush failed as well; a low-level call that failed may have
\* left its debit.  That commits are not all or nothing (grpc-svc/README.md:28)
\* is not excused here but refuted: CommitAllOrNothing.
AnswersTellBalances ==
  (\A c \in Failed : InBatch(reqs[c][1])) =>
    \A a \in Accounts, pending \in BOOLEAN :
      ~HalfDone(a, pending) =>
        ExplainedAt(bal, Posted({"debit", "credit"}), Posted({"credit"}), a, pending)

AcceptedIds == {e \in EntriesAsked : Accepted(e[1], e[2])}

\* When no call is running and none has failed the journal holds the entries of
\* the requests answered with success and the first entry of each half-done
\* commit, each exactly once, and no other entry.
JournalExact ==
  Quiet /\ Failed = {} =>
    /\ {journal[n] : n \in DOMAIN journal} = AcceptedIds \cup LeftBehind
    /\ Len(journal) = Cardinality(AcceptedIds \cup LeftBehind)

\* What was reserved for a payer and, as its client was told, is not settled
ReservedFor(p) ==
  {t \in Transfers : /\ Transfer[t].payer = p
                     /\ Acknowledged("reserve", t)
                     /\ ~Acknowledged("commit", t)
                     /\ ~Acknowledged("cancel", t)}

ReservedHeld(p) ==
  bal[p].pendDr = SumFunction([t \in ReservedFor(p) |-> Transfer[t].amount])

\* When no call runs and none has failed, the pending debit of a payer is what
\* the answers say is reserved for it and not settled, however reservations,
\* commits, cancellations and refusals were interleaved.  It does not speak of a
\* payer one of whose commits is half done: CommitAllOrNothing does.
PendingIsReserved ==
  Quiet /\ Failed = {} =>
    \A p \in Payers \cap Accounts : ~HalfDone(p, TRUE) => ReservedHeld(p)

\* cancelReservationAndCommit is all or nothing (grpc-svc/README.md:28): a commit
\* that is answered with a failure leaves the reservation in place.  The code
\* does not: it has cancelled the reservation when the movement is refused.
CommitAllOrNothing ==
  Quiet /\ Failed = {} => \A p \in Payers \cap Accounts : ReservedHeld(p)

\* An entry of a request the client was told succeeded is in the journal, even
\* after flushes of other batches failed.
AcknowledgedJournaled ==
  \A c \in Calls : pc[c] = "done" =>
    \A e \in AcceptedIds : e[1] = c => \E n \in DOMAIN journal : journal[n] = e

\* A batch is answered only when nothing of any batch is left to flush, also
\* after earlier flushes failed half way: the collection equals the memory. An
\* account that low-level entries name may differ while one of them is written.
AnsweredMeansStored ==
  [][\A c \in Calls : pc[c] = "flushAccounts" /\ pc'[c] = "done" =>
       /\ entriesCache' = <<>>
       /\ \A a \in Accounts : (\A q \in Postings : a \notin {Posting[q].dr, Posting[q].cr})
            => db'[a] = bal'[a]]_vars

=============================================================================
