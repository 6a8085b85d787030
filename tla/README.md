# Verification of accounts-and-balances-bc

TLA+ models of the Accounts and Balances bounded context, the TLC runs that check
them, and TLAPS proofs of their main theorems. Everything in this directory is
translated from the TypeScript under `packages/` (named `src/packages/` in
`PROJECT.json`, whose `map` gives the lines behind every definition).

## 1. The system

Two gRPC services stand between the other bounded contexts (transfers,
settlements, participants) and the money.

| component | state | operations | works with |
|---|---|---|---|
| Chart-of-accounts handlers, `grpc-svc/.../grpc_handlers.ts` | `_queue`, `_processing`, `_lastProcessedTimestamp` | `ProcessHighLevelBatch` (queued), a timer that runs `_processQueue`, eight low-level methods that are not queued | chart-of-accounts aggregate |
| Chart-of-accounts aggregate, `grpc-svc/src/domain/aggregate.ts` | none but the currencies | maps account ids and forwards batches; creates, deletes, (de)activates accounts; forwards entries | CoA repository, ledger adapter |
| CoA repository, `chart_of_accounts_mongo_repo.ts` | Mongo collection, Redis cache | `storeAccounts`, `getAccounts`, `accountsExistByInternalIds`, ... | MongoDB, Redis |
| Ledger adapters, `builtin_ledger_adapter.ts`, `tiger_beetle_ledger_adapter.ts` | none | translate ids and amounts, forward | builtin ledger, TigerBeetle |
| Builtin-ledger handlers, `builtin-ledger-grpc-svc/.../grpc_handlers.ts` | none | validate and run each call at once, unserialised | ledger aggregate |
| Builtin-ledger aggregate, `builtin-ledger-grpc-svc/src/domain/aggregate.ts` | `_accountCache`, `_entriesCache` | `processHighLevelBatch` (reserve, commit, cancel), `createJournalEntries`, `createAccounts`, account states, `_flush` | ledger repositories |
| Ledger repositories, `builtin_ledger_*_mongo_repo.ts` | accounts and journal collections, Redis cache | insert, bulk replace, single-field updates | MongoDB, Redis |
| Converters, both `domain/converters.ts` | none | decimal string <-> bigint | both aggregates |
| Client libraries, `*-client-lib/src/grpc_client.ts` | a connection, a token | marshal requests; fetch the token before each | the services |
| Service bootstraps, `*/application/service.ts` | the dependencies made so far, a startup timer | `start`, `stop`, the signal handler and its timer | everything above |

A transfer is three high-level requests: *checkLiquidAndReserve* when it is
prepared, then *cancelReservationAndCommit* or *cancelReservation*. A request
becomes one or two journal entries; an entry adds its (possibly negative) amount
to a pending or posted debit balance of one account and to the credit balance of
another.

What is hard: everything is one JavaScript thread per service, but each call is
suspended at every await and the ledger runs all calls it receives side by side
over shared caches. A batch's balances exist only in memory until `_flush`, which
writes two collections one after the other without a transaction. Errors in the
middle are answered, never undone. What protects the balances is one boolean,
`_processing`, in the other service. Amounts travel as decimal strings, are
multiplied as floating-point numbers and added as bigints, with decimals that both
services reload while calls run. And `stop()` runs beside `start()` and beside the
calls whose dependencies it takes down.

What makes each part correct:

- *Ledger balances*: no payer reserves more than its liquidity; no balance is
  negative; balances are exactly the entries of the requests answered with
  success; a commit is all or nothing; the hub's pending credit is the tally of what is
  in flight.
- *Ledger stores*: what was acknowledged is in the journal; what is
  stored of a balance is explained by the journal, whatever fails or restarts.
- *Queue*: no waiting call is forgotten, none is sent twice, every answer is the
  asker's own, every call ends.
- *Both services*: the queue keeps the ledger serial; what callers are told is true.
- *Chart of accounts*: answered accounts are the caller's own and are found; no
  ledger account is opened for a creation whose record is not in the chart; a creation that is refused for
  one id does not disturb those of others.
- *Low-level calls*: journal, balances and answers agree to the last decimal.
- *Bootstraps*: a service told to stop ends and takes nothing from a running call;
  after any trouble both serve again.

## 2. The modules

| module | models | state and its counterpart in the code |
|---|---|---|
| `BuiltinLedger` | `processHighLevelBatch`, `createJournalEntries`, `_flush` of the ledger aggregate, with the repository calls they await | `bal`: account objects of `_accountCache`; `entriesCache`; `db`, `journal`: the two collections; per call `pc` (the await), `reqs`, `resp`, `leg`, `sent`, `snap` (locals) |
| `HighLevelQueue` | the queue of the chart-of-accounts handlers and the aggregate's `processHighLevelBatch` | `queue`, `phase` (`_processing` and the await), `batch` (`queueCopy`), `line` (the requests mapped so far); per call `status`, `asked`, `answer` |
| `AccountsAndBalances` | both services: the queue's calls are the ledger's batches | both modules' state and `carrying`, the gRPC call being awaited |
| `BatchServer` | the abstract queue: what callers are promised | `waiting`, `serving`, `outcome`; no code of its own, `HighLevelQueue` implements it |
| `LedgerAccounts` | an account through `_accountCache`, Redis and MongoDB: loading, creating, posting, storing, failing, restarting | `objects`, `accountCache` (objects by reference), `entriesCache`, `redis`, `db`, `journal`; per call `pc`, `at`, `held` (objects found), `keys`, `docs`, `snap` (locals) |
| `ChartOfAccounts` | the chart's accounts in Redis, MongoDB and the ledger: creation, queries, state changes, with either ledger | `cached`, `stored`, `ledger`; per call `pc`, `todo`, `given`, `seen` (locals), `answer` |
| `Amounts` | both `domain/converters.ts`, on decimal strings and binary floating-point numbers | operators only |
| `LowLevelCalls` | `createJournalEntries`, `getAccountsByIds`, `getAccountsByOwnerId`, `getJournalEntriesByAccountId` from the client through both services and back, and the reload of currencies | `journal`, `balance` (the ledger's account), `config` (`_currencies` of either service); per call `ask`, `place`, `next`, `record`, `found` (locals), `told` (the answer), and `read`, a history variable |
| `ServiceLifecycle` | `start()` and `stop()` of both services, signals, both timers, crashes and restarts | `run`, `at` (the await of `start()`), `stopping` (those of `stop()`, from the signal handler and from a caught rejection), `hung`, `signalled`, `open` (gRPC server), `running` (calls), `closed`, `index` (the accounts collection), and `cut`, a history variable |
| `Selections` | the part of a sequence at given places, for the queue's answers (`filter`) | operators only |
| `MC...` | instances of the module they are named after | |
| `...Proofs` | theorems and proofs about `BuiltinLedger` (two modules: calls and liquidity; balances and journal), `HighLevelQueue`, `AccountsAndBalances`, `LedgerAccounts`, `ChartOfAccounts`, `LowLevelCalls`, `ServiceLifecycle` | |

An action is what a call does from one await to the next: JavaScript does not
interrupt it there, and every await is a place where any other call may run. The
`pc` values name the awaits. `BuiltinLedger.SerialSpec` is the abstract ledger,
which runs one batch at a time; `LedgerServedSerially` states that the composition
of queue and ledger implements it, although the ledger by itself (`Spec`) runs
whatever it receives. `ServesBatches` states that the queue implements
`BatchServer`.

Abstractions, and why they are sound for the properties:

- In `BuiltinLedger` amounts are small integers. Those of transfers are positive, which
  the transfers service guarantees; low-level amounts may be negative.
- `BuiltinLedger` starts with every account in `_accountCache` (`ghost` ids are
  unknown everywhere); `LedgerAccounts` drops that and abstracts amounts instead:
  a balance is the set of entries it counts, and whether a check passes or a
  balance refuses an entry is left open.
- `LowLevelCalls` has no error for a stored entry that cannot be read:
  `AmountsServed` says that there is none. The string was written from the bigint of an
  entry that was accepted, so no number is nearer to it, and if any converts to it that
  one does.
- A call to MongoDB or Redis is one await. A rejected write may have taken effect
  in any part (`LedgerAccounts`), or before or after its effect (`BuiltinLedger`).
  "Any part" is more than ordered bulk writes do, which stop at the first failure.
- Several reads of Redis in a row by one call are one step.
- `LedgerAccounts` takes batches one at a time, as the queue sends them.
- In `LedgerAccounts` a ledger account whose requested id is taken, and which
  therefore gets a new one, is left out: it has nothing to do with the others.
- A replaced document counts as modified even if it is equal (`replaceOne` writes a
  new document); an account without a document does not, which is an error. The update
  of one balance that is stored already modifies nothing, or only the timestamp, which
  is not modelled: it may be an error in either case (`Unmodified`).
- Requests that fail validation in the ledger's own handlers, and parameters that
  `createAccounts` refuses before it does anything, are not inputs.
- In the composition calls carry at least one request (`<<>> \notin Arrays`); the
  queue alone is also checked with empty arrays.
- In `ChartOfAccounts` an owner stands for the record's owner, type and currency.
  A `set` of Redis that nobody awaits takes effect at once; its failure ends the
  service (`Restart`), its loss is an `Evict`.
- `Amounts` takes the number format as constants. JavaScript has 53 bits and the code
  keeps 8 decimals; TLC, whose integers have 32 bits, runs 11 bits and 1 decimal
  through the same steps. `Small` and `Roomy` say of which amounts the conversions lose
  nothing: as far as the two roundings of half a unit in the last place cannot move the
  last kept decimal by half, that is below 2^51 / 10^8 units in the code (some 225
  thousand with two decimals) and below 51.2 in the runs, and for strings of no more
  places than `toFixed` keeps (finer ones are silently rounded). `MaxExponent` bounds the
  exponents that are searched for those of a number; it is large enough for all such
  amounts (`Roomy`). Exponents of strings ("1e-7") are not inputs.
- In `LowLevelCalls` accounts exist and stay in memory (`LedgerAccounts` is about the
  stores), entries are posted, not pending, and a call has at least one. What a query of
  the journal answers is keyed by the places of the entries in the journal, which is
  the order they are sent in. A retry is another call with the same
  entries, and posts them twice: the code recognises none. The loss of an answer on
  either of the two links is one action. Account and currency may have different
  decimals, which the code marks as a TODO; `BalanceTold` says nothing of an account
  after such an entry.
- In `ServiceLifecycle` a process handles one signal (a second one starts another
  `stop()`, which ends no later than the first), dependencies are named and do nothing
  but hang or fail, and a call of a service is counted, not followed.

## 3. The runs

| run | question | bounds |
|---|---|---|
| `ledger_serial` | Is no balance negative, liquidity covered, is the hub the tally, are journal, stored accounts and all balances that no half-done commit has changed what the answers say, if batches come one at a time beside unqueued funding? | three calls, batches of one or two requests that compete for one payer's liquidity, disciplined clients; every repository call may reject before or after it wrote |
| `queue_answers` | Are calls neither forgotten, repeated nor given others' answers? Is the queue a batch server? | three calls, arrays that share ids, name unknown accounts, are invalid or empty; failures and stops |
| `service_serial` | Does the queue keep the ledger serial, is liquidity covered, are balances what the answers say, and is what callers hear true? | two callers, three ledger calls, one of them unqueued and suspended between its debit and its credit; clients that settle what they never reserved |
| `service_live` | Does every call of a client end? What survives if batches overlap? | two callers whose commits come with or without a reservation; stops, broken connections, failing repositories |
| `store_recovery` | Is every stored balance explained by the journal, up to what low-level entries store of unanswered batches, and no answered entry lost, after any failure or restart? | two batches and a client that creates an account and credits a balance the batches credit too, one rejection or restart at any await, any part of the write done |
| `chart_create` | Are answered accounts the caller's own in chart and ledger, found, and disturbed only by calls that name them; is no account that a creation opened in either ledger without its record? | two creations that share an id, two queries, a deletion, another client of the ledger, both ledgers; one rejection, restart or eviction |
| `entry_calls` | Do journal, balances and answers agree to the last decimal? | a payment of two entries, the second with more decimals than a currency may be left with; beside it a way back with a negative entry, or a call with a faulty entry, or a query of two accounts or of a journal; a third client that asks; one trouble: a reload of currencies, a lost answer, a refused token, a rejected write |
| `lifecycle` | Does a service that is told to stop end, without harm to a running call, and do both serve in the end? | two troubles (hang, rejection, signal, crash) at any await, one call at a time per service |
| `find_half_commit` | Is a commit all or nothing? No. | three calls, batches one at a time, disciplined clients, no failing repository; a transfer whose payee is unknown |
| `find_link_break` | Is liquidity covered if the connection drops? No. | two callers, three ledger calls |
| `find_split_load` | Is what an answered batch posted stored? No. | an account in Redis that is loaded with one that is not |
| `find_unreadable_amount` | Is every amount that fits its currency's decimals accepted? No. | 1.02, 102 units of a currency of two decimals, in the small number format (exact below 51.2 units); the same calls as above |

Two or three calls suffice for the interleavings that matter here: a call that
holds something across an await, one that changes it meanwhile, and one that reads
the result. Two transfers that fit the payer's liquidity one at a time but not
together are what a liquidity race needs; batches of two requests reach every
position in a batch (first, last, after a refusal). One fault at any place covers
each single failure and the recovery from it; `MaxFaults` is a constant.
Calls are symmetric where the configuration says so, except in the liveness run.
Two troubles in `lifecycle` let one happen during the recovery from another (a hang
in the `stop()` that a signal or a rejection started). `CHECK_DEADLOCK FALSE` is there
because the calls are finitely many: the system stops when all are answered.
`lifecycle`, whose services never are done, is checked for deadlock.

The findings, in short:

1. `find_link_break`: `_processQueue` takes a connection error for the end of the
   batch and sends the next one while the ledger still runs the first.
2. `find_split_load`: `getAccountsByIds` of the ledger repository asks MongoDB for
   all ids, not for those that Redis lacks, so one account becomes two objects; the
   one that is posted to is not the one that is stored.
3. `find_unreadable_amount`: `stringToBigint` multiplies floating-point numbers and
   repairs the product with `toFixed(8)`, which fails from some size on:
   1048576.09 * 100 is 104857609.00000001, and the amount is refused as one with more
   than two decimals. A balance of that size cannot be read either.
4. `find_half_commit`: `cancelReservationAndCommit` posts the cancellation and then the
   movement; when the second is refused, for a payee that cannot be credited, the first
   stays and the reservation is gone, although the request is answered with a failure
   and `grpc-svc/README.md:28` says "all or nothing". With clients that settle once, what
   such a commit leaves is exactly its cancellation (`HalfDoneIsCancelled`), and no other
   commit leaves any (`PayableAllOrNothing`). `AnswersTellBalances` and
   `PendingIsReserved` say nothing of the pending balances it has changed, `JournalExact`
   counts its entry.

Seen while modelling and part of the models, without a run of their own:

- An entry refused for its balance stays in the journal (the code's comment knows it).
- A batch whose flush fails is reported as failed and is stored by the next flush.
- The check for existing ids compares counts, and keys are set in Redis before the
  insert is refused: a refused creation overwrites what queries read of an existing
  account until its key goes (`AckedUndisturbed` says how far this reaches).
- Every change of an account's state is refused (the built-in ledger writes a field
  that its schema excludes, and the chart inserts records that exist).
- `createAccounts` without any requested id is always refused as existing.
- After a failure between chart and ledger an account has a record and no ledger
  account, and cannot be created again.
- A service that ends between creating its collection and the unique index never
  makes the index (`UniqueUnlessCut`).
- A low-level entry stores the whole balance of the account it posts to, with the
  entries of a batch that is not flushed yet (`BalancesJournaled` bounds it).
- An entry of several in one low-level call may fail after others were posted, and the
  error does not say which.

## 4. Fairness

Safety holds without fairness. `service_live` uses `FairSystemSpec`: weak fairness
of each call's authentication, of the timer (which runs `_processQueue` every few
milliseconds, and the container runtime's restart), of the mapping of requests,
of sending, of every suspended ledger call (the drivers' promises settle:
connections and server selection have timeouts) and of the ledger's answer reaching
the queue. Nothing is assumed of clients, stops, failures and broken connections. Fairness is per
call, since node resumes every settled promise.

`lifecycle` uses `FairLifeSpec`: a step of `start()` or `stop()` whose promise does not
hang is taken, `waitForReady` gives up at its deadline, the startup timer and the
signal handler's timer fire, and the container runtime starts what ended. Nothing is
assumed of calls, which may run for ever; a trouble is never forced.

## 5. The proofs

| theorem | says | hypotheses |
|---|---|---|
| `TypeCorrect` | no balance is ever negative, types hold | none: any workload, overlap and failures |
| `AcknowledgedStaysJournaled` | what was answered with success is in the journal | batches one at a time (`SerialSpec`) |
| `AnsweredIsStored` | a batch is answered only when the collection has the balances of memory | `SerialSpec`; accounts that low-level entries name are left out |
| `LiquidityAlwaysCovered` | no payer exceeds liquidity less cap | `SerialSpec`, `FundingOnly`, `InitiallyCovered` |
| `HubTallies` | the hub's pending credit is the tally of its payers' pending debits | `OneHub`, `Tallied(InitBalance)`, `Accounts` finite; any workload and overlap |
| `BalancesAreExplained` | balances are the entries of the requests answered with success, and some cancellations of half-done commits | those of `HubTallies` |
| `AnswersTell` | balances that no half-done commit has changed are the former alone | those of `HubTallies` |
| `HalfDoneIsCancelled` | balances are the former and exactly the cancellations of half-done commits | those of `HubTallies`, `Disciplined`, `NoneReserved` |
| `PendingReserved` | what is pending for a payer without a half-done commit is what is reserved for it | those of `HalfDoneIsCancelled` |
| `PayableAllOrNothing` | commits are all or nothing | those of `HalfDoneIsCancelled`, and every transfer is `Payable` |
| `JournalIsExact` | at rest the journal has the entries answered with success and those of half-done commits, each once | those of `HalfDoneIsCancelled`, `SerialSpec` |
| `QueueTypeCorrect`, `QueueAlwaysHoldsWaiting` | the queue holds exactly the waiting calls | none |
| `RequestsTakenOnce` | no request is sent to the ledger twice | none |
| `ExactlyAnswered` | a call with ids of its own hears what the ledger said of each of its requests, in order | none |
| `OwnAnswered` | no call hears of an id it did not ask for | none |
| `QueueServesBatches` | the queue implements `BatchServer` | none |
| `ServedSerially` | queue and ledger implement the serial ledger | `~LinkMayBreak`, `~MayExit`, `AnyBatch` |
| `LedgerServed` | queue and ledger implement the ledger whose batches may overlap | `AnyBatch` |
| `LiquidityEndToEnd`, `AnswersLastEndToEnd`, `JournalEndToEnd` | liquidity, the two theorems about answers and the exact journal, in the composed system | those of `ServedSerially` and of what they carry over |
| `TallyEndToEnd`, `AnswersTellEndToEnd`, `ReservationsEndToEnd`, `CommitsEndToEnd` | tally, balances, reservations and commits, in the composed system | `AnyBatch` and those of what they carry over: the connection may break |
| `SuccessAlwaysJournaled` | what a caller hears succeeded was run by the ledger and is in its journal | those of `ServedSerially` |
| `StoreTypeCorrect` | objects, keys and documents are of the accounts they are held for | none |
| `BalancesStayJournaled` | a stored balance counts an entry that the journal lacks only of an unanswered batch, and only if a low-level entry posts to it | none |
| `AnsweredStaysJournaled` | answered entries are in the journal, after any failure or restart | none |
| `ChartTypeCorrect` | records are of the account they are found by | none |
| `LedgerAlwaysCharted` | an account that a creation opened in either ledger has its record in the chart | none |
| `AnsweredAccountsOwned` | answered accounts are the caller's own in chart and ledger | none |
| `AnsweredAccountsFound` | a query after the answer finds them | none |
| `AnsweredAccountsUndisturbed` | only calls that name them put other records in their place | none |
| `AmountRead` | `stringToBigint` takes the amounts that fit their decimals, and no others, and gives their units | `Small`, `Roomy`: an amount the number format has room for |
| `AmountKept` | what is stored of an amount, and what is told of what was stored, is the amount | those of `AmountRead` |
| `BalanceSubtracted` | what the chart makes of the two strings of a balance is their difference, in any decimals | those of `AmountRead`, of both numbers in either's decimals |
| `CallsTypeCorrect` | no balance falls below zero, calls stay within their entries | `AmountsSmall` |
| `EntriesPosted` | journal, balances and answers of low-level entries agree | `AmountsSmall` |
| `JournalAnswered` | a query tells the journal in the amounts that were asked for | `AmountsSmall` |
| `BalancesInvariant` | a balance is what the records of the journal come to, and a query tells what the journal came to when it was read | `AmountsSmall`, always `BalancesSmall` |
| `BalanceAnswered` | the balance a client hears is what the entries of the account come to | those of `BalancesInvariant` |
| `AmountsAnswered` | an amount is refused for its decimals only if it has too many; what was stored can be read | those of `BalancesInvariant` |
| `LifeTypeCorrect` | `stop()` takes down only what is there | none |
| `CallsAlwaysKeepDependencies` | and nothing a running call needs | none |
| `AlwaysUniqueUnlessCut` | a serving service has its unique index, unless an end cut it off | none |

"None" means: beyond the modules' own assumptions on constants, and in
`LedgerAccounts` one batch at a time, which is part of `Begin` there. What is proved of
amounts also takes `PowersLaw` (b^0 = 1 and b^(i + 1) = b * b^i, for 2 and 10), which the
definition of `^` says and the provers do not know. The other hypotheses
are about what is outside the two services:

- `FundingOnly`, `OneHub`: low-level entries only fund, and leave reservations alone; a
  currency has one hub account. `InitiallyCovered`, `Tallied(InitBalance)`,
  `NoneReserved`: the accounts were loaded in such a state.
- `Disciplined`: a transfer is reserved once, and settled once, after its reservation was
  acknowledged. `Payable`: a payee has an account of the currency and is not the payer;
  `find_half_commit` shows what happens otherwise.
- `AnyBatch`: the ledger is prepared for every batch of requests, as the theorems about
  it allow. `~LinkMayBreak`, `~MayExit`: the connection between the services holds and the
  queue's process goes on; `find_link_break` shows what happens otherwise.
- `AmountsSmall`: the amounts that are asked for, in the decimals their currency may have,
  are as `Small` and `Roomy` say (section 2). `find_unreadable_amount` shows what happens to
  an amount beyond them.
- `BalancesSmall`: so are the balances, in the decimals of either service's account. Calls
  may be any number, so this is a hypothesis about the states of a behaviour and not about
  constants: the theorems speak of behaviours in which no balance outgrows the number format.
  Nothing in the code refuses such a balance; it can then no longer be told.

TLC evaluates those about the initial balances and the low-level entries on every run of
`MCBuiltinLedger` and `MCAccountsAndBalances`, and `AmountsSmall` on `entry_calls`, where
the amounts are so few that `BalancesSmall` holds in every state, too.

*Ledger.* `TypeOK` is not inductive: a suspended call must be known to have a
request under way whose accounts were validated (`CallOK`). `LiquidityCovered`
needs more: between the check and the debit of a reservation the payer's promise
must still fit. `LiquidityInv` says that there is at most one active batch
(`OneBatch`) and that, while it is between a passed check and the debit, the
exposure with the amount to come is covered (`PromiseKept`). Low-level entries keep
it because they only fund (`FundingOnly`), and nothing else runs (`SerialSpec`).

`KeptInv` says that until a batch is answered the entries of its successful requests
are in the journal or in `_entriesCache`. It needs `SerialSpec`: `_flush` clears the
whole cache after an await, with the entries an overlapping batch added meanwhile.
`StoredInv` says that while a flush writes the accounts `_entriesCache` is empty and the
values it writes are those of memory.

*Balances.* `Explained` says that each balance is its initial value plus a sum over a
finite set of entries. A sum over a set is a fold, whose value for every set would need
an induction; the library's rule for well-founded orders is applied instead to a
smallest counterexample among the subsets of one finite set (`Smallest`), which gives the
facts the proofs use: sums exist and are unique, and what one element more or less, or
one changed value, does to them. `HubTally` needs to know only that the entry a call
resumes with was validated (`TallyInv`): debit and credit of a reservation happen without
an await between them. `ToldInv` says what the balances are in the middle of calls: besides
the entries of the requests answered with success they hold those of the requests under
way that are posted, or half posted, and some cancellations that were left behind. Which
ones is settled by `OrderInv`, for disciplined clients: a transfer is reserved and settled
once, the settlement comes after the acknowledged reservation, and a payer's pending debit
is the sum of the transfers that were reserved and not undone (`Books`), so that no
cancellation is refused for its balance. For `JournalIsExact` the journal and
`_entriesCache` together hold each entry exactly once (`Exactly`).

*Queue.* `QueueHoldsWaiting` speaks of sets and counts; the invariant `Positions`
says it by positions: no repetition, queued exactly if in the queue, and the batch
is the queue's head, which is what `splice` removes. `TakenOnce` follows from
`SentInv`: what was sent is of calls that are over or of the batch at the ledger. The
refinement of `BatchServer` maps the calls in the queue but not in the batch to
`waiting` and the batch to `serving`; `Positions` shows that a new batch takes in all.

`ExactAnswers` compares an answer with the requests of its call, element by element, though
the answer is a filter of the responses to the whole batch. `LineInv` says that `line`
has the requests of each call of the batch in their order, as far as they are mapped;
the k-th of those places is then the k-th place of a response that the map of ids gives to
the call (`NthPlace`), if no other call has such an id.

*Composition.* `MappedInv` ties the mapped requests to received arrays, so what is
sent is a batch of high-level requests; `CarryInv` says that a batch is active in
the ledger only while the queue awaits it. Each step of the system is then a step
of `SerialSpec` or a stutter. If the connection may drop the hypothesis fails, and
`find_link_break` shows what happens; a restart of the chart-of-accounts service
with a batch in the ledger does the same. What is proved of `SerialSpec` then holds of
the system (`LiquidityEndToEnd`, `AnswersLastEndToEnd`, `JournalEndToEnd`).
`LedgerServed` needs none of that: whatever breaks, what reaches the ledger is a batch
of requests that were received, so what holds of overlapping batches holds of the system.

`SuccessJournaled` spans both services: `ReplyInv` says that the ledger runs the requests
the queue has mapped, and that what the queue was told of a request is what some call of
the ledger answered to it. It joins `AnswersInv` (which response is whose), `KeptInv`
(what succeeded is in the journal or cached until the flush) and `Complete` (a call of the
ledger answers all its requests before it flushes).

*Accounts.* `TypeInv` adds to the types where in its plan a call is and which
objects it may hold. `BalancesJournaled` is not inductive: values that are about to
be written sit in objects, locals and repository results. `CountInv` says for each
of them which entries it may count: what is stored, read or handed to `updateAccounts`
only journaled ones, because the entries were stored in the step before, and, if it is a
balance that low-level entries post to, those that a batch has not flushed, or will
never flush because it failed or was lost (`Known`); an object those in `_entriesCache`
as well (`InMemory`). Nothing in the code keeps batches and low-level entries apart, so
such entries may stay stored without being journaled; `store_recovery` has such a balance.

In `AnsweredStaysJournaled`, by `AckInv`, what a batch posted is in
the journal or in `_entriesCache` until it is answered, and low-level entries are
journaled before they enter any balance.

*Chart.* `ChartInv` says whose record an id has (`Charted`) and that a creation past
its insertion owns the ids it goes on with (`Owns`): the unique index refuses the
second insertion, so a check that two creations passed side by side does no harm.
A creation that reaches the ledger is `Charted`, so every account it opens there has its
record, and collection and ledger only grow (`StepGrows`).
The ledger draws new ids that nobody has, and its own clients are none of the calls: those
are the assumptions. `FindInv` follows
what a query has seen of Redis and what it has left to ask MongoDB for. `DisturbInv` says
that wherever the record of an id is not the one its creation built, in the collection or
in Redis, another call that names the id has meddled, from the moment the creation has
passed its check.

*Amounts.* A number n / q is turned into the nearest one of `Precision` bits, whose error is
at most half a unit of its last place (`FloatNear`); the exponent that `Float` chooses exists
and is the only one (`FitsOnce`, `FitsSome`). `stringToBigint` rounds twice before `toFixed`, so
its product is off by less than half of the last decimal that is kept if the amount is
`Small` (`TwoRoundings`, `ProductSmall`): `toFixed` then finds the exact product, and what is
left is a number of units or it is not (`AmountRead`). `bigintToString` divides and writes the
fewest digits that still name the quotient. Two amounts of so few digits that are
both nearest to one number are the same amount (`SameUnits`), and equal fractions are the
same number (`FloatSame`), so the digits that end the search say the amount (`WrittenIs`), and
they can be read again (`WrittenRead`).
Least elements of sets of exponents stand for the inductions (`Least`).

*Low-level calls.* `CallsInv` has a part for each record (`Good`: it is of an entry that
was asked for, between accounts that exist, and its string is the amount), for each call
that posts (`Ordered`, `Filled`, `Counted`, `Heard`: which records it has, which of them
both balances count, and what its client may have heard, by the place it is served at)
and for each reader (what the ledger found is what the client will hear). Only a
step of a call itself touches its own records (`OthersKept`), so that the interleaving
with other calls is proved once, for all of them.

`BalanceInv` adds the balances. The sum of a list is a recursive function, whose values come
from a smallest position at which two sums would differ from what they should (`SumsMore`):
a record that is added without a side adds nothing to any sum, and a side that a record gets
adds its units to the one balance that is raised by them in the same step (`Balanced`). What a
query found is therefore the two strings of what the journal came to when it was read
(`TotalsFound`), and what it tells their difference (`TotalsTold`), although the journal has
grown since and the currencies were reloaded. If the chart cannot read the strings, its
account has fewer decimals than the ledger's (`FewerDecimals`).

*Lifecycle.* `LifeInv` has three parts: what `stop()` has reached (`StopOK`), that the
gRPC server closes first and only when no call is left (`ServerOK`), and how far the
creation of the collection has come (`IndexOK`).

Model-checked only: liveness (`CallsEnd`, `SignalEnds`, `BothServe`), which is out of the
prover's reach.

## 6. Not modelled

- TigerBeetle's `createJournalEntries` (one external call per array, whole amounts only)
  and its methods marked TODO; its `processHighLevelBatch` returns no responses.
- The reconnection loop of the client libraries: a channel that reconnects is one that
  lost nothing, one that fails is a lost answer.
- Privileges, audit entries and logging: they change none of the state above.
- The Redis-only accounts repository, which the service does not instantiate.
- Generated protocol types, mocks, and the declarations of public types and errors.

## 7. Plan

Done: 1 `BuiltinLedger`; 2 `HighLevelQueue` and `BatchServer`; 3 `AccountsAndBalances`;
4 `LedgerAccounts`; 5 `ChartOfAccounts`; 6 `Amounts` and `LowLevelCalls`; 7
`ServiceLifecycle`; and theorems about each. Every safety property of the passing runs is a
theorem.

Left, in this order:

1. `LedgerAccounts` as an implementation of the part of `BuiltinLedger` that it shares:
   the collections after a flush.
2. `CallsEnd` for a queue whose requests may fail validation: each ends the process.
3. The hazards without a property: the order of a single-field update and the
   replacement of the same document by a flush
   (`builtin_ledger_accounts_mongo_repo.ts:272`), which the next flush repairs; a restart
   of the chart-of-accounts service while its batch runs (`grpc_handlers.ts:214`), which
   needs a bound on what two batches reserve together; state changes and creations that
   are always refused (`builtin_ledger_accounts_mongo_repo.ts:345`, `aggregate.ts:582`,
   `chart_of_accounts_mongo_repo.ts:176`), which can be checked when they succeed.
