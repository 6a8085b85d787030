----------------------------- MODULE LowLevelCalls -----------------------------
(***************************************************************************)
(* The low-level calls that move money and tell about it: createJournal-   *)
(* Entries, getAccountsByIds, getAccountsByOwnerId and getJournalEntries-  *)
(* ByAccountId.  A call goes from a client of the chart of accounts        *)
(* through its handlers and aggregate to the adapter, to the handlers and  *)
(* the aggregate of the built-in ledger, and back.  No queue serialises    *)
(* these calls, and nothing recognises one that is made again.             *)
(*                                                                         *)
(* Amounts are what this module is about: which decimals each conversion   *)
(* takes, while the currencies of either service are reloaded.  Accounts   *)
(* exist in both services and stay in _accountCache; LedgerAccounts is     *)
(* about the stores.  Entries are posted, not pending, and a call has at   *)
(* least one.                                                              *)
(***************************************************************************)
EXTENDS Amounts, Sequences, SequencesExt

CONSTANTS
  Calls,          \* calls of clients; a retry is another call with the same entries
  Requests,       \* call -> requests it may be
  Currencies,     \* currency codes
  NoId,           \* an id that is left out
  ChartDecimals,  \* account id -> currencyDecimals of the chart's account
  LedgerDecimals, \* account id -> currencyDecimals of the ledger's account
  CurrencyOf,     \* account id -> currencyCode
  Configs,        \* what the currencies may be configured to: code -> decimals
  MaxTroubles     \* bound: reloads, lost answers, refused tokens, failed writes

VARIABLES
  ask,       \* call -> request
  place,     \* where each call is served
  next,      \* the entry the ledger is at
  record,    \* its position in the journal
  found,     \* what the ledger answers
  told,      \* what the client is answered
  read,      \* (history) the journal when the ledger read it for the call
  journal,   \* the collection of journal entries
  balance,   \* account id -> the posted balances of the ledger's account
  config,    \* service -> _currencies
  troubles

callVars == <<place, next, record, found, told, read>>
ledgerVars == <<journal, balance>>
settings == <<ask, config>>
vars == <<callVars, ledgerVars, settings, troubles>>

-----------------------------------------------------------------------------
(* Data *)

Accounts == DOMAIN LedgerDecimals
Charted == DOMAIN ChartDecimals
Services == {"chart", "ledger"}

ASSUME CallsAssumption ==
  /\ MaxTroubles \in Nat
  /\ Charted \subseteq Accounts /\ CurrencyOf \in [Accounts -> Currencies]
  /\ ChartDecimals \in [Charted -> Nat] /\ LedgerDecimals \in [Accounts -> Nat]
  /\ Configs # {} /\ \A f \in Configs : DOMAIN f \subseteq Currencies /\ \A u \in DOMAIN f : f[u] \in Nat
  /\ \A c \in Calls : \A r \in Requests[c] :
       /\ r.kind \in {"entries", "accounts", "journal"}
       /\ r.kind = "entries" =>
            r.entries # <<>> /\ r.entries \in Seq({r.entries[i] : i \in DOMAIN r.entries})

Posters == {c \in Calls : ask[c].kind = "entries"}

\* Entry i of call c
Entry(by) == ask[by[1]].entries[by[2]]
Current(c) == Entry(<<c, next[c]>>)

\* What the proofs assume of the amounts that are asked for: the conversions are of
\* numbers that the number format has room for, in any decimals they may be made with
AmountsSmall ==
  /\ \A c \in Calls : \A r \in Requests[c] : r.kind = "entries" =>
       \A i \in DOMAIN r.entries : \A f \in Configs :
         LET q == r.entries[i]
         IN q.currency \in DOMAIN f =>
              Small(q.amount, f[q.currency]) /\ Roomy(f[q.currency])
  /\ \A a \in Charted : Roomy(LedgerDecimals[a]) /\ Roomy(ChartDecimals[a])

\* And of the balances that queries tell: they have not grown beyond such numbers
BalancesSmall ==
  \A a \in Charted : \A side \in {"dr", "cr"} : \A decimals \in {LedgerDecimals[a], ChartDecimals[a]} :
    Small([k |-> balance[a][side], e |-> LedgerDecimals[a]], decimals)

Untold == [code |-> "none", why |-> "", what |-> <<>>]
OK(what) == [code |-> "OK", why |-> "", what |-> what]

\* _handleAggregateError: the code tells a refused caller from everything else
Error(why) ==
  [code |-> IF why = "denied" THEN "DENIED" ELSE "UNKNOWN", why |-> why, what |-> <<>>]

Start(c, from, to) == place[c] = from /\ place' = [place EXCEPT ![c] = to]

\* The service is done with the call: the client hears, unless it gave up
Answer(c, answer) ==
  /\ place' = [place EXCEPT ![c] = "over"]
  /\ told' = [told EXCEPT ![c] = IF @ = Untold THEN answer ELSE @]

Trouble == troubles < MaxTroubles /\ troubles' = troubles + 1

-----------------------------------------------------------------------------
(* The client, and the links *)

Send(c) ==
  /\ Start(c, "idle", "chart")
  /\ UNCHANGED <<next, record, found, told, read, ledgerVars, settings, troubles>>

\* No token to be had: the call is not made
NoToken(c) ==
  /\ place[c] = "idle" /\ Trouble /\ Answer(c, Error("denied"))
  /\ UNCHANGED <<next, record, found, read, ledgerVars, settings>>

\* The client's link breaks, or the one between the services: either way the
\* client hears of an error, and whoever serves the call goes on
Lose(c) ==
  /\ place[c] \notin {"idle", "over"} /\ told[c] = Untold /\ Trouble
  /\ told' = [told EXCEPT ![c] = Error("link")]
  /\ UNCHANGED <<place, next, record, found, read, ledgerVars, settings>>

-----------------------------------------------------------------------------
(* The chart of accounts: handlers, aggregate, adapter *)

\* The token does not verify, or no role of the caller has the privilege
Denied(c) ==
  /\ place[c] = "chart" /\ Trouble /\ Answer(c, Error("denied"))
  /\ UNCHANGED <<next, record, found, read, ledgerVars, settings>>

Complete(entry) == entry.dr # NoId /\ entry.cr # NoId

\* The first entry the aggregate throws at, or 0
FirstRefused(c) ==
  SelectInSeq(ask[c].entries, LAMBDA q : q.currency \notin DOMAIN config["chart"] \/ ~Complete(q))

\* createJournalEntries: all entries are looked at before any is forwarded, with
\* the account ids as they are; the chart is not asked for the accounts
ForwardEntries(c) ==
  /\ c \in Posters /\ FirstRefused(c) = 0
  /\ Start(c, "chart", "ledger")
  /\ UNCHANGED <<next, record, found, told, read, ledgerVars, settings, troubles>>

RefuseEntries(c) ==
  /\ place[c] = "chart" /\ c \in Posters /\ FirstRefused(c) # 0
  /\ Answer(c, Error(IF ask[c].entries[FirstRefused(c)].currency \in DOMAIN config["chart"]
                     THEN "parameters" ELSE "currency"))
  /\ UNCHANGED <<next, record, found, read, ledgerVars, settings, troubles>>

\* The accounts of a query that the chart knows; an owner's are all charted
Known(c) == ask[c].ids \cap Charted

ForwardQuery(c) ==
  /\ c \notin Posters /\ Known(c) # {}
  /\ Start(c, "chart", "ledger")
  /\ UNCHANGED <<next, record, found, told, read, ledgerVars, settings, troubles>>

\* Without accounts there is nothing to ask the ledger
NothingToTell(c) ==
  /\ place[c] = "chart" /\ c \notin Posters /\ Known(c) = {}
  /\ Answer(c, OK(<<>>))
  /\ read' = [read EXCEPT ![c] = journal]
  /\ UNCHANGED <<next, record, found, ledgerVars, settings, troubles>>

\* (mutant) debit less credit
BalanceReversed(a, row) ==
  bigintToString(stringToBigint(row.dr, ChartDecimals[a]) - stringToBigint(row.cr, ChartDecimals[a]),
                 ChartDecimals[a])

\* _calculateBalanceString: the ledger's strings, read with the chart's decimals
Balance(a, row) ==
  bigintToString(stringToBigint(row.cr, ChartDecimals[a]) - stringToBigint(row.dr, ChartDecimals[a]),
                 ChartDecimals[a])

Readable(a, row) == Converts(row.dr, ChartDecimals[a]) /\ Converts(row.cr, ChartDecimals[a])

\* Errors of the ledger come as errors of the link do, and are told as unknown
AnswerQuery(c) ==
  /\ place[c] = "back"
  /\ Answer(c, IF ask[c].kind = "journal" THEN OK(found[c])
               ELSE IF \A a \in Known(c) : Readable(a, found[c][a])
               THEN OK([a \in Known(c) |-> Balance(a, found[c][a])])
               ELSE Error("amount"))
  /\ UNCHANGED <<next, record, found, read, ledgerVars, settings, troubles>>

-----------------------------------------------------------------------------
(* The built-in ledger: handlers, aggregate, repositories *)

\* (mutant) the loop goes on with the next entry, and tells of what it has
ThrowIgnored(c, why) ==
  IF why # "denied" /\ c \in Posters /\ next[c] < Len(ask[c].entries)
  THEN /\ next' = [next EXCEPT ![c] = @ + 1]
       /\ place' = [place EXCEPT ![c] = "ledger"]
       /\ UNCHANGED told
  ELSE Answer(c, Error(why)) /\ UNCHANGED next

\* What throws in the ledger ends the call: entries that were posted stay, entries
\* that were not are not
Throw(c, why) == Answer(c, Error(why)) /\ UNCHANGED next

\* The ledger refuses the chart's token or privilege, or a load is rejected
LedgerFails(c) ==
  /\ place[c] = "ledger" /\ Trouble
  /\ Throw(c, "ledger")
  /\ UNCHANGED <<record, found, read, ledgerVars, settings>>

\* Why _createJournalEntry throws before anything is stored, in its order
Objection(q) ==
  IF q.currency \notin DOMAIN config["ledger"] THEN "currency"
  ELSE IF ~Converts(q.amount, config["ledger"][q.currency]) THEN "amount"
  ELSE IF q.dr = q.cr THEN "parameters"
  ELSE IF {q.dr, q.cr} \subseteq Accounts /\ CurrencyOf[q.dr] = q.currency
            /\ CurrencyOf[q.cr] = q.currency THEN "none"
  ELSE "account"

RefuseEntry(c) ==
  /\ place[c] = "ledger" /\ c \in Posters /\ Objection(Current(c)) # "none"
  /\ Throw(c, Objection(Current(c)))
  /\ UNCHANGED <<record, found, read, ledgerVars, settings, troubles>>

\* An entry is stored as a string of the decimals its currency has now, and with them
Stored(c) ==
  LET d == config["ledger"][Current(c).currency]
  IN [by |-> <<c, next[c]>>, decimals |-> d, sides |-> {},
      amount |-> bigintToString(stringToBigint(Current(c).amount, d), d)]

StoreEntry(c) ==
  /\ place[c] = "ledger" /\ c \in Posters /\ Objection(Current(c)) = "none"
  /\ place' = [place EXCEPT ![c] = "stored"]
  /\ journal' = Append(journal, Stored(c))
  /\ record' = [record EXCEPT ![c] = Len(journal')]
  /\ UNCHANGED <<next, found, told, read, balance, settings, troubles>>

\* The write of the entry is rejected, before or after it took effect
StoreFails(c) ==
  /\ place[c] = "ledger" /\ c \in Posters /\ Objection(Current(c)) = "none" /\ Trouble
  /\ Throw(c, "repo")
  /\ journal' \in {journal, Append(journal, Stored(c))}
  /\ UNCHANGED <<record, found, read, balance, settings>>

\* The bigint that is added to a balance: it was computed before the entry was stored
Amount(c) == stringToBigint(Current(c).amount, journal[record[c]].decimals)

Subject(c, side) == IF side = "dr" THEN Current(c).dr ELSE Current(c).cr
After(c, side) == balance[Subject(c, side)][side] + Amount(c)

\* (mutant) looks at the balance before the entry
CountsBefore(c, side) == balance[Subject(c, side)][side] >= 0

Counts(c, side) == After(c, side) >= 0

\* The account object gets its new balance, then the repository is told
SetBalance(c, side) ==
  /\ balance' = [balance EXCEPT ![Subject(c, side)][side] = After(c, side)]
  /\ journal' = [journal EXCEPT ![record[c]].sides = @ \cup {side}]

Updating(c, side) == place[c] = IF side = "dr" THEN "stored" ELSE "debited"

Debit(c) ==
  /\ Updating(c, "dr") /\ Counts(c, "dr")
  /\ SetBalance(c, "dr")
  /\ place' = [place EXCEPT ![c] = "debited"]
  /\ UNCHANGED <<next, record, found, told, read, settings, troubles>>

\* The credit, and the next entry of the call or its answer
Credit(c) ==
  /\ Updating(c, "cr") /\ Counts(c, "cr")
  /\ SetBalance(c, "cr")
  /\ IF next[c] < Len(ask[c].entries)
     THEN /\ next' = [next EXCEPT ![c] = @ + 1]
          /\ place' = [place EXCEPT ![c] = "ledger"]
          /\ UNCHANGED told
     ELSE Answer(c, OK(<<>>)) /\ UNCHANGED next
  /\ UNCHANGED <<record, found, read, settings, troubles>>

\* A balance below zero: the entry stays in the journal
RefuseBalance(c) ==
  \E side \in {"dr", "cr"} :
    /\ Updating(c, side) /\ ~Counts(c, side)
    /\ Throw(c, "balance")
    /\ UNCHANGED <<record, found, read, ledgerVars, settings, troubles>>

\* The repository rejects the update: the account object has its new balance already
UpdateFails(c) ==
  \E side \in {"dr", "cr"} :
    /\ Updating(c, side) /\ Counts(c, side) /\ Trouble
    /\ SetBalance(c, side)
    /\ Throw(c, "repo")
    /\ UNCHANGED <<record, found, read, settings>>

\* The balances of an account, with the decimals it was created with
Shown(a) == [side \in {"dr", "cr"} |-> bigintToString(balance[a][side], LedgerDecimals[a])]

ReadAccounts(c) ==
  /\ place[c] = "ledger" /\ ask[c].kind = "accounts"
  /\ place' = [place EXCEPT ![c] = "back"]
  /\ found' = [found EXCEPT ![c] = [a \in Known(c) |-> Shown(a)]]
  /\ read' = [read EXCEPT ![c] = journal]
  /\ UNCHANGED <<next, record, told, ledgerVars, settings, troubles>>

\* The entries of the accounts asked for, of which there is one: where they are in
\* the journal, in whose order they are told
Concerns(c, rec) == {Entry(rec.by).dr, Entry(rec.by).cr} \cap ask[c].ids # {}
Found(c, entries) == {i \in DOMAIN entries : Concerns(c, entries[i])}

\* (mutant) told in the decimals the currency has now
RowPresent(rec) ==
  [by |-> rec.by, amount |-> bigintToString(stringToBigint(rec.amount, rec.decimals),
                                            config["ledger"][Entry(rec.by).currency])]

\* The stored string is read, and written again, with the decimals stored with it
Row(rec) ==
  [by |-> rec.by,
   amount |-> bigintToString(stringToBigint(rec.amount, rec.decimals), rec.decimals)]

\* A string that cannot be read would be an error; AmountsServed says that there is
\* none, as what is written from a bigint is the nearest number that converts to it
ReadJournal(c) ==
  /\ place[c] = "ledger" /\ ask[c].kind = "journal"
  /\ place' = [place EXCEPT ![c] = "back"]
  /\ found' = [found EXCEPT ![c] = [i \in Found(c, journal) |-> Row(journal[i])]]
  /\ read' = [read EXCEPT ![c] = journal]
  /\ UNCHANGED <<next, record, told, ledgerVars, settings, troubles>>

-----------------------------------------------------------------------------
(* _reloadSettings of either aggregate *)

Reload(service) ==
  /\ Trouble
  /\ \E f \in Configs \ {config[service]} : config' = [config EXCEPT ![service] = f]
  /\ UNCHANGED <<callVars, ledgerVars, ask>>

-----------------------------------------------------------------------------
CallsInit ==
  /\ ask \in {f \in [Calls -> UNION {Requests[c] : c \in Calls}] : \A c \in Calls : f[c] \in Requests[c]}
  /\ place = [c \in Calls |-> "idle"]
  /\ next = [c \in Calls |-> 1]
  /\ record = [c \in Calls |-> 0]
  /\ found = [c \in Calls |-> <<>>]
  /\ told = [c \in Calls |-> Untold]
  /\ read = [c \in Calls |-> <<>>]
  /\ journal = <<>>
  /\ balance = [a \in Accounts |-> [dr |-> 0, cr |-> 0]]
  /\ \E f \in Configs : config = [service \in Services |-> f]
  /\ troubles = 0

CallsNext ==
  \/ \E c \in Calls :
       \/ Send(c) \/ NoToken(c) \/ Lose(c) \/ Denied(c)
       \/ ForwardEntries(c) \/ RefuseEntries(c) \/ ForwardQuery(c) \/ NothingToTell(c)
       \/ AnswerQuery(c) \/ LedgerFails(c) \/ RefuseEntry(c) \/ StoreEntry(c) \/ StoreFails(c)
       \/ Debit(c) \/ Credit(c) \/ RefuseBalance(c) \/ UpdateFails(c)
       \/ ReadAccounts(c) \/ ReadJournal(c)
  \/ \E service \in Services : Reload(service)

CallsSpec == CallsInit /\ [][CallsNext]_vars

-----------------------------------------------------------------------------
(* Properties *)

Places == {"idle", "chart", "ledger", "stored", "debited", "back", "over"}

\* Types, of what the other properties take apart
CallsTypeOK ==
  /\ place \in [Calls -> Places]
  /\ \A c \in Posters : next[c] \in 1..Len(ask[c].entries) /\ record[c] \in 0..Len(journal)
  /\ \A i \in DOMAIN journal : journal[i].sides \subseteq {"dr", "cr"}
  /\ \A a \in Accounts : balance[a].dr \in Nat /\ balance[a].cr \in Nat
  /\ config \in [Services -> Configs] /\ troubles \in 0..MaxTroubles

\* The entries of a call in the journal: their places in it, and in the call
Posted(c) == {i \in DOMAIN journal : journal[i].by[1] = c}
Numbers(c) == {journal[i].by[2] : i \in Posted(c)}

Whole(rec) == rec.sides = {"dr", "cr"}
AsAsked(rec) == SameAmount(rec.amount, Entry(rec.by).amount)

\* What a client is answered and what the journal has of its call agree, although
\* calls are lost, run side by side and stop in the middle: the journal has a
\* beginning of the call's entries, each once, in order and with the amounts that
\* were asked for, and both balances count all of them but perhaps the last; it has
\* them all if the client heard of success, and none, now and later, if the client
\* was denied.
PostedAsAnswered ==
  \A c \in Posters :
    /\ \A i \in Posted(c) : AsAsked(journal[i])
    /\ \A i, j \in Posted(c) : i < j => journal[i].by[2] < journal[j].by[2] /\ Whole(journal[i])
    /\ \E n \in 0..Len(ask[c].entries) : Numbers(c) = 1..n
    /\ told[c].code = "OK" =>
         Numbers(c) = DOMAIN ask[c].entries /\ \A i \in Posted(c) : Whole(journal[i])
    /\ told[c].code = "DENIED" => Posted(c) = {}

\* The journal as it was read for c, told in its order, as the callers asked for it
Tells(c, rows) ==
  /\ DOMAIN rows = Found(c, read[c])
  /\ \A i \in Found(c, read[c]) :
       /\ rows[i].by = read[c][i].by
       /\ SameAmount(rows[i].amount, Entry(read[c][i].by).amount)

\* A client that asks for the entries of an account hears of exactly those that the
\* journal had, with the amounts their callers asked for, however often the decimals
\* of the currency were changed meanwhile.
JournalTold ==
  \A c \in Calls : ask[c].kind = "journal" /\ told[c].code = "OK" /\ Known(c) # {} =>
    Tells(c, told[c].what)

\* What v[1], ..., v[n] come to
SumTo(v, n) ==
  LET sum[m \in 0..n] == IF m = 0 THEN 0 ELSE sum[m - 1] + v[m] IN sum[n]

\* Units of the account's currency that an entry moves on one side
UnitsOn(rec, a, side) ==
  IF side \in rec.sides /\ a = Entry(rec.by)[side]
  THEN Units(Entry(rec.by).amount, LedgerDecimals[a]) ELSE 0

\* And those that the entries read for c moved
Moved(c, a, side) ==
  SumTo([i \in DOMAIN read[c] |-> UnitsOn(read[c][i], a, side)], Len(read[c]))

\* The ledger adds an entry in the decimals its currency has at that time, not in
\* those of the account ("TODO must get and use the currencyDecimals defined in the
\* account"): nothing is said of an account that has entries of other decimals.
OwnDecimals(c, a) ==
  \A i \in DOMAIN read[c] :
    a \in {Entry(read[c][i].by).dr, Entry(read[c][i].by).cr} =>
      read[c][i].decimals = LedgerDecimals[a]

\* The balance a client hears is what the entries of the account come to, although it
\* is added up in bigints by one service, sent as two strings, read and subtracted by
\* the other with decimals of its own, and the entries were converted at other times.
BalanceTold ==
  \A c \in Calls : ask[c].kind = "accounts" /\ told[c].code = "OK" =>
    \A a \in Known(c) : OwnDecimals(c, a) =>
      Says(told[c].what[a], Moved(c, a, "cr") - Moved(c, a, "dr"), LedgerDecimals[a])

\* An amount is refused as one with more decimals than its currency only if it is
\* one.  An entry has them or has not; what the ledger stored of entries can be read
\* again, whatever the decimals are now; and its balances can, unless the chart's
\* account has fewer decimals.
TooFine(q) == ~Fits(q.amount, config["ledger"][q.currency])
AmountsServed ==
  /\ \A c \in Posters :
       place[c] = "ledger" /\ Objection(Current(c)) = "amount" => TooFine(Current(c))
  /\ \A i \in DOMAIN journal : Converts(journal[i].amount, journal[i].decimals)
  /\ \A c \in Calls \ Posters : told[c].why = "amount" =>
       \E a \in Known(c) : ChartDecimals[a] < LedgerDecimals[a]
=============================================================================
