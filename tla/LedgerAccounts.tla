---------------------------- MODULE LedgerAccounts ----------------------------
(***************************************************************************)
(* Where the built-in ledger keeps an account: as an object of             *)
(* _accountCache, as a Redis key and as a document of the accounts         *)
(* collection.  The module follows an account through the three, and       *)
(* through restarts of the service, which keep only the last two and the   *)
(* journal.                                                                *)
(*                                                                         *)
(* BuiltinLedger assumes accounts that are in _accountCache already and    *)
(* computes balances; here accounts are created and loaded, and a balance  *)
(* is the set of the entries it counts.  Whether a check passes and        *)
(* whether a balance refuses an entry, which amounts decide, is left open. *)
(***************************************************************************)
EXTENDS Naturals, Sequences

CONSTANTS
  Accounts,       \* account ids
  Stored,         \* the accounts that are in the collection at first
  Batches,        \* calls of processHighLevelBatch; the queue sends them one at a time
  Directs,        \* calls of createAccounts and createJournalEntries, those of one
                  \* client after the other being one here
  Plan,           \* per call: what it does with accounts, step by step
  MaxFaults       \* bound: how often Redis or MongoDB rejects or the service restarts

VARIABLES
  pc,             \* where each call is suspended
  at,             \* the step of its plan
  held,           \* the objects it found for that step: account id -> object
  keys, docs,     \* what the repository has read for it: account id -> value
  snap,           \* the values it is about to write: account id -> value
  posted,         \* the entries it has posted to both balances
  objects,        \* every account object in memory, those of no map any more included
  accountCache,   \* _accountCache: account id -> object
  entriesCache,   \* _entriesCache
  redis,          \* account id -> value, of the ids that have a key
  db,             \* the accounts collection: id -> value, of the ids that have a document
  journal,        \* the journal entries collection
  faults

fetched == <<keys, docs>>
callVars == <<pc, at, held, fetched, snap, posted>>
memory == <<objects, accountCache, entriesCache>>
stores == <<redis, db, journal>>
storeVars == <<callVars, memory, stores, faults>>

-----------------------------------------------------------------------------
(* Data *)

Calls == Batches \cup Directs

\* One _getAccountsByIds, of two accounts, and what follows it.  "post" is
\* _createJournalEntry, "check" the liquidity check, "create" _createAccount
\* (of one account).  rest is how many more steps the same request has.
PlanStep == [kind: {"check", "post", "create"}, to: Accounts, from: Accounts, rest: {0, 1}]

\* An entry is known by the call and the step that posts it
EntryIds == Calls \X (Nat \ {0})
Credited(e) == Plan[e[1]][e[2]].to
Debited(e) == Plan[e[1]][e[2]].from

\* The entries counted by an account's debit and by its credit balance
Value == [dr: SUBSET EntryIds, cr: SUBSET EntryIds]
Zero == [dr |-> {}, cr |-> {}]

\* An object is known by the account and by the load that made it: which call
\* and step it was for, and whether it was parsed from a key or from a document
Object == [of: Accounts, for: EntryIds, origin: {"key", "doc"}]

ASSUME PlanAssumption ==
  /\ Stored \subseteq Accounts
  /\ Plan \in [Calls -> Seq(PlanStep)]
  /\ MaxFaults \in Nat

\* The debit (credit) balances that calls of createJournalEntries store, whole, as
\* they find them in memory
Posts(c) == {i \in DOMAIN Plan[c] : Plan[c][i].kind = "post"}
DirectlyDebited(a) == \E d \in Directs : \E i \in Posts(d) : Plan[d][i].from = a
DirectlyCredited(a) == \E d \in Directs : \E i \in Posts(d) : Plan[d][i].to = a

\* The function f with the values of g put over it
Put(f, g) == [x \in DOMAIN f \cup DOMAIN g |-> IF x \in DOMAIN g THEN g[x] ELSE f[x]]

\* The part of f on S
On(f, S) == [x \in S \cap DOMAIN f |-> f[x]]

Step(c) == Plan[c][at[c]]
Ids(c) == {Step(c).to, Step(c).from}
Entry(c) == <<c, at[c]>>
NotHeld(c) == Ids(c) \ DOMAIN held[c]

\* What a call awaits
Loading == {"readCache", "readDb", "recache"}
Updating == {"storeEntry", "getDr", "setDr", "writeDr", "getCr", "setCr", "writeCr"}
Flushing == {"flushEntries", "flushAccounts", "uncache"}
Creating == {"newKey", "newDocument"}
Running == Loading \cup Updating \cup Flushing \cup Creating \cup {"get", "ready", "flush"}

-----------------------------------------------------------------------------
(* Moving on *)

Goto(c, place) == pc' = [pc EXCEPT ![c] = place]

\* n steps of the plan are over
Leave(c, n) ==
  /\ at' = [at EXCEPT ![c] = @ + n]
  /\ held' = [held EXCEPT ![c] = <<>>]
  /\ keys' = [keys EXCEPT ![c] = <<>>]
  /\ docs' = [docs EXCEPT ![c] = <<>>]
  /\ snap' = [snap EXCEPT ![c] = <<>>]

\* (mutant) the loop over the requests goes one too far
AdvanceTooFar(c, n) ==
  /\ Leave(c, n)
  /\ Goto(c, IF at[c] + n <= Len(Plan[c]) + 1 THEN "get"
             ELSE IF c \in Batches THEN "flush" ELSE "done")

\* The next step, or the flush, or the answer
Advance(c, n) ==
  /\ Leave(c, n)
  /\ Goto(c, IF at[c] + n <= Len(Plan[c]) THEN "get"
             ELSE IF c \in Batches THEN "flush" ELSE "done")

Reject(c) == Goto(c, "failed") /\ UNCHANGED <<at, held, fetched, snap>>

\* The step throws: a batch goes on with the next request, any other call ends
Throw(c) == IF c \in Batches THEN Advance(c, 1 + Step(c).rest) ELSE Reject(c)

-----------------------------------------------------------------------------
(* Writes *)

\* The account of a single update, and which of its balances is updated
Side(c) == IF pc[c] \in {"getDr", "setDr", "writeDr"} THEN "dr" ELSE "cr"
Subject(c) == IF Side(c) = "dr" THEN Step(c).from ELSE Step(c).to

\* value with the new balance of that side
Renewed(c, value) == [value EXCEPT ![Side(c)] = snap[c][Subject(c)][Side(c)]]

\* The keys to be set after a load; a document's value is set after a key's
Loaded(c) == Put(keys[c], docs[c])

\* What the write that c awaits is about: entries, or accounts
Items(c) ==
  CASE pc[c] = "storeEntry" -> {Entry(c)}
    [] pc[c] = "flushEntries" -> entriesCache
    [] pc[c] \in {"flushAccounts", "uncache"} -> DOMAIN snap[c]
    [] pc[c] = "recache" -> DOMAIN Loaded(c)
    [] pc[c] \in {"setDr", "writeDr", "setCr", "writeCr"} -> {Subject(c)}
    [] pc[c] \in Creating -> {Step(c).to}
    [] OTHER -> {}

JournalWith(c, S) ==
  IF pc[c] \in {"storeEntry", "flushEntries"} THEN journal \cup S ELSE journal

\* One del removes all its keys
RedisWith(c, S) ==
  CASE pc[c] = "recache" -> Put(redis, On(Loaded(c), S))
    [] pc[c] \in {"setDr", "setCr"} -> Put(redis, On(keys[c], S))
    [] pc[c] = "newKey" -> Put(redis, [a \in S |-> Zero])
    [] pc[c] = "uncache" /\ S # {} -> On(redis, DOMAIN redis \ Items(c))
    [] OTHER -> redis

\* Documents are updated and replaced, where there is one; id is a unique index
DbWith(c, S) ==
  CASE pc[c] \in {"writeDr", "writeCr"} ->
         [a \in DOMAIN db |-> IF a \in S THEN Renewed(c, db[a]) ELSE db[a]]
    [] pc[c] = "flushAccounts" -> [a \in DOMAIN db |-> IF a \in S THEN snap[c][a] ELSE db[a]]
    [] pc[c] = "newDocument" -> Put([a \in S |-> Zero], db)
    [] OTHER -> db

\* The write that c awaits takes effect, as far as the items of S
Write(c, S) ==
  /\ journal' = JournalWith(c, S)
  /\ redis' = RedisWith(c, S)
  /\ db' = DbWith(c, S)

-----------------------------------------------------------------------------
StoreInit ==
  /\ pc = [c \in Calls |-> "idle"]
  /\ at = [c \in Calls |-> 1]
  /\ held = [c \in Calls |-> <<>>]
  /\ keys = [c \in Calls |-> <<>>] /\ docs = [c \in Calls |-> <<>>]
  /\ snap = [c \in Calls |-> <<>>]
  /\ posted = [c \in Calls |-> {}]
  /\ objects = <<>> /\ accountCache = <<>> /\ entriesCache = {}
  /\ redis = <<>> /\ db = [a \in Stored |-> Zero] /\ journal = {}
  /\ faults = 0

Begin(c) ==
  /\ pc[c] = "idle" /\ Plan[c] # <<>>
  /\ c \in Batches => \A b \in Batches : pc[b] \notin Running
  /\ Goto(c, "get")
  /\ UNCHANGED <<at, held, fetched, snap, posted, memory, stores, faults>>

-----------------------------------------------------------------------------
(* _getAccountsByIds of the aggregate and getAccountsByIds of the repository *)

GetAccounts(c) ==
  /\ pc[c] = "get"
  /\ held' = [held EXCEPT ![c] = On(accountCache, Ids(c))]
  /\ Goto(c, IF Ids(c) \subseteq DOMAIN accountCache THEN "ready" ELSE "readCache")
  /\ UNCHANGED <<at, fetched, snap, posted, memory, stores, faults>>

\* The repository returns the objects of some keys and then those of some
\* documents.  They enter _accountCache in that order, a document's in the place
\* of a key's; the caller takes the first of an account, that is a key's.
Enter(c, fromKeys, fromDocs) ==
  LET made(f, origin) == [a \in DOMAIN f |-> [of |-> a, for |-> Entry(c), origin |-> origin]]
      first == made(fromKeys, "key")
      second == made(fromDocs, "doc")
      values == [o \in {first[a] : a \in DOMAIN first} |-> fromKeys[o.of]]
      laterValues == [o \in {second[a] : a \in DOMAIN second} |-> fromDocs[o.of]]
  IN
  /\ objects' = Put(objects, Put(values, laterValues))
  /\ accountCache' = Put(accountCache, Put(first, second))
  /\ held' = [held EXCEPT ![c] = Put(Put(second, first), @)]
  /\ keys' = [keys EXCEPT ![c] = <<>>]
  /\ docs' = [docs EXCEPT ![c] = <<>>]
  /\ Goto(c, "ready")

\* Redis answers.  The repository is done if it has a key for every id.
ReadCache(c) ==
  LET found == On(redis, NotHeld(c)) IN
  /\ pc[c] = "readCache"
  /\ \/ DOMAIN found = NotHeld(c) /\ Enter(c, found, <<>>)
     \/ /\ DOMAIN found # NotHeld(c)
        /\ keys' = [keys EXCEPT ![c] = found]
        /\ Goto(c, "readDb")
        /\ UNCHANGED <<held, docs, objects, accountCache>>
  /\ UNCHANGED <<at, snap, posted, entriesCache, stores, faults>>

\* MongoDB answers.  It was asked for all the ids, those with a key included.
ReadDb(c) ==
  /\ pc[c] = "readDb"
  /\ docs' = [docs EXCEPT ![c] = On(db, NotHeld(c))]
  /\ Goto(c, "recache")
  /\ UNCHANGED <<at, held, keys, snap, posted, memory, stores, faults>>

Recache(c) ==
  /\ pc[c] = "recache"
  /\ Write(c, Items(c))
  /\ Enter(c, keys[c], docs[c])
  /\ UNCHANGED <<at, snap, posted, entriesCache, faults>>

-----------------------------------------------------------------------------
(* What a call does with the accounts it holds *)

Holds(c) == Ids(c) \subseteq DOMAIN held[c]

\* The liquidity check finds both accounts and passes, or the request is over
Check(c) ==
  /\ pc[c] = "ready" /\ Step(c).kind = "check"
  /\ \/ Holds(c) /\ Advance(c, 1)
     \/ Throw(c)
  /\ UNCHANGED <<posted, memory, stores, faults>>

\* The objects os with c's entry counted by the debit (credit) of the one it holds
Debit(c, os) == [os EXCEPT ![held[c][Step(c).from]].dr = @ \cup {Entry(c)}]
Credit(c, os) == [os EXCEPT ![held[c][Step(c).to]].cr = @ \cup {Entry(c)}]

\* _createJournalEntry in a batch.  The entry enters _entriesCache; the debited
\* balance may refuse it, or the credited one after the debit was made.
PostInBatch(c) ==
  /\ pc[c] = "ready" /\ Step(c).kind = "post" /\ c \in Batches
  /\ \/ /\ ~Holds(c)
        /\ Throw(c)
        /\ UNCHANGED <<posted, objects, entriesCache>>
     \/ /\ Holds(c)
        /\ entriesCache' = entriesCache \cup {Entry(c)}
        /\ \/ /\ objects' = Credit(c, Debit(c, objects))
              /\ posted' = [posted EXCEPT ![c] = @ \cup {Entry(c)}]
              /\ Advance(c, 1)
           \/ /\ objects' \in {objects, Debit(c, objects)}
              /\ UNCHANGED posted
              /\ Throw(c)
  /\ UNCHANGED <<accountCache, stores, faults>>

-----------------------------------------------------------------------------
(* _createJournalEntry outside a batch: journal, debit, credit, each awaited *)

BeginDirect(c) ==
  /\ pc[c] = "ready" /\ Step(c).kind = "post" /\ c \in Directs
  /\ IF Holds(c)
     THEN Goto(c, "storeEntry") /\ UNCHANGED <<at, held, fetched, snap>>
     ELSE Throw(c)
  /\ UNCHANGED <<posted, memory, stores, faults>>

\* c has changed the object it holds of account a into one of os, and hands its
\* new balance to the repository; or the balance refused the entry
Submit(c, a, os, place) ==
  \/ /\ objects' = os
     /\ snap' = [snap EXCEPT ![c] = [x \in {a} |-> os[held[c][a]]]]
     /\ Goto(c, place)
     /\ UNCHANGED <<at, held, fetched>>
  \/ Throw(c) /\ UNCHANGED objects

StoreEntry(c) ==
  /\ pc[c] = "storeEntry"
  /\ Write(c, Items(c))
  /\ Submit(c, Step(c).from, Debit(c, objects), "getDr")
  /\ UNCHANGED <<posted, accountCache, entriesCache, faults>>

\* The Redis key is read.  If there is one, its copy is to be set again.
GetKey(c) ==
  /\ pc[c] \in {"getDr", "getCr"}
  /\ keys' = [keys EXCEPT ![c] =
                [a \in {Subject(c)} \cap DOMAIN redis |-> Renewed(c, redis[a])]]
  /\ Goto(c, CASE Subject(c) \in DOMAIN redis -> IF Side(c) = "dr" THEN "setDr" ELSE "setCr"
              [] OTHER -> IF Side(c) = "dr" THEN "writeDr" ELSE "writeCr")
  /\ UNCHANGED <<at, held, docs, snap, posted, memory, stores, faults>>

SetKey(c) ==
  /\ pc[c] \in {"setDr", "setCr"}
  /\ Write(c, Items(c))
  /\ Goto(c, IF Side(c) = "dr" THEN "writeDr" ELSE "writeCr")
  /\ UNCHANGED <<at, held, fetched, snap, posted, memory, faults>>

\* The document is updated, or there is none, which is an error.  So is one that
\* has the balance already, since a batch was flushed meanwhile, unless its
\* timestamp (not modelled) differs.
Unmodified(c) == Subject(c) \in DOMAIN db /\ Renewed(c, db[Subject(c)]) = db[Subject(c)]

WriteDr(c) ==
  /\ pc[c] = "writeDr"
  /\ Write(c, Items(c))
  /\ \/ Subject(c) \in DOMAIN db /\ Submit(c, Step(c).to, Credit(c, objects), "getCr")
     \/ /\ Subject(c) \notin DOMAIN db \/ Unmodified(c)
        /\ Throw(c)
        /\ UNCHANGED objects
  /\ UNCHANGED <<posted, accountCache, entriesCache, faults>>

WriteCr(c) ==
  /\ pc[c] = "writeCr"
  /\ Write(c, Items(c))
  /\ \/ /\ Subject(c) \in DOMAIN db
        /\ posted' = [posted EXCEPT ![c] = @ \cup {Entry(c)}]
        /\ Advance(c, 1)
     \/ /\ Subject(c) \notin DOMAIN db \/ Unmodified(c)
        /\ Throw(c)
        /\ UNCHANGED posted
  /\ UNCHANGED <<memory, faults>>

-----------------------------------------------------------------------------
(* _flush *)

\* The accounts of _accountCache are handed to updateAccounts, if there are any
SendAccounts(c) ==
  /\ snap' = [snap EXCEPT ![c] = [a \in DOMAIN accountCache |-> objects[accountCache[a]]]]
  /\ Goto(c, IF DOMAIN accountCache = {} THEN "done" ELSE "flushAccounts")

\* (mutant) the accounts are flushed before the entries
BeginFlushAccounts(c) ==
  /\ pc[c] = "flush"
  /\ SendAccounts(c)
  /\ UNCHANGED <<at, held, fetched, posted, memory, stores, faults>>

BeginFlush(c) ==
  /\ pc[c] = "flush"
  /\ IF entriesCache # {}
     THEN Goto(c, "flushEntries") /\ UNCHANGED snap
     ELSE SendAccounts(c)
  /\ UNCHANGED <<at, held, fetched, posted, memory, stores, faults>>

FlushEntries(c) ==
  /\ pc[c] = "flushEntries"
  /\ Write(c, Items(c))
  /\ entriesCache' = {}
  /\ SendAccounts(c)
  /\ UNCHANGED <<at, held, fetched, posted, objects, accountCache, faults>>

\* An account without a document is not counted as modified, which is an error
FlushAccounts(c) ==
  /\ pc[c] = "flushAccounts"
  /\ Write(c, Items(c))
  /\ IF DOMAIN snap[c] \subseteq DOMAIN db
     THEN Goto(c, "uncache") /\ UNCHANGED <<at, held, fetched, snap>>
     ELSE Reject(c)
  /\ UNCHANGED <<posted, memory, faults>>

\* Their keys are deleted and the batch is answered
Uncache(c) ==
  /\ pc[c] = "uncache"
  /\ Write(c, Items(c))
  /\ snap' = [snap EXCEPT ![c] = <<>>]
  /\ Goto(c, "done")
  /\ UNCHANGED <<at, held, fetched, posted, memory, faults>>

-----------------------------------------------------------------------------
(* _createAccount.  If the id is found another one is drawn, which the model  *)
(* leaves out: that account has nothing to do with these.                     *)

BeginCreate(c) ==
  /\ pc[c] = "ready" /\ Step(c).kind = "create"
  /\ IF Holds(c)
     THEN Advance(c, 1)
     ELSE Goto(c, "newKey") /\ UNCHANGED <<at, held, fetched, snap>>
  /\ UNCHANGED <<posted, memory, stores, faults>>

NewKey(c) ==
  /\ pc[c] = "newKey"
  /\ Write(c, Items(c))
  /\ Goto(c, "newDocument")
  /\ UNCHANGED <<at, held, fetched, snap, posted, memory, faults>>

NewDocument(c) ==
  /\ pc[c] = "newDocument"
  /\ Write(c, Items(c))
  /\ IF Step(c).to \in DOMAIN db THEN Reject(c) ELSE Advance(c, 1)
  /\ UNCHANGED <<posted, memory, faults>>

-----------------------------------------------------------------------------
(* Failures *)

\* (mutant) a flush that rejects is logged and the batch answered
RepoFailsAnswered(c) ==
  /\ faults < MaxFaults /\ faults' = faults + 1
  /\ pc[c] \in Loading \cup Updating \cup Flushing \cup Creating
  /\ \E S \in SUBSET Items(c) : Write(c, S)
  /\ IF pc[c] \in Flushing
     THEN Goto(c, "done") /\ UNCHANGED <<at, held, fetched, snap>>
     ELSE Throw(c)
  /\ UNCHANGED <<posted, memory>>

\* What is awaited rejects, any part of the write having taken effect.  That is
\* an error of the request, or of the whole batch if it was flushing.
RepoFails(c) ==
  /\ faults < MaxFaults /\ faults' = faults + 1
  /\ pc[c] \in Loading \cup Updating \cup Flushing \cup Creating
  /\ \E S \in SUBSET Items(c) : Write(c, S)
  /\ IF pc[c] \in Flushing THEN Reject(c) ELSE Throw(c)
  /\ UNCHANGED <<posted, memory>>

\* The process ends and is started again: memory is gone and the calls are lost;
\* of what one of them awaited any part has taken effect
Restart ==
  /\ faults < MaxFaults /\ faults' = faults + 1
  /\ \E c \in Calls : \E S \in SUBSET Items(c) : Write(c, S)
  /\ pc' = [c \in Calls |-> IF pc[c] \in Running THEN "lost" ELSE pc[c]]
  /\ held' = [c \in Calls |-> <<>>]
  /\ keys' = [c \in Calls |-> <<>>] /\ docs' = [c \in Calls |-> <<>>]
  /\ snap' = [c \in Calls |-> <<>>]
  /\ objects' = <<>> /\ accountCache' = <<>> /\ entriesCache' = {}
  /\ UNCHANGED <<at, posted>>

-----------------------------------------------------------------------------
StoreNext ==
  \/ \E c \in Calls :
       \/ Begin(c)
       \/ GetAccounts(c) \/ ReadCache(c) \/ ReadDb(c) \/ Recache(c)
       \/ Check(c) \/ PostInBatch(c)
       \/ BeginFlush(c) \/ FlushEntries(c) \/ FlushAccounts(c) \/ Uncache(c)
       \/ BeginDirect(c) \/ StoreEntry(c) \/ GetKey(c) \/ SetKey(c) \/ WriteDr(c) \/ WriteCr(c)
       \/ BeginCreate(c) \/ NewKey(c) \/ NewDocument(c)
       \/ RepoFails(c)
  \/ Restart

StoreSpec == StoreInit /\ [][StoreNext]_storeVars
-----------------------------------------------------------------------------
(* Properties *)

\* Type correctness, which includes that what a call and what _accountCache has
\* for an account is an object of that account.
StoreTypeOK ==
  /\ pc \in [Calls -> Running \cup {"idle", "done", "failed", "lost"}]
  /\ at \in [Calls -> Nat \ {0}]
  /\ \A c \in Calls : pc[c] \in Running \ {"flush", "flushEntries", "flushAccounts", "uncache"}
                      => at[c] \in DOMAIN Plan[c]
  /\ posted \in [Calls -> SUBSET EntryIds]
  /\ DOMAIN objects \subseteq Object /\ \A o \in DOMAIN objects : objects[o] \in Value
  /\ DOMAIN held = Calls
  /\ \A f \in {accountCache} \cup {held[c] : c \in Calls} :
       \A a \in DOMAIN f : f[a] \in DOMAIN objects /\ f[a].of = a
  /\ DOMAIN keys = Calls /\ DOMAIN docs = Calls /\ DOMAIN snap = Calls
  /\ \A c \in Calls : \A f \in {keys[c], docs[c], snap[c], redis, db} :
       DOMAIN f \subseteq Accounts /\ \A a \in DOMAIN f : f[a] \in Value
  /\ entriesCache \subseteq EntryIds /\ journal \subseteq EntryIds
  /\ faults \in 0..MaxFaults

\* Whenever the service ends, the append-only journal explains every balance that
\* is left in Redis and in MongoDB (_flush and _createJournalEntry store entries
\* first), but for this: createJournalEntries stores the whole balance of the
\* shared object, so that one it debits (credits) may count entries of a batch
\* that is not flushed yet, and never will be if the batch fails or the service
\* ends.  No other balance counts any entry that the journal has not, and none
\* counts an unjournaled entry of a batch that was answered.
BalancesJournaled ==
  \A f \in {redis, db} : \A a \in DOMAIN f :
    LET drs == f[a].dr \ journal
        crs == f[a].cr \ journal
    IN /\ drs # {} => DirectlyDebited(a)
       /\ crs # {} => DirectlyCredited(a)
       /\ \A e \in drs \cup crs : e[1] \in Batches /\ pc[e[1]] # "done"

\* The entries of a request that was answered are in the journal for good,
\* whatever failed or ended afterwards.
AckedJournaled ==
  \A c \in Calls : pc[c] = "done" => posted[c] \subseteq journal

\* The balances a batch posted to are those that its flush stored: once it is
\* answered the collection's documents count its entries.
AckedStored ==
  \A c \in Batches : pc[c] = "done" =>
    \A e \in posted[c] :
      /\ Debited(e) \in DOMAIN db /\ e \in db[Debited(e)].dr
      /\ Credited(e) \in DOMAIN db /\ e \in db[Credited(e)].cr
=============================================================================
