---------------------------- MODULE ChartOfAccounts ----------------------------
(***************************************************************************)
(* The accounts of the chart-of-accounts service.  An account is a record  *)
(* of the chart (a document of MongoDB and a key of Redis) and an account  *)
(* of the ledger that the record names.  createAccounts writes all three,  *)
(* one after the other; calls overlap at every await, any of them may fail *)
(* and the service may be restarted.                                       *)
(*                                                                         *)
(* The ledger is the built-in one or TigerBeetle (USE_TIGERBEETLE), seen   *)
(* through its adapter; the built-in ledger has clients of its own.        *)
(***************************************************************************)
EXTENDS Naturals, Sequences, FiniteSets, SequencesExt

CONSTANTS
  Ids,            \* the account ids that callers ask for
  None,           \* no id asked for: the service draws one
  Owners,         \* who accounts are created for; stands for type and currency too
  Calls,          \* calls of the gRPC handlers of accounts
  Plan,           \* what each call asks for
  Foreign,        \* the ids for which a client of the built-in ledger opens an account
  Adapters,       \* the ledgers to consider
  MaxFaults       \* bound on rejections, restarts and evictions together

VARIABLES
  adapter,        \* the ledger in use
  pc,             \* where each call is suspended
  todo,           \* the records it is storing
  given,          \* the ledger ids its accounts got
  seen,           \* the records it has read, in order
  answer,         \* the accounts it was answered
  known,          \* (history) the accounts whose creation was answered before a query began
  cached,         \* the Redis keys: account id -> record
  stored,         \* the chart_of_accounts collection: account id -> record
  ledger,         \* ledger account id -> who opened it
  faults

callVars == <<pc, todo, given, seen, answer, known>>
chartVars == <<adapter, callVars, cached, stored, ledger, faults>>

-----------------------------------------------------------------------------
(* Data *)

Changes == {"delete", "deactivate", "reactivate"}
Request == [kind: {"create", "get", "getByOwner"} \cup Changes, ids: Seq(Ids \cup {None}), owner: Owners]

\* The ids that the ledger draws where the one asked for is taken
Attributed == Calls \X (Nat \ {0}) \X {"attributed"}

ASSUME ChartAssumption ==
  /\ None \notin Ids
  /\ Plan \in [Calls -> Request]
  /\ \A c \in Calls : Plan[c].kind # "create" => Plan[c].ids \in Seq(Ids)
  /\ Foreign \subseteq Ids
  /\ Ids \cap Attributed = {}
  /\ Adapters \subseteq {"builtin", "tigerbeetle"}
  /\ MaxFaults \in Nat

\* The ledger's own clients are none of the calls
ASSUME ForeignAssumption == "foreign" \notin Calls

\* Drawn ids are told apart by the call and item they are drawn for
AccountIds == Ids \cup (Calls \X (Nat \ {0}))
LedgerIds == AccountIds \cup Attributed
State == {"ACTIVE", "INACTIVE", "DELETED"}
CoaAccount == [id: AccountIds, owner: Owners, state: State, ledger: LedgerIds]

Items(c) == DOMAIN Plan[c].ids

\* (mutant) no id is drawn
IdAsAsked(c, k) == Plan[c].ids[k]

Id(c, k) == IF Plan[c].ids[k] = None THEN <<c, k>> ELSE Plan[c].ids[k]

\* The records that createAccounts builds
Record(c, k) == [id |-> Id(c, k), owner |-> Plan[c].owner, state |-> "ACTIVE", ledger |-> Id(c, k)]
Records(c) == [k \in Items(c) |-> Record(c, k)]

\* The state an account must be in for a change, and the one it gets
From(kind) == IF kind = "reactivate" THEN "INACTIVE" ELSE "ACTIVE"
To(kind) == CASE kind = "delete" -> "DELETED"
              [] kind = "deactivate" -> "INACTIVE"
              [] kind = "reactivate" -> "ACTIVE"

\* A sequence of records by their ids, a later one in the place of an earlier
ById(records) ==
  [i \in {records[k].id : k \in DOMAIN records} |->
     LET last == CHOOSE k \in DOMAIN records :
                   /\ records[k].id = i
                   /\ \A j \in DOMAIN records : records[j].id = i => j <= k
     IN records[last]]

\* The function f with the values of g put over it
Put(f, g) == [x \in DOMAIN f \cup DOMAIN g |-> IF x \in DOMAIN g THEN g[x] ELSE f[x]]

Reading == {"exist", "readCache", "readDb", "readOwner", "readLedger"}
Storing == {"insert", "reinsert", "replace"}
Running == Reading \cup Storing \cup {"openAccounts", "changeLedger"}

Goto(c, place) == pc' = [pc EXCEPT ![c] = place]

-----------------------------------------------------------------------------
ChartInit ==
  /\ adapter \in Adapters
  /\ pc = [c \in Calls |-> "idle"]
  /\ todo = [c \in Calls |-> <<>>]
  /\ given = [c \in Calls |-> <<>>]
  /\ seen = [c \in Calls |-> <<>>]
  /\ answer = [c \in Calls |-> {}]
  /\ known = [c \in Calls |-> {}]
  /\ cached = <<>> /\ stored = <<>> /\ ledger = <<>>
  /\ faults = 0

\* The accounts whose creation was answered
Acked == UNION {{Id(c, k) : k \in Items(c)} : c \in {d \in Calls : pc[d] = "done" /\ Plan[d].kind = "create"}}

Begin(c) ==
  /\ pc[c] = "idle"
  /\ known' = [known EXCEPT ![c] = IF Plan[c].kind \in {"get", "getByOwner"} THEN Acked ELSE {}]
  /\ Goto(c, CASE Plan[c].kind = "create" -> "exist"
               [] Plan[c].kind = "getByOwner" -> "readOwner"
               [] OTHER -> "readCache")
  /\ UNCHANGED <<adapter, todo, given, seen, answer, cached, stored, ledger, faults>>

-----------------------------------------------------------------------------
(* storeAccounts: every key is set in Redis, then the documents are inserted *)

\* The keys (base being the others) and the first half of storeAccounts
Store(c, base, records, place) ==
  /\ cached' = Put(base, ById(records))
  /\ todo' = [todo EXCEPT ![c] = records]
  /\ Goto(c, place)

\* insertMany inserts in order, up to a document whose id is there already
IsNew(c, k) == \A j \in 1..k :
  todo[c][j].id \notin DOMAIN stored /\ \A i \in 1..(j - 1) : todo[c][i].id # todo[c][j].id
Insertable(c) == {k \in 0..Len(todo[c]) : IsNew(c, k)}
StoredWith(c, n) == Put(stored, ById(SubSeq(todo[c], 1, n)))

AfterInsert(place) ==
  CASE place = "insert" -> "openAccounts"
    [] place = "reinsert" -> "openAccounts"
    [] place = "replace" -> "done"

\* (mutant) a duplicate does not stop the call
InsertTolerant(c) ==
  /\ pc[c] \in Storing
  /\ \E n \in Insertable(c) : (\A m \in Insertable(c) : m <= n) /\ stored' = StoredWith(c, n)
  /\ Goto(c, AfterInsert(pc[c]))
  /\ UNCHANGED <<adapter, todo, given, seen, answer, known, cached, ledger, faults>>

Insert(c) ==
  /\ pc[c] \in Storing
  /\ \E n \in Insertable(c) :
       /\ \A m \in Insertable(c) : m <= n
       /\ stored' = StoredWith(c, n)
       /\ IF n = Len(todo[c])
          THEN Goto(c, AfterInsert(pc[c])) /\ UNCHANGED todo
          ELSE Goto(c, "failed") /\ todo' = [todo EXCEPT ![c] = <<>>]
  /\ UNCHANGED <<adapter, given, seen, answer, known, cached, ledger, faults>>

-----------------------------------------------------------------------------
(* createAccounts *)

\* The call is refused if as many accounts are found as ids were asked for, which
\* is so when none was; otherwise it stores its records.  (Parameters are valid.)
CheckExist(c) ==
  LET asked == {k \in Items(c) : Plan[c].ids[k] # None}
      found == {Id(c, k) : k \in asked} \cap DOMAIN stored
  IN
  /\ pc[c] = "exist"
  /\ IF Cardinality(found) = Cardinality(asked)
     THEN Goto(c, "failed") /\ UNCHANGED <<todo, cached>>
     ELSE Store(c, cached, Records(c), "insert")
  /\ UNCHANGED <<adapter, given, seen, answer, known, stored, ledger, faults>>

\* The ledger with the accounts of ids opened by call c
Opened(c, ids) == Put([l \in ids |-> c], ledger)

\* The built-in ledger opens the next account, under another id if its own is
\* taken.  Once begun it does not notice that the caller is gone.
OpenAccount(c) ==
  LET k == Len(given[c]) + 1
      l == IF Id(c, k) \in DOMAIN ledger THEN <<c, k, "attributed">> ELSE Id(c, k)
  IN
  /\ adapter = "builtin" /\ k \in Items(c)
  /\ \/ pc[c] = "openAccounts"
     \/ pc[c] \in {"failed", "lost"} /\ given[c] # <<>>
  /\ ledger' = Opened(c, {l})
  /\ given' = [given EXCEPT ![c] = Append(@, l)]
  /\ UNCHANGED <<adapter, pc, todo, seen, answer, known, cached, stored, faults>>

\* The call is answered with its ids
Created(c) ==
  /\ todo' = [todo EXCEPT ![c] = <<>>]
  /\ answer' = [answer EXCEPT ![c] = {Id(c, k) : k \in Items(c)}]
  /\ Goto(c, "done")

\* TigerBeetle opens those that it has not, and answers an error if it had one
OpenAll(c) ==
  LET ids == {Id(c, k) : k \in Items(c)} IN
  /\ pc[c] = "openAccounts" /\ adapter = "tigerbeetle"
  /\ ledger' = Opened(c, ids)
  /\ IF ids \cap DOMAIN ledger = {}
     THEN Created(c)
     ELSE Goto(c, "failed") /\ UNCHANGED <<todo, answer>>
  /\ UNCHANGED <<adapter, given, seen, known, cached, stored, faults>>

\* The items whose account got another id, and those of them whose record has yet
\* to be stored again; they are taken in order, one record at a time
Renamed(c) == {k \in Items(c) : given[c][k] # Id(c, k)}
ToRename(c) == {k \in Renamed(c) : \A j \in Renamed(c), r \in DOMAIN todo[c] :
                                      j >= k => todo[c][r].ledger # given[c][j]}

\* (mutant) a record is renamed in Redis only
AccountsOpenedCached(c) ==
  /\ pc[c] = "openAccounts" /\ adapter = "builtin"
  /\ Len(given[c]) = Len(Plan[c].ids)
  /\ cached' = Put(cached, ById([k \in Items(c) |-> [Record(c, k) EXCEPT !.ledger = given[c][k]]]))
  /\ Created(c)
  /\ UNCHANGED <<adapter, given, seen, known, stored, ledger, faults>>

\* The built-in ledger has answered: each record whose account got another id is
\* stored again, and then the call is answered.
AccountsOpened(c) ==
  /\ pc[c] = "openAccounts" /\ adapter = "builtin"
  /\ Len(given[c]) = Len(Plan[c].ids)
  /\ \/ ToRename(c) = {} /\ Created(c) /\ UNCHANGED cached
     \/ \E k \in ToRename(c) :
          /\ \A j \in ToRename(c) : k <= j
          /\ Store(c, cached, <<[Record(c, k) EXCEPT !.ledger = given[c][k]]>>, "reinsert")
          /\ UNCHANGED answer
  /\ UNCHANGED <<adapter, given, seen, known, stored, ledger, faults>>

\* A client of the built-in ledger opens an account with an id of its own choice
OpenForeign(i) ==
  /\ adapter = "builtin" /\ i \in Foreign \ DOMAIN ledger
  /\ ledger' = Put(ledger, [l \in {i} |-> "foreign"])
  /\ UNCHANGED <<adapter, callVars, cached, stored, faults>>

-----------------------------------------------------------------------------
(* getAccountsByIds, getAccountsByOwnerId and the three changes of state *)

Wanted(c) == {Plan[c].ids[k] : k \in Items(c)}
IdsOf(records) == {records[k].id : k \in DOMAIN records}

\* The records were read, keys being those of Redis by now.  A query asks the
\* ledger for their accounts, if there are any.
Query(c, records, keys) ==
  /\ Plan[c].kind \notin Changes
  /\ seen' = [seen EXCEPT ![c] = records]
  /\ cached' = keys
  /\ Goto(c, IF records = <<>> THEN "done" ELSE "readLedger")
  /\ UNCHANGED todo

\* A change looks at the state of the first record only.  The built-in ledger is
\* asked to make it; the adapter of TigerBeetle does nothing and the records are
\* stored.
Change(c, records, keys) ==
  LET kind == Plan[c].kind
      allowed == records # <<>> /\ Head(records).state = From(kind)
      changed == [k \in DOMAIN records |-> [records[k] EXCEPT !.state = To(kind)]]
  IN
  /\ kind \in Changes
  /\ IF allowed /\ adapter = "tigerbeetle"
     THEN Store(c, keys, changed, "replace")
     ELSE /\ Goto(c, IF allowed THEN "changeLedger" ELSE "failed")
          /\ cached' = keys
          /\ UNCHANGED todo
  /\ seen' = [seen EXCEPT ![c] = <<>>]

Found(c, records, keys) == Query(c, records, keys) \/ Change(c, records, keys)

\* The items whose record Redis has, and the records it answers, in the order of
\* the ids asked for
Hits(c) == {k \in Items(c) : Plan[c].ids[k] \in DOMAIN cached}
InRedis(c, hits) == [n \in DOMAIN hits |-> cached[Plan[c].ids[hits[n]]]]
InOrder(hits) == \A m, n \in DOMAIN hits : m < n => hits[m] < hits[n]

\* (mutant) MongoDB is asked only if Redis has none of the accounts
ReadCacheAny(c) ==
  /\ pc[c] = "readCache"
  /\ \E hits \in SetToSeqs(Hits(c)) :
       /\ InOrder(hits)
       /\ IF hits # <<>>
          THEN Found(c, InRedis(c, hits), cached)
          ELSE /\ seen' = [seen EXCEPT ![c] = <<>>]
               /\ Goto(c, "readDb")
               /\ UNCHANGED <<todo, cached>>
  /\ UNCHANGED <<adapter, given, answer, known, stored, ledger, faults>>

\* Redis answers; MongoDB is asked for the accounts that it does not have
ReadCache(c) ==
  /\ pc[c] = "readCache"
  /\ \E hits \in SetToSeqs(Hits(c)) :
       /\ InOrder(hits)
       /\ IF Wanted(c) \subseteq DOMAIN cached
          THEN Found(c, InRedis(c, hits), cached)
          ELSE /\ seen' = [seen EXCEPT ![c] = InRedis(c, hits)]
               /\ Goto(c, "readDb")
               /\ UNCHANGED <<todo, cached>>
  /\ UNCHANGED <<adapter, given, answer, known, stored, ledger, faults>>

\* MongoDB answers, in some order, and its records are set in Redis
ReadDb(c) ==
  /\ pc[c] = "readDb"
  /\ \E docs \in SetToSeqs({stored[i] : i \in (Wanted(c) \ IdsOf(seen[c])) \cap DOMAIN stored}) :
       Found(c, seen[c] \o docs, Put(cached, ById(docs)))
  /\ UNCHANGED <<adapter, given, answer, known, stored, ledger, faults>>

ReadOwner(c) ==
  /\ pc[c] = "readOwner"
  /\ \E docs \in SetToSeqs({stored[i] : i \in {j \in DOMAIN stored : stored[j].owner = Plan[c].owner}}) :
       Found(c, docs, Put(cached, ById(docs)))
  /\ UNCHANGED <<adapter, given, answer, known, stored, ledger, faults>>

\* An account is answered if the ledger has the account that its record names
ReadLedger(c) ==
  /\ pc[c] = "readLedger"
  /\ answer' = [answer EXCEPT ![c] =
                  {seen[c][k].id : k \in {j \in DOMAIN seen[c] : seen[c][j].ledger \in DOMAIN ledger}}]
  /\ seen' = [seen EXCEPT ![c] = <<>>]
  /\ Goto(c, "done")
  /\ UNCHANGED <<adapter, todo, given, known, cached, stored, ledger, faults>>

\* The built-in ledger sets a field that its documents may not have: it always
\* answers an error
ChangeLedger(c) ==
  /\ pc[c] = "changeLedger"
  /\ Goto(c, "failed")
  /\ UNCHANGED <<adapter, todo, given, seen, answer, known, cached, stored, ledger, faults>>

-----------------------------------------------------------------------------
(* Failures *)

\* Any part of what c awaits has taken effect
Partly(c) ==
  /\ \/ pc[c] \in Storing /\ \E n \in Insertable(c) : stored' = StoredWith(c, n)
     \/ UNCHANGED stored
  /\ \/ /\ pc[c] = "openAccounts" /\ adapter = "tigerbeetle"
        /\ ledger' = Opened(c, {Id(c, k) : k \in Items(c)})
     \/ UNCHANGED ledger

\* What is awaited rejects, and so does the call
Rejects(c) ==
  /\ faults < MaxFaults /\ faults' = faults + 1
  /\ pc[c] \in Running
  /\ Partly(c)
  /\ Goto(c, "failed")
  /\ todo' = [todo EXCEPT ![c] = <<>>]
  /\ seen' = [seen EXCEPT ![c] = <<>>]
  /\ UNCHANGED <<adapter, given, answer, known, cached>>

\* The service ends, for a signal or because a set of Redis failed, which nobody
\* awaits; the calls are lost
Restart ==
  /\ faults < MaxFaults /\ faults' = faults + 1
  /\ \E c \in Calls : Partly(c)
  /\ pc' = [c \in Calls |-> IF pc[c] \in Running THEN "lost" ELSE pc[c]]
  /\ todo' = [c \in Calls |-> <<>>]
  /\ seen' = [c \in Calls |-> <<>>]
  /\ UNCHANGED <<adapter, given, answer, known, cached>>

\* Redis loses a key
Evict(i) ==
  /\ faults < MaxFaults /\ faults' = faults + 1
  /\ i \in DOMAIN cached
  /\ cached' = [j \in DOMAIN cached \ {i} |-> cached[j]]
  /\ UNCHANGED <<adapter, callVars, stored, ledger>>

-----------------------------------------------------------------------------
ChartNext ==
  \/ \E c \in Calls :
       \/ Begin(c)
       \/ CheckExist(c) \/ Insert(c) \/ OpenAccount(c) \/ OpenAll(c) \/ AccountsOpened(c)
       \/ ReadCache(c) \/ ReadDb(c) \/ ReadOwner(c) \/ ReadLedger(c) \/ ChangeLedger(c)
       \/ Rejects(c)
  \/ \E i \in Foreign : OpenForeign(i)
  \/ \E i \in DOMAIN cached : Evict(i)
  \/ Restart

ChartSpec == ChartInit /\ [][ChartNext]_chartVars
-----------------------------------------------------------------------------
(* Properties *)

\* Type correctness, which includes that a key and a document are of the account
\* they are found by.
ChartTypeOK ==
  /\ adapter \in Adapters
  /\ pc \in [Calls -> Running \cup {"idle", "done", "failed", "lost"}]
  /\ \A c \in Calls :
       /\ \A r \in Range(todo[c]) \cup Range(seen[c]) : r \in CoaAccount
       /\ given[c] \in Seq(LedgerIds) /\ Len(given[c]) <= Len(Plan[c].ids)
       /\ answer[c] \cup known[c] \subseteq AccountIds
  /\ \A f \in {cached, stored} : \A i \in DOMAIN f : f[i] \in CoaAccount /\ f[i].id = i
  /\ DOMAIN ledger \subseteq LedgerIds
  /\ faults \in 0..MaxFaults

\* Creation c opens account l for its item k
OpenedFor(c, k, l) == l \in {Id(c, k), <<c, k, "attributed">>}

\* The chart has the record that c built of item k
RecordKept(c, k) == Id(c, k) \in DOMAIN stored /\ stored[Id(c, k)] = Record(c, k)

\* An account that a creation has opened in the ledger, built-in or TigerBeetle, has
\* its record in the chart, as that creation built it: whatever fails, and whoever else
\* asks for the id, no ledger account is left whose record nobody can find
\* (storeAccounts comes before the ledger's createAccounts).  Of an account with a drawn
\* id it is the record of the id asked for: inserting it again, to name the drawn id, is
\* refused.
LedgerCharted ==
  \A l \in DOMAIN ledger : ledger[l] \in Calls =>
    \E k \in Items(ledger[l]) : OpenedFor(ledger[l], k, l) /\ RecordKept(ledger[l], k)

\* The accounts a creation was answered for are its own in the chart and in the
\* ledger: of two calls that ask for one id at most one is answered, and no answer
\* names an account that somebody else opened in the ledger.
AckedOwned ==
  \A c \in Calls : pc[c] = "done" /\ Plan[c].kind = "create" =>
    \A k \in Items(c) :
      /\ RecordKept(c, k)
      /\ Id(c, k) \in DOMAIN ledger /\ ledger[Id(c, k)] = c

\* A query that begins after an account's creation was answered finds it, be its
\* key in Redis, evicted, or being set by another call.
AckedFound ==
  \A c \in Calls : pc[c] = "done" =>
    /\ Plan[c].kind = "get" => Wanted(c) \cap known[c] \subseteq answer[c]
    /\ Plan[c].kind = "getByOwner" =>
         {i \in known[c] : stored[i].owner = Plan[c].owner} \subseteq answer[c]

\* Once a creation was answered, Redis has its records, if it has any, whatever is
\* evicted and loaded again and whichever ids the ledger gives; only another creation
\* of the id that got past the check, or a change of state, may have put others there,
\* and does so although it is refused.
AckedUndisturbed ==
  \A c \in Calls : pc[c] = "done" /\ Plan[c].kind = "create" =>
    \A k \in Items(c) : Id(c, k) \in DOMAIN cached =>
      \/ cached[Id(c, k)] = Record(c, k)
      \/ \E d \in Calls \ {c} :
           /\ Plan[d].kind \in Changes \cup {"create"} /\ pc[d] \notin {"idle", "exist"}
           /\ Id(c, k) \in {Id(d, j) : j \in Items(d)}
=============================================================================
