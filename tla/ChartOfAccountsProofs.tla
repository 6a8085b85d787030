------------------------- MODULE ChartOfAccountsProofs -------------------------
(***************************************************************************)
(* Proofs about ChartOfAccounts: its types, that every ledger account it   *)
(* opened is in the chart, that an answered account is the caller's, is    *)
(* found, and that Redis keeps its record.                                 *)
(***************************************************************************)
EXTENDS ChartOfAccounts, FiniteSetTheorems, SequenceTheorems, WellFoundedInduction, TLAPS

-----------------------------------------------------------------------------
(* Records by their ids *)

\* Redis or the collection: each record is found by its own id
IsChart(f) == \A i \in DOMAIN f : f[i] \in CoaAccount /\ f[i].id = i

\* A set of naturals that has a bound has a greatest element
LEMMA Greatest ==
  ASSUME NEW n \in Nat, NEW T \in SUBSET (1..n), T # {}
  PROVE  \E k \in T : \A j \in T : j <= k
<1> DEFINE above(k) == T \cap (k..n)
           D == {above(k) : k \in T}
<1>1. IsFiniteSet(T)
  <2>1. IsFiniteSet(1..n)
    BY FS_Interval
  <2> QED BY <2>1, FS_Subset
<1>2. IsWellFoundedOn(StrictSubsetOrdering(T), SUBSET T)
  BY <1>1, FS_StrictSubsetOrderingWellFounded, FS_FiniteSubsetsOfFinite
<1>3. PICK d \in D : \A e \in D : ~(<<e, d>> \in StrictSubsetOrdering(T))
  <2>1. D \subseteq SUBSET T /\ D # {}
    OBVIOUS
  <2> HIDE DEF D
  <2> QED BY <1>2, <2>1, WFMin
<1>4. PICK k \in T : d = above(k)
  OBVIOUS
<1>5. \A j \in T : j <= k
  <2> SUFFICES ASSUME NEW j \in T, j > k PROVE FALSE
    OBVIOUS
  <2>1. above(j) \subseteq above(k)
    OBVIOUS
  <2>2. k \in above(k) /\ k \notin above(j)
    OBVIOUS
  <2>3. <<above(j), above(k)>> \in StrictSubsetOrdering(T)
    BY <2>1, <2>2 DEF StrictSubsetOrdering
  <2>4. above(j) \in D
    OBVIOUS
  <2> QED BY <1>3, <1>4, <2>3, <2>4
<1> QED BY <1>5

\* Records of a sequence, found by their ids, are records of the sequence
LEMMA ByIdPicks ==
  ASSUME NEW records \in Seq(CoaAccount)
  PROVE  /\ DOMAIN ById(records) = {records[k].id : k \in DOMAIN records}
         /\ \A i \in DOMAIN ById(records) :
              \E k \in DOMAIN records : records[k].id = i /\ ById(records)[i] = records[k]
<1> DEFINE last(i) == CHOOSE k \in DOMAIN records :
                        /\ records[k].id = i
                        /\ \A j \in DOMAIN records : records[j].id = i => j <= k
<1>1. ById(records) = [i \in {records[k].id : k \in DOMAIN records} |-> records[last(i)]]
  BY DEF ById
<1>2. ASSUME NEW i \in {records[k].id : k \in DOMAIN records}
      PROVE  last(i) \in DOMAIN records /\ records[last(i)].id = i
  <2> DEFINE T == {k \in DOMAIN records : records[k].id = i}
  <2>1. Len(records) \in Nat /\ T \subseteq 1..Len(records) /\ T # {}
    OBVIOUS
  <2>2. \E k \in T : \A j \in T : j <= k
    BY <2>1, Greatest
  <2> QED BY <2>2
<1> HIDE DEF last
<1>3. DOMAIN ById(records) = {records[k].id : k \in DOMAIN records}
  BY <1>1
<1>4. ASSUME NEW i \in DOMAIN ById(records)
      PROVE  \E k \in DOMAIN records : records[k].id = i /\ ById(records)[i] = records[k]
  <2>1. i \in {records[k].id : k \in DOMAIN records}
    BY <1>3
  <2>2. ById(records)[i] = records[last(i)]
    BY <1>1, <2>1
  <2> QED BY <1>2, <2>1, <2>2
<1> QED BY <1>3, <1>4

LEMMA ByIdIsChart ==
  ASSUME NEW records \in Seq(CoaAccount)
  PROVE  IsChart(ById(records))
<1>1. \A k \in DOMAIN records : records[k] \in CoaAccount
  OBVIOUS
<1>2. ASSUME NEW i \in DOMAIN ById(records)
      PROVE  ById(records)[i] \in CoaAccount /\ ById(records)[i].id = i
  <2>1. PICK k \in DOMAIN records : records[k].id = i /\ ById(records)[i] = records[k]
    BY <1>2, ByIdPicks
  <2>2. QED
    BY <1>1, <2>1
<1>3. QED
  BY <1>2 DEF IsChart

LEMMA MergeIsChart ==
  ASSUME NEW f, NEW g, IsChart(f), IsChart(g)
  PROVE  IsChart(Put(f, g))
  BY DEF IsChart, Put

\* The ids of finitely many records are finitely many
LEMMA FinitelyMany ==
  ASSUME NEW records \in Seq(CoaAccount)
  PROVE  IsFiniteSet(DOMAIN ById(records))
<1> DEFINE S == 1..Len(records)
           T == {records[k].id : k \in DOMAIN records}
           f == [k \in S |-> records[k].id]
<1>1. S = DOMAIN records /\ Len(records) \in Nat
  OBVIOUS
<1>2. f \in Surjection(S, T)
  BY <1>1 DEF Surjection
<1>3. IsFiniteSet(S)
  BY <1>1, FS_Interval
<1>4. IsFiniteSet(T)
  BY <1>2, <1>3, FS_Surjection
<1> QED BY <1>4, ByIdPicks

-----------------------------------------------------------------------------
(* The inductive invariant *)

Places == Running \cup {"idle", "done", "failed", "lost"}
Creating == {"exist", "insert", "reinsert", "openAccounts"}

CallTypes(c) ==
  /\ todo[c] \in Seq(CoaAccount) /\ seen[c] \in Seq(CoaAccount)
  /\ given[c] \in Seq(LedgerIds) /\ Len(given[c]) <= Len(Plan[c].ids)
  /\ answer[c] \subseteq AccountIds /\ known[c] \subseteq AccountIds

CallsTyped ==
  /\ pc \in [Calls -> Places]
  /\ DOMAIN todo = Calls /\ DOMAIN given = Calls /\ DOMAIN seen = Calls
  /\ DOMAIN answer = Calls /\ DOMAIN known = Calls
  /\ \A c \in Calls : CallTypes(c)

StoresTyped ==
  /\ adapter \in Adapters
  /\ IsChart(cached) /\ IsChart(stored) /\ IsFiniteSet(DOMAIN stored)
  /\ DOMAIN ledger \subseteq LedgerIds
  /\ faults \in 0..MaxFaults

\* The collection has the records that creation c built
Charted(c) == \A k \in Items(c) : Id(c, k) \in DOMAIN stored /\ stored[Id(c, k)] = Record(c, k)

\* The ledger has the account of item k, and c opened it
Owns(c, k) == Id(c, k) \in DOMAIN ledger /\ ledger[Id(c, k)] = c

\* A creation reaches the ledger with its records stored, and what the ledger gave
\* it is its own or has another id.  A record cannot be inserted a second time.
CreationOK(c) ==
  /\ pc[c] \in Creating => Plan[c].kind = "create"
  /\ pc[c] \in Running \ Creating => Plan[c].kind # "create"
  /\ pc[c] \in {"insert", "openAccounts"} => todo[c] = Records(c)
  /\ pc[c] = "reinsert" => Len(todo[c]) = 1 /\ todo[c][1].id \in DOMAIN stored
  /\ \/ pc[c] \in {"openAccounts", "reinsert"}
     \/ given[c] # <<>>
     \/ pc[c] = "done" /\ Plan[c].kind = "create"
     => Charted(c)
  /\ \A k \in DOMAIN given[c] :
       \/ given[c][k] = Id(c, k) /\ Owns(c, k)
       \/ given[c][k] = <<c, k, "attributed">>
  /\ pc[c] = "done" /\ Plan[c].kind = "create" => \A k \in Items(c) : Owns(c, k)

ChartInv == CallsTyped /\ StoresTyped /\ \A c \in Calls : CreationOK(c)

-----------------------------------------------------------------------------
(* Data *)

LEMMA PlanTyped ==
  ASSUME NEW c \in Calls
  PROVE  /\ Plan[c].ids \in Seq(Ids \cup {None}) /\ Plan[c].owner \in Owners
         /\ Items(c) = 1..Len(Plan[c].ids) /\ Len(Plan[c].ids) \in Nat
<1>1. Plan[c] \in Request
  BY ChartAssumption
<1> QED BY <1>1 DEF Request, Items

LEMMA IdTyped ==
  ASSUME NEW c \in Calls, NEW k \in Items(c)
  PROVE  Id(c, k) \in AccountIds /\ \A j \in Nat \ {0} : Id(c, k) # <<c, j, "attributed">>
<1>1. Plan[c].ids[k] \in Ids \cup {None} /\ k \in Nat \ {0}
  BY PlanTyped
<1>2. Id(c, k) \in Ids \/ Id(c, k) = <<c, k>>
  BY <1>1 DEF Id
<1>3. \A j \in Nat \ {0} : <<c, j, "attributed">> \in Attributed
  BY <1>1 DEF Attributed
<1> QED BY <1>1, <1>2, <1>3, ChartAssumption DEF AccountIds

LEMMA RecordsTyped ==
  ASSUME NEW c \in Calls
  PROVE  /\ Records(c) \in Seq(CoaAccount) /\ DOMAIN Records(c) = Items(c)
         /\ \A k \in Items(c) : Records(c)[k] = Record(c, k)
<1>1. \A k \in Items(c) : Record(c, k) \in CoaAccount
  BY IdTyped, PlanTyped DEF Record, CoaAccount, State, LedgerIds
<1> QED BY <1>1, PlanTyped DEF Records

\* What is in the collection or the ledger stays there as it is
Grows ==
  /\ \A i \in DOMAIN stored : i \in DOMAIN stored' /\ stored'[i] = stored[i]
  /\ \A l \in DOMAIN ledger : l \in DOMAIN ledger' /\ ledger'[l] = ledger[l]

\* Documents inserted are new, and each is found by its id
LEMMA InsertGrows ==
  ASSUME ChartInv, NEW c \in Calls, NEW n \in Insertable(c), stored' = StoredWith(c, n)
  PROVE  /\ IsChart(stored') /\ IsFiniteSet(DOMAIN stored')
         /\ \A i \in DOMAIN stored : i \in DOMAIN stored' /\ stored'[i] = stored[i]
         /\ \A k \in 1..n : todo[c][k].id \in DOMAIN stored' /\ stored'[todo[c][k].id] = todo[c][k]
<1> DEFINE new == SubSeq(todo[c], 1, n)
<1>1. /\ todo[c] \in Seq(CoaAccount) /\ n \in 0..Len(todo[c]) /\ Len(todo[c]) \in Nat
      /\ IsChart(stored) /\ IsFiniteSet(DOMAIN stored)
  BY DEF ChartInv, CallsTyped, CallTypes, StoresTyped, Insertable
<1>2. new \in Seq(CoaAccount) /\ DOMAIN new = 1..n /\ \A k \in 1..n : new[k] = todo[c][k]
  BY <1>1
<1>3. stored' = Put(stored, ById(new))
  BY DEF StoredWith
<1>4. \A k \in 1..n : /\ todo[c][k].id \notin DOMAIN stored
                      /\ \A i \in 1..(k - 1) : todo[c][i].id # todo[c][k].id
  BY DEF Insertable, IsNew
<1>5. \A k, j \in 1..n : todo[c][k].id = todo[c][j].id => k = j
  <2> SUFFICES ASSUME NEW k \in 1..n, NEW j \in 1..n, k < j, todo[c][k].id = todo[c][j].id
               PROVE  FALSE
    BY <1>1
  <2>1. k \in 1..(j - 1)
    BY <1>1
  <2> QED BY <1>4, <2>1
<1> HIDE DEF new
<1>6. /\ DOMAIN ById(new) = {new[k].id : k \in DOMAIN new}
      /\ \A i \in DOMAIN ById(new) : \E k \in DOMAIN new : new[k].id = i /\ ById(new)[i] = new[k]
  BY <1>2, ByIdPicks
<1>7. DOMAIN ById(new) \cap DOMAIN stored = {}
  <2>1. \A k \in DOMAIN new : new[k].id \notin DOMAIN stored
    BY <1>2, <1>4
  <2> QED BY <1>6, <2>1
<1>8. \A k \in 1..n : todo[c][k].id \in DOMAIN ById(new) /\ ById(new)[todo[c][k].id] = todo[c][k]
  <2> TAKE k \in 1..n
  <2>1. todo[c][k].id \in DOMAIN ById(new)
    BY <1>2, <1>6
  <2>2. PICK j \in DOMAIN new : new[j].id = todo[c][k].id /\ ById(new)[todo[c][k].id] = new[j]
    BY <1>6, <2>1
  <2>3. j = k
    BY <1>2, <1>5, <2>2
  <2> QED BY <1>2, <2>1, <2>2, <2>3
<1>9. IsChart(stored')
  BY <1>1, <1>2, <1>3, ByIdIsChart, MergeIsChart
<1>10. IsFiniteSet(DOMAIN stored')
  <2>1. DOMAIN stored' = DOMAIN stored \cup DOMAIN ById(new)
    BY <1>3 DEF Put
  <2>2. IsFiniteSet(DOMAIN ById(new))
    BY <1>2, FinitelyMany
  <2>3. IsFiniteSet(DOMAIN stored)
    BY <1>1
  <2> QED BY <2>1, <2>2, <2>3, FS_Union
<1> QED BY <1>3, <1>7, <1>8, <1>9, <1>10 DEF Put

\* What MongoDB answers in some order are records
LEMMA DocsTyped ==
  ASSUME ChartInv, NEW S, S \subseteq {stored[i] : i \in DOMAIN stored}, NEW docs \in SetToSeqs(S)
  PROVE  docs \in Seq(CoaAccount)
<1>1. IsChart(stored) /\ IsFiniteSet(DOMAIN stored)
  BY DEF ChartInv, StoresTyped
<1> DEFINE T == {stored[i] : i \in DOMAIN stored}
           f == [i \in DOMAIN stored |-> stored[i]]
<1>2. f \in Surjection(DOMAIN stored, T)
  BY DEF Surjection
<1>3. IsFiniteSet(T)
  BY <1>1, <1>2, FS_Surjection
<1>4. Cardinality(S) \in Nat
  BY <1>3, FS_Subset, FS_CardinalityType
<1>5. docs \in [1..Cardinality(S) -> S]
  BY DEF SetToSeqs
<1>6. S \subseteq CoaAccount
  BY <1>1 DEF IsChart
<1> QED BY <1>4, <1>5, <1>6

\* What Redis answers are records
LEMMA InRedisTyped ==
  ASSUME ChartInv, NEW c \in Calls, NEW hits \in SetToSeqs(Hits(c))
  PROVE  InRedis(c, hits) \in Seq(CoaAccount)
<1>1. IsChart(cached)
  BY DEF ChartInv, StoresTyped
<1>2. IsFiniteSet(Items(c))
  BY PlanTyped, FS_Interval
<1>3. Cardinality(Hits(c)) \in Nat
  BY <1>2, FS_Subset, FS_CardinalityType DEF Hits
<1>4. hits \in [1..Cardinality(Hits(c)) -> Hits(c)]
  BY DEF SetToSeqs
<1>5. \A k \in Hits(c) : cached[Plan[c].ids[k]] \in CoaAccount
  BY <1>1 DEF Hits, IsChart
<1> QED BY <1>3, <1>4, <1>5 DEF InRedis

\* What a rejection or an end leaves behind only adds
LEMMA PartlyGrows ==
  ASSUME ChartInv, NEW c \in Calls, Partly(c)
  PROVE  /\ Grows
         /\ IsChart(stored') /\ IsFiniteSet(DOMAIN stored')
         /\ DOMAIN ledger' \subseteq LedgerIds
<1>1. /\ IsChart(stored') /\ IsFiniteSet(DOMAIN stored')
      /\ \A i \in DOMAIN stored : i \in DOMAIN stored' /\ stored'[i] = stored[i]
  <2>1. CASE \E n \in Insertable(c) : stored' = StoredWith(c, n)
    BY <2>1, InsertGrows
  <2>2. CASE UNCHANGED stored
    BY <2>2 DEF ChartInv, StoresTyped, IsChart
  <2> QED BY <2>1, <2>2 DEF Partly
<1>2. /\ DOMAIN ledger' \subseteq LedgerIds
      /\ \A l \in DOMAIN ledger : l \in DOMAIN ledger' /\ ledger'[l] = ledger[l]
  <2>1. CASE ledger' = Opened(c, {Id(c, k) : k \in Items(c)})
    BY <2>1, IdTyped DEF Opened, Put, LedgerIds, ChartInv, StoresTyped
  <2>2. CASE UNCHANGED ledger
    BY <2>2 DEF ChartInv, StoresTyped
  <2> QED BY <2>1, <2>2 DEF Partly
<1> QED BY <1>1, <1>2 DEF Grows

-----------------------------------------------------------------------------
(* A step of one call *)

\* Call c has moved, with values of the right types, and the others have not
Moved(c) ==
  /\ pc' \in [Calls -> Places]
  /\ DOMAIN todo' = Calls /\ DOMAIN given' = Calls /\ DOMAIN seen' = Calls
  /\ DOMAIN answer' = Calls /\ DOMAIN known' = Calls
  /\ CallTypes(c)'
  /\ \A d \in Calls \ {c} :
       /\ pc'[d] = pc[d] /\ todo'[d] = todo[d] /\ given'[d] = given[d]
       /\ seen'[d] = seen[d] /\ answer'[d] = answer[d] /\ known'[d] = known[d]

\* Goto moves a call that changes its variables to values of the right types
LEMMA GotoMoves ==
  ASSUME ChartInv, NEW c \in Calls, NEW place \in Places, Goto(c, place), UNCHANGED given,
         UNCHANGED todo \/ \E t \in Seq(CoaAccount) : todo' = [todo EXCEPT ![c] = t],
         UNCHANGED seen \/ \E t \in Seq(CoaAccount) : seen' = [seen EXCEPT ![c] = t],
         UNCHANGED answer \/ \E A \in SUBSET AccountIds : answer' = [answer EXCEPT ![c] = A],
         UNCHANGED known \/ \E A \in SUBSET AccountIds : known' = [known EXCEPT ![c] = A]
  PROVE  Moved(c) /\ pc'[c] = place
<1>1. CallsTyped /\ CallTypes(c)
  BY DEF ChartInv, CallsTyped
<1>2. pc' \in [Calls -> Places] /\ pc'[c] = place /\ \A d \in Calls \ {c} : pc'[d] = pc[d]
  BY <1>1 DEF Goto, CallsTyped
<1>3. DOMAIN todo' = Calls /\ todo'[c] \in Seq(CoaAccount) /\ \A d \in Calls \ {c} : todo'[d] = todo[d]
  BY <1>1 DEF CallsTyped, CallTypes
<1>4. DOMAIN seen' = Calls /\ seen'[c] \in Seq(CoaAccount) /\ \A d \in Calls \ {c} : seen'[d] = seen[d]
  BY <1>1 DEF CallsTyped, CallTypes
<1>5. DOMAIN answer' = Calls /\ answer'[c] \subseteq AccountIds /\ \A d \in Calls \ {c} : answer'[d] = answer[d]
  BY <1>1 DEF CallsTyped, CallTypes
<1>6. DOMAIN known' = Calls /\ known'[c] \subseteq AccountIds /\ \A d \in Calls \ {c} : known'[d] = known[d]
  BY <1>1 DEF CallsTyped, CallTypes
<1> QED BY <1>1, <1>2, <1>3, <1>4, <1>5, <1>6 DEF Moved, CallsTyped, CallTypes

\* The others keep what they have while the stores grow
LEMMA OneMoves ==
  ASSUME ChartInv, NEW c \in Calls, Moved(c), StoresTyped', Grows, CreationOK(c)'
  PROVE  ChartInv'
<1>1. ASSUME NEW d \in Calls, d # c PROVE CallTypes(d)' /\ CreationOK(d)'
  <2>1. /\ pc'[d] = pc[d] /\ todo'[d] = todo[d] /\ given'[d] = given[d]
        /\ seen'[d] = seen[d] /\ answer'[d] = answer[d] /\ known'[d] = known[d]
    BY <1>1 DEF Moved
  <2>2. CallTypes(d) /\ CreationOK(d)
    BY DEF ChartInv, CallsTyped
  <2>3. Charted(d) => Charted(d)'
    BY DEF Grows, Charted, Items, Id, Record
  <2>4. \A k : Owns(d, k) => Owns(d, k)'
    BY DEF Grows, Owns, Id
  <2>5. CallTypes(d)'
    BY <2>1, <2>2 DEF CallTypes
  <2>6. CreationOK(d)'
    BY <2>1, <2>2, <2>3, <2>4 DEF CreationOK, Grows, Items, Id, Records, Record
  <2> QED BY <2>5, <2>6
<1> QED BY <1>1 DEF ChartInv, CallsTyped, Moved

\* A call that is not a creation has no part in its invariant
LEMMA OthersOK ==
  ASSUME ChartInv, NEW c \in Calls, Plan[c].kind # "create", UNCHANGED given, Grows,
         pc'[c] \in Places \ Creating
  PROVE  CreationOK(c)'
<1>1. CreationOK(c)
  BY DEF ChartInv
<1>2. Charted(c) => Charted(c)'
  BY DEF Grows, Charted, Items, Id, Record
<1>3. \A k : Owns(c, k) => Owns(c, k)'
  BY DEF Grows, Owns, Id
<1> QED BY <1>1, <1>2, <1>3 DEF CreationOK, Creating, Id

\* A call that fails keeps what it has
LEMMA FailedOK ==
  ASSUME ChartInv, NEW c \in Calls, UNCHANGED given, Grows, pc'[c] \in {"failed", "lost"}
  PROVE  CreationOK(c)'
<1>1. CreationOK(c)
  BY DEF ChartInv
<1>2. Charted(c) => Charted(c)'
  BY DEF Grows, Charted, Items, Id, Record
<1>3. \A k : Owns(c, k) => Owns(c, k)'
  BY DEF Grows, Owns, Id
<1> QED BY <1>1, <1>2, <1>3 DEF CreationOK, Creating, Running, Reading, Storing, Id

-----------------------------------------------------------------------------
(* One lemma per action *)

LEMMA StoresStay ==
  ASSUME ChartInv, UNCHANGED <<adapter, cached, stored, ledger, faults>>
  PROVE  StoresTyped' /\ Grows
  BY DEF ChartInv, StoresTyped, IsChart, Grows

LEMMA BeginInv == ASSUME ChartInv, NEW c \in Calls, Begin(c) PROVE ChartInv'
<1> DEFINE place == CASE Plan[c].kind = "create" -> "exist"
                      [] Plan[c].kind = "getByOwner" -> "readOwner"
                      [] OTHER -> "readCache"
<1>1. StoresTyped' /\ Grows
  BY StoresStay DEF Begin
<1>2. Acked \subseteq AccountIds
  BY IdTyped DEF Acked
<1>3. place \in Places /\ (place \in Creating => Plan[c].kind = "create")
      /\ (place \in Running \ Creating => Plan[c].kind # "create")
      /\ place \notin {"insert", "openAccounts", "reinsert", "done"}
  BY DEF Places, Running, Reading, Storing, Creating
<1>4. Goto(c, place)
  BY DEF Begin
<1> HIDE DEF place
<1>5. Moved(c) /\ pc'[c] = place
  <2>1. \E A \in SUBSET AccountIds : known' = [known EXCEPT ![c] = A]
    BY <1>2 DEF Begin
  <2> QED BY <1>3, <1>4, <2>1, GotoMoves DEF Begin
<1>6. CreationOK(c)'
  <2>1. CreationOK(c) /\ given' = given
    BY DEF ChartInv, Begin
  <2>2. Charted(c)' <=> Charted(c)
    BY DEF Begin, Charted, Items, Id, Record
  <2>3. \A k : Owns(c, k)' <=> Owns(c, k)
    BY DEF Begin, Owns, Id
  <2> QED BY <1>3, <1>5, <2>1, <2>2, <2>3 DEF CreationOK, Id
<1> QED BY <1>1, <1>5, <1>6, OneMoves

\* Records of the right types are set in Redis
LEMMA StoreTyped ==
  ASSUME ChartInv, NEW c \in Calls, NEW base, IsChart(base), NEW records \in Seq(CoaAccount),
         NEW place, Store(c, base, records, place)
  PROVE  /\ IsChart(cached') /\ todo' = [todo EXCEPT ![c] = records] /\ todo'[c] = records
         /\ Goto(c, place)
<1>1. IsChart(ById(records))
  BY ByIdIsChart
<1>2. IsChart(Put(base, ById(records)))
  BY <1>1, MergeIsChart
<1> QED BY <1>2 DEF Store, IsChart, ChartInv, CallsTyped

LEMMA CheckExistInv == ASSUME ChartInv, NEW c \in Calls, CheckExist(c) PROVE ChartInv'
<1>1. pc[c] = "exist" /\ UNCHANGED <<adapter, given, seen, answer, known, stored, ledger, faults>>
  BY DEF CheckExist
<1>2. CASE Goto(c, "failed") /\ UNCHANGED <<todo, cached>>
  <2>1. StoresTyped' /\ Grows
    BY <1>1, <1>2, StoresStay
  <2>2. Moved(c) /\ pc'[c] = "failed"
    BY <1>1, <1>2, GotoMoves DEF Places
  <2> QED BY <1>1, <2>1, <2>2, FailedOK, OneMoves
<1>3. CASE Store(c, cached, Records(c), "insert")
  <2>1. IsChart(cached)
    BY DEF ChartInv, StoresTyped
  <2>2. /\ IsChart(cached') /\ todo' = [todo EXCEPT ![c] = Records(c)]
        /\ todo'[c] = Records(c) /\ Goto(c, "insert")
    BY <1>3, <2>1, RecordsTyped, StoreTyped
  <2>3. StoresTyped' /\ Grows
    BY <1>1, <2>2 DEF ChartInv, StoresTyped, IsChart, Grows
  <2>4. Moved(c) /\ pc'[c] = "insert"
    BY <1>1, <2>2, RecordsTyped, GotoMoves DEF Places, Running, Storing
  <2>5. CreationOK(c)'
    <3>1. CreationOK(c) /\ Plan[c].kind = "create"
      BY <1>1 DEF ChartInv, CreationOK, Creating
    <3>2. Charted(c)' <=> Charted(c)
      BY <1>1 DEF Charted, Items, Id, Record
    <3>3. \A k : Owns(c, k)' <=> Owns(c, k)
      BY <1>1 DEF Owns, Id
    <3> QED BY <1>1, <2>2, <2>4, <3>1, <3>2, <3>3 DEF CreationOK, Creating, Records, Record, Items, Id
  <2> QED BY <2>3, <2>4, <2>5, OneMoves
<1> QED BY <1>2, <1>3 DEF CheckExist

\* Records that are inserted for the first time make the creation charted; those
\* of a second time are there already, and the call fails
LEMMA InsertInv == ASSUME ChartInv, NEW c \in Calls, Insert(c) PROVE ChartInv'
<1>1. /\ pc[c] \in Storing
      /\ UNCHANGED <<adapter, given, seen, answer, known, cached, ledger, faults>>
  BY DEF Insert
<1>2. PICK n \in Insertable(c) :
        /\ stored' = StoredWith(c, n)
        /\ IF n = Len(todo[c])
           THEN Goto(c, AfterInsert(pc[c])) /\ UNCHANGED todo
           ELSE Goto(c, "failed") /\ todo' = [todo EXCEPT ![c] = <<>>]
  BY DEF Insert
<1>3. /\ StoresTyped' /\ Grows
      /\ \A k \in 1..n : todo[c][k].id \in DOMAIN stored' /\ stored'[todo[c][k].id] = todo[c][k]
  BY <1>1, <1>2, InsertGrows DEF ChartInv, StoresTyped, IsChart, Grows
<1>4. CASE n # Len(todo[c])
  <2>1. Moved(c) /\ pc'[c] = "failed"
    <3>1. <<>> \in Seq(CoaAccount) /\ "failed" \in Places
      BY DEF Places
    <3>2. Goto(c, "failed") /\ todo' = [todo EXCEPT ![c] = <<>>]
      BY <1>2, <1>4
    <3> QED BY <1>1, <3>1, <3>2, GotoMoves
  <2> QED BY <1>1, <1>3, <2>1, FailedOK, OneMoves
<1>5. CASE n = Len(todo[c])
  <2>1. CreationOK(c) /\ todo[c] \in Seq(CoaAccount)
    BY DEF ChartInv, CallsTyped, CallTypes
  <2>2. pc[c] # "reinsert"
    <3> SUFFICES ASSUME pc[c] = "reinsert" PROVE FALSE
      OBVIOUS
    <3>1. n = 1 /\ todo[c][1].id \in DOMAIN stored
      BY <1>5, <2>1 DEF CreationOK
    <3> QED BY <3>1 DEF Insertable, IsNew
  <2>3. CASE pc[c] = "insert"
    <3>1. Moved(c) /\ pc'[c] = "openAccounts"
      BY <1>1, <1>2, <1>5, <2>3, GotoMoves DEF AfterInsert, Places, Running
    <3>2. todo[c] = Records(c) /\ todo' = todo /\ n = Len(Plan[c].ids)
      BY <1>2, <1>5, <2>1, <2>3, RecordsTyped, PlanTyped DEF CreationOK
    <3>3. Charted(c)'
      <4>1. \A k \in Items(c) : todo[c][k] = Record(c, k) /\ Record(c, k).id = Id(c, k)
        BY <3>2, RecordsTyped DEF Record
      <4>2. \A k \in Items(c) : Id(c, k) \in DOMAIN stored' /\ stored'[Id(c, k)] = Record(c, k)
        BY <1>3, <3>2, <4>1, PlanTyped
      <4> QED BY <4>2 DEF Charted, Items, Id, Record
    <3>4. \A k : Owns(c, k) => Owns(c, k)'
      BY <1>3 DEF Owns, Grows, Id
    <3>5. CreationOK(c)'
      BY <1>1, <2>1, <2>3, <3>1, <3>2, <3>3, <3>4 DEF CreationOK, Creating, Records, Record, Items, Id
    <3> QED BY <1>3, <3>1, <3>5, OneMoves
  <2>4. CASE pc[c] = "replace"
    <3>1. Moved(c) /\ pc'[c] = "done"
      BY <1>1, <1>2, <1>5, <2>4, GotoMoves DEF AfterInsert, Places
    <3>2. Plan[c].kind # "create"
      BY <2>1, <2>4 DEF CreationOK, Creating, Running, Storing
    <3>3. CreationOK(c)'
      BY <1>1, <1>3, <3>1, <3>2, OthersOK DEF Places, Creating
    <3> QED BY <1>3, <3>1, <3>3, OneMoves
  <2> QED BY <1>1, <2>2, <2>3, <2>4 DEF Storing
<1> QED BY <1>4, <1>5

\* The ledger gives an account that nobody had, or one under an id of its own
LEMMA OpenAccountInv == ASSUME ChartInv, NEW c \in Calls, OpenAccount(c) PROVE ChartInv'
<1>1. PICK k, l :
        /\ k \in Items(c)
        /\ k = Len(given[c]) + 1
        /\ l = IF Id(c, k) \in DOMAIN ledger THEN <<c, k, "attributed">> ELSE Id(c, k)
        /\ \/ pc[c] = "openAccounts"
           \/ pc[c] \in {"failed", "lost"} /\ given[c] # <<>>
        /\ ledger' = Opened(c, {l})
        /\ given' = [given EXCEPT ![c] = Append(@, l)]
        /\ UNCHANGED <<adapter, pc, todo, seen, answer, known, cached, stored, faults>>
  BY DEF OpenAccount
<1>2. /\ CreationOK(c) /\ CallTypes(c) /\ given[c] \in Seq(LedgerIds) /\ DOMAIN given = Calls
      /\ k \in Nat \ {0} /\ k <= Len(Plan[c].ids)
  BY <1>1, PlanTyped DEF ChartInv, CallsTyped, CallTypes
<1>3. l \in LedgerIds
  BY <1>1, <1>2, IdTyped DEF LedgerIds, Attributed
<1>4. /\ given'[c] \in Seq(LedgerIds) /\ Len(given'[c]) = k
      /\ DOMAIN given'[c] = 1..k
      /\ given'[c][k] = l /\ \A j \in 1..(k - 1) : j \in DOMAIN given[c] /\ given'[c][j] = given[c][j]
  <2>1. given'[c] = Append(given[c], l)
    BY <1>1, <1>2
  <2> QED BY <1>1, <1>2, <1>3, <2>1
<1>5. ledger' = Put([x \in {l} |-> c], ledger)
  BY <1>1 DEF Opened
<1>6. StoresTyped' /\ Grows
  BY <1>1, <1>3, <1>5 DEF ChartInv, StoresTyped, IsChart, Grows, Put
<1>7. Moved(c)
  BY <1>1, <1>2, <1>4 DEF Moved, ChartInv, CallsTyped, CallTypes
<1>8. \/ given'[c][k] = Id(c, k) /\ Owns(c, k)'
      \/ given'[c][k] = <<c, k, "attributed">>
  <2>1. CASE Id(c, k) \in DOMAIN ledger
    BY <1>1, <1>4, <2>1
  <2>2. CASE Id(c, k) \notin DOMAIN ledger
    <3>1. l = Id(c, k)
      BY <1>1, <2>2
    <3>2. Id(c, k) \in DOMAIN ledger' /\ ledger'[Id(c, k)] = c
      BY <1>5, <2>2, <3>1 DEF Put
    <3> QED BY <1>4, <3>1, <3>2 DEF Owns, Id
  <2> QED BY <2>1, <2>2
<1>9. CreationOK(c)'
  <2>1. Charted(c)'
    BY <1>1, <1>2 DEF CreationOK, Charted, Items, Id, Record
  <2>2. ASSUME NEW j \in DOMAIN given'[c]
        PROVE  \/ given'[c][j] = Id(c, j) /\ Owns(c, j)'
               \/ given'[c][j] = <<c, j, "attributed">>
    <3>1. j = k \/ j \in 1..(k - 1)
      BY <1>1, <1>2, <1>4
    <3>2. Owns(c, j) => Owns(c, j)'
      BY <1>6 DEF Owns, Grows, Id
    <3> QED BY <1>2, <1>4, <1>8, <3>1, <3>2 DEF CreationOK
  <2>3. pc'[c] # "done" /\ pc'[c] # "reinsert"
    BY <1>1
  <2> QED BY <1>1, <1>2, <2>1, <2>2, <2>3 DEF CreationOK, Records, Record, Items, Id
<1> QED BY <1>6, <1>7, <1>9, OneMoves

\* A creation that is answered owns its accounts
LEMMA CreatedOK ==
  ASSUME ChartInv, NEW c \in Calls, Created(c), pc[c] = "openAccounts", UNCHANGED <<given, seen, known>>,
         StoresTyped', Grows, \A k \in Items(c) : Owns(c, k)'
  PROVE  ChartInv'
<1>1. Moved(c) /\ pc'[c] = "done"
  <2>1. <<>> \in Seq(CoaAccount) /\ {Id(c, k) : k \in Items(c)} \in SUBSET AccountIds
    BY IdTyped
  <2>2. /\ Goto(c, "done") /\ todo' = [todo EXCEPT ![c] = <<>>]
        /\ answer' = [answer EXCEPT ![c] = {Id(c, k) : k \in Items(c)}]
    BY DEF Created
  <2> QED BY <2>1, <2>2, GotoMoves DEF Places
<1>2. CreationOK(c)'
  <2>1. CreationOK(c)
    BY DEF ChartInv
  <2>2. Charted(c)'
    BY <2>1 DEF CreationOK, Grows, Charted, Items, Id, Record
  <2>3. \A k : Owns(c, k) => Owns(c, k)'
    BY DEF Owns, Grows, Id
  <2> QED BY <1>1, <2>1, <2>2, <2>3 DEF CreationOK, Creating, Running, Reading, Storing, Items, Id
<1> QED BY <1>1, <1>2, OneMoves

LEMMA OpenAllInv == ASSUME ChartInv, NEW c \in Calls, OpenAll(c) PROVE ChartInv'
<1> DEFINE ids == {Id(c, k) : k \in Items(c)}
<1>1. /\ pc[c] = "openAccounts" /\ ledger' = Put([l \in ids |-> c], ledger)
      /\ UNCHANGED <<adapter, given, seen, known, cached, stored, faults>>
  BY DEF OpenAll, Opened
<1>2. ids \subseteq LedgerIds
  BY IdTyped DEF LedgerIds
<1>3. StoresTyped' /\ Grows
  BY <1>1, <1>2 DEF ChartInv, StoresTyped, IsChart, Grows, Put
<1>4. CASE ids \cap DOMAIN ledger = {}
  <2>1. Created(c)
    BY <1>4 DEF OpenAll
  <2>2. \A k \in Items(c) : Owns(c, k)'
    BY <1>1, <1>4 DEF Owns, Put, Id
  <2> QED BY <1>1, <1>3, <2>1, <2>2, CreatedOK
<1>5. CASE ids \cap DOMAIN ledger # {}
  <2>1. Goto(c, "failed") /\ UNCHANGED <<todo, answer>>
    BY <1>5 DEF OpenAll
  <2>2. Moved(c) /\ pc'[c] = "failed"
    BY <1>1, <2>1, GotoMoves DEF Places
  <2> QED BY <1>1, <1>3, <2>2, FailedOK, OneMoves
<1> QED BY <1>4, <1>5

\* With every account under its own id the creation is answered; a record that is
\* stored again has an id that is there
LEMMA AccountsOpenedInv == ASSUME ChartInv, NEW c \in Calls, AccountsOpened(c) PROVE ChartInv'
<1>1. /\ pc[c] = "openAccounts" /\ Len(given[c]) = Len(Plan[c].ids)
      /\ UNCHANGED <<adapter, given, seen, known, stored, ledger, faults>>
  BY DEF AccountsOpened
<1>2. /\ CreationOK(c) /\ given[c] \in Seq(LedgerIds) /\ DOMAIN given[c] = Items(c)
      /\ todo[c] = Records(c) /\ Charted(c)
      /\ DOMAIN todo[c] = Items(c) /\ \A k \in Items(c) : todo[c][k] = Record(c, k)
  BY <1>1, PlanTyped, RecordsTyped DEF ChartInv, CallsTyped, CallTypes, CreationOK
<1>3. CASE ToRename(c) = {} /\ Created(c) /\ UNCHANGED cached
  <2>1. StoresTyped' /\ Grows
    BY <1>1, <1>3, StoresStay
  <2>2. ASSUME NEW k \in Items(c) PROVE given[c][k] = Id(c, k)
    <3> SUFFICES ASSUME k \in Renamed(c) PROVE FALSE
      BY DEF Renamed
    <3>1. ASSUME NEW j \in Renamed(c), NEW r \in DOMAIN todo[c]
          PROVE  todo[c][r].ledger # given[c][j]
      <4>1. j \in Items(c) /\ j \in Nat \ {0} /\ given[c][j] = <<c, j, "attributed">>
        BY <1>2, PlanTyped DEF Renamed, CreationOK
      <4>2. r \in Items(c) /\ todo[c][r].ledger = Id(c, r)
        BY <1>2 DEF Record
      <4> QED BY <4>1, <4>2, IdTyped
    <3>2. k \in ToRename(c)
      BY <3>1 DEF ToRename
    <3> QED BY <1>3, <3>2
  <2>3. \A k \in Items(c) : Owns(c, k)
    <3> TAKE k \in Items(c)
    <3>1. Id(c, k) # <<c, k, "attributed">>
      BY IdTyped, PlanTyped
    <3> QED BY <1>2, <2>2, <3>1 DEF CreationOK
  <2>4. \A k \in Items(c) : Owns(c, k)'
    BY <1>1, <2>3 DEF Owns, Id
  <2> QED BY <1>1, <1>3, <2>1, <2>4, CreatedOK
<1>4. CASE \E k \in ToRename(c) :
             /\ Store(c, cached, <<[Record(c, k) EXCEPT !.ledger = given[c][k]]>>, "reinsert")
             /\ UNCHANGED answer
  <2>1. PICK k \in ToRename(c) :
             /\ Store(c, cached, <<[Record(c, k) EXCEPT !.ledger = given[c][k]]>>, "reinsert")
             /\ UNCHANGED answer
    BY <1>4
  <2> DEFINE rec == [Record(c, k) EXCEPT !.ledger = given[c][k]]
  <2>2. k \in Items(c)
    BY DEF ToRename, Renamed
  <2>3. rec \in CoaAccount /\ rec.id = Id(c, k)
    <3>1. given[c][k] \in LedgerIds
      BY <1>2, <2>2
    <3> QED BY <2>2, <3>1, IdTyped, PlanTyped DEF Record, CoaAccount, State
  <2> HIDE DEF rec
  <2>4. <<rec>> \in Seq(CoaAccount) /\ Len(<<rec>>) = 1 /\ <<rec>>[1] = rec
    BY <2>3
  <2>5. Store(c, cached, <<rec>>, "reinsert") /\ UNCHANGED answer
    BY <2>1 DEF rec
  <2>6. IsChart(cached)
    BY DEF ChartInv, StoresTyped
  <2>7. /\ IsChart(cached') /\ todo' = [todo EXCEPT ![c] = <<rec>>]
        /\ todo'[c] = <<rec>> /\ Goto(c, "reinsert")
    BY <2>4, <2>5, <2>6, StoreTyped
  <2>8. StoresTyped' /\ Grows
    BY <1>1, <2>7 DEF ChartInv, StoresTyped, IsChart, Grows
  <2>9. Moved(c) /\ pc'[c] = "reinsert"
    BY <1>1, <2>4, <2>5, <2>7, GotoMoves DEF Places, Running, Storing
  <2>10. CreationOK(c)'
    <3>1. Plan[c].kind = "create"
      BY <1>1, <1>2 DEF CreationOK, Creating
    <3>2. Charted(c)'
      BY <1>1, <1>2 DEF Charted, Items, Id, Record
    <3>3. Len(todo'[c]) = 1 /\ todo'[c][1].id \in DOMAIN stored'
      BY <1>1, <1>2, <2>2, <2>3, <2>4, <2>7 DEF Charted
    <3>4. \A j : Owns(c, j)' <=> Owns(c, j)
      BY <1>1 DEF Owns, Id
    <3> QED BY <1>1, <1>2, <2>9, <3>1, <3>2, <3>3, <3>4 DEF CreationOK, Creating, Items, Id
  <2> QED BY <2>8, <2>9, <2>10, OneMoves
<1> QED BY <1>3, <1>4 DEF AccountsOpened

LEMMA OpenForeignInv == ASSUME ChartInv, NEW i \in Foreign, OpenForeign(i) PROVE ChartInv'
<1>1. /\ i \notin DOMAIN ledger /\ ledger' = Put(ledger, [l \in {i} |-> "foreign"])
      /\ UNCHANGED <<adapter, callVars, cached, stored, faults>>
  BY DEF OpenForeign
<1>2. i \in LedgerIds
  BY ChartAssumption DEF LedgerIds, AccountIds
<1>3. StoresTyped' /\ Grows
  BY <1>1, <1>2 DEF ChartInv, StoresTyped, IsChart, Grows, Put
<1>4. CallsTyped'
  BY <1>1 DEF ChartInv, CallsTyped, CallTypes, callVars
<1>5. ASSUME NEW c \in Calls PROVE CreationOK(c)'
  <2>1. CreationOK(c)
    BY DEF ChartInv
  <2>2. Charted(c)' <=> Charted(c)
    BY <1>1 DEF Charted, Items, Id, Record
  <2>3. \A k : Owns(c, k) => Owns(c, k)'
    BY <1>3 DEF Owns, Grows, Id
  <2> QED BY <1>1, <2>1, <2>2, <2>3 DEF CreationOK, callVars, Records, Record, Items, Id
<1> QED BY <1>3, <1>4, <1>5 DEF ChartInv

\* What a query or a change of state does with the records it found
LEMMA FoundMoves ==
  ASSUME ChartInv, NEW c \in Calls, NEW records \in Seq(CoaAccount), NEW keys, IsChart(keys),
         pc[c] \in {"readCache", "readDb", "readOwner"}, Found(c, records, keys),
         UNCHANGED <<adapter, given, answer, known, stored, ledger, faults>>
  PROVE  ChartInv'
<1>1. Plan[c].kind # "create"
  BY DEF ChartInv, CreationOK, Running, Reading, Creating
<1>2. /\ IsChart(cached') /\ Moved(c) /\ pc'[c] \in Places \ Creating
  <2>1. CASE Query(c, records, keys)
    <3> DEFINE place == IF records = <<>> THEN "done" ELSE "readLedger"
    <3>1. place \in Places \ Creating
      BY DEF Places, Running, Reading, Creating
    <3>2. /\ Goto(c, place) /\ UNCHANGED todo /\ seen' = [seen EXCEPT ![c] = records]
          /\ cached' = keys
      BY <2>1 DEF Query
    <3> HIDE DEF place
    <3>3. Moved(c) /\ pc'[c] = place
      BY <3>1, <3>2, GotoMoves
    <3> QED BY <3>1, <3>2, <3>3 DEF IsChart
  <2>2. CASE Change(c, records, keys)
    <3> DEFINE kind == Plan[c].kind
               changed == [k \in DOMAIN records |-> [records[k] EXCEPT !.state = To(kind)]]
    <3>1. kind \in Changes /\ seen' = [seen EXCEPT ![c] = <<>>]
      BY <2>2 DEF Change
    <3>2. /\ <<>> \in Seq(CoaAccount)
          /\ \A p \in {"replace", "changeLedger", "failed"} : p \in Places \ Creating
      BY DEF Places, Running, Storing, Creating
    <3>3. CASE Store(c, keys, changed, "replace")
      <4>1. To(kind) \in State
        BY <3>1 DEF Changes, To, State
      <4>2. \A k \in DOMAIN records : [records[k] EXCEPT !.state = To(kind)] \in CoaAccount
        <5> TAKE k \in DOMAIN records
        <5>1. records[k] \in CoaAccount
          OBVIOUS
        <5> HIDE DEF kind
        <5> QED BY <4>1, <5>1 DEF CoaAccount
      <4>3. changed \in Seq(CoaAccount)
        <5>1. DOMAIN records = 1..Len(records) /\ Len(records) \in Nat
          OBVIOUS
        <5> QED BY <4>2, <5>1
      <4> HIDE DEF changed, kind
      <4>4. IsChart(cached') /\ todo' = [todo EXCEPT ![c] = changed] /\ Goto(c, "replace")
        BY <3>3, <4>3, StoreTyped
      <4>5. Moved(c) /\ pc'[c] = "replace"
        BY <3>1, <3>2, <4>3, <4>4, GotoMoves
      <4> QED BY <3>2, <4>4, <4>5
    <3>4. CASE ~Store(c, keys, changed, "replace")
      <4>1. PICK place \in {"changeLedger", "failed"} : Goto(c, place) /\ cached' = keys /\ UNCHANGED todo
        BY <2>2, <3>4 DEF Change
      <4>2. Moved(c) /\ pc'[c] = place
        BY <3>1, <3>2, <4>1, GotoMoves
      <4> QED BY <3>2, <4>1, <4>2 DEF IsChart
    <3> QED BY <3>3, <3>4
  <2> QED BY <2>1, <2>2 DEF Found
<1>3. StoresTyped' /\ Grows
  BY <1>2 DEF ChartInv, StoresTyped, IsChart, Grows
<1>4. CreationOK(c)'
  BY <1>1, <1>2, <1>3, OthersOK
<1> QED BY <1>2, <1>3, <1>4, OneMoves

LEMMA ReadCacheInv == ASSUME ChartInv, NEW c \in Calls, ReadCache(c) PROVE ChartInv'
<1>1. PICK hits \in SetToSeqs(Hits(c)) :
        IF Wanted(c) \subseteq DOMAIN cached
        THEN Found(c, InRedis(c, hits), cached)
        ELSE /\ seen' = [seen EXCEPT ![c] = InRedis(c, hits)]
             /\ Goto(c, "readDb")
             /\ UNCHANGED <<todo, cached>>
  BY DEF ReadCache
<1>2. /\ pc[c] = "readCache" /\ InRedis(c, hits) \in Seq(CoaAccount) /\ IsChart(cached)
      /\ UNCHANGED <<adapter, given, answer, known, stored, ledger, faults>>
  BY InRedisTyped DEF ReadCache, ChartInv, StoresTyped
<1>3. CASE Wanted(c) \subseteq DOMAIN cached
  BY <1>1, <1>2, <1>3, FoundMoves
<1>4. CASE ~(Wanted(c) \subseteq DOMAIN cached)
  <2>1. Moved(c) /\ pc'[c] = "readDb"
    BY <1>1, <1>2, <1>4, GotoMoves DEF Places, Running, Reading
  <2>2. StoresTyped' /\ Grows
    BY <1>1, <1>2, <1>4, StoresStay
  <2>3. Plan[c].kind # "create"
    BY <1>2 DEF ChartInv, CreationOK, Running, Reading, Creating
  <2>4. CreationOK(c)'
    BY <1>2, <2>1, <2>2, <2>3, OthersOK DEF Places, Running, Reading, Creating
  <2> QED BY <2>1, <2>2, <2>4, OneMoves
<1> QED BY <1>3, <1>4

\* What is found in the collection is set in Redis
LEMMA FoundInDb ==
  ASSUME ChartInv, NEW c \in Calls, pc[c] \in {"readDb", "readOwner"},
         NEW docs \in Seq(CoaAccount), NEW records \in Seq(CoaAccount),
         Found(c, records, Put(cached, ById(docs))),
         UNCHANGED <<adapter, given, answer, known, stored, ledger, faults>>
  PROVE  ChartInv'
<1>1. IsChart(Put(cached, ById(docs)))
  BY ByIdIsChart, MergeIsChart DEF ChartInv, StoresTyped
<1> QED BY <1>1, FoundMoves

LEMMA ReadDbInv == ASSUME ChartInv, NEW c \in Calls, ReadDb(c) PROVE ChartInv'
<1> DEFINE S == {stored[i] : i \in (Wanted(c) \ IdsOf(seen[c])) \cap DOMAIN stored}
<1>1. PICK docs \in SetToSeqs(S) : Found(c, seen[c] \o docs, Put(cached, ById(docs)))
  BY DEF ReadDb
<1>2. docs \in Seq(CoaAccount)
  BY DocsTyped
<1>3. seen[c] \o docs \in Seq(CoaAccount)
  BY <1>2 DEF ChartInv, CallsTyped, CallTypes
<1> QED BY <1>1, <1>2, <1>3, FoundInDb DEF ReadDb

LEMMA ReadOwnerInv == ASSUME ChartInv, NEW c \in Calls, ReadOwner(c) PROVE ChartInv'
<1> DEFINE S == {stored[i] : i \in {j \in DOMAIN stored : stored[j].owner = Plan[c].owner}}
<1>1. PICK docs \in SetToSeqs(S) : Found(c, docs, Put(cached, ById(docs)))
  BY DEF ReadOwner
<1>2. docs \in Seq(CoaAccount)
  BY DocsTyped
<1> QED BY <1>1, <1>2, FoundInDb DEF ReadOwner

LEMMA ReadLedgerInv == ASSUME ChartInv, NEW c \in Calls, ReadLedger(c) PROVE ChartInv'
<1> DEFINE A == {seen[c][k].id : k \in {j \in DOMAIN seen[c] : seen[c][j].ledger \in DOMAIN ledger}}
<1>1. /\ pc[c] = "readLedger" /\ answer' = [answer EXCEPT ![c] = A]
      /\ seen' = [seen EXCEPT ![c] = <<>>] /\ Goto(c, "done")
      /\ UNCHANGED <<adapter, todo, given, known, cached, stored, ledger, faults>>
  BY DEF ReadLedger
<1>2. A \in SUBSET AccountIds /\ <<>> \in Seq(CoaAccount)
  <2>1. \A k \in DOMAIN seen[c] : seen[c][k] \in CoaAccount
    BY DEF ChartInv, CallsTyped, CallTypes
  <2>2. \A k \in DOMAIN seen[c] : seen[c][k].id \in AccountIds
    BY <2>1 DEF CoaAccount
  <2> QED BY <2>2
<1> HIDE DEF A
<1>3. Moved(c) /\ pc'[c] = "done"
  BY <1>1, <1>2, GotoMoves DEF Places
<1>4. StoresTyped' /\ Grows
  BY <1>1, StoresStay
<1>5. Plan[c].kind # "create"
  BY <1>1 DEF ChartInv, CreationOK, Running, Reading, Creating
<1>6. CreationOK(c)'
  BY <1>1, <1>3, <1>4, <1>5, OthersOK DEF Places, Creating
<1> QED BY <1>3, <1>4, <1>6, OneMoves

LEMMA ChangeLedgerInv == ASSUME ChartInv, NEW c \in Calls, ChangeLedger(c) PROVE ChartInv'
<1>1. Moved(c) /\ pc'[c] = "failed"
  BY GotoMoves DEF ChangeLedger, Places
<1>2. StoresTyped' /\ Grows
  BY StoresStay DEF ChangeLedger
<1> QED BY <1>1, <1>2, FailedOK, OneMoves DEF ChangeLedger

LEMMA RejectsInv == ASSUME ChartInv, NEW c \in Calls, Rejects(c) PROVE ChartInv'
<1>1. /\ Grows /\ IsChart(stored') /\ IsFiniteSet(DOMAIN stored') /\ DOMAIN ledger' \subseteq LedgerIds
  BY PartlyGrows DEF Rejects
<1>2. <<>> \in Seq(CoaAccount)
  OBVIOUS
<1>3. Moved(c) /\ pc'[c] = "failed"
  BY <1>2, GotoMoves DEF Rejects, Places
<1>4. StoresTyped'
  BY <1>1, ChartAssumption DEF Rejects, ChartInv, StoresTyped, IsChart
<1>5. CreationOK(c)'
  BY <1>1, <1>3, FailedOK DEF Rejects
<1> QED BY <1>1, <1>3, <1>4, <1>5, OneMoves

LEMMA RestartInv == ASSUME ChartInv, Restart PROVE ChartInv'
<1>1. /\ Grows /\ IsChart(stored') /\ IsFiniteSet(DOMAIN stored') /\ DOMAIN ledger' \subseteq LedgerIds
  BY PartlyGrows DEF Restart
<1>2. /\ pc' = [c \in Calls |-> IF pc[c] \in Running THEN "lost" ELSE pc[c]]
      /\ todo' = [c \in Calls |-> <<>>] /\ seen' = [c \in Calls |-> <<>>]
      /\ UNCHANGED <<adapter, given, answer, known, cached>>
  BY DEF Restart
<1>3. StoresTyped'
  BY <1>1, ChartAssumption DEF Restart, ChartInv, StoresTyped, IsChart
<1>4. CallsTyped'
  <2>1. <<>> \in Seq(CoaAccount)
    OBVIOUS
  <2> QED BY <1>2, <2>1 DEF ChartInv, CallsTyped, CallTypes, Places
<1>5. ASSUME NEW c \in Calls PROVE CreationOK(c)'
  <2>1. CreationOK(c) /\ pc \in [Calls -> Places]
    BY DEF ChartInv, CallsTyped
  <2>2. Charted(c) => Charted(c)'
    BY <1>1 DEF Grows, Charted, Items, Id, Record
  <2>3. \A k : Owns(c, k) => Owns(c, k)'
    BY <1>1 DEF Owns, Grows, Id
  <2>4. pc'[c] \notin Running /\ pc'[c] \notin Creating
        /\ (pc'[c] = "done" => pc[c] = "done")
    BY <1>2 DEF Running, Reading, Storing, Creating
  <2> QED BY <1>2, <2>1, <2>2, <2>3, <2>4 DEF CreationOK, Creating, Id, Items
<1> QED BY <1>3, <1>4, <1>5 DEF ChartInv

LEMMA CallsStay ==
  ASSUME ChartInv, UNCHANGED <<callVars, stored, ledger>>, StoresTyped'
  PROVE  ChartInv'
<1>1. CallsTyped'
  BY DEF ChartInv, CallsTyped, CallTypes, callVars
<1>2. ASSUME NEW c \in Calls PROVE CreationOK(c)'
  <2>1. CreationOK(c)
    BY DEF ChartInv
  <2>2. Charted(c)' <=> Charted(c)
    BY DEF Charted, Items, Id, Record
  <2>3. \A k : Owns(c, k)' <=> Owns(c, k)
    BY DEF Owns, Id
  <2> QED BY <2>1, <2>2, <2>3 DEF CreationOK, callVars, Records, Record, Items, Id
<1> QED BY <1>1, <1>2 DEF ChartInv

LEMMA EvictInv == ASSUME ChartInv, NEW i, Evict(i) PROVE ChartInv'
<1>1. StoresTyped'
  BY ChartAssumption DEF Evict, ChartInv, StoresTyped, IsChart
<1> QED BY <1>1, CallsStay DEF Evict

-----------------------------------------------------------------------------
LEMMA ChartInitInv == ChartInit => ChartInv
<1> SUFFICES ASSUME ChartInit PROVE ChartInv
  OBVIOUS
<1>1. /\ <<>> \in Seq(CoaAccount) /\ <<>> \in Seq(LedgerIds) /\ Len(<<>>) = 0
      /\ DOMAIN <<>> = {} /\ IsFiniteSet({})
  BY FS_EmptySet
<1>2. CallsTyped
  BY <1>1, PlanTyped DEF ChartInit, CallsTyped, CallTypes, Places
<1>3. StoresTyped
  BY <1>1, ChartAssumption DEF ChartInit, StoresTyped, IsChart
<1>4. \A c \in Calls : CreationOK(c)
  BY <1>1 DEF ChartInit, CreationOK, Creating, Running, Reading, Storing
<1> QED BY <1>2, <1>3, <1>4 DEF ChartInv

\* The invariant holds for any calls, ids, ledgers and numbers of failures.
THEOREM ChartInvariant == ChartSpec => []ChartInv
<1>1. ASSUME ChartInv, [ChartNext]_chartVars PROVE ChartInv'
  <2>1. CASE \E c \in Calls : Begin(c) \/ CheckExist(c) \/ Insert(c) \/ OpenAccount(c)
    BY <1>1, <2>1, BeginInv, CheckExistInv, InsertInv, OpenAccountInv
  <2>2. CASE \E c \in Calls : OpenAll(c) \/ AccountsOpened(c) \/ ReadCache(c) \/ ReadDb(c)
    BY <1>1, <2>2, OpenAllInv, AccountsOpenedInv, ReadCacheInv, ReadDbInv
  <2>3. CASE \E c \in Calls : ReadOwner(c) \/ ReadLedger(c) \/ ChangeLedger(c) \/ Rejects(c)
    BY <1>1, <2>3, ReadOwnerInv, ReadLedgerInv, ChangeLedgerInv, RejectsInv
  <2>4. CASE \E i \in Foreign : OpenForeign(i)
    BY <1>1, <2>4, OpenForeignInv
  <2>5. CASE \E i \in DOMAIN cached : Evict(i)
    BY <1>1, <2>5, EvictInv
  <2>6. CASE Restart
    BY <1>1, <2>6, RestartInv
  <2>7. CASE UNCHANGED chartVars
    <3>1. StoresTyped'
      BY <1>1, <2>7, StoresStay DEF chartVars
    <3> QED BY <1>1, <2>7, <3>1, CallsStay DEF chartVars
  <2> QED BY <1>1, <2>1, <2>2, <2>3, <2>4, <2>5, <2>6, <2>7 DEF ChartNext
<1> QED BY <1>1, ChartInitInv, PTL DEF ChartSpec

\* Keys and documents are records of the account they are found by, and the calls'
\* variables keep their types.
THEOREM ChartTypeCorrect == ChartSpec => []ChartTypeOK
<1>1. ASSUME ChartInv PROVE ChartTypeOK
  <2>1. \A c \in Calls : \A r \in Range(todo[c]) \cup Range(seen[c]) : r \in CoaAccount
    BY <1>1 DEF ChartInv, CallsTyped, CallTypes, Range
  <2> QED BY <1>1, <2>1 DEF ChartInv, CallsTyped, CallTypes, StoresTyped, IsChart, ChartTypeOK, Places
<1> QED BY <1>1, ChartInvariant, PTL

\* Of the calls that ask for one account id at most one is answered, and it is the
\* owner of the record and of the ledger account.
THEOREM AnsweredAccountsOwned == ChartSpec => []AckedOwned
<1>1. ASSUME ChartInv PROVE AckedOwned
  <2> SUFFICES ASSUME NEW c \in Calls, pc[c] = "done", Plan[c].kind = "create"
               PROVE  Charted(c) /\ \A k \in Items(c) : Owns(c, k)
    BY DEF AckedOwned, RecordKept, Charted, Owns
  <2> QED BY <1>1 DEF ChartInv, CreationOK
<1> QED BY <1>1, ChartInvariant, PTL

-----------------------------------------------------------------------------
(* That an answered account is found: the strengthening of AckedFound *)

\* The ledger account that a record names has the record's id, or is there
Named(f) == \A x \in DOMAIN f : f[x].ledger = f[x].id \/ f[x].ledger \in DOMAIN ledger

\* The accounts that query c must find
ToFind(c) ==
  CASE Plan[c].kind = "get" -> Wanted(c) \cap known[c]
    [] Plan[c].kind = "getByOwner" -> {i \in known[c] : stored[i].owner = Plan[c].owner}
    [] OTHER -> {}

FindOK(c) ==
  /\ known[c] \subseteq DOMAIN ledger \cap DOMAIN stored
  /\ \A k \in DOMAIN given[c] : given[c][k] \in DOMAIN ledger
  /\ Named(todo[c]) /\ Named(seen[c])
  /\ pc[c] \in {"readCache", "readDb"} => Plan[c].kind # "getByOwner"
  /\ pc[c] = "readOwner" => Plan[c].kind = "getByOwner"
  /\ pc[c] = "replace" => Plan[c].kind \notin {"get", "getByOwner"}
  /\ pc[c] = "readLedger" => ToFind(c) \subseteq IdsOf(seen[c])
  /\ pc[c] = "done" => ToFind(c) \subseteq answer[c]

FindInv == Named(cached) /\ Named(stored) /\ \A c \in Calls : FindOK(c)

\* A set's elements in some order: all of them are there
LEMMA Onto ==
  ASSUME NEW S, IsFiniteSet(S), NEW f \in SetToSeqs(S)
  PROVE  /\ Cardinality(S) \in Nat /\ f \in [1..Cardinality(S) -> S]
         /\ \A x \in S : \E n \in DOMAIN f : f[n] = x
<1>1. Cardinality(S) \in Nat
  BY FS_CardinalityType
<1>2. f \in Injection(1..Cardinality(S), S)
  BY DEF SetToSeqs, Injection, IsInjective
<1>3. Cardinality(1..Cardinality(S)) = Cardinality(S)
  BY <1>1, FS_Interval
<1>4. f \in Surjection(1..Cardinality(S), S)
  BY <1>2, <1>3, FS_Injection
<1> QED BY <1>1, <1>4 DEF Surjection

LEMMA NamedById ==
  ASSUME NEW records \in Seq(CoaAccount), Named(records)
  PROVE  Named(ById(records))
<1>1. /\ DOMAIN ById(records) = {records[k].id : k \in DOMAIN records}
      /\ \A i \in DOMAIN ById(records) :
           \E k \in DOMAIN records : records[k].id = i /\ ById(records)[i] = records[k]
  BY ByIdPicks
<1> QED BY <1>1 DEF Named

LEMMA NamedPut ==
  ASSUME NEW f, NEW g, Named(f), Named(g)
  PROVE  Named(Put(f, g))
  BY DEF Named, Put

\* Nothing is taken out of collection and ledger
LEMMA StepGrows == ASSUME ChartInv, [ChartNext]_chartVars PROVE Grows
<1>1. ASSUME NEW c \in Calls, Insert(c) PROVE Grows
  BY <1>1, InsertGrows DEF Insert, Grows
<1>2. ASSUME NEW c \in Calls, OpenAccount(c) \/ OpenAll(c) PROVE Grows
  BY <1>2 DEF OpenAccount, OpenAll, Opened, Put, Grows
<1>3. ASSUME NEW i \in Foreign, OpenForeign(i) PROVE Grows
  BY <1>3 DEF OpenForeign, Put, Grows
<1>4. ASSUME NEW c \in Calls, Rejects(c) PROVE Grows
  BY <1>4, PartlyGrows DEF Rejects
<1>5. ASSUME Restart PROVE Grows
  BY <1>5, PartlyGrows DEF Restart
<1>6. ASSUME UNCHANGED <<stored, ledger>> PROVE Grows
  BY <1>6 DEF Grows
<1>7. ASSUME NEW c \in Calls, Begin(c) \/ CheckExist(c) \/ AccountsOpened(c) \/ ReadCache(c) \/ ReadDb(c)
                              \/ ReadOwner(c) \/ ReadLedger(c) \/ ChangeLedger(c)
      PROVE  Grows
  BY <1>6, <1>7 DEF Begin, CheckExist, AccountsOpened, ReadCache, ReadDb, ReadOwner, ReadLedger, ChangeLedger
<1>8. ASSUME NEW i \in DOMAIN cached, Evict(i) PROVE Grows
  BY <1>6, <1>8 DEF Evict
<1>9. ASSUME UNCHANGED chartVars PROVE Grows
  BY <1>6, <1>9 DEF chartVars
<1> QED BY <1>1, <1>2, <1>3, <1>4, <1>5, <1>7, <1>8, <1>9 DEF ChartNext

\* What is found stays so while the stores grow
LEMMA FindStays ==
  ASSUME FindInv, Grows, NEW d \in Calls,
         pc'[d] = pc[d], todo'[d] = todo[d], given'[d] = given[d],
         seen'[d] = seen[d], answer'[d] = answer[d], known'[d] = known[d]
  PROVE  FindOK(d)'
<1>1. FindOK(d)
  BY DEF FindInv
<1>2. known'[d] \subseteq DOMAIN ledger' \cap DOMAIN stored'
  BY <1>1 DEF FindOK, Grows
<1>3. ToFind(d)' = ToFind(d)
  <2>1. \A i \in known[d] : stored'[i] = stored[i]
    BY <1>1 DEF FindOK, Grows
  <2> QED BY <2>1 DEF ToFind, Wanted, Items
<1>4. Named(todo[d])' /\ Named(seen[d])'
  BY <1>1 DEF FindOK, Named, Grows
<1>5. \A k \in DOMAIN given'[d] : given'[d][k] \in DOMAIN ledger'
  BY <1>1 DEF FindOK, Grows
<1> QED BY <1>1, <1>2, <1>3, <1>4, <1>5 DEF FindOK, IdsOf

\* The calls other than c are where they were
OthersStay(c) ==
  \A d \in Calls \ {c} :
    /\ pc'[d] = pc[d] /\ todo'[d] = todo[d] /\ given'[d] = given[d]
    /\ seen'[d] = seen[d] /\ answer'[d] = answer[d] /\ known'[d] = known[d]

LEMMA OneFinds ==
  ASSUME FindInv, Grows, NEW c \in Calls, OthersStay(c), FindOK(c)', Named(cached)', Named(stored)'
  PROVE  FindInv'
<1>1. ASSUME NEW d \in Calls, d # c PROVE FindOK(d)'
  BY <1>1, FindStays DEF OthersStay
<1> QED BY <1>1 DEF FindInv

LEMMA NamedStays ==
  ASSUME NEW f, Named(f), Grows
  PROVE  \A x \in DOMAIN f : f[x].ledger = f[x].id \/ f[x].ledger \in DOMAIN ledger'
  BY DEF Named, Grows

\* Inserted records are those that the call holds
LEMMA InsertNamed ==
  ASSUME ChartInv, FindInv, Grows, NEW c \in Calls, NEW n \in Insertable(c), stored' = StoredWith(c, n)
  PROVE  Named(stored)'
<1> DEFINE new == SubSeq(todo[c], 1, n)
<1>1. todo[c] \in Seq(CoaAccount) /\ n \in 0..Len(todo[c])
  BY DEF ChartInv, CallsTyped, CallTypes, Insertable
<1>2. new \in Seq(CoaAccount) /\ DOMAIN new = 1..n /\ \A k \in 1..n : k \in DOMAIN todo[c] /\ new[k] = todo[c][k]
  BY <1>1
<1>3. Named(new)
  BY <1>2 DEF FindInv, FindOK, Named
<1>4. Named(Put(stored, ById(new)))
  <2> HIDE DEF new
  <2> QED BY <1>2, <1>3, NamedById, NamedPut DEF FindInv
<1>5. stored' = Put(stored, ById(new))
  BY DEF StoredWith
<1> QED BY <1>4, <1>5, NamedStays DEF Named

LEMMA PartlyNamed ==
  ASSUME ChartInv, FindInv, Grows, NEW c \in Calls, Partly(c)
  PROVE  Named(stored)'
<1>1. CASE \E n \in Insertable(c) : stored' = StoredWith(c, n)
  BY <1>1, InsertNamed
<1>2. CASE UNCHANGED stored
  BY <1>2 DEF FindInv, Named, Grows
<1> QED BY <1>1, <1>2 DEF Partly

\* A call that is not a query that ends has nothing to find
LEMMA NothingToFind ==
  ASSUME FindInv, Grows, NEW c \in Calls, UNCHANGED <<given, known>>,
         Named(todo[c])', Named(seen[c])',
         pc'[c] \notin {"readCache", "readDb", "readOwner", "readLedger"},
         pc'[c] \in {"replace", "done"} => Plan[c].kind \notin {"get", "getByOwner"}
  PROVE  FindOK(c)'
<1>1. FindOK(c)
  BY DEF FindInv
<1>2. known'[c] \subseteq DOMAIN ledger' \cap DOMAIN stored'
  BY <1>1 DEF FindOK, Grows
<1>3. \A k \in DOMAIN given'[c] : given'[c][k] \in DOMAIN ledger'
  BY <1>1 DEF FindOK, Grows
<1>4. pc'[c] = "done" => ToFind(c)' = {}
  BY DEF ToFind
<1> QED BY <1>2, <1>3, <1>4 DEF FindOK

LEMMA NamedEmpty == DOMAIN <<>> = {} /\ <<>> \in Seq(CoaAccount)
  OBVIOUS

\* An account that call c opens in a step, with its records stored, is explained
LEMMA OpensCharted ==
  ASSUME Grows, NEW c \in Calls, Charted(c), LedgerCharted,
         \A l \in DOMAIN ledger' \ DOMAIN ledger :
           ledger'[l] \in Calls => ledger'[l] = c /\ \E k \in Items(c) : OpenedFor(c, k, l)
  PROVE  LedgerCharted'
<1> SUFFICES ASSUME NEW d \in Calls, NEW l \in DOMAIN ledger', ledger'[l] = d
             PROVE  \E k \in Items(d) : OpenedFor(d, k, l) /\ RecordKept(d, k)'
  BY DEF LedgerCharted, RecordKept, OpenedFor, Items, Id, Record
<1>0. ASSUME NEW k, RecordKept(d, k) PROVE RecordKept(d, k)'
  BY <1>0 DEF RecordKept, Grows, Id, Record
<1>1. CASE l \in DOMAIN ledger
  <2>1. ledger'[l] = ledger[l]
    BY <1>1 DEF Grows
  <2>2. PICK k \in Items(ledger[l]) : OpenedFor(ledger[l], k, l) /\ RecordKept(ledger[l], k)
    BY <1>1, <2>1 DEF LedgerCharted
  <2> QED BY <1>0, <2>1, <2>2
<1>2. CASE l \notin DOMAIN ledger
  <2>1. ledger'[l] = c
    BY <1>2
  <2>2. PICK k \in Items(c) : OpenedFor(c, k, l)
    BY <1>2
  <2>3. RecordKept(d, k)'
    BY <1>0, <2>1 DEF Charted, RecordKept
  <2> QED BY <2>1, <2>2, <2>3
<1> QED BY <1>1, <1>2

\* A step that opens none leaves them explained
LEMMA NoneOpened ==
  ASSUME Grows, LedgerCharted, \A l \in DOMAIN ledger' : l \in DOMAIN ledger \/ ledger'[l] \notin Calls
  PROVE  LedgerCharted'
<1> SUFFICES ASSUME NEW d \in Calls, NEW l \in DOMAIN ledger', ledger'[l] = d
             PROVE  \E k \in Items(d) : OpenedFor(d, k, l) /\ RecordKept(d, k)'
  BY DEF LedgerCharted, RecordKept, OpenedFor, Items, Id, Record
<1>0. ASSUME NEW k, RecordKept(d, k) PROVE RecordKept(d, k)'
  BY <1>0 DEF RecordKept, Grows, Id, Record
<1>1. l \in DOMAIN ledger /\ ledger'[l] = ledger[l]
  BY DEF Grows
<1>2. PICK k \in Items(ledger[l]) : OpenedFor(ledger[l], k, l) /\ RecordKept(ledger[l], k)
  BY <1>1 DEF LedgerCharted
<1> QED BY <1>0, <1>1, <1>2

LEMMA PartlyCharted ==
  ASSUME ChartInv, LedgerCharted, Grows, NEW c \in Calls, Partly(c)
  PROVE  LedgerCharted'
<1>1. CASE UNCHANGED ledger
  BY <1>1, NoneOpened
<1>2. CASE ~UNCHANGED ledger
  <2>1. pc[c] = "openAccounts" /\ ledger' = Opened(c, {Id(c, k) : k \in Items(c)})
    BY <1>2 DEF Partly
  <2>2. Charted(c)
    BY <2>1 DEF ChartInv, CreationOK
  <2>3. \A l \in DOMAIN ledger' \ DOMAIN ledger :
          ledger'[l] = c /\ \E k \in Items(c) : OpenedFor(c, k, l)
    BY <2>1 DEF Opened, Put, OpenedFor
  <2> QED BY <2>2, <2>3, OpensCharted
<1> QED BY <1>1, <1>2

\* Whatever fails or is restarted, and whichever ledger is used, no account that a
\* creation opened in it is without the creation's record in the chart.
THEOREM LedgerAlwaysCharted == ChartSpec => []LedgerCharted
<1>1. ChartInit => LedgerCharted
  BY NamedEmpty DEF ChartInit, LedgerCharted
<1>2. ChartInv /\ LedgerCharted /\ [ChartNext]_chartVars => LedgerCharted'
  <2> SUFFICES ASSUME ChartInv, LedgerCharted, [ChartNext]_chartVars PROVE LedgerCharted'
    OBVIOUS
  <2>1. Grows
    BY StepGrows
  <2>2. ASSUME NEW c \in Calls, OpenAccount(c) PROVE LedgerCharted'
    <3> DEFINE k == Len(given[c]) + 1
               l == IF Id(c, k) \in DOMAIN ledger THEN <<c, k, "attributed">> ELSE Id(c, k)
    <3>1. k \in Items(c) /\ ledger' = Opened(c, {l}) /\ (pc[c] = "openAccounts" \/ given[c] # <<>>)
      BY <2>2 DEF OpenAccount
    <3>2. Charted(c)
      BY <3>1 DEF ChartInv, CreationOK
    <3>3. OpenedFor(c, k, l)
      BY DEF OpenedFor
    <3> HIDE DEF k, l
    <3>4. \A m \in DOMAIN ledger' \ DOMAIN ledger : m = l /\ ledger'[m] = c
      BY <3>1 DEF Opened, Put
    <3> QED BY <2>1, <3>1, <3>2, <3>3, <3>4, OpensCharted
  <2>3. ASSUME NEW c \in Calls, OpenAll(c) PROVE LedgerCharted'
    <3>1. pc[c] = "openAccounts" /\ ledger' = Opened(c, {Id(c, k) : k \in Items(c)})
      BY <2>3 DEF OpenAll
    <3>2. Charted(c)
      BY <3>1 DEF ChartInv, CreationOK
    <3>3. \A m \in DOMAIN ledger' \ DOMAIN ledger :
            ledger'[m] = c /\ \E k \in Items(c) : OpenedFor(c, k, m)
      BY <3>1 DEF Opened, Put, OpenedFor
    <3> QED BY <2>1, <3>2, <3>3, OpensCharted
  <2>4. ASSUME NEW i \in Foreign, OpenForeign(i) PROVE LedgerCharted'
    <3>1. ledger' = Put(ledger, [l \in {i} |-> "foreign"])
      BY <2>4 DEF OpenForeign
    <3>2. \A l \in DOMAIN ledger' : l \in DOMAIN ledger \/ ledger'[l] \notin Calls
      BY <3>1, ForeignAssumption DEF Put
    <3> QED BY <2>1, <3>2, NoneOpened
  <2>5. ASSUME NEW c \in Calls, Partly(c) PROVE LedgerCharted'
    BY <2>1, <2>5, PartlyCharted
  <2>6. ASSUME UNCHANGED ledger PROVE LedgerCharted'
    BY <2>1, <2>6, NoneOpened
  <2>7. CASE \E c \in Calls : OpenAccount(c) \/ OpenAll(c)
    BY <2>2, <2>3, <2>7
  <2>8. CASE \E i \in Foreign : OpenForeign(i)
    BY <2>4, <2>8
  <2>9. CASE Restart \/ \E c \in Calls : Rejects(c)
    BY <2>5, <2>9 DEF Restart, Rejects
  <2>10. CASE \/ \E c \in Calls : Begin(c) \/ CheckExist(c) \/ Insert(c) \/ AccountsOpened(c)
              \/ \E c \in Calls : ReadCache(c) \/ ReadDb(c) \/ ReadOwner(c) \/ ReadLedger(c) \/ ChangeLedger(c)
              \/ \E i \in DOMAIN cached : Evict(i)
              \/ UNCHANGED chartVars
    <3>1. UNCHANGED ledger
      BY <2>10 DEF Begin, CheckExist, Insert, AccountsOpened, ReadCache, ReadDb, ReadOwner, ReadLedger,
                   ChangeLedger, Evict, chartVars
    <3> QED BY <2>6, <3>1
  <2> QED BY <2>7, <2>8, <2>9, <2>10 DEF ChartNext
<1> QED BY <1>1, <1>2, ChartInvariant, PTL DEF ChartSpec

LEMMA CallDomains ==
  ASSUME ChartInv
  PROVE  /\ DOMAIN pc = Calls /\ DOMAIN todo = Calls /\ DOMAIN given = Calls
         /\ DOMAIN seen = Calls /\ DOMAIN answer = Calls /\ DOMAIN known = Calls
  BY DEF ChartInv, CallsTyped

\* Every action of a call leaves the other calls alone
LEMMA OneActs ==
  ASSUME ChartInv, NEW c \in Calls,
         \/ Begin(c) \/ CheckExist(c) \/ Insert(c) \/ OpenAccount(c) \/ OpenAll(c) \/ AccountsOpened(c)
         \/ ReadCache(c) \/ ReadDb(c) \/ ReadOwner(c) \/ ReadLedger(c) \/ ChangeLedger(c) \/ Rejects(c)
  PROVE  OthersStay(c)
<1>1. ASSUME Begin(c) PROVE OthersStay(c)
  BY <1>1, CallDomains DEF Begin, Goto, OthersStay
<1>2. ASSUME CheckExist(c) PROVE OthersStay(c)
  BY <1>2, CallDomains DEF CheckExist, Store, Goto, OthersStay
<1>3. ASSUME Insert(c) PROVE OthersStay(c)
  BY <1>3, CallDomains DEF Insert, Goto, OthersStay
<1>4. ASSUME OpenAccount(c) PROVE OthersStay(c)
  BY <1>4, CallDomains DEF OpenAccount, OthersStay
<1>5. ASSUME OpenAll(c) PROVE OthersStay(c)
  BY <1>5, CallDomains DEF OpenAll, Created, Goto, OthersStay
<1>6. ASSUME AccountsOpened(c) PROVE OthersStay(c)
  BY <1>6, CallDomains DEF AccountsOpened, Created, Store, Goto, OthersStay
<1>7. ASSUME NEW records, NEW keys, Found(c, records, keys), UNCHANGED <<given, answer, known>>
      PROVE  OthersStay(c)
  BY <1>7, CallDomains DEF Found, Query, Change, Store, Goto, OthersStay
<1>8. ASSUME ReadCache(c) PROVE OthersStay(c)
  <2>1. UNCHANGED <<given, answer, known>>
    BY <1>8 DEF ReadCache
  <2>2. CASE \E hits : Found(c, InRedis(c, hits), cached)
    BY <1>7, <2>1, <2>2
  <2>3. CASE \E hits : /\ seen' = [seen EXCEPT ![c] = InRedis(c, hits)]
                       /\ Goto(c, "readDb") /\ UNCHANGED <<todo, cached>>
    BY <2>1, <2>3, CallDomains DEF Goto, OthersStay
  <2> QED BY <1>8, <2>2, <2>3 DEF ReadCache
<1>9. ASSUME ReadDb(c) PROVE OthersStay(c)
  BY <1>7, <1>9 DEF ReadDb
<1>10. ASSUME ReadOwner(c) PROVE OthersStay(c)
  BY <1>7, <1>10 DEF ReadOwner
<1>11. ASSUME ReadLedger(c) \/ ChangeLedger(c) \/ Rejects(c) PROVE OthersStay(c)
  BY <1>11, CallDomains DEF ReadLedger, ChangeLedger, Rejects, Goto, OthersStay
<1> QED BY <1>1, <1>2, <1>3, <1>4, <1>5, <1>6, <1>8, <1>9, <1>10, <1>11

LEMMA BeginFinds == ASSUME ChartInv, FindInv, Grows, NEW c \in Calls, Begin(c) PROVE FindInv'
<1>1. /\ UNCHANGED <<todo, given, seen, cached, stored, ledger>>
      /\ pc'[c] \notin {"readLedger", "replace", "done"}
      /\ pc'[c] \in {"readCache", "readDb"} => Plan[c].kind # "getByOwner"
      /\ pc'[c] = "readOwner" => Plan[c].kind = "getByOwner"
      /\ known'[c] \in {Acked, {}}
  BY CallDomains DEF Begin, Goto
<1>2. Acked \subseteq DOMAIN ledger \cap DOMAIN stored
  <2> SUFFICES ASSUME NEW d \in Calls, pc[d] = "done", Plan[d].kind = "create", NEW k \in Items(d)
               PROVE  Id(d, k) \in DOMAIN ledger \cap DOMAIN stored
    BY DEF Acked
  <2> QED BY DEF ChartInv, CreationOK, Charted, Owns
<1>3. FindOK(c)'
  BY <1>1, <1>2 DEF FindInv, FindOK, Named
<1> QED BY <1>1, <1>3, OneActs, OneFinds DEF FindInv, Named

LEMMA RecordsNamed == ASSUME NEW c \in Calls PROVE Named(Records(c))
<1>1. \A k \in DOMAIN Records(c) : Records(c)[k].ledger = Records(c)[k].id
  <2>1. DOMAIN Records(c) = Items(c) /\ \A k \in Items(c) : Records(c)[k] = Record(c, k)
    BY RecordsTyped
  <2> QED BY <2>1 DEF Record
<1> QED BY <1>1 DEF Named

LEMMA CheckExistFinds == ASSUME ChartInv, FindInv, Grows, NEW c \in Calls, CheckExist(c) PROVE FindInv'
<1>1. /\ UNCHANGED <<given, seen, known, stored, ledger>>
      /\ pc'[c] \in {"insert", "failed"}
      /\ \/ UNCHANGED <<todo, cached>>
         \/ todo'[c] = Records(c) /\ cached' = Put(cached, ById(Records(c)))
  BY CallDomains DEF CheckExist, Store, Goto
<1>2. Named(todo[c]) /\ Named(seen[c]) /\ Named(cached) /\ Named(stored)
  BY DEF FindInv, FindOK
<1>3. Named(Records(c)) /\ Named(Put(cached, ById(Records(c))))
  BY <1>2, RecordsNamed, RecordsTyped, NamedById, NamedPut
<1>4. Named(todo[c])' /\ Named(seen[c])' /\ Named(cached)' /\ Named(stored)'
  BY <1>1, <1>2, <1>3 DEF Named
<1>5. FindOK(c)'
  BY <1>1, <1>4, NothingToFind
<1> QED BY <1>4, <1>5, OneActs, OneFinds

LEMMA InsertFinds == ASSUME ChartInv, FindInv, Grows, NEW c \in Calls, Insert(c) PROVE FindInv'
<1>1. PICK n \in Insertable(c) : stored' = StoredWith(c, n)
  BY DEF Insert
<1>2. Named(stored)'
  BY <1>1, InsertNamed
<1>3. /\ UNCHANGED <<given, seen, known, cached, ledger>>
      /\ pc'[c] \in {"openAccounts", "done", "failed"} /\ (pc'[c] = "done" => pc[c] = "replace")
      /\ todo'[c] = todo[c] \/ todo'[c] = <<>>
  BY CallDomains DEF Insert, Goto, AfterInsert, Storing
<1>4. Named(todo[c])' /\ Named(seen[c])' /\ Named(cached)'
  BY <1>3, NamedEmpty DEF FindInv, FindOK, Named
<1>5. pc[c] = "replace" => Plan[c].kind \notin {"get", "getByOwner"}
  BY DEF FindInv, FindOK
<1>6. FindOK(c)'
  BY <1>3, <1>4, <1>5, NothingToFind
<1> QED BY <1>2, <1>4, <1>6, OneActs, OneFinds

LEMMA OpenAccountFinds == ASSUME ChartInv, FindInv, Grows, NEW c \in Calls, OpenAccount(c) PROVE FindInv'
<1>1. PICK l :
        /\ ledger' = Put([x \in {l} |-> c], ledger)
        /\ given' = [given EXCEPT ![c] = Append(@, l)]
        /\ pc[c] \in {"openAccounts", "failed", "lost"}
        /\ UNCHANGED <<pc, todo, seen, known, cached, stored>>
  BY DEF OpenAccount, Opened
<1>2. given'[c] = Append(given[c], l) /\ given[c] \in Seq(LedgerIds)
  BY <1>1, CallDomains DEF ChartInv, CallsTyped, CallTypes
<1>3. l \in DOMAIN ledger'
  BY <1>1 DEF Put
<1>4. \A k \in DOMAIN given'[c] : given'[c][k] \in DOMAIN ledger'
  <2> TAKE k \in DOMAIN given'[c]
  <2>1. \/ given'[c][k] = l
        \/ k \in DOMAIN given[c] /\ given'[c][k] = given[c][k]
    <3> DEFINE n == Len(given[c])
    <3>1. given[c] \in Seq(LedgerIds \cup {l}) /\ n \in Nat /\ DOMAIN given[c] = 1..n
      BY <1>2
    <3>2. DOMAIN given'[c] = 1..(n + 1) /\ given'[c][n + 1] = l
          /\ \A j \in 1..n : given'[c][j] = given[c][j]
      BY <1>2, <3>1
    <3>3. k = n + 1 \/ k \in 1..n
      BY <3>1, <3>2
    <3> QED BY <3>1, <3>2, <3>3
  <2>2. \A j \in DOMAIN given[c] : given[c][j] \in DOMAIN ledger'
    BY DEF FindInv, FindOK, Grows
  <2> QED BY <1>3, <2>1, <2>2
<1>5. Named(todo[c])' /\ Named(seen[c])' /\ Named(cached)' /\ Named(stored)'
  BY <1>1 DEF FindInv, FindOK, Named, Grows
<1>6. FindOK(c)'
  BY <1>1, <1>4, <1>5 DEF FindInv, FindOK, Grows
<1> QED BY <1>5, <1>6, OneActs, OneFinds

\* A creation that is answered or fails has nothing to find
LEMMA CreationFinds ==
  ASSUME ChartInv, FindInv, Grows, NEW c \in Calls, OthersStay(c), pc[c] = "openAccounts",
         UNCHANGED <<given, seen, known, cached, stored>>,
         pc'[c] \in {"done", "failed"}, todo'[c] \in {todo[c], <<>>}
  PROVE  FindInv'
<1>1. Named(todo[c])' /\ Named(seen[c])' /\ Named(cached)' /\ Named(stored)'
  BY NamedEmpty DEF FindInv, FindOK, Named, Grows
<1>2. Plan[c].kind = "create"
  BY DEF ChartInv, CreationOK, Creating
<1>3. FindOK(c)'
  BY <1>1, <1>2, NothingToFind
<1> QED BY <1>1, <1>3, OneFinds

LEMMA OpenAllFinds == ASSUME ChartInv, FindInv, Grows, NEW c \in Calls, OpenAll(c) PROVE FindInv'
<1>1. /\ pc[c] = "openAccounts" /\ UNCHANGED <<given, seen, known, cached, stored>>
      /\ pc'[c] \in {"done", "failed"} /\ todo'[c] \in {todo[c], <<>>}
  BY CallDomains DEF OpenAll, Created, Goto
<1> QED BY <1>1, OneActs, CreationFinds

\* The ledger account that a renamed record names is there
LEMMA AccountsOpenedFinds == ASSUME ChartInv, FindInv, Grows, NEW c \in Calls, AccountsOpened(c) PROVE FindInv'
<1>1. /\ pc[c] = "openAccounts" /\ Len(given[c]) = Len(Plan[c].ids)
      /\ UNCHANGED <<given, seen, known, stored, ledger>>
  BY DEF AccountsOpened
<1>2. CASE Created(c) /\ UNCHANGED cached
  <2>1. pc'[c] = "done" /\ todo'[c] = <<>>
    BY <1>2, CallDomains DEF Created, Goto
  <2> QED BY <1>1, <1>2, <2>1, OneActs, CreationFinds
<1>3. CASE \E k \in ToRename(c) :
             Store(c, cached, <<[Record(c, k) EXCEPT !.ledger = given[c][k]]>>, "reinsert")
  <2>1. PICK k \in ToRename(c) :
             Store(c, cached, <<[Record(c, k) EXCEPT !.ledger = given[c][k]]>>, "reinsert")
    BY <1>3
  <2> DEFINE rec == [Record(c, k) EXCEPT !.ledger = given[c][k]]
  <2>2. k \in Items(c) /\ k \in DOMAIN given[c] /\ given[c] \in Seq(LedgerIds)
    BY <1>1, PlanTyped DEF ToRename, Renamed, ChartInv, CallsTyped, CallTypes
  <2>3. rec \in CoaAccount /\ rec.ledger = given[c][k]
    BY <2>2, IdTyped, PlanTyped DEF Record, CoaAccount, State
  <2>4. rec.ledger \in DOMAIN ledger
    BY <2>2, <2>3 DEF FindInv, FindOK
  <2> HIDE DEF rec
  <2>5. <<rec>> \in Seq(CoaAccount) /\ Named(<<rec>>)
    BY <2>3, <2>4 DEF Named
  <2>6. Named(Put(cached, ById(<<rec>>)))
    BY <2>5, NamedById, NamedPut DEF FindInv
  <2>7. cached' = Put(cached, ById(<<rec>>)) /\ todo'[c] = <<rec>> /\ pc'[c] = "reinsert"
    BY <2>1, CallDomains DEF rec, Store, Goto
  <2>8. Named(todo[c])' /\ Named(seen[c])' /\ Named(cached)' /\ Named(stored)'
    BY <1>1, <2>5, <2>6, <2>7 DEF FindInv, FindOK, Named
  <2>9. FindOK(c)'
    BY <1>1, <2>7, <2>8, NothingToFind
  <2> QED BY <2>8, <2>9, OneActs, OneFinds
<1> QED BY <1>2, <1>3 DEF AccountsOpened

\* A query that has read its records has those it must find
LEMMA FoundFinds ==
  ASSUME ChartInv, FindInv, Grows, NEW c \in Calls, OthersStay(c),
         NEW records \in Seq(CoaAccount), Named(records), NEW keys, Named(keys),
         Plan[c].kind \notin Changes => ToFind(c) \subseteq IdsOf(records),
         Found(c, records, keys), UNCHANGED <<given, known, stored, ledger>>
  PROVE  FindInv'
<1>1. Named(todo[c]) /\ Named(stored) /\ FindOK(c)
  BY DEF FindInv, FindOK
<1>2. CASE Query(c, records, keys)
  <2>1. /\ Plan[c].kind \notin Changes /\ cached' = keys /\ UNCHANGED todo
        /\ seen'[c] = records /\ pc'[c] = IF records = <<>> THEN "done" ELSE "readLedger"
    BY <1>2, CallDomains DEF Query, Goto
  <2>2. ToFind(c)' = ToFind(c)
    BY DEF ToFind, Wanted, Items
  <2>3. records = <<>> => IdsOf(records) = {}
    BY NamedEmpty DEF IdsOf
  <2>4. Named(todo[c])' /\ Named(seen[c])' /\ Named(cached)' /\ Named(stored)'
    BY <1>1, <2>1 DEF Named
  <2>5. pc'[c] = "readLedger" => ToFind(c)' \subseteq IdsOf(seen[c])'
    BY <2>1, <2>2 DEF IdsOf
  <2>6. pc'[c] = "done" => ToFind(c)' = {}
    BY <2>1, <2>2, <2>3
  <2>7. FindOK(c)'
    BY <1>1, <2>1, <2>4, <2>5, <2>6 DEF FindOK
  <2> QED BY <2>4, <2>7, OneFinds
<1>3. CASE Change(c, records, keys)
  <2> DEFINE changed == [k \in DOMAIN records |-> [records[k] EXCEPT !.state = To(Plan[c].kind)]]
  <2>1. /\ Plan[c].kind \in Changes /\ seen'[c] = <<>>
        /\ pc'[c] \in {"replace", "changeLedger", "failed"}
        /\ \/ todo'[c] = changed /\ cached' = Put(keys, ById(changed))
           \/ UNCHANGED todo /\ cached' = keys
    BY <1>3, CallDomains DEF Change, Store, Goto
  <2>2. ASSUME NEW k \in DOMAIN records
        PROVE  /\ changed[k] \in CoaAccount
               /\ changed[k].id = records[k].id
               /\ changed[k].ledger = records[k].ledger
    <3>1. To(Plan[c].kind) \in State
      BY <2>1 DEF Changes, To, State
    <3>2. records[k] \in CoaAccount
      OBVIOUS
    <3> QED BY <3>1, <3>2 DEF CoaAccount
  <2>3. changed \in Seq(CoaAccount)
    <3>1. DOMAIN records = 1..Len(records) /\ Len(records) \in Nat
      OBVIOUS
    <3> QED BY <2>2, <3>1
  <2>4. DOMAIN changed = DOMAIN records
    OBVIOUS
  <2> HIDE DEF changed
  <2>5. Named(changed)
    BY <2>2, <2>4 DEF Named
  <2>6. Named(Put(keys, ById(changed)))
    BY <2>3, <2>5, NamedById, NamedPut
  <2>7. Named(todo[c])' /\ Named(seen[c])' /\ Named(cached)' /\ Named(stored)'
    BY <1>1, <2>1, <2>5, <2>6, NamedEmpty DEF Named
  <2>8. FindOK(c)'
    BY <2>1, <2>7, NothingToFind DEF Changes
  <2> QED BY <2>7, <2>8, OneFinds
<1> QED BY <1>2, <1>3 DEF Found

LEMMA ReadCacheFinds == ASSUME ChartInv, FindInv, Grows, NEW c \in Calls, ReadCache(c) PROVE FindInv'
<1>1. PICK hits \in SetToSeqs(Hits(c)) :
        IF Wanted(c) \subseteq DOMAIN cached
        THEN Found(c, InRedis(c, hits), cached)
        ELSE /\ seen' = [seen EXCEPT ![c] = InRedis(c, hits)]
             /\ Goto(c, "readDb")
             /\ UNCHANGED <<todo, cached>>
  BY DEF ReadCache
<1>2. /\ pc[c] = "readCache" /\ InRedis(c, hits) \in Seq(CoaAccount)
      /\ UNCHANGED <<given, known, stored, ledger>>
  BY InRedisTyped DEF ReadCache
<1>3. /\ Named(todo[c]) /\ Named(cached) /\ Named(stored) /\ FindOK(c)
      /\ IsChart(cached) /\ Plan[c].kind # "getByOwner"
  BY <1>2 DEF FindInv, FindOK, ChartInv, StoresTyped
<1>4. /\ DOMAIN hits = DOMAIN InRedis(c, hits)
      /\ \A n \in DOMAIN hits : /\ hits[n] \in Hits(c)
                                /\ InRedis(c, hits)[n] = cached[Plan[c].ids[hits[n]]]
      /\ \A k \in Hits(c) : \E n \in DOMAIN hits : hits[n] = k
  <2>1. IsFiniteSet(Items(c))
    BY PlanTyped, FS_Interval
  <2>2. IsFiniteSet(Hits(c))
    BY <2>1, FS_Subset DEF Hits
  <2>3. /\ Cardinality(Hits(c)) \in Nat /\ hits \in [1..Cardinality(Hits(c)) -> Hits(c)]
        /\ \A k \in Hits(c) : \E n \in DOMAIN hits : hits[n] = k
    BY <2>2, Onto
  <2> QED BY <2>3 DEF InRedis
<1>5. Named(InRedis(c, hits))
  BY <1>3, <1>4 DEF Named, Hits
<1>6. CASE Wanted(c) \subseteq DOMAIN cached
  <2>1. Wanted(c) \subseteq IdsOf(InRedis(c, hits))
    <3> SUFFICES ASSUME NEW k \in Items(c) PROVE Plan[c].ids[k] \in IdsOf(InRedis(c, hits))
      BY DEF Wanted
    <3>1. k \in Hits(c)
      BY <1>6 DEF Hits, Wanted
    <3>2. PICK n \in DOMAIN hits : hits[n] = k
      BY <1>4, <3>1
    <3>3. InRedis(c, hits)[n].id = Plan[c].ids[k]
      BY <1>3, <1>4, <3>1, <3>2 DEF IsChart, Hits
    <3> QED BY <1>4, <3>3 DEF IdsOf
  <2>2. ToFind(c) \subseteq IdsOf(InRedis(c, hits))
    BY <1>3, <2>1 DEF ToFind
  <2> QED BY <1>1, <1>2, <1>3, <1>5, <1>6, <2>2, OneActs, FoundFinds
<1>7. CASE ~(Wanted(c) \subseteq DOMAIN cached)
  <2>1. pc'[c] = "readDb" /\ seen'[c] = InRedis(c, hits) /\ UNCHANGED <<todo, cached>>
    BY <1>1, <1>7, CallDomains DEF Goto
  <2>2. Named(todo[c])' /\ Named(seen[c])' /\ Named(cached)' /\ Named(stored)'
    BY <1>2, <1>3, <1>5, <2>1 DEF Named
  <2>3. FindOK(c)'
    BY <1>2, <1>3, <2>1, <2>2 DEF FindOK
  <2> QED BY <2>2, <2>3, OneActs, OneFinds
<1> QED BY <1>6, <1>7

\* What MongoDB answers are all the records it was asked for
LEMMA DocsFound ==
  ASSUME ChartInv, FindInv, NEW I, I \subseteq DOMAIN stored,
         NEW docs \in SetToSeqs({stored[i] : i \in I})
  PROVE  docs \in Seq(CoaAccount) /\ Named(docs) /\ I \subseteq IdsOf(docs)
<1> DEFINE S == {stored[i] : i \in I}
           f == [i \in I |-> stored[i]]
<1>1. docs \in Seq(CoaAccount)
  BY DocsTyped
<1>2. IsFiniteSet(I)
  BY FS_Subset DEF ChartInv, StoresTyped
<1>3. f \in Surjection(I, S)
  BY DEF Surjection
<1>4. IsFiniteSet(S)
  BY <1>2, <1>3, FS_Surjection
<1>5. /\ docs \in [1..Cardinality(S) -> S]
      /\ \A x \in S : \E n \in DOMAIN docs : docs[n] = x
  <2> HIDE DEF S
  <2>1. docs \in SetToSeqs(S)
    BY DEF S
  <2> QED BY <1>4, <2>1, Onto
<1>6. Named(docs)
  <2> SUFFICES ASSUME NEW n \in DOMAIN docs
               PROVE  docs[n].ledger = docs[n].id \/ docs[n].ledger \in DOMAIN ledger
    BY DEF Named
  <2>1. PICK i \in I : docs[n] = stored[i]
    BY <1>5
  <2> QED BY <2>1 DEF FindInv, Named, ChartInv, StoresTyped, IsChart
<1>7. I \subseteq IdsOf(docs)
  <2> SUFFICES ASSUME NEW i \in I PROVE i \in IdsOf(docs)
    OBVIOUS
  <2>1. PICK n \in DOMAIN docs : docs[n] = stored[i]
    BY <1>5
  <2>2. docs[n].id = i
    BY <2>1 DEF ChartInv, StoresTyped, IsChart
  <2> QED BY <2>2 DEF IdsOf
<1> QED BY <1>1, <1>6, <1>7

LEMMA ReadDbFinds == ASSUME ChartInv, FindInv, Grows, NEW c \in Calls, ReadDb(c) PROVE FindInv'
<1> DEFINE I == (Wanted(c) \ IdsOf(seen[c])) \cap DOMAIN stored
<1>1. PICK docs \in SetToSeqs({stored[i] : i \in I}) :
        Found(c, seen[c] \o docs, Put(cached, ById(docs)))
  BY DEF ReadDb
<1>2. docs \in Seq(CoaAccount) /\ Named(docs) /\ I \subseteq IdsOf(docs)
  BY DocsFound
<1>3. /\ seen[c] \in Seq(CoaAccount) /\ Named(seen[c]) /\ FindOK(c)
      /\ Named(cached) /\ Named(stored)
      /\ pc[c] = "readDb" /\ UNCHANGED <<given, known, stored, ledger>>
  BY DEF ChartInv, CallsTyped, CallTypes, FindInv, FindOK, ReadDb
<1> DEFINE both == seen[c] \o docs
<1>4. /\ both \in Seq(CoaAccount)
      /\ DOMAIN both = 1..(Len(seen[c]) + Len(docs)) /\ Len(seen[c]) \in Nat /\ Len(docs) \in Nat
      /\ DOMAIN seen[c] = 1..Len(seen[c]) /\ DOMAIN docs = 1..Len(docs)
      /\ \A n \in 1..Len(seen[c]) : both[n] = seen[c][n]
      /\ \A n \in 1..Len(docs) : both[Len(seen[c]) + n] = docs[n]
  BY <1>2, <1>3
<1> HIDE DEF both
<1>5. Named(both)
  <2> SUFFICES ASSUME NEW n \in DOMAIN both
               PROVE  both[n].ledger = both[n].id \/ both[n].ledger \in DOMAIN ledger
    BY DEF Named
  <2>1. CASE n \in 1..Len(seen[c])
    BY <1>3, <1>4, <2>1 DEF Named
  <2>2. CASE n \notin 1..Len(seen[c])
    <3> DEFINE a == Len(seen[c])
               b == Len(docs)
    <3>0. a \in Nat /\ b \in Nat /\ n \in 1..(a + b) /\ n \notin 1..a
      BY <1>4, <2>2
    <3> HIDE DEF a, b
    <3>1. n - a \in 1..b /\ a + (n - a) = n
      BY <3>0
    <3>2. both[a + (n - a)] = docs[n - a]
      BY <1>4, <3>1 DEF a, b
    <3>3. n - a \in DOMAIN docs
      BY <1>4, <3>1 DEF b
    <3> QED BY <1>2, <3>1, <3>2, <3>3 DEF Named
  <2> QED BY <2>1, <2>2
<1>6. IdsOf(seen[c]) \cup IdsOf(docs) \subseteq IdsOf(both)
  <2>1. \A n \in DOMAIN seen[c] : n \in DOMAIN both /\ both[n].id = seen[c][n].id
    BY <1>4
  <2>2. \A n \in DOMAIN docs : Len(seen[c]) + n \in DOMAIN both /\ both[Len(seen[c]) + n].id = docs[n].id
    BY <1>4
  <2> QED BY <2>1, <2>2 DEF IdsOf
<1>7. ToFind(c) \subseteq IdsOf(both)
  <2>1. Plan[c].kind # "getByOwner" /\ known[c] \subseteq DOMAIN stored
    BY <1>3 DEF FindOK
  <2> QED BY <1>2, <1>6, <2>1 DEF ToFind
<1>8. Named(Put(cached, ById(docs)))
  BY <1>2, <1>3, NamedById, NamedPut
<1>9. Found(c, both, Put(cached, ById(docs)))
  BY <1>1 DEF both
<1> QED BY <1>3, <1>4, <1>5, <1>7, <1>8, <1>9, OneActs, FoundFinds

LEMMA ReadOwnerFinds == ASSUME ChartInv, FindInv, Grows, NEW c \in Calls, ReadOwner(c) PROVE FindInv'
<1> DEFINE I == {j \in DOMAIN stored : stored[j].owner = Plan[c].owner}
<1>1. PICK docs \in SetToSeqs({stored[i] : i \in I}) : Found(c, docs, Put(cached, ById(docs)))
  BY DEF ReadOwner
<1>2. docs \in Seq(CoaAccount) /\ Named(docs) /\ I \subseteq IdsOf(docs)
  BY DocsFound
<1>3. /\ FindOK(c) /\ Named(cached)
      /\ pc[c] = "readOwner" /\ UNCHANGED <<given, known, stored, ledger>>
  BY DEF FindInv, ReadOwner
<1>4. ToFind(c) \subseteq IdsOf(docs)
  <2>1. Plan[c].kind = "getByOwner" /\ known[c] \subseteq DOMAIN stored
    BY <1>3 DEF FindOK
  <2> QED BY <1>2, <2>1 DEF ToFind
<1>5. Named(Put(cached, ById(docs)))
  BY <1>2, <1>3, NamedById, NamedPut
<1> QED BY <1>1, <1>2, <1>3, <1>4, <1>5, OneActs, FoundFinds

\* The ledger has the accounts that the records found name
LEMMA ReadLedgerFinds == ASSUME ChartInv, FindInv, Grows, NEW c \in Calls, ReadLedger(c) PROVE FindInv'
<1> DEFINE A == {seen[c][k].id : k \in {j \in DOMAIN seen[c] : seen[c][j].ledger \in DOMAIN ledger}}
<1>1. /\ pc[c] = "readLedger" /\ pc'[c] = "done" /\ answer'[c] = A /\ seen'[c] = <<>>
      /\ UNCHANGED <<todo, given, known, cached, stored, ledger>>
  BY CallDomains DEF ReadLedger, Goto
<1>2. /\ FindOK(c) /\ Named(seen[c]) /\ Named(todo[c]) /\ Named(cached) /\ Named(stored)
      /\ ToFind(c) \subseteq IdsOf(seen[c]) /\ ToFind(c) \subseteq DOMAIN ledger
  BY <1>1 DEF FindInv, FindOK, ToFind
<1>3. ToFind(c) \subseteq A
  <2> SUFFICES ASSUME NEW i \in ToFind(c) PROVE i \in A
    OBVIOUS
  <2>1. PICK k \in DOMAIN seen[c] : seen[c][k].id = i
    BY <1>2 DEF IdsOf
  <2>2. seen[c][k].ledger \in DOMAIN ledger
    BY <1>2, <2>1 DEF Named
  <2> QED BY <2>1, <2>2
<1> HIDE DEF A
<1>4. ToFind(c)' = ToFind(c)
  BY <1>1 DEF ToFind, Wanted, Items
<1>5. Named(todo[c])' /\ Named(seen[c])' /\ Named(cached)' /\ Named(stored)'
  BY <1>1, <1>2, NamedEmpty DEF Named
<1>6. FindOK(c)'
  BY <1>1, <1>2, <1>3, <1>4, <1>5 DEF FindOK
<1> QED BY <1>5, <1>6, OneActs, OneFinds

LEMMA ChangeLedgerFinds == ASSUME ChartInv, FindInv, Grows, NEW c \in Calls, ChangeLedger(c) PROVE FindInv'
<1>1. /\ pc'[c] = "failed" /\ UNCHANGED <<todo, given, seen, known, cached, stored, ledger>>
  BY CallDomains DEF ChangeLedger, Goto
<1>2. Named(todo[c])' /\ Named(seen[c])' /\ Named(cached)' /\ Named(stored)'
  BY <1>1 DEF FindInv, FindOK, Named
<1>3. FindOK(c)'
  BY <1>1, <1>2, NothingToFind
<1> QED BY <1>2, <1>3, OneActs, OneFinds

LEMMA RejectsFinds == ASSUME ChartInv, FindInv, Grows, NEW c \in Calls, Rejects(c) PROVE FindInv'
<1>1. /\ pc'[c] = "failed" /\ todo'[c] = <<>> /\ seen'[c] = <<>>
      /\ UNCHANGED <<given, known, cached>> /\ Partly(c)
  BY CallDomains DEF Rejects, Goto
<1>2. Named(todo[c])' /\ Named(seen[c])' /\ Named(cached)' /\ Named(stored)'
  BY <1>1, PartlyNamed, NamedEmpty DEF FindInv, Named, Grows
<1>3. FindOK(c)'
  BY <1>1, <1>2, NothingToFind
<1> QED BY <1>2, <1>3, OneActs, OneFinds

LEMMA RestartFinds == ASSUME ChartInv, FindInv, Grows, Restart PROVE FindInv'
<1>1. PICK p \in Calls : Partly(p)
  BY DEF Restart
<1>2. Named(stored)' /\ Named(cached)'
  BY <1>1, PartlyNamed DEF Restart, FindInv, Named, Grows
<1>3. ASSUME NEW c \in Calls PROVE FindOK(c)'
  <2>1. /\ todo'[c] = <<>> /\ seen'[c] = <<>> /\ UNCHANGED <<given, known, answer>>
        /\ pc'[c] \notin Running /\ (pc'[c] = "done" => pc[c] = "done")
    BY DEF Restart, Running, Reading, Storing
  <2>2. Named(todo[c])' /\ Named(seen[c])'
    BY <2>1, NamedEmpty DEF Named
  <2>3. FindOK(c)
    BY DEF FindInv
  <2>4. ToFind(c)' = ToFind(c)
    <3>1. \A i \in known[c] : stored'[i] = stored[i]
      BY <2>3 DEF FindOK, Grows
    <3> QED BY <2>1, <3>1 DEF ToFind, Wanted, Items
  <2> QED BY <2>1, <2>2, <2>3, <2>4 DEF FindOK, Grows, Running, Reading, Storing
<1> QED BY <1>2, <1>3 DEF FindInv

\* Steps of others than calls
LEMMA OthersFind ==
  ASSUME FindInv, Grows, UNCHANGED <<callVars, stored>>, Named(cached)'
  PROVE  FindInv'
<1>1. \A c \in Calls : FindOK(c)'
  BY FindStays DEF callVars
<1>2. Named(stored)'
  BY DEF FindInv, Named, Grows
<1> QED BY <1>1, <1>2 DEF FindInv

LEMMA EvictFinds == ASSUME FindInv, Grows, NEW i, Evict(i) PROVE FindInv'
<1>1. Named(cached)'
  BY DEF Evict, FindInv, Named
<1> QED BY <1>1, OthersFind DEF Evict

LEMMA OpenForeignFinds == ASSUME FindInv, Grows, NEW i, OpenForeign(i) PROVE FindInv'
<1>1. Named(cached)'
  BY DEF OpenForeign, FindInv, Named, Grows
<1> QED BY <1>1, OthersFind DEF OpenForeign

\* A query that begins after the creation of an account was answered finds it,
\* for any calls, ids, evictions, failures and restarts.
THEOREM AnsweredAccountsFound == ChartSpec => []AckedFound
<1>1. ChartInit => FindInv
  <2> SUFFICES ASSUME ChartInit PROVE FindInv
    OBVIOUS
  <2>1. \A c \in Calls : /\ pc[c] = "idle" /\ known[c] = {} /\ given[c] = <<>>
                         /\ todo[c] = <<>> /\ seen[c] = <<>>
    BY DEF ChartInit
  <2>2. cached = <<>> /\ stored = <<>>
    BY DEF ChartInit
  <2> QED BY <2>1, <2>2, NamedEmpty DEF FindInv, FindOK, Named
<1>2. ChartInv /\ FindInv /\ [ChartNext]_chartVars => FindInv'
  <2> SUFFICES ASSUME ChartInv, FindInv, [ChartNext]_chartVars PROVE FindInv'
    OBVIOUS
  <2> Grows
    BY StepGrows
  <2>1. CASE \E c \in Calls : Begin(c) \/ CheckExist(c) \/ Insert(c) \/ OpenAccount(c)
    BY <2>1, BeginFinds, CheckExistFinds, InsertFinds, OpenAccountFinds
  <2>2. CASE \E c \in Calls : OpenAll(c) \/ AccountsOpened(c) \/ ReadCache(c) \/ ReadDb(c)
    BY <2>2, OpenAllFinds, AccountsOpenedFinds, ReadCacheFinds, ReadDbFinds
  <2>3. CASE \E c \in Calls : ReadOwner(c) \/ ReadLedger(c) \/ ChangeLedger(c) \/ Rejects(c)
    BY <2>3, ReadOwnerFinds, ReadLedgerFinds, ChangeLedgerFinds, RejectsFinds
  <2>4. CASE \E i \in Foreign : OpenForeign(i)
    BY <2>4, OpenForeignFinds
  <2>5. CASE \E i \in DOMAIN cached : Evict(i)
    BY <2>5, EvictFinds
  <2>6. CASE Restart
    BY <2>6, RestartFinds
  <2>7. CASE UNCHANGED chartVars
    <3>1. Named(cached)'
      BY <2>7 DEF chartVars, FindInv, Named
    <3> QED BY <2>7, <3>1, OthersFind DEF chartVars
  <2> QED BY <2>1, <2>2, <2>3, <2>4, <2>5, <2>6, <2>7 DEF ChartNext
<1>3. FindInv => AckedFound
  BY DEF FindInv, FindOK, ToFind, AckedFound
<1> QED BY <1>1, <1>2, <1>3, ChartInvariant, PTL DEF ChartSpec

-----------------------------------------------------------------------------
(* That Redis keeps the records of an answered creation: the strengthening of *)
(* AckedUndisturbed.  Redis is loaded from the collection, so that the same   *)
(* must be so there; and what a change of state stores is of the accounts it  *)
(* asks for.                                                                   *)

\* Call d may have put another record in the place of that of account i
Meddles(d, i) ==
  /\ Plan[d].kind \in Changes \cup {"create"}
  /\ pc[d] \notin {"idle", "exist"}
  /\ i \in {Id(d, j) : j \in Items(d)}

\* Another call than c did
Disturbed(c, i) == \E d \in Calls \ {c} : Meddles(d, i)

\* What a call holds is of accounts that it asks for
OwnIds(c) ==
  /\ pc[c] \in {"insert", "replace"} => Plan[c].kind \in Changes \cup {"create"}
  /\ pc[c] \in {"insert", "replace"} => IdsOf(todo[c]) \subseteq {Id(c, j) : j \in Items(c)}
  /\ pc[c] = "readOwner" => Plan[c].kind = "getByOwner"
  /\ Plan[c].kind \in Changes /\ pc[c] = "readDb" => IdsOf(seen[c]) \subseteq {Id(c, j) : j \in Items(c)}

\* The record of item k of creation c, in f, is the one it built
Undisturbed(c, k, f) == Id(c, k) \in DOMAIN f => f[Id(c, k)] = Record(c, k)

DisturbInv ==
  /\ \A c \in Calls : OwnIds(c)
  /\ \A i \in DOMAIN stored : \E d \in Calls : Meddles(d, i)
  /\ \A c \in Calls : \A k \in Items(c) :
       /\ Plan[c].kind = "create" /\ pc[c] \notin {"idle", "exist"} =>
            Disturbed(c, Id(c, k)) \/ Undisturbed(c, k, stored)
       /\ Plan[c].kind = "create" /\ pc[c] \in {"insert", "openAccounts", "done"} =>
            Disturbed(c, Id(c, k)) \/ Undisturbed(c, k, cached)

-----------------------------------------------------------------------------
(* One step of a call *)

\* Once it has read, a call that creates or changes does not start over
Onward(c) == pc[c] \notin {"idle", "exist"} => pc'[c] \notin {"idle", "exist"}

\* Call c inserts records of accounts that it asks for, and a creation its own
Inserts(c) ==
  \A i \in DOMAIN stored' :
    \/ i \in DOMAIN stored /\ stored'[i] = stored[i]
    \/ /\ Meddles(c, i)'
       /\ Plan[c].kind = "create" => \A k \in Items(c) : Id(c, k) = i => stored'[i] = Record(c, k)

\* Redis is loaded from the collection, or by a call that creates or changes
Sets(c) ==
  \A i \in DOMAIN cached' :
    \/ i \in DOMAIN cached /\ cached'[i] = cached[i]
    \/ i \in DOMAIN stored /\ cached'[i] = stored[i]
    \/ Meddles(c, i)'

OwnSets(c) ==
  Plan[c].kind = "create" /\ pc'[c] \in {"insert", "openAccounts", "done"} =>
    \/ pc[c] \in {"insert", "openAccounts", "done"} /\ UNCHANGED cached
    \/ \A k \in Items(c) : Undisturbed(c, k, cached')

\* The calls other than c are where they were, or lost
OthersLost(c) ==
  \A d \in Calls \ {c} :
    \/ pc'[d] = pc[d] /\ (pc[d] \in Running => todo'[d] = todo[d] /\ seen'[d] = seen[d])
    \/ pc'[d] = "lost"

LEMMA DisturbStep ==
  ASSUME DisturbInv, NEW c \in Calls, OthersLost(c), Onward(c), OwnIds(c)', Inserts(c), Sets(c), OwnSets(c)
  PROVE  DisturbInv'
<1>1. \A d, i : d \in Calls /\ Meddles(d, i) => Meddles(d, i)'
  BY DEF OthersLost, Onward, Meddles, Items, Id
<1>2. \A d, i : Disturbed(d, i) => Disturbed(d, i)'
  BY <1>1 DEF Disturbed
<1>3. \A d \in Calls : OwnIds(d)'
  <2>1. ASSUME NEW d \in Calls \ {c} PROVE OwnIds(d)'
    <3>1. OwnIds(d) /\ \/ pc'[d] = pc[d] /\ (pc[d] \in Running => todo'[d] = todo[d] /\ seen'[d] = seen[d])
                       \/ pc'[d] = "lost"
      BY DEF DisturbInv, OthersLost
    <3> QED BY <3>1 DEF OwnIds, IdsOf, Items, Id, Running, Reading, Storing
  <2> QED BY <2>1
<1>4. \A i \in DOMAIN stored' : \E d \in Calls : Meddles(d, i)'
  BY <1>1 DEF Inserts, DisturbInv
<1>5. ASSUME NEW d \in Calls, NEW k \in Items(d), Plan[d].kind = "create", pc'[d] \notin {"idle", "exist"}
      PROVE  Disturbed(d, Id(d, k))' \/ Undisturbed(d, k, stored')
  <2> SUFFICES ASSUME ~Disturbed(d, Id(d, k))', Id(d, k) \in DOMAIN stored'
               PROVE  stored'[Id(d, k)] = Record(d, k)
    BY DEF Undisturbed
  <2>1. ASSUME Id(d, k) \in DOMAIN stored, stored'[Id(d, k)] = stored[Id(d, k)]
        PROVE  stored'[Id(d, k)] = Record(d, k)
    <3>1. CASE pc[d] \notin {"idle", "exist"}
      <4>1. ~Disturbed(d, Id(d, k))
        BY <1>2
      <4> QED BY <1>5, <2>1, <3>1, <4>1 DEF DisturbInv, Undisturbed
    <3>2. CASE pc[d] \in {"idle", "exist"}
      <4>1. PICK e \in Calls : Meddles(e, Id(d, k))
        BY <2>1 DEF DisturbInv
      <4>2. e # d
        BY <3>2, <4>1 DEF Meddles
      <4> QED BY <1>2, <4>1, <4>2 DEF Disturbed
    <3> QED BY <3>1, <3>2
  <2>2. ASSUME Meddles(c, Id(d, k))', Plan[c].kind = "create" =>
                 \A j \in Items(c) : Id(c, j) = Id(d, k) => stored'[Id(d, k)] = Record(c, j)
        PROVE  stored'[Id(d, k)] = Record(d, k)
    <3>1. c = d
      <4>1. \A e \in Calls \ {d} : ~Meddles(e, Id(d, k))'
        BY DEF Disturbed, Id
      <4> QED BY <2>2, <4>1
    <3> QED BY <1>5, <2>2, <3>1
  <2> QED BY <2>1, <2>2 DEF Inserts
<1>6. ASSUME NEW d \in Calls, NEW k \in Items(d), Plan[d].kind = "create",
             pc'[d] \in {"insert", "openAccounts", "done"}
      PROVE  Disturbed(d, Id(d, k))' \/ Undisturbed(d, k, cached')
  <2>1. ASSUME pc[d] \in {"insert", "openAccounts", "done"}, ~Disturbed(d, Id(d, k))'
        PROVE  /\ Undisturbed(d, k, cached) /\ Undisturbed(d, k, stored)
    <3>1. ~Disturbed(d, Id(d, k))
      BY <1>2, <2>1
    <3> QED BY <1>6, <2>1, <3>1 DEF DisturbInv
  <2>2. CASE d = c
    BY <1>6, <2>1, <2>2 DEF OwnSets, Undisturbed
  <2>3. CASE d # c
    <3> SUFFICES ASSUME ~Disturbed(d, Id(d, k))', Id(d, k) \in DOMAIN cached'
                 PROVE  cached'[Id(d, k)] = Record(d, k)
      BY DEF Undisturbed
    <3>1. pc'[d] = pc[d]
      BY <1>6, <2>3 DEF OthersLost
    <3>2. ~Meddles(c, Id(d, k))'
      <4>1. \A e \in Calls \ {d} : ~Meddles(e, Id(d, k))'
        BY DEF Disturbed, Id
      <4> QED BY <2>3, <4>1
    <3>3. Undisturbed(d, k, cached) /\ Undisturbed(d, k, stored)
      BY <1>6, <2>1, <3>1
    <3> QED BY <3>2, <3>3 DEF Sets, Undisturbed
  <2> QED BY <2>2, <2>3
<1> QED BY <1>3, <1>4, <1>5, <1>6 DEF DisturbInv, Undisturbed, Items, Id, Record

\* Steps that insert nothing, set nothing and hand over no records
LEMMA PlainDisturbs ==
  ASSUME ChartInv, DisturbInv, NEW c \in Calls, OthersStay(c), UNCHANGED <<stored, cached>>,
         pc[c] \in Running, pc'[c] \notin {"idle", "exist", "insert", "replace", "readDb", "readOwner"},
         pc'[c] \in {"openAccounts", "done"} => pc[c] = "openAccounts" \/ Plan[c].kind # "create"
  PROVE  DisturbInv'
<1>1. OwnIds(c)' /\ Onward(c)
  BY DEF OwnIds, Onward
<1>2. Inserts(c) /\ Sets(c) /\ OwnSets(c) /\ OthersLost(c)
  BY DEF Inserts, Sets, OwnSets, OthersStay, OthersLost
<1> QED BY <1>1, <1>2, DisturbStep

-----------------------------------------------------------------------------
(* What is inserted and set *)

\* The record of an item is told by its id
LEMMA RecordById ==
  ASSUME NEW c \in Calls, NEW j \in Items(c), NEW k \in Items(c), Id(c, j) = Id(c, k)
  PROVE  Record(c, j) = Record(c, k)
BY DEF Record

\* A call that does not create names all its accounts
LEMMA NamesIds ==
  ASSUME NEW c \in Calls, Plan[c].kind # "create"
  PROVE  \A k \in Items(c) : Id(c, k) = Plan[c].ids[k]
<1>1. Plan[c].ids \in Seq(Ids) /\ None \notin Ids
  BY ChartAssumption
<1> QED BY <1>1 DEF Id, Items

LEMMA InsertedOwn ==
  ASSUME ChartInv, DisturbInv, NEW c \in Calls, pc[c] \in Storing, NEW n \in Insertable(c),
         stored' = StoredWith(c, n), pc'[c] \notin {"idle", "exist"}
  PROVE  Inserts(c)
<1> DEFINE new == SubSeq(todo[c], 1, n)
<1>1. /\ todo[c] \in Seq(CoaAccount) /\ n \in 0..Len(todo[c]) /\ Len(todo[c]) \in Nat
      /\ CreationOK(c) /\ OwnIds(c)
  BY DEF ChartInv, CallsTyped, CallTypes, Insertable, DisturbInv
<1>2. new \in Seq(CoaAccount) /\ DOMAIN new = 1..n /\ \A k \in 1..n : new[k] = todo[c][k] /\ k \in DOMAIN todo[c]
  BY <1>1
<1>3. stored' = Put(stored, ById(new))
  BY DEF StoredWith
<1> HIDE DEF new
<1>4. SUFFICES ASSUME NEW i \in DOMAIN ById(new)
               PROVE  /\ Meddles(c, i)'
                      /\ Plan[c].kind = "create" =>
                           \A k \in Items(c) : Id(c, k) = i => ById(new)[i] = Record(c, k)
  BY <1>3 DEF Inserts, Put
<1>5. PICK k \in 1..n : todo[c][k].id = i /\ ById(new)[i] = todo[c][k] /\ k \in DOMAIN todo[c]
  <2>1. PICK k \in DOMAIN new : new[k].id = i /\ ById(new)[i] = new[k]
    BY <1>2, <1>4, ByIdPicks
  <2> QED BY <1>2, <2>1
<1>6. pc[c] # "reinsert"
  <2> SUFFICES ASSUME pc[c] = "reinsert" PROVE FALSE
    OBVIOUS
  <2>1. Len(todo[c]) = 1 /\ todo[c][1].id \in DOMAIN stored
    BY <1>1 DEF CreationOK
  <2>2. n = 1
    BY <1>1, <1>5, <2>1
  <2> QED BY <2>1, <2>2 DEF Insertable, IsNew
<1>7. pc[c] \in {"insert", "replace"}
  BY <1>6 DEF Storing
<1>8. i \in {Id(c, j) : j \in Items(c)} /\ Plan[c].kind \in Changes \cup {"create"}
  BY <1>1, <1>5, <1>7 DEF OwnIds, IdsOf
<1>9. ASSUME Plan[c].kind = "create", NEW j \in Items(c), Id(c, j) = i
      PROVE  ById(new)[i] = Record(c, j)
  <2>1. pc[c] = "insert"
    BY <1>1, <1>7, <1>9 DEF CreationOK, Running, Storing, Creating
  <2>2. todo[c] = Records(c) /\ k \in Items(c) /\ todo[c][k] = Record(c, k)
    BY <1>1, <1>5, <2>1, RecordsTyped DEF CreationOK
  <2>3. Id(c, k) = i
    BY <1>5, <2>2 DEF Record
  <2> QED BY <1>5, <1>9, <2>2, <2>3, RecordById
<1> QED BY <1>8, <1>9 DEF Meddles, Items, Id

LEMMA PartlyOwn ==
  ASSUME ChartInv, DisturbInv, NEW c \in Calls, Partly(c), pc'[c] \notin {"idle", "exist"}
  PROVE  Inserts(c)
<1>1. CASE UNCHANGED stored
  BY <1>1 DEF Inserts
<1>2. CASE pc[c] \in Storing /\ \E n \in Insertable(c) : stored' = StoredWith(c, n)
  BY <1>2, InsertedOwn
<1> QED BY <1>1, <1>2 DEF Partly

\* The keys are those that Redis had, or those of documents
Loaded(keys) ==
  \A i \in DOMAIN keys : \/ i \in DOMAIN cached /\ keys[i] = cached[i]
                         \/ i \in DOMAIN stored /\ keys[i] = stored[i]

LEMMA NothingLoaded == Loaded(cached)
BY DEF Loaded

\* Records that a creation or a change sets are of its accounts
LEMMA StoreSets ==
  ASSUME NEW c \in Calls, NEW keys, NEW records \in Seq(CoaAccount),
         cached' = Put(keys, ById(records)),
         Plan[c].kind \in Changes \cup {"create"}, pc'[c] \notin {"idle", "exist"},
         IdsOf(records) \subseteq {Id(c, j) : j \in Items(c)},
         Loaded(keys)
  PROVE  Sets(c)
<1>1. DOMAIN ById(records) = IdsOf(records)
  BY ByIdPicks DEF IdsOf
<1>2. \A i \in DOMAIN ById(records) : Meddles(c, i)'
  BY <1>1 DEF Meddles, Items, Id
<1> QED BY <1>2 DEF Sets, Put, Loaded

LEMMA StoreOnCache ==
  ASSUME NEW c \in Calls, NEW records \in Seq(CoaAccount), cached' = Put(cached, ById(records)),
         Plan[c].kind = "create", pc'[c] \in {"insert", "reinsert"},
         IdsOf(records) \subseteq {Id(c, j) : j \in Items(c)}
  PROVE  Sets(c)
<1>1. Plan[c].kind \in Changes \cup {"create"} /\ pc'[c] \notin {"idle", "exist"}
  OBVIOUS
<1> QED BY <1>1, NothingLoaded, StoreSets

\* Redis loaded with documents
LEMMA LoadedKeys ==
  ASSUME ChartInv, NEW I, I \subseteq DOMAIN stored, NEW docs \in SetToSeqs({stored[i] : i \in I})
  PROVE  /\ docs \in Seq(CoaAccount) /\ IdsOf(docs) \subseteq I
         /\ Loaded(Put(cached, ById(docs)))
<1> DEFINE S == {stored[i] : i \in I}
           f == [i \in I |-> stored[i]]
<1>1. docs \in Seq(CoaAccount)
  BY DocsTyped
<1>2. IsFiniteSet(I)
  BY FS_Subset DEF ChartInv, StoresTyped
<1>3. f \in Surjection(I, S)
  BY DEF Surjection
<1>4. IsFiniteSet(S)
  BY <1>2, <1>3, FS_Surjection
<1>5. \A n \in DOMAIN docs : \E i \in I : docs[n] = stored[i] /\ docs[n].id = i
  <2>1. docs \in [1..Cardinality(S) -> S]
    <3> HIDE DEF S
    <3>1. docs \in SetToSeqs(S)
      BY DEF S
    <3> QED BY <1>4, <3>1, Onto
  <2> QED BY <2>1 DEF ChartInv, StoresTyped, IsChart
<1>6. IdsOf(docs) \subseteq I
  BY <1>5 DEF IdsOf
<1>7. \A i \in DOMAIN ById(docs) : i \in DOMAIN stored /\ ById(docs)[i] = stored[i]
  <2> TAKE i \in DOMAIN ById(docs)
  <2>1. PICK n \in DOMAIN docs : docs[n].id = i /\ ById(docs)[i] = docs[n]
    BY <1>1, ByIdPicks
  <2> QED BY <1>5, <2>1
<1> QED BY <1>1, <1>6, <1>7 DEF Put, Loaded

-----------------------------------------------------------------------------
(* One lemma per action *)

LEMMA BeginDisturbs == ASSUME ChartInv, DisturbInv, NEW c \in Calls, Begin(c) PROVE DisturbInv'
<1>1. /\ OthersStay(c) /\ UNCHANGED <<stored, cached>> /\ pc[c] = "idle"
      /\ pc'[c] \in {"exist", "readOwner", "readCache"}
      /\ pc'[c] = "readOwner" => Plan[c].kind = "getByOwner"
  BY OneActs, CallDomains DEF Begin, Goto
<1>2. OthersLost(c) /\ Onward(c) /\ OwnIds(c)' /\ Inserts(c) /\ Sets(c) /\ OwnSets(c)
  BY <1>1 DEF OthersStay, OthersLost, Onward, OwnIds, Inserts, Sets, OwnSets
<1> QED BY <1>2, DisturbStep

LEMMA CheckExistDisturbs == ASSUME ChartInv, DisturbInv, NEW c \in Calls, CheckExist(c) PROVE DisturbInv'
<1>1. /\ OthersStay(c) /\ UNCHANGED stored /\ pc[c] = "exist" /\ Plan[c].kind = "create"
      /\ \/ pc'[c] = "failed" /\ UNCHANGED cached
         \/ /\ cached' = Put(cached, ById(Records(c))) /\ todo'[c] = Records(c)
            /\ pc'[c] = "insert"
  BY OneActs, CallDomains DEF CheckExist, Goto, Store, ChartInv, CreationOK, Creating
<1>2. OthersLost(c) /\ Onward(c) /\ Inserts(c)
  BY <1>1 DEF OthersStay, OthersLost, Onward, Inserts
<1>3. CASE pc'[c] = "failed" /\ UNCHANGED cached
  <2>1. OwnIds(c)' /\ Sets(c) /\ OwnSets(c)
    BY <1>3 DEF OwnIds, Sets, OwnSets
  <2> QED BY <1>2, <2>1, DisturbStep
<1>4. CASE /\ cached' = Put(cached, ById(Records(c))) /\ todo'[c] = Records(c)
           /\ pc'[c] = "insert"
  <2>1. /\ Records(c) \in Seq(CoaAccount) /\ DOMAIN Records(c) = Items(c)
        /\ \A k \in Items(c) : Records(c)[k] = Record(c, k) /\ Record(c, k).id = Id(c, k)
    BY RecordsTyped DEF Record
  <2>2. IdsOf(Records(c)) \subseteq {Id(c, j) : j \in Items(c)}
    BY <2>1 DEF IdsOf
  <2>3. Sets(c)
    BY <1>1, <1>4, <2>1, <2>2, StoreOnCache
  <2>4. OwnIds(c)'
    BY <1>1, <1>4, <2>2 DEF OwnIds, IdsOf, Items, Id
  <2>5. OwnSets(c)
    <3>1. ASSUME NEW k \in Items(c) PROVE cached'[Id(c, k)] = Record(c, k)
      <4>0. PICK rs : rs = Records(c)
        OBVIOUS
      <4>00. /\ rs \in Seq(CoaAccount) /\ DOMAIN rs = Items(c)
             /\ \A j \in Items(c) : rs[j] = Record(c, j) /\ rs[j].id = Id(c, j)
        BY <2>1, <4>0
      <4>1. Id(c, k) \in DOMAIN ById(rs)
        <5>1. k \in DOMAIN rs /\ rs[k].id = Id(c, k)
          BY <4>00
        <5>2. DOMAIN ById(rs) = {rs[j].id : j \in DOMAIN rs}
          BY <4>00, ByIdPicks
        <5> QED BY <5>1, <5>2, Zenon
      <4>2. PICK j \in DOMAIN rs : rs[j].id = Id(c, k) /\ ById(rs)[Id(c, k)] = rs[j]
        BY <4>00, <4>1, ByIdPicks
      <4>3. j \in Items(c) /\ Id(c, j) = Id(c, k) /\ ById(rs)[Id(c, k)] = Record(c, j)
        BY <4>00, <4>2
      <4> QED BY <1>4, <4>0, <4>1, <4>3, RecordById DEF Put
    <3> QED BY <3>1 DEF OwnSets, Undisturbed
  <2> QED BY <1>2, <2>3, <2>4, <2>5, DisturbStep
<1> QED BY <1>1, <1>3, <1>4

LEMMA InsertDisturbs == ASSUME ChartInv, DisturbInv, NEW c \in Calls, Insert(c) PROVE DisturbInv'
<1>1. PICK n \in Insertable(c) :
        /\ stored' = StoredWith(c, n)
        /\ IF n = Len(todo[c]) THEN pc'[c] = AfterInsert(pc[c]) ELSE pc'[c] = "failed"
  BY CallDomains DEF Insert, Goto
<1>2. /\ OthersStay(c) /\ UNCHANGED cached /\ pc[c] \in Storing /\ CreationOK(c)
      /\ pc'[c] \in {"openAccounts", "done", "failed"}
  BY <1>1, OneActs DEF Insert, Storing, AfterInsert, ChartInv
<1>3. Inserts(c)
  BY <1>1, <1>2, InsertedOwn
<1>4. OthersLost(c) /\ Onward(c) /\ OwnIds(c)' /\ Sets(c)
  BY <1>2 DEF OthersStay, OthersLost, Onward, OwnIds, Sets
<1>5. pc'[c] = "openAccounts" => pc[c] = "insert"
  <2> SUFFICES ASSUME pc'[c] = "openAccounts", pc[c] # "insert" PROVE FALSE
    OBVIOUS
  <2>1. pc[c] = "reinsert" /\ n = Len(todo[c])
    BY <1>1, <1>2 DEF AfterInsert, Storing
  <2>2. n = 1 /\ todo[c][1].id \in DOMAIN stored
    BY <1>2, <2>1 DEF CreationOK
  <2> QED BY <2>2 DEF Insertable, IsNew
<1>6. pc'[c] = "done" => Plan[c].kind # "create"
  <2> SUFFICES ASSUME pc'[c] = "done" PROVE Plan[c].kind # "create"
    OBVIOUS
  <2>1. pc[c] = "replace"
    BY <1>1, <1>2 DEF AfterInsert, Storing
  <2> QED BY <1>2, <2>1 DEF CreationOK, Running, Storing, Creating
<1>7. OwnSets(c)
  BY <1>2, <1>5, <1>6 DEF OwnSets
<1> QED BY <1>3, <1>4, <1>7, DisturbStep

\* Steps that leave the calls where they are, and set nothing
LEMMA DisturbStays ==
  ASSUME DisturbInv, UNCHANGED <<pc, todo, seen, stored>>,
         \A i \in DOMAIN cached' : i \in DOMAIN cached /\ cached'[i] = cached[i]
  PROVE  DisturbInv'
<1>1. \A d, i : /\ Meddles(d, i)' <=> Meddles(d, i)
               /\ Disturbed(d, i)' <=> Disturbed(d, i)
  BY DEF Meddles, Disturbed, Items, Id
<1>2. ASSUME NEW d \in Calls PROVE OwnIds(d)'
  <2>1. IdsOf(todo[d])' = IdsOf(todo[d]) /\ IdsOf(seen[d])' = IdsOf(seen[d]) /\ pc'[d] = pc[d]
    BY DEF IdsOf
  <2>2. {Id(d, j) : j \in Items(d)}' = {Id(d, j) : j \in Items(d)}
    BY DEF Id, Items
  <2>3. OwnIds(d)
    BY DEF DisturbInv
  <2> QED BY <2>1, <2>2, <2>3 DEF OwnIds
<1>3. \A d \in Calls : \A k \in Items(d) :
        /\ Undisturbed(d, k, stored)' <=> Undisturbed(d, k, stored)
        /\ Undisturbed(d, k, cached) => Undisturbed(d, k, cached)'
  BY DEF Undisturbed, Items, Id, Record
<1>4. \A i \in DOMAIN stored' : \E d \in Calls : Meddles(d, i)'
  <2>1. ASSUME NEW i \in DOMAIN stored PROVE \E d \in Calls : Meddles(d, i)'
    <3>1. PICK d \in Calls : Meddles(d, i)
      BY DEF DisturbInv
    <3>2. Meddles(d, i)'
      BY <3>1 DEF Meddles, Items, Id
    <3> QED BY <3>2
  <2> QED BY <2>1
<1>5. ASSUME NEW d \in Calls, NEW k \in Items(d)
      PROVE  /\ Plan[d].kind = "create" /\ pc'[d] \notin {"idle", "exist"} =>
                  Disturbed(d, Id(d, k))' \/ Undisturbed(d, k, stored)'
             /\ Plan[d].kind = "create" /\ pc'[d] \in {"insert", "openAccounts", "done"} =>
                  Disturbed(d, Id(d, k))' \/ Undisturbed(d, k, cached)'
  <2>1. /\ Disturbed(d, Id(d, k)) => Disturbed(d, Id(d, k))'
        /\ pc'[d] = pc[d]
    BY <1>1 DEF Id
  <2> QED BY <1>3, <2>1 DEF DisturbInv
<1> QED BY <1>2, <1>4, <1>5 DEF DisturbInv, Items, Id

LEMMA OpenAllDisturbs == ASSUME ChartInv, DisturbInv, NEW c \in Calls, OpenAll(c) PROVE DisturbInv'
<1>1. /\ OthersStay(c) /\ UNCHANGED <<stored, cached>> /\ pc[c] = "openAccounts"
      /\ pc'[c] \in {"done", "failed"}
  BY OneActs, CallDomains DEF OpenAll, Created, Goto
<1> QED BY <1>1, PlainDisturbs DEF Running

\* A record that is stored again is one of the creation
LEMMA AccountsOpenedDisturbs == ASSUME ChartInv, DisturbInv, NEW c \in Calls, AccountsOpened(c) PROVE DisturbInv'
<1>1. /\ OthersStay(c) /\ UNCHANGED stored /\ pc[c] = "openAccounts" /\ Plan[c].kind = "create"
      /\ given[c] \in Seq(LedgerIds) /\ Len(given[c]) = Len(Plan[c].ids)
  BY OneActs DEF AccountsOpened, ChartInv, CallsTyped, CallTypes, CreationOK, Creating
<1>2. CASE Created(c) /\ UNCHANGED cached
  <2>1. pc'[c] = "done"
    BY <1>2, CallDomains DEF Created, Goto
  <2> QED BY <1>1, <1>2, <2>1, PlainDisturbs DEF Running
<1>3. CASE \E k \in ToRename(c) :
             Store(c, cached, <<[Record(c, k) EXCEPT !.ledger = given[c][k]]>>, "reinsert")
  <2>1. PICK k \in Items(c) :
          Store(c, cached, <<[Record(c, k) EXCEPT !.ledger = given[c][k]]>>, "reinsert")
    BY <1>3 DEF ToRename, Renamed
  <2>2. PICK r : r = [Record(c, k) EXCEPT !.ledger = given[c][k]]
    OBVIOUS
  <2>3. r \in CoaAccount /\ r.id = Id(c, k)
    <3>1. given[c][k] \in LedgerIds
      <4>1. k \in 1..Len(given[c])
        BY <1>1, PlanTyped
      <4> QED BY <1>1, <4>1
    <3>2. Record(c, k) \in CoaAccount
      BY RecordsTyped
    <3> QED BY <2>2, <3>1, <3>2 DEF CoaAccount, Record
  <2>4. <<r>> \in Seq(CoaAccount) /\ DOMAIN <<r>> = {1} /\ <<r>>[1] = r
    BY <2>3
  <2>5. pc'[c] = "reinsert" /\ cached' = Put(cached, ById(<<r>>))
    BY <2>1, <2>2, CallDomains DEF Store, Goto
  <2>6. IdsOf(<<r>>) \subseteq {Id(c, j) : j \in Items(c)}
    BY <2>3, <2>4 DEF IdsOf
  <2>7. Sets(c)
    BY <1>1, <2>4, <2>5, <2>6, StoreOnCache
  <2>8. OthersLost(c) /\ Onward(c) /\ OwnIds(c)' /\ Inserts(c) /\ OwnSets(c)
    BY <1>1, <2>5 DEF OthersStay, OthersLost, Onward, OwnIds, Inserts, OwnSets
  <2> QED BY <2>7, <2>8, DisturbStep
<1> QED BY <1>2, <1>3 DEF AccountsOpened

\* What a change stores is of the accounts it asks for
LEMMA FoundDisturbs ==
  ASSUME ChartInv, DisturbInv, NEW c \in Calls, OthersStay(c), UNCHANGED stored,
         pc[c] \in {"readCache", "readDb", "readOwner"},
         NEW records \in Seq(CoaAccount), NEW keys, Found(c, records, keys),
         Plan[c].kind \in Changes => IdsOf(records) \subseteq {Id(c, j) : j \in Items(c)},
         Loaded(keys)
  PROVE  DisturbInv'
<1>1. Plan[c].kind # "create"
  BY DEF ChartInv, CreationOK, Running, Creating, Reading
<1>2. OthersLost(c) /\ Inserts(c) /\ OwnSets(c)
  BY <1>1 DEF OthersStay, OthersLost, Inserts, OwnSets
<1>3. CASE Query(c, records, keys)
  <2>1. cached' = keys /\ pc'[c] \in {"done", "readLedger"}
    BY <1>3, CallDomains DEF Query, Goto
  <2>2. Onward(c) /\ OwnIds(c)' /\ Sets(c)
    BY <2>1 DEF Onward, OwnIds, Sets, Loaded
  <2> QED BY <1>2, <2>2, DisturbStep
<1>4. CASE Change(c, records, keys)
  <2> DEFINE changed == [k \in DOMAIN records |-> [records[k] EXCEPT !.state = To(Plan[c].kind)]]
  <2>1. /\ Plan[c].kind \in Changes
        /\ \/ todo'[c] = changed /\ cached' = Put(keys, ById(changed)) /\ pc'[c] = "replace"
           \/ cached' = keys /\ pc'[c] \in {"changeLedger", "failed"}
    BY <1>4, CallDomains DEF Change, Store, Goto
  <2>2. ASSUME NEW k \in DOMAIN records
        PROVE  changed[k] \in CoaAccount /\ changed[k].id = records[k].id
    <3>1. To(Plan[c].kind) \in State
      BY <2>1 DEF Changes, To, State
    <3>2. records[k] \in CoaAccount
      OBVIOUS
    <3> QED BY <3>1, <3>2 DEF CoaAccount
  <2>3. changed \in Seq(CoaAccount) /\ DOMAIN changed = DOMAIN records
    <3>1. DOMAIN records = 1..Len(records) /\ Len(records) \in Nat
      OBVIOUS
    <3> QED BY <2>2, <3>1
  <2> HIDE DEF changed
  <2>4. IdsOf(changed) \subseteq {Id(c, j) : j \in Items(c)}
    BY <2>1, <2>2, <2>3 DEF IdsOf
  <2>5. Onward(c)
    BY <2>1 DEF Onward
  <2>6. CASE todo'[c] = changed /\ cached' = Put(keys, ById(changed)) /\ pc'[c] = "replace"
    <3>1. Sets(c)
      <4>1. Plan[c].kind \in Changes \cup {"create"} /\ pc'[c] \notin {"idle", "exist"}
        BY <2>1, <2>6
      <4> QED BY <2>3, <2>4, <2>6, <4>1, StoreSets
    <3>2. OwnIds(c)'
      BY <2>1, <2>4, <2>6 DEF OwnIds, IdsOf, Items, Id
    <3> QED BY <1>2, <2>5, <3>1, <3>2, DisturbStep
  <2>7. CASE cached' = keys /\ pc'[c] \in {"changeLedger", "failed"}
    <3>1. OwnIds(c)' /\ Sets(c)
      BY <2>7 DEF OwnIds, Sets, Loaded
    <3> QED BY <1>2, <2>5, <3>1, DisturbStep
  <2> QED BY <2>1, <2>6, <2>7
<1> QED BY <1>3, <1>4 DEF Found

LEMMA WantedIds ==
  ASSUME NEW c \in Calls, Plan[c].kind # "create"
  PROVE  Wanted(c) = {Id(c, j) : j \in Items(c)}
<1>1. \A j \in Items(c) : Id(c, j) = Plan[c].ids[j]
  BY NamesIds
<1> QED BY <1>1 DEF Wanted

LEMMA ReadCacheDisturbs == ASSUME ChartInv, DisturbInv, NEW c \in Calls, ReadCache(c) PROVE DisturbInv'
<1>1. PICK hits \in SetToSeqs(Hits(c)) :
        IF Wanted(c) \subseteq DOMAIN cached
        THEN Found(c, InRedis(c, hits), cached)
        ELSE /\ seen' = [seen EXCEPT ![c] = InRedis(c, hits)]
             /\ Goto(c, "readDb")
             /\ UNCHANGED <<todo, cached>>
  BY DEF ReadCache
<1>2. /\ pc[c] = "readCache" /\ InRedis(c, hits) \in Seq(CoaAccount)
      /\ UNCHANGED stored /\ OthersStay(c) /\ IsChart(cached)
  BY InRedisTyped, OneActs DEF ReadCache, ChartInv, StoresTyped
<1>3. Plan[c].kind # "create"
  BY <1>2 DEF ChartInv, CreationOK, Running, Creating, Reading
<1>4. IdsOf(InRedis(c, hits)) \subseteq {Id(c, j) : j \in Items(c)}
  <2>1. IsFiniteSet(Items(c))
    BY PlanTyped, FS_Interval
  <2>2. IsFiniteSet(Hits(c))
    BY <2>1, FS_Subset DEF Hits
  <2>3. hits \in [1..Cardinality(Hits(c)) -> Hits(c)]
    BY <2>2, Onto
  <2>4. \A n \in DOMAIN hits : /\ hits[n] \in Items(c)
                              /\ InRedis(c, hits)[n].id = Id(c, hits[n])
    BY <1>2, <1>3, <2>3, NamesIds DEF InRedis, Hits, IsChart
  <2>5. DOMAIN InRedis(c, hits) = DOMAIN hits
    BY DEF InRedis
  <2> QED BY <2>4, <2>5 DEF IdsOf
<1>5. CASE Wanted(c) \subseteq DOMAIN cached
  <2>1. Found(c, InRedis(c, hits), cached)
    BY <1>1, <1>5
  <2> QED BY <1>2, <1>4, <2>1, NothingLoaded, FoundDisturbs
<1>6. CASE ~(Wanted(c) \subseteq DOMAIN cached)
  <2>1. pc'[c] = "readDb" /\ seen'[c] = InRedis(c, hits) /\ UNCHANGED cached
    BY <1>1, <1>6, CallDomains DEF Goto
  <2>2. OwnIds(c)'
    BY <1>4, <2>1 DEF OwnIds, IdsOf, Items, Id
  <2>3. OthersLost(c) /\ Inserts(c) /\ Sets(c) /\ OwnSets(c) /\ Onward(c)
    BY <1>2, <1>3, <2>1 DEF OthersStay, OthersLost, Inserts, Sets, OwnSets, Onward
  <2> QED BY <2>2, <2>3, DisturbStep
<1> QED BY <1>5, <1>6

LEMMA ReadDbDisturbs == ASSUME ChartInv, DisturbInv, NEW c \in Calls, ReadDb(c) PROVE DisturbInv'
<1> DEFINE I == (Wanted(c) \ IdsOf(seen[c])) \cap DOMAIN stored
<1>1. PICK docs \in SetToSeqs({stored[i] : i \in I}) :
        Found(c, seen[c] \o docs, Put(cached, ById(docs)))
  BY DEF ReadDb
<1>2. /\ docs \in Seq(CoaAccount) /\ IdsOf(docs) \subseteq I
      /\ Loaded(Put(cached, ById(docs)))
  BY LoadedKeys
<1>3. /\ seen[c] \in Seq(CoaAccount) /\ OwnIds(c) /\ pc[c] = "readDb" /\ UNCHANGED stored
      /\ OthersStay(c)
  BY OneActs DEF ChartInv, CallsTyped, CallTypes, DisturbInv, ReadDb
<1>4. Plan[c].kind # "create"
  BY <1>3 DEF ChartInv, CreationOK, Running, Creating, Reading
<1> DEFINE both == seen[c] \o docs
<1>5. /\ DOMAIN both = 1..(Len(seen[c]) + Len(docs)) /\ Len(seen[c]) \in Nat /\ Len(docs) \in Nat
      /\ DOMAIN seen[c] = 1..Len(seen[c]) /\ DOMAIN docs = 1..Len(docs)
      /\ \A n \in 1..Len(seen[c]) : both[n] = seen[c][n]
      /\ \A n \in (Len(seen[c]) + 1)..(Len(seen[c]) + Len(docs)) : both[n] = docs[n - Len(seen[c])]
      /\ both \in Seq(CoaAccount)
  BY <1>2, <1>3
<1> HIDE DEF both
<1>6. Plan[c].kind \in Changes => IdsOf(both) \subseteq {Id(c, j) : j \in Items(c)}
  <2> SUFFICES ASSUME Plan[c].kind \in Changes, NEW n \in DOMAIN both
               PROVE  both[n].id \in {Id(c, j) : j \in Items(c)}
    BY DEF IdsOf
  <2>1. IdsOf(seen[c]) \subseteq {Id(c, j) : j \in Items(c)}
    BY <1>3 DEF OwnIds
  <2>2. IdsOf(docs) \subseteq {Id(c, j) : j \in Items(c)}
    BY <1>2, <1>4, WantedIds
  <2>3. both[n].id \in IdsOf(seen[c]) \/ both[n].id \in IdsOf(docs)
    <3>1. CASE n \in 1..Len(seen[c])
      BY <1>5, <3>1 DEF IdsOf
    <3>2. CASE n \in (Len(seen[c]) + 1)..(Len(seen[c]) + Len(docs))
      <4>1. n - Len(seen[c]) \in DOMAIN docs
        BY <1>5, <3>2
      <4> QED BY <1>5, <3>2, <4>1 DEF IdsOf
    <3> QED BY <1>5, <3>1, <3>2
  <2> QED BY <2>1, <2>2, <2>3
<1>7. Found(c, both, Put(cached, ById(docs)))
  BY <1>1 DEF both
<1> QED BY <1>2, <1>3, <1>5, <1>6, <1>7, FoundDisturbs

LEMMA ReadOwnerDisturbs == ASSUME ChartInv, DisturbInv, NEW c \in Calls, ReadOwner(c) PROVE DisturbInv'
<1> DEFINE I == {j \in DOMAIN stored : stored[j].owner = Plan[c].owner}
<1>1. PICK docs \in SetToSeqs({stored[i] : i \in I}) : Found(c, docs, Put(cached, ById(docs)))
  BY DEF ReadOwner
<1>2. docs \in Seq(CoaAccount) /\ Loaded(Put(cached, ById(docs)))
  BY LoadedKeys
<1>3. /\ OthersStay(c) /\ UNCHANGED stored /\ pc[c] = "readOwner"
      /\ Plan[c].kind \notin Changes
  BY OneActs DEF ReadOwner, DisturbInv, OwnIds, Changes
<1> QED BY <1>1, <1>2, <1>3, FoundDisturbs

LEMMA ReadLedgerDisturbs == ASSUME ChartInv, DisturbInv, NEW c \in Calls, ReadLedger(c) PROVE DisturbInv'
<1>1. /\ OthersStay(c) /\ UNCHANGED <<stored, cached>> /\ pc[c] = "readLedger" /\ pc'[c] = "done"
  BY OneActs, CallDomains DEF ReadLedger, Goto
<1>2. Plan[c].kind # "create"
  BY <1>1 DEF ChartInv, CreationOK, Running, Creating, Reading
<1> QED BY <1>1, <1>2, PlainDisturbs DEF Running, Reading

LEMMA ChangeLedgerDisturbs == ASSUME ChartInv, DisturbInv, NEW c \in Calls, ChangeLedger(c) PROVE DisturbInv'
<1>1. /\ OthersStay(c) /\ UNCHANGED <<stored, cached>> /\ pc[c] = "changeLedger" /\ pc'[c] = "failed"
  BY OneActs, CallDomains DEF ChangeLedger, Goto
<1> QED BY <1>1, PlainDisturbs DEF Running

\* What it was inserting is in part there
LEMMA RejectsDisturbs == ASSUME ChartInv, DisturbInv, NEW c \in Calls, Rejects(c) PROVE DisturbInv'
<1>1. /\ OthersStay(c) /\ UNCHANGED cached /\ pc'[c] = "failed" /\ Partly(c)
  BY OneActs, CallDomains DEF Rejects, Goto
<1>2. Inserts(c)
  BY <1>1, PartlyOwn
<1>3. OthersLost(c) /\ Onward(c) /\ OwnIds(c)' /\ Sets(c) /\ OwnSets(c)
  BY <1>1 DEF OthersStay, OthersLost, Onward, OwnIds, Sets, OwnSets
<1> QED BY <1>2, <1>3, DisturbStep

\* Calls that have answered keep their answers, the others are lost
LEMMA RestartDisturbs == ASSUME ChartInv, DisturbInv, Restart PROVE DisturbInv'
<1>1. PICK c \in Calls : Partly(c)
  BY DEF Restart
<1>2. \A d \in Calls : IF pc[d] \in Running THEN pc'[d] = "lost" ELSE pc'[d] = pc[d]
  BY DEF Restart
<1>3. UNCHANGED cached
  BY DEF Restart
<1>4. CASE UNCHANGED stored
  <2>1. OthersLost(c) /\ Sets(c) /\ Inserts(c)
    BY <1>2, <1>3, <1>4 DEF OthersLost, Sets, Inserts
  <2>2. OwnIds(c)' /\ OwnSets(c) /\ Onward(c)
    BY <1>2, <1>3 DEF OwnIds, OwnSets, Onward, Running, Reading, Storing
  <2> QED BY <2>1, <2>2, DisturbStep
<1>5. CASE ~UNCHANGED stored
  <2>1. pc'[c] = "lost"
    BY <1>1, <1>2, <1>5 DEF Partly, Running
  <2>2. Inserts(c)
    BY <1>1, <2>1, PartlyOwn
  <2>3. OthersLost(c) /\ Sets(c)
    BY <1>2, <1>3 DEF OthersLost, Sets
  <2>4. OwnIds(c)' /\ OwnSets(c) /\ Onward(c)
    BY <2>1 DEF OwnIds, OwnSets, Onward
  <2> QED BY <2>2, <2>3, <2>4, DisturbStep
<1> QED BY <1>4, <1>5

\* Once a creation was answered, only another creation of the id or a change of state
\* can have put other records in the place of its own, for any calls, failures,
\* evictions and restarts.
THEOREM AnsweredAccountsUndisturbed == ChartSpec => []AckedUndisturbed
<1>1. ChartInit => DisturbInv
  <2> SUFFICES ASSUME ChartInit PROVE DisturbInv
    OBVIOUS
  <2>1. \A c \in Calls : pc[c] = "idle"
    BY DEF ChartInit
  <2>2. stored = <<>>
    BY DEF ChartInit
  <2> QED BY <2>1, <2>2, NamedEmpty DEF DisturbInv, OwnIds
<1>2. ChartInv /\ DisturbInv /\ [ChartNext]_chartVars => DisturbInv'
  <2> SUFFICES ASSUME ChartInv, DisturbInv, [ChartNext]_chartVars PROVE DisturbInv'
    OBVIOUS
  <2>1. CASE \E c \in Calls : Begin(c) \/ CheckExist(c) \/ Insert(c) \/ OpenAll(c)
    BY <2>1, BeginDisturbs, CheckExistDisturbs, InsertDisturbs, OpenAllDisturbs
  <2>2. CASE \E c \in Calls : AccountsOpened(c) \/ ReadCache(c) \/ ReadDb(c) \/ ReadOwner(c)
    BY <2>2, AccountsOpenedDisturbs, ReadCacheDisturbs, ReadDbDisturbs, ReadOwnerDisturbs
  <2>3. CASE \E c \in Calls : ReadLedger(c) \/ ChangeLedger(c) \/ Rejects(c)
    BY <2>3, ReadLedgerDisturbs, ChangeLedgerDisturbs, RejectsDisturbs
  <2>4. CASE Restart
    BY <2>4, RestartDisturbs
  <2>5. CASE \E i \in DOMAIN cached : Evict(i)
    <3>1. PICK i \in DOMAIN cached : Evict(i)
      BY <2>5
    <3> QED BY <3>1, DisturbStays DEF Evict, callVars
  <2>6. CASE \/ \E c \in Calls : OpenAccount(c)
             \/ \E i \in Foreign : OpenForeign(i)
             \/ UNCHANGED chartVars
    <3>1. UNCHANGED <<pc, todo, seen, stored, cached>>
      BY <2>6 DEF OpenAccount, OpenForeign, chartVars, callVars
    <3> QED BY <3>1, DisturbStays
  <2> QED BY <2>1, <2>2, <2>3, <2>4, <2>5, <2>6 DEF ChartNext
<1>3. DisturbInv => AckedUndisturbed
  BY DEF DisturbInv, Disturbed, Meddles, Undisturbed, AckedUndisturbed
<1> QED BY <1>1, <1>2, <1>3, ChartInvariant, PTL DEF ChartSpec
=============================================================================
