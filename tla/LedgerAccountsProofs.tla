------------------------- MODULE LedgerAccountsProofs -------------------------
(***************************************************************************)
(* Proofs about LedgerAccounts: that its types hold, that no balance that  *)
(* Redis or MongoDB has counts an entry missing in the journal, and that   *)
(* the entries of answered requests are in the journal.                    *)
(***************************************************************************)
EXTENDS LedgerAccounts, TLAPS

Places == Running \cup {"idle", "done", "failed", "lost"}

\* Where a call is within a step of its plan
Stepping == Running \ {"flush", "flushEntries", "flushAccounts", "uncache"}

IsMap(f) == DOMAIN f \subseteq Accounts /\ \A a \in DOMAIN f : f[a] \in Value
Refers(f) == \A a \in DOMAIN f : f[a] \in DOMAIN objects /\ f[a].of = a

-----------------------------------------------------------------------------
(* The inductive strengthening of StoreTypeOK *)

CallOK(c) ==
  /\ pc[c] = "idle" => at[c] = 1
  /\ pc[c] \in Stepping => at[c] \in DOMAIN Plan[c]
  /\ IsMap(keys[c]) /\ IsMap(docs[c]) /\ IsMap(snap[c])
  /\ Refers(held[c])
  /\ pc[c] \in Updating => c \in Directs /\ Step(c).kind = "post" /\ Holds(c)
  /\ pc[c] \in Updating \ {"storeEntry"} => DOMAIN snap[c] = {Subject(c)}

CallTypes ==
  /\ pc \in [Calls -> Places]
  /\ at \in [Calls -> Nat \ {0}]
  /\ DOMAIN held = Calls /\ DOMAIN keys = Calls /\ DOMAIN docs = Calls /\ DOMAIN snap = Calls

SharedOK ==
  /\ DOMAIN objects \subseteq Object /\ \A o \in DOMAIN objects : objects[o] \in Value
  /\ Refers(accountCache)
  /\ IsMap(redis) /\ IsMap(db)
  /\ entriesCache \subseteq EntryIds /\ journal \subseteq EntryIds
  /\ faults \in 0..MaxFaults

TypeInv ==
  /\ CallTypes
  /\ posted \in [Calls -> SUBSET EntryIds]
  /\ SharedOK
  /\ \A c \in Calls : CallOK(c)

LEMMA TypeInvImplies == TypeInv => StoreTypeOK
  BY DEF TypeInv, CallTypes, SharedOK, CallOK, StoreTypeOK, IsMap, Refers, Places, Stepping

LEMMA EmptyMap == DOMAIN <<>> = {}
  OBVIOUS

LEMMA PutMap ==
  ASSUME NEW f, NEW g, IsMap(f), IsMap(g)
  PROVE  IsMap(Put(f, g))
  BY DEF IsMap, Put

LEMMA OnMap ==
  ASSUME NEW f, NEW S, IsMap(f)
  PROVE  IsMap(On(f, S))
  BY DEF IsMap, On

-----------------------------------------------------------------------------
(* A step of one call *)

\* Call c has moved and is all right, the others stay where they were
Moved(c) ==
  /\ CallTypes'
  /\ \A d \in Calls \ {c} :
       /\ pc'[d] = pc[d] /\ at'[d] = at[d] /\ held'[d] = held[d]
       /\ keys'[d] = keys[d] /\ docs'[d] = docs[d] /\ snap'[d] = snap[d]
  /\ CallOK(c)'

LEMMA OneMoves ==
  ASSUME TypeInv, NEW c \in Calls, Moved(c), SharedOK', DOMAIN objects \subseteq DOMAIN objects',
         posted' \in [Calls -> SUBSET EntryIds]
  PROVE  TypeInv'
<1>1. ASSUME NEW d \in Calls, d # c PROVE CallOK(d)'
  BY <1>1 DEF TypeInv, Moved, CallOK, Refers, Step, Ids, Holds, Subject, Side
<1>2. QED
  BY <1>1 DEF TypeInv, Moved

\* The plan's step of a call that is within one
LEMMA StepTyped ==
  ASSUME TypeInv, NEW c \in Calls, pc[c] \in Stepping
  PROVE  /\ Step(c) \in PlanStep /\ Entry(c) \in EntryIds
         /\ at[c] \in DOMAIN Plan[c]
<1>1. at[c] \in DOMAIN Plan[c] /\ at[c] \in Nat \ {0}
  BY DEF TypeInv, CallTypes, CallOK
<1>2. Plan[c] \in Seq(PlanStep)
  BY PlanAssumption
<1>3. QED
  BY <1>1, <1>2 DEF Step, Entry, EntryIds

LEMMA AdvanceMoves ==
  ASSUME TypeInv, NEW c \in Calls, NEW n \in {1, 2}, Advance(c, n)
  PROVE  Moved(c)
<1>1. CallTypes'
  BY DEF TypeInv, CallTypes, Advance, Leave, Goto, Places, Running
<1>2. pc'[c] = (IF at[c] + n <= Len(Plan[c]) THEN "get"
                ELSE IF c \in Batches THEN "flush" ELSE "done")
  BY DEF TypeInv, CallTypes, Advance, Goto
<1>3. at'[c] = at[c] + n /\ held'[c] = <<>> /\ keys'[c] = <<>> /\ docs'[c] = <<>> /\ snap'[c] = <<>>
  BY DEF TypeInv, CallTypes, Advance, Leave
<1>4. pc'[c] \in Stepping => at'[c] \in DOMAIN Plan[c]
  <2>1. Plan[c] \in Seq(PlanStep)
    BY PlanAssumption
  <2>2. at[c] \in Nat \ {0}
    BY DEF TypeInv, CallTypes
  <2>3. QED
    BY <1>2, <1>3, <2>1, <2>2 DEF Stepping, Running, Loading, Updating, Flushing, Creating
<1>5. pc'[c] \notin Updating /\ pc'[c] # "idle"
  BY <1>2 DEF Updating
<1>6. CallOK(c)'
  BY <1>3, <1>4, <1>5, EmptyMap DEF CallOK, IsMap, Refers
<1>7. QED
  BY <1>1, <1>6 DEF Moved, Advance, Leave, Goto, TypeInv, CallTypes

\* An action that changes of the calls' variables only where c is
LEMMA GotoMoves ==
  ASSUME TypeInv, NEW c \in Calls, NEW place \in Places \ (Updating \cup {"idle"}), Goto(c, place),
         place \in Stepping => at[c] \in DOMAIN Plan[c],
         UNCHANGED <<at, held, fetched, snap>>, DOMAIN objects \subseteq DOMAIN objects'
  PROVE  Moved(c)
<1>1. CallTypes' /\ pc'[c] = place
  BY DEF TypeInv, CallTypes, Goto, fetched
<1>2. CallOK(c)'
  BY <1>1 DEF TypeInv, CallOK, Refers, fetched
<1>3. QED
  BY <1>1, <1>2 DEF Moved, Goto, TypeInv, CallTypes, fetched

LEMMA ThrowMoves ==
  ASSUME TypeInv, NEW c \in Calls, pc[c] \in Stepping, Throw(c),
         DOMAIN objects \subseteq DOMAIN objects'
  PROVE  Moved(c)
<1>1. CASE c \in Batches
  <2>1. 1 + Step(c).rest \in {1, 2}
    BY StepTyped DEF PlanStep
  <2>2. QED
    BY <1>1, <2>1, AdvanceMoves DEF Throw
<1>2. CASE c \notin Batches
  BY <1>2, GotoMoves DEF Throw, Reject, Places, Stepping, Running, Loading, Updating, Flushing, Creating
<1>3. QED
  BY <1>1, <1>2

LEMMA RenewedTyped ==
  ASSUME TypeInv, NEW c \in Calls, pc[c] \in Updating \ {"storeEntry"}, NEW v \in Value
  PROVE  Renewed(c, v) \in Value
<1>1. snap[c][Subject(c)] \in Value
  BY DEF TypeInv, CallOK, IsMap
<1>2. Side(c) \in {"dr", "cr"}
  BY DEF Side
<1>3. QED
  BY <1>1, <1>2 DEF Renewed, Value

LEMMA ZeroTyped == Zero \in Value
  BY DEF Zero, Value

\* What a write leaves in the stores
LEMMA WriteTyped ==
  ASSUME TypeInv, NEW c \in Calls, NEW S \in SUBSET Items(c), Write(c, S)
  PROVE  journal' \subseteq EntryIds /\ IsMap(redis') /\ IsMap(db')
<1>1. IsMap(redis) /\ IsMap(db) /\ IsMap(keys[c]) /\ IsMap(docs[c]) /\ IsMap(snap[c])
  BY DEF TypeInv, SharedOK, CallOK
<1>2. JournalWith(c, S) \subseteq EntryIds
  <2>1. CASE pc[c] = "storeEntry"
    <3>1. Entry(c) \in EntryIds
      BY <2>1, StepTyped DEF Stepping, Running, Updating
    <3>2. Items(c) = {Entry(c)}
      BY <2>1 DEF Items, Creating
    <3>3. QED
      BY <2>1, <3>1, <3>2 DEF JournalWith, TypeInv, SharedOK
  <2>2. CASE pc[c] = "flushEntries"
    <3>1. Items(c) = entriesCache
      BY <2>2 DEF Items, Creating
    <3>2. QED
      BY <2>2, <3>1 DEF JournalWith, TypeInv, SharedOK
  <2>3. QED
    BY <2>1, <2>2 DEF JournalWith, TypeInv, SharedOK
<1>3. pc[c] \in Creating => Step(c).to \in Accounts
  BY StepTyped DEF Stepping, Running, Creating, PlanStep
<1>4. IsMap(RedisWith(c, S))
  <2>1. CASE pc[c] = "recache"
    BY <1>1, <2>1, PutMap, OnMap DEF RedisWith, Loaded
  <2>2. CASE pc[c] \in {"setDr", "setCr"}
    BY <1>1, <2>2, PutMap, OnMap DEF RedisWith
  <2>3. CASE pc[c] = "newKey"
    <3>1. S \subseteq {Step(c).to}
      BY <2>3 DEF Items, Creating
    <3>2. IsMap([a \in S |-> Zero])
      BY <1>3, <2>3, <3>1, ZeroTyped DEF IsMap, Creating
    <3>3. QED
      BY <1>1, <2>3, <3>2, PutMap DEF RedisWith
  <2>4. CASE pc[c] = "uncache" /\ S # {}
    BY <1>1, <2>4, OnMap DEF RedisWith
  <2>5. QED
    BY <1>1, <2>1, <2>2, <2>3, <2>4 DEF RedisWith
<1>5. IsMap(DbWith(c, S))
  <2>1. CASE pc[c] \in {"writeDr", "writeCr"}
    <3>1. \A v \in Value : Renewed(c, v) \in Value
      BY <2>1, RenewedTyped DEF Updating
    <3>2. QED
      BY <1>1, <2>1, <3>1 DEF DbWith, IsMap
  <2>2. CASE pc[c] = "flushAccounts"
    <3>1. Items(c) = DOMAIN snap[c]
      BY <2>2 DEF Items, Creating
    <3>2. QED
      BY <1>1, <2>2, <3>1 DEF DbWith, IsMap
  <2>3. CASE pc[c] = "newDocument"
    <3>1. S \subseteq {Step(c).to}
      BY <2>3 DEF Items, Creating
    <3>2. IsMap([a \in S |-> Zero])
      BY <1>3, <2>3, <3>1, ZeroTyped DEF IsMap, Creating
    <3>3. QED
      BY <1>1, <2>3, <3>2, PutMap DEF DbWith
  <2>4. QED
    BY <1>1, <2>1, <2>2, <2>3 DEF DbWith
<1>6. QED
  BY <1>2, <1>4, <1>5 DEF Write

\* An update of objects keeps the objects and their types
LEMMA DebitTyped ==
  ASSUME TypeInv, NEW c \in Calls, Entry(c) \in EntryIds, NEW os,
         DOMAIN os = DOMAIN objects, \A o \in DOMAIN os : os[o] \in Value
  PROVE  /\ DOMAIN Debit(c, os) = DOMAIN objects /\ \A o \in DOMAIN objects : Debit(c, os)[o] \in Value
         /\ DOMAIN Credit(c, os) = DOMAIN objects /\ \A o \in DOMAIN objects : Credit(c, os)[o] \in Value
  BY DEF Debit, Credit, Value

-----------------------------------------------------------------------------
(* The loads *)

MemoryTyped ==
  /\ DOMAIN objects \subseteq Object /\ \A o \in DOMAIN objects : objects[o] \in Value
  /\ Refers(accountCache)

LEMMA EnterMoves ==
  ASSUME TypeInv, NEW c \in Calls, pc[c] \in Stepping, NEW f, NEW g, IsMap(f), IsMap(g),
         Enter(c, f, g), UNCHANGED <<at, snap>>
  PROVE  Moved(c) /\ DOMAIN objects \subseteq DOMAIN objects' /\ MemoryTyped'
<1> DEFINE made(h, origin) == [a \in DOMAIN h |-> [of |-> a, for |-> Entry(c), origin |-> origin]]
           first == made(f, "key")
           second == made(g, "doc")
           values == [o \in {first[a] : a \in DOMAIN first} |-> f[o.of]]
           laterValues == [o \in {second[a] : a \in DOMAIN second} |-> g[o.of]]
<1>1. /\ objects' = Put(objects, Put(values, laterValues))
      /\ accountCache' = Put(accountCache, Put(first, second))
      /\ held' = [held EXCEPT ![c] = Put(Put(second, first), held[c])]
      /\ keys' = [keys EXCEPT ![c] = <<>>]
      /\ docs' = [docs EXCEPT ![c] = <<>>]
      /\ pc' = [pc EXCEPT ![c] = "ready"]
  BY DEF Enter, Goto
<1>2. Entry(c) \in EntryIds
  BY StepTyped
<1>3. /\ \A a \in DOMAIN first : first[a] \in Object /\ first[a].of = a /\ a \in DOMAIN f
      /\ \A a \in DOMAIN second : second[a] \in Object /\ second[a].of = a /\ a \in DOMAIN g
  BY <1>2 DEF Object, IsMap
<1>4. /\ \A o \in DOMAIN values : o \in Object /\ values[o] \in Value
      /\ \A o \in DOMAIN laterValues : o \in Object /\ laterValues[o] \in Value
  BY <1>3 DEF IsMap
<1>5. /\ \A a \in DOMAIN first : first[a] \in DOMAIN values
      /\ \A a \in DOMAIN second : second[a] \in DOMAIN laterValues
  OBVIOUS
<1> HIDE DEF first, second, values, laterValues
<1>6. /\ DOMAIN objects' = DOMAIN objects \cup DOMAIN values \cup DOMAIN laterValues
      /\ \A o \in DOMAIN objects' : objects'[o] \in {objects[o], values[o], laterValues[o]}
  BY <1>1 DEF Put
<1>7. DOMAIN objects' \subseteq Object /\ \A o \in DOMAIN objects' : objects'[o] \in Value
  BY <1>1, <1>4 DEF Put, TypeInv, SharedOK
<1>8. Refers(accountCache)'
  BY <1>1, <1>3, <1>5, <1>6 DEF Put, Refers, TypeInv, SharedOK
<1>9. CallTypes'
  BY <1>1 DEF TypeInv, CallTypes, Places, Running
<1>10. /\ pc'[c] = "ready" /\ keys'[c] = <<>> /\ docs'[c] = <<>>
       /\ held'[c] = Put(Put(second, first), held[c])
  BY <1>1 DEF TypeInv, CallTypes
<1>11. Refers(held[c])'
  BY <1>3, <1>5, <1>6, <1>10 DEF Put, Refers, TypeInv, CallOK
<1>12. CallOK(c)'
  BY <1>10, <1>11, EmptyMap DEF CallOK, TypeInv, IsMap, Updating
<1>13. Moved(c)
  BY <1>1, <1>9, <1>12 DEF Moved, TypeInv, CallTypes
<1>14. QED
  BY <1>6, <1>7, <1>8, <1>13 DEF MemoryTyped

-----------------------------------------------------------------------------
(* One step per action *)

LEMMA SharedSame ==
  ASSUME TypeInv, UNCHANGED <<memory, stores, faults>>
  PROVE  SharedOK' /\ DOMAIN objects \subseteq DOMAIN objects'
  BY DEF TypeInv, SharedOK, memory, stores, Refers, IsMap

LEMMA SharedWritten ==
  ASSUME TypeInv, NEW c \in Calls, NEW S \in SUBSET Items(c), Write(c, S),
         MemoryTyped', entriesCache' \subseteq EntryIds, faults' \in 0..MaxFaults
  PROVE  SharedOK'
  BY WriteTyped DEF SharedOK, MemoryTyped

LEMMA MemorySame ==
  ASSUME TypeInv, UNCHANGED <<objects, accountCache>>
  PROVE  MemoryTyped' /\ DOMAIN objects \subseteq DOMAIN objects'
  BY DEF TypeInv, SharedOK, MemoryTyped, Refers

\* Objects whose values change stay where they are
LEMMA MemoryUpdated ==
  ASSUME TypeInv, NEW c \in Calls, Entry(c) \in EntryIds, UNCHANGED accountCache,
         objects' \in {objects, Debit(c, objects), Credit(c, objects), Credit(c, Debit(c, objects))}
  PROVE  MemoryTyped' /\ DOMAIN objects' = DOMAIN objects
<1>1. DOMAIN objects' = DOMAIN objects /\ \A o \in DOMAIN objects : objects'[o] \in Value
  <2>1. \A o \in DOMAIN objects : objects[o] \in Value
    BY DEF TypeInv, SharedOK
  <2> DEFINE os == Debit(c, objects)
  <2>2. /\ DOMAIN os = DOMAIN objects /\ \A o \in DOMAIN objects : os[o] \in Value
        /\ DOMAIN Credit(c, objects) = DOMAIN objects
        /\ \A o \in DOMAIN objects : Credit(c, objects)[o] \in Value
    BY <2>1, DebitTyped
  <2> HIDE DEF os
  <2>3. DOMAIN Credit(c, os) = DOMAIN objects /\ \A o \in DOMAIN objects : Credit(c, os)[o] \in Value
    BY <2>2, DebitTyped
  <2>4. QED
    BY <2>1, <2>2, <2>3 DEF os
<1>2. QED
  BY <1>1 DEF MemoryTyped, TypeInv, SharedOK, Refers

LEMMA FirstInPlan ==
  ASSUME TypeInv, NEW c \in Calls, pc[c] = "idle", Plan[c] # <<>>
  PROVE  at[c] \in DOMAIN Plan[c]
<1>1. Plan[c] \in Seq(PlanStep)
  BY PlanAssumption
<1>2. QED
  BY <1>1 DEF TypeInv, CallOK

LEMMA LoadTyped ==
  ASSUME TypeInv, NEW c \in Calls,
         Begin(c) \/ GetAccounts(c) \/ ReadCache(c) \/ ReadDb(c) \/ Recache(c)
  PROVE  TypeInv'
<1>1. CASE Begin(c)
  <2>1. Moved(c)
    BY <1>1, FirstInPlan, GotoMoves DEF Begin, Places, Running, Updating, memory, fetched
  <2>2. QED
    BY <1>1, <2>1, SharedSame, OneMoves DEF Begin, TypeInv
<1>2. CASE GetAccounts(c)
  <2>1. PICK place \in {"ready", "readCache"} : Goto(c, place)
    BY <1>2 DEF GetAccounts
  <2>2. pc[c] \in Stepping
    BY <1>2 DEF GetAccounts, Stepping, Running
  <2>3. at[c] \in DOMAIN Plan[c]
    BY <2>2, StepTyped
  <2>4. CallTypes' /\ pc'[c] = place /\ held'[c] = On(accountCache, Ids(c))
    BY <1>2, <2>1 DEF GetAccounts, Goto, TypeInv, CallTypes, Places, Running, Loading, fetched
  <2>5. Refers(held[c])'
    BY <1>2, <2>4 DEF GetAccounts, On, Refers, TypeInv, SharedOK, memory
  <2>6. CallOK(c)'
    BY <1>2, <2>1, <2>3, <2>4, <2>5 DEF GetAccounts, CallOK, TypeInv, fetched, Updating
  <2>7. Moved(c)
    BY <1>2, <2>1, <2>4, <2>6 DEF Moved, GetAccounts, Goto, TypeInv, CallTypes, fetched
  <2>8. QED
    BY <1>2, <2>7, SharedSame, OneMoves DEF GetAccounts, TypeInv
<1>3. CASE ReadCache(c)
  <2> DEFINE found == On(redis, NotHeld(c))
  <2>1. pc[c] \in Stepping
    BY <1>3 DEF ReadCache, Stepping, Running, Loading
  <2>2. IsMap(found)
    BY OnMap DEF TypeInv, SharedOK
  <2>3. CASE Enter(c, found, <<>>)
    <3>1. IsMap(<<>>)
      BY EmptyMap DEF IsMap
    <3>2. Moved(c) /\ DOMAIN objects \subseteq DOMAIN objects' /\ MemoryTyped'
      BY <1>3, <2>1, <2>2, <2>3, <3>1, EnterMoves DEF ReadCache
    <3>3. SharedOK'
      BY <1>3, <3>2 DEF ReadCache, MemoryTyped, SharedOK, TypeInv, stores, IsMap
    <3>4. QED
      BY <1>3, <3>2, <3>3, OneMoves DEF ReadCache, TypeInv
  <2>4. CASE /\ keys' = [keys EXCEPT ![c] = found] /\ Goto(c, "readDb")
             /\ UNCHANGED <<held, docs, objects, accountCache>>
    <3> HIDE DEF found
    <3>1. at[c] \in DOMAIN Plan[c]
      BY <2>1, StepTyped
    <3>2. CallTypes' /\ pc'[c] = "readDb" /\ keys'[c] = found
      BY <1>3, <2>4 DEF ReadCache, Goto, TypeInv, CallTypes, Places, Running, Loading
    <3>3. CallOK(c)'
      BY <1>3, <2>2, <2>4, <3>1, <3>2 DEF ReadCache, CallOK, TypeInv, Updating, Refers
    <3>4. Moved(c)
      BY <1>3, <2>4, <3>2, <3>3 DEF Moved, ReadCache, Goto, TypeInv, CallTypes
    <3>5. UNCHANGED <<memory, stores, faults, posted>>
      BY <1>3, <2>4 DEF ReadCache, memory
    <3>6. QED
      BY <3>4, <3>5, SharedSame, OneMoves DEF TypeInv
  <2>5. QED
    BY <1>3, <2>3, <2>4 DEF ReadCache
<1>4. CASE ReadDb(c)
  <2> DEFINE found == On(db, NotHeld(c))
  <2>1. pc[c] \in Stepping
    BY <1>4 DEF ReadDb, Stepping, Running, Loading
  <2>2. IsMap(found)
    BY OnMap DEF TypeInv, SharedOK
  <2> HIDE DEF found
  <2>3. at[c] \in DOMAIN Plan[c]
    BY <2>1, StepTyped
  <2>4. CallTypes' /\ pc'[c] = "recache" /\ docs'[c] = found
    BY <1>4 DEF ReadDb, Goto, TypeInv, CallTypes, Places, Running, Loading, found
  <2>5. CallOK(c)'
    BY <1>4, <2>2, <2>3, <2>4 DEF ReadDb, CallOK, TypeInv, Updating, Refers, memory
  <2>6. Moved(c)
    BY <1>4, <2>4, <2>5 DEF Moved, ReadDb, Goto, TypeInv, CallTypes
  <2>7. QED
    BY <1>4, <2>6, SharedSame, OneMoves DEF ReadDb, TypeInv
<1>5. CASE Recache(c)
  <2>1. pc[c] \in Stepping
    BY <1>5 DEF Recache, Stepping, Running, Loading
  <2>2. IsMap(keys[c]) /\ IsMap(docs[c])
    BY DEF TypeInv, CallOK
  <2>3. Moved(c) /\ DOMAIN objects \subseteq DOMAIN objects' /\ MemoryTyped'
    BY <1>5, <2>1, <2>2, EnterMoves DEF Recache
  <2>4. SharedOK'
    BY <1>5, <2>3, SharedWritten DEF Recache, TypeInv, SharedOK
  <2>5. QED
    BY <1>5, <2>3, <2>4, OneMoves DEF Recache, TypeInv
<1>6. QED
  BY <1>1, <1>2, <1>3, <1>4, <1>5

LEMMA SubmitMoves ==
  ASSUME TypeInv, NEW c \in Calls, pc[c] \in Updating, NEW os, NEW a, NEW place,
         \/ place = "getDr" /\ a = Step(c).from
         \/ place = "getCr" /\ a = Step(c).to,
         DOMAIN os = DOMAIN objects, \A o \in DOMAIN os : os[o] \in Value,
         Submit(c, a, os, place)
  PROVE  Moved(c)
<1>1. pc[c] \in Stepping /\ at[c] \in DOMAIN Plan[c]
  BY StepTyped DEF Stepping, Running, Updating
<1>2. CASE Throw(c) /\ UNCHANGED objects
  BY <1>1, <1>2, ThrowMoves
<1>3. CASE /\ objects' = os /\ snap' = [snap EXCEPT ![c] = [x \in {a} |-> os[held[c][a]]]]
           /\ Goto(c, place) /\ UNCHANGED <<at, held, fetched>>
  <2>1. CallTypes' /\ pc'[c] = place /\ snap'[c] = [x \in {a} |-> os[held[c][a]]]
    BY <1>3 DEF Goto, TypeInv, CallTypes, Places, Running, Updating, fetched
  <2>2. /\ Step(c)' = Step(c) /\ Subject(c)' = a
    BY <1>3, <2>1 DEF Step, Subject, Side
  <2>3. Holds(c) /\ a \in Ids(c)
    BY DEF TypeInv, CallOK, Ids
  <2>4. IsMap(snap[c])'
    <3>1. held[c][a] \in DOMAIN os
      BY <2>3 DEF Holds, TypeInv, CallOK, Refers
    <3>2. a \in Accounts
      BY <1>1, <2>3, StepTyped DEF Ids, PlanStep
    <3>3. QED
      BY <2>1, <3>1, <3>2 DEF IsMap
  <2>5. Refers(held[c])'
    BY <1>3 DEF Refers, TypeInv, CallOK
  <2>6. c \in Directs /\ (Step(c).kind = "post")' /\ Holds(c)'
    BY <1>3, <2>2, <2>3 DEF TypeInv, CallOK, Holds, Ids
  <2>7. DOMAIN snap'[c] = {Subject(c)'} /\ pc'[c] # "idle"
    BY <2>1, <2>2
  <2>8. IsMap(keys[c])' /\ IsMap(docs[c])'
    BY <1>3 DEF TypeInv, CallOK, fetched, IsMap
  <2>9. CallOK(c)'
    BY <1>1, <1>3, <2>4, <2>5, <2>6, <2>7, <2>8 DEF CallOK
  <2>10. QED
    BY <1>3, <2>1, <2>9 DEF Moved, Goto, TypeInv, CallTypes, fetched
<1>4. QED
  BY <1>2, <1>3 DEF Submit

LEMMA ReadyTyped ==
  ASSUME TypeInv, NEW c \in Calls,
         Check(c) \/ PostInBatch(c) \/ BeginDirect(c) \/ BeginCreate(c)
  PROVE  TypeInv'
<1>1. pc[c] = "ready" /\ pc[c] \in Stepping
  BY DEF Check, PostInBatch, BeginDirect, BeginCreate, Stepping, Running
<1>2. Entry(c) \in EntryIds /\ at[c] \in DOMAIN Plan[c]
  BY <1>1, StepTyped
<1>3. CASE Check(c)
  <2>1. DOMAIN objects \subseteq DOMAIN objects' /\ SharedOK'
    BY <1>3, SharedSame DEF Check
  <2>2. Moved(c)
    BY <1>1, <1>3, <2>1, AdvanceMoves, ThrowMoves DEF Check
  <2>3. QED
    BY <1>3, <2>1, <2>2, OneMoves DEF Check, TypeInv
<1>4. CASE PostInBatch(c)
  <2>1. /\ objects' \in {objects, Debit(c, objects), Credit(c, Debit(c, objects))}
        /\ UNCHANGED <<accountCache, stores, faults>>
        /\ entriesCache' \in {entriesCache, entriesCache \cup {Entry(c)}}
        /\ posted' \in {posted, [posted EXCEPT ![c] = @ \cup {Entry(c)}]}
    BY <1>4 DEF PostInBatch
  <2>2. MemoryTyped' /\ DOMAIN objects' = DOMAIN objects
    BY <1>2, <2>1, MemoryUpdated
  <2>3. SharedOK'
    BY <1>2, <2>1, <2>2 DEF SharedOK, MemoryTyped, TypeInv, stores, IsMap
  <2>4. posted' \in [Calls -> SUBSET EntryIds]
    BY <1>2, <2>1 DEF TypeInv
  <2>5. Moved(c)
    <3>1. Advance(c, 1) \/ Throw(c)
      BY <1>4 DEF PostInBatch
    <3>2. QED
      BY <1>1, <2>2, <3>1, AdvanceMoves, ThrowMoves
  <2>6. QED
    BY <2>2, <2>3, <2>4, <2>5, OneMoves
<1>5. CASE BeginDirect(c)
  <2>1. DOMAIN objects \subseteq DOMAIN objects' /\ SharedOK'
    BY <1>5, SharedSame DEF BeginDirect
  <2>2. CASE Throw(c)
    BY <1>1, <1>5, <2>1, <2>2, ThrowMoves, OneMoves DEF BeginDirect, TypeInv
  <2>3. CASE Holds(c) /\ Goto(c, "storeEntry") /\ UNCHANGED <<at, held, fetched, snap>>
    <3>1. CallTypes' /\ pc'[c] = "storeEntry"
      BY <2>3 DEF Goto, TypeInv, CallTypes, Places, Running, Updating, fetched
    <3>2. CallOK(c)'
      BY <1>2, <1>5, <2>1, <2>3, <3>1
         DEF BeginDirect, TypeInv, CallOK, Holds, Ids, Step, Refers, fetched, Updating
    <3>3. Moved(c)
      BY <2>3, <3>1, <3>2 DEF Moved, Goto, TypeInv, CallTypes, fetched
    <3>4. QED
      BY <1>5, <2>1, <3>3, OneMoves DEF BeginDirect, TypeInv
  <2>4. QED
    BY <1>5, <2>2, <2>3 DEF BeginDirect
<1>6. CASE BeginCreate(c)
  <2>1. DOMAIN objects \subseteq DOMAIN objects' /\ SharedOK'
    BY <1>6, SharedSame DEF BeginCreate
  <2>2. Moved(c)
    BY <1>2, <1>6, <2>1, AdvanceMoves, GotoMoves
       DEF BeginCreate, Places, Running, Creating, Updating
  <2>3. QED
    BY <1>6, <2>1, <2>2, OneMoves DEF BeginCreate, TypeInv
<1>7. QED
  BY <1>3, <1>4, <1>5, <1>6

LEMMA UpdateTyped ==
  ASSUME TypeInv, NEW c \in Calls,
         StoreEntry(c) \/ GetKey(c) \/ SetKey(c) \/ WriteDr(c) \/ WriteCr(c)
  PROVE  TypeInv'
<1>1. pc[c] \in Updating /\ pc[c] \in Stepping
  BY DEF StoreEntry, GetKey, SetKey, WriteDr, WriteCr, Updating, Stepping, Running
<1>2. Entry(c) \in EntryIds /\ at[c] \in DOMAIN Plan[c]
  BY <1>1, StepTyped
<1>3. \A o \in DOMAIN objects : objects[o] \in Value
  BY DEF TypeInv, SharedOK
<1>4. CASE StoreEntry(c) \/ WriteDr(c)
  <2>1. /\ objects' \in {objects, Debit(c, objects), Credit(c, objects)}
        /\ UNCHANGED <<posted, accountCache, entriesCache, faults>>
        /\ Write(c, Items(c))
    BY <1>4 DEF StoreEntry, WriteDr, Submit
  <2>2. MemoryTyped' /\ DOMAIN objects' = DOMAIN objects
    BY <1>2, <2>1, MemoryUpdated
  <2>3. SharedOK'
    BY <2>1, <2>2, SharedWritten DEF TypeInv, SharedOK
  <2>4. Moved(c)
    <3>1. CASE Submit(c, Step(c).from, Debit(c, objects), "getDr")
      BY <1>1, <1>2, <1>3, <3>1, DebitTyped, SubmitMoves
    <3>2. CASE Submit(c, Step(c).to, Credit(c, objects), "getCr")
      BY <1>1, <1>2, <1>3, <3>2, DebitTyped, SubmitMoves
    <3>3. CASE Throw(c)
      BY <1>1, <2>2, <3>3, ThrowMoves
    <3>4. QED
      BY <1>4, <3>1, <3>2, <3>3 DEF StoreEntry, WriteDr
  <2>5. QED
    BY <2>1, <2>2, <2>3, <2>4, OneMoves DEF TypeInv
<1>5. CASE GetKey(c)
  <2> DEFINE found == [a \in {Subject(c)} \cap DOMAIN redis |-> Renewed(c, redis[a])]
  <2>1. pc[c] \in {"getDr", "getCr"} /\ IsMap(redis)
    BY <1>5 DEF GetKey, TypeInv, SharedOK
  <2>2. IsMap(found)
    BY <2>1, RenewedTyped DEF IsMap, Updating
  <2> HIDE DEF found
  <2>3. keys' = [keys EXCEPT ![c] = found] /\ UNCHANGED <<at, held, docs, snap>>
    BY <1>5 DEF GetKey, found
  <2>4. \/ pc[c] = "getDr" /\ (Goto(c, "setDr") \/ Goto(c, "writeDr"))
        \/ pc[c] = "getCr" /\ (Goto(c, "setCr") \/ Goto(c, "writeCr"))
    BY <1>5 DEF GetKey, Side
  <2>5. PICK place \in {"setDr", "writeDr", "setCr", "writeCr"} :
          Goto(c, place) /\ (place \in {"setDr", "writeDr"} <=> pc[c] = "getDr")
    BY <2>4
  <2>6. CallTypes' /\ pc'[c] = place /\ keys'[c] = found
    BY <2>3, <2>5 DEF Goto, TypeInv, CallTypes, Places, Running, Updating
  <2>7. Step(c)' = Step(c) /\ Subject(c)' = Subject(c)
    BY <2>1, <2>3, <2>5, <2>6 DEF Step, Subject, Side
  <2>8. SharedOK' /\ UNCHANGED posted /\ DOMAIN objects \subseteq DOMAIN objects'
    BY <1>5, SharedSame DEF GetKey
  <2>9. Refers(held[c])'
    BY <1>5 DEF GetKey, memory, Refers, TypeInv, CallOK
  <2>10. CallOK(c)'
    BY <1>2, <2>1, <2>2, <2>3, <2>6, <2>7, <2>9
       DEF TypeInv, CallOK, Holds, Ids, Updating
  <2>11. Moved(c)
    BY <2>3, <2>5, <2>6, <2>10 DEF Moved, Goto, TypeInv, CallTypes
  <2>12. QED
    BY <2>8, <2>11, OneMoves DEF TypeInv
<1>6. CASE SetKey(c)
  <2>1. UNCHANGED <<at, held, keys, docs, snap, posted, objects, accountCache, entriesCache, faults>>
    BY <1>6 DEF SetKey, fetched, memory
  <2>2. \/ pc[c] = "setDr" /\ Goto(c, "writeDr")
        \/ pc[c] = "setCr" /\ Goto(c, "writeCr")
    BY <1>6 DEF SetKey, Side
  <2>3. PICK place \in {"writeDr", "writeCr"} :
          Goto(c, place) /\ (place = "writeDr" <=> pc[c] = "setDr")
    BY <2>2
  <2>4. CallTypes' /\ pc'[c] = place
    BY <2>1, <2>3 DEF Goto, TypeInv, CallTypes, Places, Running, Updating
  <2>5. Step(c)' = Step(c) /\ Subject(c)' = Subject(c)
    BY <2>1, <2>2, <2>3, <2>4 DEF Step, Subject, Side
  <2>6. CallOK(c)'
    BY <1>2, <2>1, <2>2, <2>4, <2>5 DEF TypeInv, CallOK, Holds, Ids, Updating, Refers
  <2>7. Moved(c)
    BY <2>1, <2>3, <2>4, <2>6 DEF Moved, Goto, TypeInv, CallTypes
  <2>8. MemoryTyped' /\ DOMAIN objects \subseteq DOMAIN objects'
    BY <2>1, MemorySame
  <2>9. SharedOK'
    BY <1>6, <2>1, <2>8, SharedWritten DEF SetKey, TypeInv, SharedOK
  <2>10. QED
    BY <2>1, <2>7, <2>8, <2>9, OneMoves DEF TypeInv
<1>7. CASE WriteCr(c)
  <2>1. UNCHANGED <<objects, accountCache, entriesCache, faults>> /\ Write(c, Items(c))
    BY <1>7 DEF WriteCr, memory
  <2>2. MemoryTyped' /\ DOMAIN objects \subseteq DOMAIN objects'
    BY <2>1, MemorySame
  <2>3. SharedOK'
    BY <2>1, <2>2, SharedWritten DEF TypeInv, SharedOK
  <2>4. posted' \in [Calls -> SUBSET EntryIds]
    BY <1>2, <1>7 DEF WriteCr, TypeInv
  <2>5. Moved(c)
    <3>1. Advance(c, 1) \/ Throw(c)
      BY <1>7 DEF WriteCr
    <3>2. QED
      BY <1>1, <2>2, <3>1, AdvanceMoves, ThrowMoves
  <2>6. QED
    BY <2>2, <2>3, <2>4, <2>5, OneMoves
<1>8. QED
  BY <1>4, <1>5, <1>6, <1>7

LEMMA SendMoves ==
  ASSUME TypeInv, NEW c \in Calls, SendAccounts(c), UNCHANGED <<at, held, fetched>>,
         DOMAIN objects \subseteq DOMAIN objects'
  PROVE  Moved(c)
<1> DEFINE values == [a \in DOMAIN accountCache |-> objects[accountCache[a]]]
<1>1. IsMap(values)
  BY DEF IsMap, TypeInv, SharedOK, Refers, Object
<1> HIDE DEF values
<1>2. PICK place \in {"done", "flushAccounts"} : Goto(c, place)
  BY DEF SendAccounts
<1>3. snap' = [snap EXCEPT ![c] = values]
  BY DEF SendAccounts, values
<1>4. CallTypes' /\ pc'[c] = place /\ snap'[c] = values
  BY <1>2, <1>3 DEF Goto, TypeInv, CallTypes, Places, Running, Flushing, fetched
<1>5. CallOK(c)'
  BY <1>1, <1>4 DEF TypeInv, CallOK, Refers, IsMap, fetched, Updating, Stepping, Running,
     Loading, Flushing, Creating
<1>6. QED
  BY <1>2, <1>3, <1>4, <1>5 DEF Moved, Goto, TypeInv, CallTypes, fetched

LEMMA FlushTyped ==
  ASSUME TypeInv, NEW c \in Calls,
         BeginFlush(c) \/ FlushEntries(c) \/ FlushAccounts(c) \/ Uncache(c)
  PROVE  TypeInv'
<1>1. CASE BeginFlush(c)
  <2>1. SharedOK' /\ DOMAIN objects \subseteq DOMAIN objects'
    BY <1>1, SharedSame DEF BeginFlush
  <2>2. UNCHANGED <<at, held, fetched, posted>>
    BY <1>1 DEF BeginFlush
  <2>3. CASE SendAccounts(c)
    BY <2>1, <2>2, <2>3, SendMoves, OneMoves DEF TypeInv
  <2>4. CASE Goto(c, "flushEntries") /\ UNCHANGED snap
    <3>1. Moved(c)
      BY <2>1, <2>2, <2>4, GotoMoves DEF Places, Running, Flushing, Updating, Stepping, fetched
    <3>2. QED
      BY <2>1, <2>2, <3>1, OneMoves DEF TypeInv
  <2>5. QED
    BY <1>1, <2>3, <2>4 DEF BeginFlush
<1>2. CASE FlushEntries(c)
  <2>1. MemoryTyped' /\ DOMAIN objects \subseteq DOMAIN objects'
    BY <1>2, MemorySame DEF FlushEntries
  <2>2. SharedOK'
    BY <1>2, <2>1, SharedWritten DEF FlushEntries, TypeInv, SharedOK
  <2>3. Moved(c)
    BY <1>2, <2>1, SendMoves DEF FlushEntries
  <2>4. QED
    BY <1>2, <2>1, <2>2, <2>3, OneMoves DEF FlushEntries, TypeInv
<1>3. CASE FlushAccounts(c)
  <2>1. MemoryTyped' /\ DOMAIN objects \subseteq DOMAIN objects'
    BY <1>3, MemorySame DEF FlushAccounts, memory
  <2>2. SharedOK'
    BY <1>3, <2>1, SharedWritten DEF FlushAccounts, TypeInv, SharedOK, memory
  <2>3. PICK place \in {"uncache", "failed"} :
          Goto(c, place) /\ UNCHANGED <<at, held, fetched, snap>>
    BY <1>3 DEF FlushAccounts, Reject
  <2>4. Moved(c)
    BY <2>1, <2>3, GotoMoves
       DEF Places, Running, Flushing, Updating, Stepping, Loading, Creating
  <2>5. QED
    BY <1>3, <2>1, <2>2, <2>4, OneMoves DEF FlushAccounts, TypeInv
<1>4. CASE Uncache(c)
  <2>1. MemoryTyped' /\ DOMAIN objects \subseteq DOMAIN objects'
    BY <1>4, MemorySame DEF Uncache, memory
  <2>2. SharedOK'
    BY <1>4, <2>1, SharedWritten DEF Uncache, TypeInv, SharedOK, memory
  <2>3. CallTypes' /\ pc'[c] = "done" /\ snap'[c] = <<>>
    BY <1>4 DEF Uncache, Goto, TypeInv, CallTypes, Places, fetched
  <2>4. CallOK(c)'
    BY <1>4, <2>1, <2>3, EmptyMap
       DEF Uncache, TypeInv, CallOK, IsMap, Refers, fetched, Updating, Stepping, Running,
           Loading, Flushing, Creating
  <2>5. Moved(c)
    BY <1>4, <2>3, <2>4 DEF Moved, Uncache, Goto, TypeInv, CallTypes, fetched
  <2>6. QED
    BY <1>4, <2>1, <2>2, <2>5, OneMoves DEF Uncache, TypeInv
<1>5. QED
  BY <1>1, <1>2, <1>3, <1>4

LEMMA CreateTyped ==
  ASSUME TypeInv, NEW c \in Calls, NewKey(c) \/ NewDocument(c)
  PROVE  TypeInv'
<1>1. pc[c] \in Stepping
  BY DEF NewKey, NewDocument, Stepping, Running, Creating
<1>2. at[c] \in DOMAIN Plan[c]
  BY <1>1, StepTyped
<1>3. UNCHANGED <<posted, objects, accountCache, entriesCache, faults>> /\ Write(c, Items(c))
  BY DEF NewKey, NewDocument, memory
<1>4. MemoryTyped' /\ DOMAIN objects \subseteq DOMAIN objects'
  BY <1>3, MemorySame
<1>5. SharedOK'
  BY <1>3, <1>4, SharedWritten DEF TypeInv, SharedOK
<1>6. Moved(c)
  <2>1. CASE Advance(c, 1)
    BY <2>1, AdvanceMoves
  <2>2. CASE \E place \in {"newDocument", "failed"} :
               Goto(c, place) /\ UNCHANGED <<at, held, fetched, snap>>
    BY <1>2, <1>4, <2>2, GotoMoves DEF Places, Running, Creating, Updating
  <2>3. QED
    BY <2>1, <2>2 DEF NewKey, NewDocument, Reject
<1>7. QED
  BY <1>3, <1>4, <1>5, <1>6, OneMoves DEF TypeInv

LEMMA FailsTyped ==
  ASSUME TypeInv, NEW c \in Calls, RepoFails(c)
  PROVE  TypeInv'
<1>1. PICK S \in SUBSET Items(c) : Write(c, S)
  BY DEF RepoFails
<1>2. MemoryTyped' /\ DOMAIN objects \subseteq DOMAIN objects'
  BY MemorySame DEF RepoFails, memory
<1>3. faults' \in 0..MaxFaults
  BY PlanAssumption DEF RepoFails, TypeInv, SharedOK
<1>4. SharedOK'
  BY <1>1, <1>2, <1>3, SharedWritten DEF RepoFails, TypeInv, SharedOK, memory
<1>5. Moved(c)
  <2>1. CASE pc[c] \in Flushing
    BY <1>2, <2>1, GotoMoves DEF RepoFails, Reject, Places, Updating, Stepping, Running,
      Loading, Flushing, Creating
  <2>2. CASE pc[c] \notin Flushing
    <3>1. pc[c] \in Stepping
      BY <2>2 DEF RepoFails, Stepping, Running, Loading, Updating, Flushing, Creating
    <3>2. QED
      BY <1>2, <2>2, <3>1, ThrowMoves DEF RepoFails
  <2>3. QED
    BY <2>1, <2>2
<1>6. QED
  BY <1>2, <1>4, <1>5, OneMoves DEF RepoFails, TypeInv

LEMMA RestartTyped == TypeInv /\ Restart => TypeInv'
<1> SUFFICES ASSUME TypeInv, Restart PROVE TypeInv'
  OBVIOUS
<1>1. PICK c \in Calls : \E S \in SUBSET Items(c) : Write(c, S)
  BY DEF Restart
<1>2. journal' \subseteq EntryIds /\ IsMap(redis)' /\ IsMap(db)'
  BY <1>1, WriteTyped DEF IsMap
<1>3. MemoryTyped'
  BY EmptyMap DEF Restart, MemoryTyped, Refers
<1>4. SharedOK'
  BY <1>2, <1>3, PlanAssumption DEF Restart, SharedOK, MemoryTyped, TypeInv
<1>5. CallTypes'
  BY DEF Restart, TypeInv, CallTypes, Places
<1>6. ASSUME NEW d \in Calls PROVE CallOK(d)'
  <2>1. pc'[d] \notin Stepping /\ pc'[d] \notin Updating /\ at'[d] = at[d]
        /\ (pc'[d] = "idle" => pc[d] = "idle")
    BY DEF Restart, TypeInv, CallTypes, Stepping, Running, Loading, Updating, Flushing, Creating
  <2>2. /\ held'[d] = <<>> /\ keys'[d] = <<>> /\ docs'[d] = <<>> /\ snap'[d] = <<>>
    BY DEF Restart
  <2>3. QED
    BY <2>1, <2>2, EmptyMap DEF CallOK, IsMap, Refers, TypeInv
<1>7. QED
  BY <1>4, <1>5, <1>6 DEF Restart, TypeInv

LEMMA TypeStutters == TypeInv /\ UNCHANGED storeVars => TypeInv'
  BY DEF TypeInv, CallTypes, SharedOK, CallOK, IsMap, Refers, Step, Ids, Holds, Subject, Side,
    storeVars, callVars, memory, stores, fetched

LEMMA TypeInitially == StoreInit => TypeInv
<1> SUFFICES ASSUME StoreInit PROVE TypeInv
  OBVIOUS
<1>1. CallTypes /\ posted \in [Calls -> SUBSET EntryIds]
  BY DEF StoreInit, CallTypes, Places
<1>2. SharedOK
  BY EmptyMap, ZeroTyped, PlanAssumption DEF StoreInit, SharedOK, Refers, IsMap
<1>3. \A c \in Calls : CallOK(c)
  BY EmptyMap DEF StoreInit, CallOK, IsMap, Refers, Updating, Stepping, Running, Loading,
    Flushing, Creating
<1>4. QED
  BY <1>1, <1>2, <1>3 DEF TypeInv

\* Every variable of LedgerAccounts keeps its type, and what a call or the
\* _accountCache of the aggregate has for an account is an object of that
\* account, for any plans, failures and restarts.
THEOREM StoreTypeCorrect == StoreSpec => []StoreTypeOK
<1>1. TypeInv /\ [StoreNext]_storeVars => TypeInv'
  BY LoadTyped, ReadyTyped, UpdateTyped, FlushTyped, CreateTyped, FailsTyped, RestartTyped,
     TypeStutters DEF StoreNext
<1>2. QED
  BY <1>1, TypeInitially, TypeInvImplies, PTL DEF StoreSpec

-----------------------------------------------------------------------------
(* The inductive strengthening of BalancesJournaled: what is read from the   *)
(* stores, and what is about to be written there, counts journaled entries   *)
(* and, in a balance that clients outside the batches store, entries of      *)
(* batches that are in _entriesCache or whose batch is over without an       *)
(* answer; what is in memory may count any of _entriesCache.                 *)

Over == {"failed", "lost"}
Loose == entriesCache \cup {e \in EntryIds : e[1] \in Batches /\ pc[e[1]] \in Over}

\* The entries that stored debit and credit balances may count, and objects
Known ==
  [dr |-> journal \cup {e \in Loose : DirectlyDebited(Debited(e))},
   cr |-> journal \cup {e \in Loose : DirectlyCredited(Credited(e))}]
InMemory == [dr |-> Known.dr \cup entriesCache, cr |-> Known.cr \cup entriesCache]

Within(E, F) == E.dr \subseteq F.dr /\ E.cr \subseteq F.cr

\* The values of account a that count only entries of E
Counted(a, E) ==
  [dr : SUBSET {e \in E.dr : Debited(e) = a}, cr : SUBSET {e \in E.cr : Credited(e) = a}]
AllCounted(f, E) == \A a \in DOMAIN f : f[a] \in Counted(a, E)

\* The entries of E that the balance c is updating may count
Countable(c, E) ==
  IF Side(c) = "dr" THEN {e \in E.dr : Debited(e) = Subject(c)}
  ELSE {e \in E.cr : Credited(e) = Subject(c)}

CallCounted(c) ==
  /\ AllCounted(keys[c], Known) /\ AllCounted(docs[c], Known)
  /\ pc[c] = "flushAccounts" => AllCounted(snap[c], Known)
  /\ pc[c] \in Updating \ {"storeEntry"} =>
       /\ snap[c][Subject(c)][Side(c)] \subseteq Countable(c, Known)
       /\ Entry(c) \in journal

StoresCounted == AllCounted(redis, Known) /\ AllCounted(db, Known)

\* Where a batch is whose entries may be in _entriesCache
Unflushed == (Running \ {"flushAccounts", "uncache"}) \cup {"failed"}

CacheCounted ==
  \A e \in entriesCache : e[1] \in Batches /\ e[2] \in Posts(e[1]) /\ pc[e[1]] \in Unflushed

MemoryCounted ==
  /\ \A o \in DOMAIN objects : objects[o] \in Counted(o.of, InMemory)
  /\ CacheCounted

CountInv == StoresCounted /\ MemoryCounted /\ \A c \in Calls : CallCounted(c)

LEMMA CountInvImplies == CountInv => BalancesJournaled
<1> SUFFICES ASSUME CountInv, NEW f \in {redis, db}, NEW a \in DOMAIN f
             PROVE  /\ f[a].dr \ journal # {} => DirectlyDebited(a)
                    /\ f[a].cr \ journal # {} => DirectlyCredited(a)
                    /\ \A e \in (f[a].dr \ journal) \cup (f[a].cr \ journal) :
                         e[1] \in Batches /\ pc[e[1]] # "done"
  BY DEF BalancesJournaled
<1>1. f[a] \in Counted(a, Known)
  BY DEF CountInv, StoresCounted, AllCounted
<1>2. /\ f[a].dr \subseteq {e \in Known.dr : Debited(e) = a}
      /\ f[a].cr \subseteq {e \in Known.cr : Credited(e) = a}
  BY <1>1 DEF Counted
<1>3. \A e \in Loose : e[1] \in Batches /\ pc[e[1]] # "done"
  BY DEF Loose, Over, CountInv, MemoryCounted, CacheCounted, Unflushed, Running, Loading, Updating,
    Flushing, Creating
<1>4. QED
  BY <1>2, <1>3 DEF Known

LEMMA CountedGrows ==
  ASSUME NEW a, NEW E, NEW F, Within(E, F), NEW v \in Counted(a, E)
  PROVE  v \in Counted(a, F)
  BY DEF Counted, Within

\* Entries leave _entriesCache into the journal, or because the process ends
LEMMA KnownGrows ==
  ASSUME TypeInv, journal \subseteq journal', entriesCache \subseteq journal' \cup Loose',
         \A d \in Calls : pc[d] \in Over => pc'[d] \in Over
  PROVE  Within(Known, Known')
<1>1. Loose \subseteq journal' \cup Loose'
  BY DEF Loose, EntryIds
<1>2. QED
  BY <1>1 DEF Within, Known, DirectlyDebited, DirectlyCredited, Debited, Credited, Posts

LEMMA ObjectsGrow ==
  ASSUME Within(Known, Known'), entriesCache \subseteq journal' \cup entriesCache'
  PROVE  Within(InMemory, InMemory')
  BY DEF Within, InMemory, Known

LEMMA KnownInMemory == Within(Known, InMemory)
  BY DEF Within, InMemory

LEMMA ZeroCounted == ASSUME NEW a, NEW E PROVE Zero \in Counted(a, E)
  BY DEF Zero, Counted

LEMMA AllGrow ==
  ASSUME NEW f, NEW E, NEW F, Within(E, F), AllCounted(f, E)
  PROVE  AllCounted(f, F)
  BY CountedGrows DEF AllCounted

LEMMA PutCounted ==
  ASSUME NEW f, NEW g, NEW E, AllCounted(f, E), AllCounted(g, E)
  PROVE  AllCounted(Put(f, g), E)
  BY DEF AllCounted, Put

LEMMA OnCounted ==
  ASSUME NEW f, NEW S, NEW E, AllCounted(f, E)
  PROVE  AllCounted(On(f, S), E)
  BY DEF AllCounted, On

LEMMA RenewedCounted ==
  ASSUME TypeInv, CountInv, NEW c \in Calls, pc[c] \in Updating \ {"storeEntry"},
         NEW v \in Counted(Subject(c), Known)
  PROVE  Renewed(c, v) \in Counted(Subject(c), Known)
<1>1. snap[c][Subject(c)][Side(c)] \subseteq Countable(c, Known)
  BY DEF CountInv, CallCounted
<1>2. Side(c) \in {"dr", "cr"}
  BY DEF Side
<1>3. QED
  BY <1>1, <1>2 DEF Renewed, Counted, Countable

LEMMA WriteCounted ==
  ASSUME TypeInv, CountInv, NEW c \in Calls, NEW S \in SUBSET Items(c), Write(c, S),
         Within(Known, Known')
  PROVE  StoresCounted'
<1>2. /\ AllCounted(redis, Known) /\ AllCounted(db, Known)
      /\ AllCounted(keys[c], Known) /\ AllCounted(docs[c], Known)
  BY DEF CountInv, StoresCounted, CallCounted
<1>3. \A T : AllCounted([a \in T |-> Zero], Known)
  BY ZeroCounted DEF AllCounted
<1>4. AllCounted(RedisWith(c, S), Known)
  <2>1. CASE pc[c] = "recache"
    BY <1>2, <2>1, PutCounted, OnCounted DEF RedisWith, Loaded
  <2>2. CASE pc[c] \in {"setDr", "setCr"}
    BY <1>2, <2>2, PutCounted, OnCounted DEF RedisWith
  <2>3. CASE pc[c] = "newKey"
    BY <1>2, <1>3, <2>3, PutCounted DEF RedisWith
  <2>4. CASE pc[c] = "uncache" /\ S # {}
    BY <1>2, <2>4, OnCounted DEF RedisWith
  <2>5. QED
    BY <1>2, <2>1, <2>2, <2>3, <2>4 DEF RedisWith
<1>5. AllCounted(DbWith(c, S), Known)
  <2>1. CASE pc[c] \in {"writeDr", "writeCr"}
    <3>1. \A v \in Counted(Subject(c), Known) : Renewed(c, v) \in Counted(Subject(c), Known)
      BY <2>1, RenewedCounted DEF Updating
    <3>2. S \subseteq {Subject(c)}
      BY <2>1 DEF Items, Creating
    <3>3. QED
      BY <1>2, <2>1, <3>1, <3>2 DEF DbWith, AllCounted
  <2>2. CASE pc[c] = "flushAccounts"
    <3>1. Items(c) = DOMAIN snap[c]
      BY <2>2 DEF Items, Creating
    <3>2. AllCounted(snap[c], Known)
      BY <2>2 DEF CountInv, CallCounted
    <3>3. QED
      BY <1>2, <2>2, <3>1, <3>2 DEF DbWith, AllCounted
  <2>3. CASE pc[c] = "newDocument"
    BY <1>2, <1>3, <2>3, PutCounted DEF DbWith
  <2>4. QED
    BY <1>2, <2>1, <2>2, <2>3 DEF DbWith
<1>6. QED
  BY <1>4, <1>5, AllGrow DEF Write, StoresCounted

LEMMA WriteJournals ==
  ASSUME NEW c, NEW S, Write(c, S)
  PROVE  journal \subseteq journal'
  BY DEF Write, JournalWith

-----------------------------------------------------------------------------

\* The other calls stay where they are
Others(c) ==
  \A d \in Calls \ {c} :
    /\ pc'[d] = pc[d] /\ at'[d] = at[d] /\ held'[d] = held[d]
    /\ keys'[d] = keys[d] /\ docs'[d] = docs[d] /\ snap'[d] = snap[d]

LEMMA StepKnown ==
  ASSUME TypeInv, NEW c \in Calls, Others(c), pc[c] \notin Over, journal \subseteq journal',
         entriesCache \subseteq journal' \cup entriesCache'
  PROVE  Within(Known, Known')
<1>1. \A d \in Calls : pc[d] \in Over => pc'[d] \in Over
  BY DEF Others
<1>2. entriesCache \subseteq journal' \cup Loose'
  BY DEF Loose
<1>3. QED
  BY <1>1, <1>2, KnownGrows

LEMMA OneCounts ==
  ASSUME CountInv, NEW c \in Calls, Others(c), journal \subseteq journal', Within(Known, Known'),
         StoresCounted', MemoryCounted', CallCounted(c)'
  PROVE  CountInv'
<1>1. ASSUME NEW d \in Calls, d # c PROVE CallCounted(d)'
  <2>1. Subject(d)' = Subject(d) /\ Side(d)' = Side(d)
    BY <1>1 DEF Others, Subject, Side, Step
  <2>2. CallCounted(d)
    BY DEF CountInv
  <2>3. AllCounted(keys[d], Known)' /\ AllCounted(docs[d], Known)'
    BY <1>1, <2>2, AllGrow DEF Others, CallCounted
  <2>4. (pc[d] = "flushAccounts")' => AllCounted(snap[d], Known)'
    BY <1>1, <2>2, AllGrow DEF Others, CallCounted
  <2>5. (pc[d] \in Updating \ {"storeEntry"})' =>
          (snap[d][Subject(d)][Side(d)] \subseteq Countable(d, Known) /\ Entry(d) \in journal)'
    BY <1>1, <2>1, <2>2 DEF Others, CallCounted, Countable, Entry, Within, Debited, Credited
  <2>6. QED
    BY <2>3, <2>4, <2>5 DEF CallCounted
<1>2. QED
  BY <1>1 DEF CountInv

\* A call that goes on to a place where it is about to write nothing
LEMMA PlainCounted ==
  ASSUME TypeInv, CountInv, NEW c \in Calls, Within(Known, Known'),
         \/ Advance(c, 1)
         \/ Throw(c)
         \/ Reject(c)
         \/ /\ UNCHANGED <<keys, docs>>
            /\ \E place \in Places \ (Updating \cup {"flushAccounts"}) : Goto(c, place)
         \/ UNCHANGED <<keys, docs>> /\ Goto(c, "storeEntry")
  PROVE  CallCounted(c)'
<1>1. ASSUME NEW f, AllCounted(f, Known) PROVE AllCounted(f, Known')
  BY <1>1, AllGrow
<1>2. AllCounted(keys[c], Known) /\ AllCounted(docs[c], Known)
  BY DEF CountInv, CallCounted
<1>3. AllCounted(<<>>, Known')
  BY EmptyMap DEF AllCounted
<1>4. keys'[c] \in {keys[c], <<>>} /\ docs'[c] \in {docs[c], <<>>}
  BY DEF Advance, Throw, Reject, Leave, TypeInv, CallTypes, fetched
<1>5. pc'[c] \notin Updating \ {"storeEntry"} /\ pc'[c] # "flushAccounts"
  BY DEF Advance, Throw, Reject, Leave, Goto, TypeInv, CallTypes, Updating
<1>6. QED
  BY <1>1, <1>2, <1>3, <1>4, <1>5 DEF CallCounted

-----------------------------------------------------------------------------
(* Memory *)

\* Where the call that moves goes to, if it is a batch with unflushed entries
Lingers(c) == c \in Batches /\ pc[c] \in Unflushed => pc'[c] \in Unflushed

LEMMA PlainLingers ==
  ASSUME TypeInv, NEW c \in Calls,
         \/ Advance(c, 1)
         \/ Throw(c)
         \/ Reject(c)
         \/ \E place \in Unflushed : Goto(c, place)
  PROVE  Lingers(c)
<1>1. {"get", "flush", "failed"} \subseteq Unflushed
  BY DEF Unflushed, Running
<1>2. QED
  BY <1>1 DEF Lingers, Advance, Throw, Reject, Goto, TypeInv, CallTypes

LEMMA CacheKept ==
  ASSUME CacheCounted, NEW c \in Calls, Others(c), entriesCache' = entriesCache, Lingers(c)
  PROVE  CacheCounted'
<1> SUFFICES ASSUME NEW e \in entriesCache PROVE pc'[e[1]] \in Unflushed
  BY DEF CacheCounted, Posts
<1>1. e[1] \in Batches /\ e[1] \in Calls /\ pc[e[1]] \in Unflushed
  BY DEF CacheCounted, Calls
<1>2. QED
  BY <1>1 DEF Others, Lingers

LEMMA ObjectsCounted ==
  ASSUME MemoryCounted, Within(Known, Known'), entriesCache \subseteq journal' \cup entriesCache'
  PROVE  \A o \in DOMAIN objects : objects[o] \in Counted(o.of, InMemory')
<1>1. Within(InMemory, InMemory')
  BY ObjectsGrow
<1>2. QED
  BY <1>1, CountedGrows DEF MemoryCounted

LEMMA MemoryGrows ==
  ASSUME MemoryCounted, NEW c \in Calls, Others(c), Lingers(c),
         UNCHANGED <<objects, entriesCache>>, Within(Known, Known')
  PROVE  MemoryCounted'
<1>1. \A o \in DOMAIN objects : objects[o] \in Counted(o.of, InMemory')
  BY ObjectsCounted
<1>2. CacheCounted'
  BY CacheKept DEF MemoryCounted
<1>3. QED
  BY <1>1, <1>2 DEF MemoryCounted

\* Counting c's entry in the objects c holds
LEMMA DebitCounted ==
  ASSUME TypeInv, NEW c \in Calls, Holds(c), NEW E, Entry(c) \in E.dr \cap E.cr, NEW os,
         DOMAIN os = DOMAIN objects, \A o \in DOMAIN os : os[o] \in Counted(o.of, E)
  PROVE  /\ DOMAIN Debit(c, os) = DOMAIN objects
         /\ \A o \in DOMAIN objects : Debit(c, os)[o] \in Counted(o.of, E)
         /\ DOMAIN Credit(c, os) = DOMAIN objects
         /\ \A o \in DOMAIN objects : Credit(c, os)[o] \in Counted(o.of, E)
<1>1. Debited(Entry(c)) = Step(c).from /\ Credited(Entry(c)) = Step(c).to
  BY DEF Debited, Credited, Entry, Step
<1>2. held[c][Step(c).from].of = Step(c).from /\ held[c][Step(c).to].of = Step(c).to
  BY DEF Holds, Ids, TypeInv, CallOK, Refers
<1>3. QED
  BY <1>1, <1>2 DEF Debit, Credit, Counted

LEMMA EnterCounted ==
  ASSUME TypeInv, CountInv, NEW c \in Calls, NEW f, NEW g, AllCounted(f, Known),
         AllCounted(g, Known), Enter(c, f, g), Others(c), Within(Known, Known'),
         UNCHANGED entriesCache
  PROVE  MemoryCounted' /\ CallCounted(c)'
<1> DEFINE made(h, origin) == [a \in DOMAIN h |-> [of |-> a, for |-> Entry(c), origin |-> origin]]
           first == made(f, "key")
           second == made(g, "doc")
           values == [o \in {first[a] : a \in DOMAIN first} |-> f[o.of]]
           laterValues == [o \in {second[a] : a \in DOMAIN second} |-> g[o.of]]
           E == InMemory'
<1>1. objects' = Put(objects, Put(values, laterValues))
  BY DEF Enter
<1>2. /\ \A o \in DOMAIN values : values[o] \in Counted(o.of, Known)
      /\ \A o \in DOMAIN laterValues : laterValues[o] \in Counted(o.of, Known)
  BY DEF AllCounted
<1> HIDE DEF first, second, values, laterValues
<1>0. Within(Known, E)
  BY KnownInMemory, ObjectsGrow DEF Within
<1>3. /\ \A o \in DOMAIN values : values[o] \in Counted(o.of, E)
      /\ \A o \in DOMAIN laterValues : laterValues[o] \in Counted(o.of, E)
  BY <1>0, <1>2, CountedGrows
<1>4. \A o \in DOMAIN objects : objects[o] \in Counted(o.of, E)
  BY ObjectsCounted DEF CountInv
<1>5. \A o \in DOMAIN objects' : objects'[o] \in Counted(o.of, E)
  BY <1>1, <1>3, <1>4 DEF Put
<1>6. MemoryCounted'
  <2>1. Lingers(c)
    BY DEF Enter, Goto, Lingers, Unflushed, Running, TypeInv, CallTypes
  <2>2. QED
    BY <1>5, <2>1, CacheKept DEF CountInv, MemoryCounted
<1>7. keys'[c] = <<>> /\ docs'[c] = <<>> /\ pc'[c] = "ready"
  BY DEF Enter, Goto, TypeInv, CallTypes
<1>8. CallCounted(c)'
  BY <1>7, EmptyMap DEF CallCounted, AllCounted, Updating
<1>9. QED
  BY <1>6, <1>8

LEMMA LoadCounted ==
  ASSUME TypeInv, CountInv, NEW c \in Calls,
         Begin(c) \/ GetAccounts(c) \/ ReadCache(c) \/ ReadDb(c) \/ Recache(c)
  PROVE  CountInv'
<1>1. Others(c)
  BY DEF Begin, GetAccounts, ReadCache, ReadDb, Recache, Enter, Goto, Others, TypeInv, CallTypes,
    fetched
<1>2. AllCounted(keys[c], Known) /\ AllCounted(docs[c], Known)
  BY DEF CountInv, CallCounted
<1>0. journal' = journal /\ UNCHANGED entriesCache /\ Within(Known, Known')
  <2>1. journal' = journal /\ UNCHANGED entriesCache
    BY DEF Begin, GetAccounts, ReadCache, ReadDb, Recache, Write, JournalWith, stores, memory
  <2>2. pc[c] \notin Over
    BY DEF Begin, GetAccounts, ReadCache, ReadDb, Recache, Over
  <2>3. QED
    BY <1>1, <2>1, <2>2, StepKnown
<1>3. CASE Begin(c) \/ GetAccounts(c)
  <2>1. UNCHANGED <<objects, entriesCache, redis, db, journal, keys, docs>>
    BY <1>3 DEF Begin, GetAccounts, memory, stores, fetched
  <2>2. \E place \in Places \ (Updating \cup {"flushAccounts"}) : Goto(c, place)
    BY <1>3 DEF Begin, GetAccounts, Places, Running, Loading, Updating
  <2>3. CallCounted(c)'
    BY <1>0, <2>1, <2>2, PlainCounted
  <2>4. Lingers(c)
    BY <1>3 DEF Begin, GetAccounts, Goto, Lingers, Unflushed, Running, Loading, TypeInv, CallTypes
  <2>5. StoresCounted' /\ MemoryCounted'
    BY <1>0, <1>1, <2>1, <2>4, MemoryGrows, AllGrow DEF CountInv, StoresCounted
  <2>6. QED
    BY <1>0, <1>1, <2>3, <2>5, OneCounts
<1>4. CASE ReadCache(c)
  <2> DEFINE found == On(redis, NotHeld(c))
  <2>1. UNCHANGED <<entriesCache, redis, db, journal>> /\ pc[c] = "readCache"
    BY <1>4 DEF ReadCache, stores
  <2>2. AllCounted(found, Known)
    BY OnCounted DEF CountInv, StoresCounted
  <2> HIDE DEF found
  <2>3. StoresCounted'
    BY <1>0, <2>1, AllGrow DEF CountInv, StoresCounted
  <2>4. CASE Enter(c, found, <<>>)
    <3>1. AllCounted(<<>>, Known)
      BY EmptyMap DEF AllCounted
    <3>2. MemoryCounted' /\ CallCounted(c)'
      BY <1>0, <1>1, <2>1, <2>2, <2>4, <3>1, EnterCounted
    <3>3. QED
      BY <1>0, <1>1, <2>3, <3>2, OneCounts
  <2>5. CASE /\ keys' = [keys EXCEPT ![c] = found] /\ Goto(c, "readDb")
             /\ UNCHANGED <<held, docs, objects, accountCache>>
    <3>1. keys'[c] = found /\ docs'[c] = docs[c] /\ pc'[c] = "readDb"
      BY <2>5 DEF Goto, TypeInv, CallTypes
    <3>2. CallCounted(c)'
      BY <1>0, <1>2, <2>1, <2>2, <3>1, AllGrow DEF CallCounted, Updating
    <3>3. Lingers(c)
      BY <3>1 DEF Lingers, Unflushed, Running, Loading
    <3>4. MemoryCounted'
      BY <1>0, <1>1, <2>1, <2>5, <3>3, MemoryGrows DEF CountInv
    <3>5. QED
      BY <1>0, <1>1, <2>3, <3>2, <3>4, OneCounts
  <2>6. QED
    BY <1>4, <2>4, <2>5 DEF ReadCache, found
<1>5. CASE ReadDb(c)
  <2>1. UNCHANGED <<objects, entriesCache, redis, db, journal, keys>>
    BY <1>5 DEF ReadDb, memory, stores
  <2>2. AllCounted(On(db, NotHeld(c)), Known)
    BY OnCounted DEF CountInv, StoresCounted
  <2>3. docs'[c] = On(db, NotHeld(c)) /\ keys'[c] = keys[c] /\ pc'[c] = "recache"
    BY <1>5 DEF ReadDb, Goto, TypeInv, CallTypes
  <2>4. CallCounted(c)'
    BY <1>0, <1>2, <2>1, <2>2, <2>3, AllGrow DEF CallCounted, Updating
  <2>5. Lingers(c)
    BY <2>3 DEF Lingers, Unflushed, Running, Loading
  <2>6. StoresCounted' /\ MemoryCounted'
    BY <1>0, <1>1, <2>1, <2>5, MemoryGrows, AllGrow DEF CountInv, StoresCounted
  <2>7. QED
    BY <1>0, <1>1, <2>4, <2>6, OneCounts
<1>6. CASE Recache(c)
  <2>1. StoresCounted'
    BY <1>0, <1>6, WriteCounted DEF Recache
  <2>2. MemoryCounted' /\ CallCounted(c)'
    BY <1>0, <1>1, <1>2, <1>6, EnterCounted DEF Recache
  <2>3. QED
    BY <1>0, <1>1, <2>1, <2>2, OneCounts
<1>7. QED
  BY <1>3, <1>4, <1>5, <1>6

LEMMA ReadyCounted ==
  ASSUME TypeInv, CountInv, NEW c \in Calls,
         Check(c) \/ PostInBatch(c) \/ BeginDirect(c) \/ BeginCreate(c)
  PROVE  CountInv'
<1>1. Others(c)
  BY DEF Check, PostInBatch, BeginDirect, BeginCreate, Advance, Throw, Reject, Leave, Goto, Others,
    TypeInv, CallTypes, fetched
<1>2. journal' = journal /\ UNCHANGED <<redis, db>>
  BY DEF Check, PostInBatch, BeginDirect, BeginCreate, stores
<1>0. Within(Known, Known')
  <2>1. pc[c] \notin Over
    BY DEF Check, PostInBatch, BeginDirect, BeginCreate, Over
  <2>2. entriesCache \subseteq entriesCache'
    BY DEF Check, PostInBatch, BeginDirect, BeginCreate, memory
  <2>3. QED
    BY <1>1, <1>2, <2>1, <2>2, StepKnown
<1>3. StoresCounted'
  BY <1>0, <1>2, AllGrow DEF CountInv, StoresCounted
<1>4. CallCounted(c)' /\ Lingers(c)
  <2>1. \/ Advance(c, 1)
        \/ Throw(c)
        \/ UNCHANGED fetched /\ (Goto(c, "storeEntry") \/ Goto(c, "newKey"))
    <3>1. CASE Check(c) \/ PostInBatch(c)
      BY <3>1 DEF Check, PostInBatch
    <3>2. CASE BeginDirect(c)
      BY <3>2 DEF BeginDirect
    <3>3. CASE BeginCreate(c)
      BY <3>3 DEF BeginCreate
    <3>4. QED
      BY <3>1, <3>2, <3>3
  <2>2. "newKey" \in Places \ (Updating \cup {"flushAccounts"})
    BY DEF Places, Running, Creating, Updating
  <2>3. CallCounted(c)'
    BY <1>0, <2>1, <2>2, PlainCounted DEF fetched
  <2>4. {"storeEntry", "newKey"} \subseteq Unflushed
    BY DEF Unflushed, Running, Creating, Updating
  <2>5. QED
    BY <2>1, <2>3, <2>4, PlainLingers
<1>5. CASE UNCHANGED <<objects, entriesCache>>
  <2>1. MemoryCounted'
    BY <1>0, <1>1, <1>4, <1>5, MemoryGrows DEF CountInv
  <2>2. QED
    BY <1>0, <1>1, <1>2, <1>3, <1>4, <2>1, OneCounts
<1>6. CASE /\ pc[c] = "ready" /\ Step(c).kind = "post" /\ c \in Batches /\ Holds(c)
           /\ entriesCache' = entriesCache \cup {Entry(c)}
           /\ objects' \in {objects, Debit(c, objects), Credit(c, Debit(c, objects))}
  <2> DEFINE E == InMemory'
             os == Debit(c, objects)
  <2>1. \A o \in DOMAIN objects : objects[o] \in Counted(o.of, E)
    BY <1>0, <1>6, ObjectsCounted DEF CountInv
  <2>2. Entry(c) \in E.dr \cap E.cr
    BY <1>6 DEF InMemory
  <2> HIDE DEF E
  <2>3. DOMAIN os = DOMAIN objects /\ \A o \in DOMAIN objects : os[o] \in Counted(o.of, E)
    BY <1>6, <2>1, <2>2, DebitCounted
  <2> HIDE DEF os
  <2>4. DOMAIN Credit(c, os) = DOMAIN objects
        /\ \A o \in DOMAIN objects : Credit(c, os)[o] \in Counted(o.of, E)
    BY <1>6, <2>2, <2>3, DebitCounted
  <2>5. \A o \in DOMAIN objects' : objects'[o] \in Counted(o.of, E)
    BY <1>6, <2>1, <2>3, <2>4 DEF os
  <2>6. Entry(c)[1] = c /\ Entry(c)[2] \in Posts(c)
    BY <1>6, StepTyped DEF Entry, Posts, Step, Stepping, Running
  <2>7. pc'[c] \in Unflushed
    BY <1>4, <1>6 DEF Lingers, Unflushed, Running
  <2>8. CacheCounted'
    <3> SUFFICES ASSUME NEW e \in entriesCache'
                 PROVE  e[1] \in Batches /\ e[2] \in Posts(e[1]) /\ pc'[e[1]] \in Unflushed
      BY DEF CacheCounted, Posts
    <3>1. CASE e = Entry(c)
      BY <1>6, <2>6, <2>7, <3>1
    <3>2. CASE e \in entriesCache
      <4>1. e[1] \in Batches /\ e[2] \in Posts(e[1]) /\ e[1] \in Calls /\ pc[e[1]] \in Unflushed
        BY <3>2 DEF CountInv, MemoryCounted, CacheCounted, Calls
      <4>2. QED
        BY <1>1, <2>7, <4>1 DEF Others
    <3>3. QED
      BY <1>6, <3>1, <3>2
  <2>9. MemoryCounted'
    BY <2>5, <2>8 DEF MemoryCounted, E
  <2>10. QED
    BY <1>0, <1>1, <1>2, <1>3, <1>4, <2>9, OneCounts
<1>7. QED
  BY <1>5, <1>6 DEF Check, PostInBatch, BeginDirect, BeginCreate, memory

\* The balance that a client outside the batches hands to the repository
LEMMA SubmitCounted ==
  ASSUME TypeInv, CountInv, NEW c \in Calls, pc[c] \in Updating, NEW os, NEW a, NEW place,
         \/ place = "getDr" /\ a = Step(c).from
         \/ place = "getCr" /\ a = Step(c).to,
         DOMAIN os = DOMAIN objects,
         \A o \in DOMAIN os : os[o] \in Counted(o.of, InMemory'), entriesCache' = entriesCache,
         Within(Known, Known'), Entry(c) \in journal', Submit(c, a, os, place)
  PROVE  CallCounted(c)'
<1>1. CASE Throw(c)
  BY <1>1, PlainCounted
<1>2. CASE /\ snap' = [snap EXCEPT ![c] = [x \in {a} |-> os[held[c][a]]]]
           /\ Goto(c, place) /\ UNCHANGED <<at, held, fetched>>
  <2>1. /\ snap'[c] = [x \in {a} |-> os[held[c][a]]] /\ pc'[c] = place
        /\ keys'[c] = keys[c] /\ docs'[c] = docs[c] /\ at'[c] = at[c]
    BY <1>2 DEF Goto, TypeInv, CallTypes, fetched
  <2>2. Subject(c)' = a /\ Side(c)' = (IF place = "getDr" THEN "dr" ELSE "cr")
    BY <2>1 DEF Subject, Side, Step
  <2>3. held[c][a] \in DOMAIN os /\ held[c][a].of = a
    BY DEF TypeInv, CallOK, Holds, Ids, Refers
  <2>4. os[held[c][a]] \in Counted(a, InMemory')
    BY <2>3
  <2>5. c \in Directs /\ at[c] \in Posts(c) /\ Step(c) = Plan[c][at[c]]
    BY StepTyped DEF TypeInv, CallOK, Posts, Step, Stepping, Running, Updating
  <2>6. /\ place = "getDr" => DirectlyDebited(a)
        /\ place = "getCr" => DirectlyCredited(a)
    BY <2>5 DEF DirectlyDebited, DirectlyCredited
  <2>7. /\ place = "getDr" => os[held[c][a]].dr \subseteq {e \in Known'.dr : Debited(e) = a}
        /\ place = "getCr" => os[held[c][a]].cr \subseteq {e \in Known'.cr : Credited(e) = a}
    <3>1. /\ DirectlyDebited(a)' = DirectlyDebited(a) /\ DirectlyCredited(a)' = DirectlyCredited(a)
          /\ entriesCache' \subseteq Loose'
      BY DEF DirectlyDebited, DirectlyCredited, Posts, Loose
    <3>2. /\ place = "getDr" => \A e \in entriesCache' : Debited(e) = a => e \in Known'.dr
          /\ place = "getCr" => \A e \in entriesCache' : Credited(e) = a => e \in Known'.cr
      <4>1. \A e : Debited(e)' = Debited(e) /\ Credited(e)' = Credited(e)
        BY DEF Debited, Credited
      <4>2. \A b : DirectlyDebited(b)' = DirectlyDebited(b) /\ DirectlyCredited(b)' = DirectlyCredited(b)
        BY DEF DirectlyDebited, DirectlyCredited, Posts
      <4>3. Known'.dr = journal' \cup {e \in Loose' : DirectlyDebited(Debited(e))}
        BY <4>1, <4>2 DEF Known
      <4>4. Known'.cr = journal' \cup {e \in Loose' : DirectlyCredited(Credited(e))}
        BY <4>1, <4>2 DEF Known
      <4> QED BY <2>6, <3>1, <4>3, <4>4
    <3>3. /\ os[held[c][a]].dr \subseteq {e \in InMemory'.dr : Debited(e) = a}
          /\ os[held[c][a]].cr \subseteq {e \in InMemory'.cr : Credited(e) = a}
      BY <2>4 DEF Counted, Debited, Credited
    <3>4. QED
      BY <3>2, <3>3 DEF InMemory
  <2>8. snap'[c][a] = os[held[c][a]]
    BY <2>1
  <2>9. (snap[c][Subject(c)][Side(c)] \subseteq Countable(c, Known))'
    BY <2>2, <2>7, <2>8 DEF Countable, Debited, Credited
  <2>10. AllCounted(keys[c], Known)' /\ AllCounted(docs[c], Known)'
    BY <2>1, AllGrow DEF CountInv, CallCounted
  <2>11. QED
    BY <2>1, <2>9, <2>10 DEF CallCounted, Entry
<1>3. QED
  BY <1>1, <1>2 DEF Submit

LEMMA UpdateCounted ==
  ASSUME TypeInv, CountInv, NEW c \in Calls,
         StoreEntry(c) \/ GetKey(c) \/ SetKey(c) \/ WriteDr(c) \/ WriteCr(c)
  PROVE  CountInv'
<1>1. Others(c)
  BY DEF StoreEntry, GetKey, SetKey, WriteDr, WriteCr, Submit, Advance, Throw, Reject, Leave, Goto,
    Others, TypeInv, CallTypes, fetched
<1>2. pc[c] \in Updating
  BY DEF StoreEntry, GetKey, SetKey, WriteDr, WriteCr, Updating
<1>3. Holds(c)
  BY <1>2 DEF TypeInv, CallOK
<1>4. AllCounted(keys[c], Known) /\ AllCounted(docs[c], Known)
  BY DEF CountInv, CallCounted
<1>0. /\ journal \subseteq journal' /\ entriesCache' = entriesCache /\ Within(Known, Known')
      /\ CacheCounted'
  <2>1. journal \subseteq journal' /\ entriesCache' = entriesCache
    BY WriteJournals DEF StoreEntry, GetKey, SetKey, WriteDr, WriteCr, stores, memory
  <2>2. pc[c] \notin Over
    BY <1>2 DEF Over, Updating
  <2>3. Lingers(c)
    <3>1. \/ Advance(c, 1) \/ Throw(c)
          \/ \E place \in {"getDr", "setDr", "writeDr", "getCr", "setCr", "writeCr"} : Goto(c, place)
      BY DEF StoreEntry, GetKey, SetKey, WriteDr, WriteCr, Submit, Side
    <3>2. {"getDr", "setDr", "writeDr", "getCr", "setCr", "writeCr"} \subseteq Unflushed
      BY DEF Unflushed, Running, Updating
    <3>3. QED
      BY <3>1, <3>2, PlainLingers
  <2>4. QED
    BY <1>1, <2>1, <2>2, <2>3, StepKnown, CacheKept DEF CountInv, MemoryCounted
<1>5. CASE StoreEntry(c) \/ WriteDr(c)
  <2> DEFINE E == InMemory'
  <2>1. StoresCounted'
    BY <1>0, <1>5, WriteCounted DEF StoreEntry, WriteDr
  <2>2. Entry(c) \in journal' => Entry(c) \in E.dr \cap E.cr
    BY DEF InMemory, Known
  <2>3. \A o \in DOMAIN objects : objects[o] \in Counted(o.of, E)
    BY <1>0, ObjectsCounted DEF CountInv
  <2> HIDE DEF E
  <2>4. CASE StoreEntry(c)
    <3>1. Entry(c) \in journal'
      <4>1. Items(c) = {Entry(c)}
        BY <2>4 DEF StoreEntry, Items, Creating
      <4>2. QED
        BY <2>4, <4>1 DEF StoreEntry, Write, JournalWith
    <3>2. /\ DOMAIN Debit(c, objects) = DOMAIN objects
          /\ \A o \in DOMAIN objects : Debit(c, objects)[o] \in Counted(o.of, E)
      BY <1>3, <2>2, <2>3, <3>1, DebitCounted
    <3>3. CallCounted(c)'
      BY <1>0, <1>2, <2>4, <3>1, <3>2, SubmitCounted DEF StoreEntry, E
    <3>4. objects' \in {objects, Debit(c, objects)}
      BY <2>4 DEF StoreEntry, Submit
    <3>5. MemoryCounted'
      BY <1>0, <2>3, <3>2, <3>4 DEF MemoryCounted, E
    <3>6. QED
      BY <1>0, <1>1, <2>1, <3>3, <3>5, OneCounts
  <2>5. CASE WriteDr(c)
    <3>1. CASE Throw(c) /\ UNCHANGED objects
      <4>1. CallCounted(c)'
        BY <1>0, <3>1, PlainCounted
      <4>2. MemoryCounted'
        BY <1>0, <2>3, <3>1 DEF MemoryCounted, E
      <4>3. QED
        BY <1>0, <1>1, <2>1, <4>1, <4>2, OneCounts
    <3>2. CASE Submit(c, Step(c).to, Credit(c, objects), "getCr")
      <4>1. Entry(c) \in journal'
        BY <1>0, <1>2, <2>5 DEF WriteDr, CountInv, CallCounted
      <4>2. /\ DOMAIN Credit(c, objects) = DOMAIN objects
            /\ \A o \in DOMAIN objects : Credit(c, objects)[o] \in Counted(o.of, E)
        BY <1>3, <2>2, <2>3, <4>1, DebitCounted
      <4>3. CallCounted(c)'
        BY <1>0, <1>2, <3>2, <4>1, <4>2, SubmitCounted DEF E
      <4>4. objects' \in {objects, Credit(c, objects)}
        BY <3>2 DEF Submit
      <4>5. MemoryCounted'
        BY <1>0, <2>3, <4>2, <4>4 DEF MemoryCounted, E
      <4>6. QED
        BY <1>0, <1>1, <2>1, <4>3, <4>5, OneCounts
    <3>3. QED
      BY <2>5, <3>1, <3>2 DEF WriteDr
  <2>6. QED
    BY <1>5, <2>4, <2>5
<1>6. CASE GetKey(c)
  <2> DEFINE found == [a \in {Subject(c)} \cap DOMAIN redis |-> Renewed(c, redis[a])]
  <2>1. pc[c] \in {"getDr", "getCr"} /\ UNCHANGED <<objects, entriesCache, redis, db, journal>>
    BY <1>6 DEF GetKey, memory, stores
  <2>2. AllCounted(found, Known)
    BY <2>1, RenewedCounted DEF AllCounted, CountInv, StoresCounted, Updating
  <2> HIDE DEF found
  <2>3. keys'[c] = found /\ docs'[c] = docs[c] /\ snap'[c] = snap[c] /\ at'[c] = at[c]
    BY <1>6 DEF GetKey, found, TypeInv, CallTypes
  <2>4. \/ pc[c] = "getDr" /\ pc'[c] \in {"setDr", "writeDr"}
        \/ pc[c] = "getCr" /\ pc'[c] \in {"setCr", "writeCr"}
    BY <1>6 DEF GetKey, Goto, Side, TypeInv, CallTypes
  <2>5. Subject(c)' = Subject(c) /\ Side(c)' = Side(c) /\ Entry(c)' = Entry(c)
    BY <2>3, <2>4 DEF Subject, Side, Step, Entry
  <2>6. CallCounted(c)'
    <3>1. AllCounted(keys[c], Known)' /\ AllCounted(docs[c], Known)'
      BY <1>0, <1>4, <2>2, <2>3, AllGrow
    <3>2. snap[c][Subject(c)][Side(c)] \subseteq Countable(c, Known) /\ Entry(c) \in journal
      BY <2>1 DEF CountInv, CallCounted, Updating
    <3>3. (snap[c][Subject(c)][Side(c)] \subseteq Countable(c, Known) /\ Entry(c) \in journal)'
      BY <1>0, <2>3, <2>5, <3>2 DEF Countable, Within, Debited, Credited
    <3>4. QED
      BY <2>4, <3>1, <3>3 DEF CallCounted
  <2>7. StoresCounted' /\ MemoryCounted'
    BY <1>0, <2>1, AllGrow, ObjectsCounted DEF CountInv, StoresCounted, MemoryCounted
  <2>8. QED
    BY <1>0, <1>1, <2>6, <2>7, OneCounts
<1>7. CASE SetKey(c)
  <2>1. UNCHANGED <<at, keys, docs, snap, objects, entriesCache>>
    BY <1>7 DEF SetKey, fetched, memory
  <2>2. StoresCounted'
    BY <1>0, <1>7, WriteCounted DEF SetKey
  <2>3. \/ pc[c] = "setDr" /\ pc'[c] = "writeDr"
        \/ pc[c] = "setCr" /\ pc'[c] = "writeCr"
    BY <1>7 DEF SetKey, Goto, Side, TypeInv, CallTypes
  <2>4. Subject(c)' = Subject(c) /\ Side(c)' = Side(c) /\ Entry(c)' = Entry(c)
    BY <2>1, <2>3 DEF Subject, Side, Step, Entry
  <2>5. CallCounted(c)'
    <3>1. AllCounted(keys[c], Known)' /\ AllCounted(docs[c], Known)'
      BY <1>0, <1>4, <2>1, AllGrow
    <3>2. snap[c][Subject(c)][Side(c)] \subseteq Countable(c, Known) /\ Entry(c) \in journal
      BY <2>3 DEF CountInv, CallCounted, Updating
    <3>3. (snap[c][Subject(c)][Side(c)] \subseteq Countable(c, Known) /\ Entry(c) \in journal)'
      BY <1>0, <2>1, <2>4, <3>2 DEF Countable, Within, Debited, Credited
    <3>4. QED
      BY <2>3, <3>1, <3>3 DEF CallCounted
  <2>6. MemoryCounted'
    BY <1>0, <2>1, ObjectsCounted DEF CountInv, MemoryCounted
  <2>7. QED
    BY <1>0, <1>1, <2>2, <2>5, <2>6, OneCounts
<1>8. CASE WriteCr(c)
  <2>1. StoresCounted'
    BY <1>0, <1>8, WriteCounted DEF WriteCr
  <2>2. CallCounted(c)'
    BY <1>0, <1>8, PlainCounted DEF WriteCr
  <2>3. MemoryCounted'
    BY <1>0, <1>8, ObjectsCounted DEF WriteCr, CountInv, MemoryCounted, memory
  <2>4. QED
    BY <1>0, <1>1, <2>1, <2>2, <2>3, OneCounts
<1>9. QED
  BY <1>5, <1>6, <1>7, <1>8

-----------------------------------------------------------------------------
(* Flushes, creations, failures *)

LEMMA SendCounted ==
  ASSUME TypeInv, CountInv, NEW c \in Calls, SendAccounts(c), UNCHANGED fetched,
         \A o \in DOMAIN objects : objects[o] \in Counted(o.of, Known'), Within(Known, Known')
  PROVE  CallCounted(c)'
<1>1. /\ snap'[c] = [a \in DOMAIN accountCache |-> objects[accountCache[a]]]
      /\ pc'[c] \in {"done", "flushAccounts"} /\ keys'[c] = keys[c] /\ docs'[c] = docs[c]
  BY DEF SendAccounts, Goto, TypeInv, CallTypes, fetched
<1>2. \A a \in DOMAIN accountCache : accountCache[a] \in DOMAIN objects /\ accountCache[a].of = a
  BY DEF TypeInv, SharedOK, Refers
<1>3. AllCounted(snap'[c], Known')
  BY <1>1, <1>2 DEF AllCounted
<1>4. AllCounted(keys[c], Known') /\ AllCounted(docs[c], Known')
  BY AllGrow DEF CountInv, CallCounted
<1>5. QED
  BY <1>1, <1>3, <1>4 DEF CallCounted, Updating

LEMMA FlushCounted ==
  ASSUME TypeInv, CountInv, NEW c \in Calls,
         BeginFlush(c) \/ FlushEntries(c) \/ FlushAccounts(c) \/ Uncache(c)
  PROVE  CountInv'
<1>1. Others(c)
  BY DEF BeginFlush, FlushEntries, FlushAccounts, Uncache, SendAccounts, Reject, Goto, Others,
    TypeInv, CallTypes, fetched
<1>0. journal \subseteq journal' /\ Within(Known, Known')
  <2>1. journal \subseteq journal'
    BY WriteJournals DEF BeginFlush, FlushEntries, FlushAccounts, Uncache, stores
  <2>2. entriesCache \subseteq journal' \cup entriesCache'
    BY DEF BeginFlush, FlushEntries, FlushAccounts, Uncache, memory, Write, JournalWith, Items,
      Creating
  <2>3. pc[c] \notin Over
    BY DEF BeginFlush, FlushEntries, FlushAccounts, Uncache, Over
  <2>4. QED
    BY <1>1, <2>1, <2>2, <2>3, StepKnown
<1>2. CASE BeginFlush(c)
  <2>1. UNCHANGED <<objects, entriesCache, redis, db, journal, keys, docs>>
    BY <1>2 DEF BeginFlush, memory, stores, fetched
  <2>2. ASSUME entriesCache = {} /\ SendAccounts(c) PROVE CallCounted(c)'
    <3>1. \A o \in DOMAIN objects : objects[o] \in Counted(o.of, Known')
      <4>1. Within(InMemory, Known')
        BY <1>0, <2>2 DEF Within, InMemory
      <4>2. QED
        BY <4>1, CountedGrows DEF CountInv, MemoryCounted
    <3>2. UNCHANGED fetched
      BY <2>1 DEF fetched
    <3>3. QED
      BY <1>0, <2>2, <3>1, <3>2, SendCounted
  <2>3. ASSUME Goto(c, "flushEntries") PROVE CallCounted(c)'
    <3>1. "flushEntries" \in Places \ (Updating \cup {"flushAccounts"})
      BY DEF Places, Running, Flushing, Updating
    <3>2. \E place \in Places \ (Updating \cup {"flushAccounts"}) : Goto(c, place)
      BY <2>3, <3>1
    <3>3. UNCHANGED <<keys, docs>>
      BY <2>1
    <3>4. QED
      BY <1>0, <3>2, <3>3, PlainCounted
  <2>4. CallCounted(c)'
    <3>1. (entriesCache = {} /\ SendAccounts(c)) \/ Goto(c, "flushEntries")
      BY <1>2 DEF BeginFlush
    <3>2. QED
      BY <2>2, <2>3, <3>1
  <2>5. CacheCounted'
    <3>1. CASE entriesCache = {}
      BY <2>1, <3>1 DEF CacheCounted
    <3>2. CASE Goto(c, "flushEntries")
      <4>1. "flushEntries" \in Unflushed
        BY DEF Unflushed, Running, Flushing
      <4>2. QED
        BY <1>1, <2>1, <3>2, <4>1, PlainLingers, CacheKept DEF CountInv, MemoryCounted
    <3>3. QED
      BY <1>2, <3>1, <3>2 DEF BeginFlush
  <2>6. StoresCounted' /\ MemoryCounted'
    BY <1>0, <2>1, <2>5, AllGrow, ObjectsCounted DEF CountInv, StoresCounted, MemoryCounted
  <2>7. QED
    BY <1>0, <1>1, <2>4, <2>6, OneCounts
<1>3. CASE FlushEntries(c)
  <2>1. StoresCounted'
    BY <1>0, <1>3, WriteCounted DEF FlushEntries
  <2>2. journal' = journal \cup entriesCache
    <3>1. Items(c) = entriesCache
      BY <1>3 DEF FlushEntries, Items, Creating
    <3>2. QED
      BY <1>3, <3>1 DEF FlushEntries, Write, JournalWith
  <2>3. \A o \in DOMAIN objects : objects[o] \in Counted(o.of, Known')
    <3>1. Within(InMemory, Known')
      BY <1>0, <2>2 DEF Within, InMemory, Known
    <3>2. QED
      BY <3>1, CountedGrows DEF CountInv, MemoryCounted
  <2>4. CallCounted(c)'
    BY <1>0, <1>3, <2>3, SendCounted DEF FlushEntries
  <2>5. MemoryCounted'
    <3>1. Within(Known', InMemory')
      BY DEF Within, InMemory
    <3>2. \A o \in DOMAIN objects : objects[o] \in Counted(o.of, InMemory')
      BY <2>3, <3>1, CountedGrows
    <3>3. QED
      BY <1>3, <3>2 DEF FlushEntries, MemoryCounted, CacheCounted
  <2>6. QED
    BY <1>0, <1>1, <2>1, <2>4, <2>5, OneCounts
<1>4. CASE FlushAccounts(c) \/ Uncache(c)
  <2>1. StoresCounted'
    BY <1>0, <1>4, WriteCounted DEF FlushAccounts, Uncache
  <2>2. UNCHANGED <<objects, entriesCache, keys, docs>>
    BY <1>4 DEF FlushAccounts, Uncache, Reject, memory, fetched
  <2>3. \E place \in {"uncache", "failed", "done"} : Goto(c, place)
    BY <1>4 DEF FlushAccounts, Uncache, Reject
  <2>4. {"uncache", "failed", "done"} \subseteq Places \ (Updating \cup {"flushAccounts"})
    BY DEF Places, Running, Flushing, Updating
  <2>5. CallCounted(c)'
    BY <1>0, <2>2, <2>3, <2>4, PlainCounted
  <2>6. Lingers(c)
    BY <1>4 DEF FlushAccounts, Uncache, Lingers, Unflushed
  <2>7. MemoryCounted'
    BY <1>0, <1>1, <2>2, <2>6, MemoryGrows DEF CountInv
  <2>8. QED
    BY <1>0, <1>1, <2>1, <2>5, <2>7, OneCounts
<1>5. QED
  BY <1>2, <1>3, <1>4

LEMMA CreateCounted ==
  ASSUME TypeInv, CountInv, NEW c \in Calls, NewKey(c) \/ NewDocument(c)
  PROVE  CountInv'
<1>1. Others(c)
  BY DEF NewKey, NewDocument, Advance, Reject, Leave, Goto, Others, TypeInv, CallTypes, fetched
<1>0. journal \subseteq journal' /\ Within(Known, Known')
  <2>1. journal \subseteq journal' /\ entriesCache' = entriesCache /\ pc[c] \notin Over
    BY WriteJournals DEF NewKey, NewDocument, memory, Over
  <2>2. QED
    BY <1>1, <2>1, StepKnown
<1>2. StoresCounted'
  BY <1>0, WriteCounted DEF NewKey, NewDocument
<1>3. \/ Advance(c, 1)
      \/ Reject(c)
      \/ UNCHANGED <<keys, docs>> /\ Goto(c, "newDocument")
  BY DEF NewKey, NewDocument, fetched
<1>4. "newDocument" \in Places \ (Updating \cup {"flushAccounts"})
  BY DEF Places, Running, Creating, Updating
<1>5. CallCounted(c)'
  BY <1>0, <1>3, <1>4, PlainCounted
<1>6. Lingers(c)
  <2>1. "newDocument" \in Unflushed
    BY DEF Unflushed, Running, Creating
  <2>2. QED
    BY <1>3, <2>1, PlainLingers
<1>7. MemoryCounted'
  BY <1>0, <1>1, <1>6, MemoryGrows DEF NewKey, NewDocument, CountInv, memory
<1>8. QED
  BY <1>0, <1>1, <1>2, <1>5, <1>7, OneCounts

LEMMA FailsCounted ==
  ASSUME TypeInv, CountInv, NEW c \in Calls, RepoFails(c)
  PROVE  CountInv'
<1>1. Others(c)
  BY DEF RepoFails, Advance, Throw, Reject, Leave, Goto, Others, TypeInv, CallTypes, fetched
<1>0. journal \subseteq journal' /\ Within(Known, Known')
  <2>1. journal \subseteq journal' /\ entriesCache' = entriesCache /\ pc[c] \notin Over
    BY WriteJournals DEF RepoFails, memory, Over, Loading, Updating, Flushing, Creating
  <2>2. QED
    BY <1>1, <2>1, StepKnown
<1>2. StoresCounted'
  BY <1>0, WriteCounted DEF RepoFails
<1>3. CallCounted(c)' /\ Lingers(c)
  BY <1>0, PlainCounted, PlainLingers DEF RepoFails
<1>4. MemoryCounted'
  BY <1>0, <1>1, <1>3, MemoryGrows DEF RepoFails, CountInv, memory
<1>5. QED
  BY <1>0, <1>1, <1>2, <1>3, <1>4, OneCounts

LEMMA RestartCounted == TypeInv /\ CountInv /\ Restart => CountInv'
<1> SUFFICES ASSUME TypeInv, CountInv, Restart PROVE CountInv'
  OBVIOUS
<1>0. Within(Known, Known')
  <2>1. journal \subseteq journal'
    BY WriteJournals DEF Restart
  <2>2. \A d \in Calls : pc[d] \in Over \cup Running => pc'[d] \in Over
    BY DEF Restart, Over, TypeInv, CallTypes
  <2>3. entriesCache \subseteq Loose'
    <3> SUFFICES ASSUME NEW e \in entriesCache PROVE e \in Loose'
      OBVIOUS
    <3>1. e \in EntryIds /\ e[1] \in Batches /\ pc[e[1]] \in Unflushed /\ e[1] \in Calls
      BY DEF CountInv, MemoryCounted, CacheCounted, TypeInv, SharedOK, Calls
    <3>2. pc'[e[1]] \in Over
      BY <2>2, <3>1 DEF Unflushed, Over
    <3>3. QED
      BY <3>1, <3>2 DEF Loose
  <2>4. QED
    BY <2>1, <2>2, <2>3, KnownGrows
<1>1. StoresCounted'
  BY <1>0, WriteCounted DEF Restart
<1>2. MemoryCounted'
  BY EmptyMap DEF Restart, MemoryCounted, CacheCounted
<1>3. ASSUME NEW d \in Calls PROVE CallCounted(d)'
  <2>1. keys'[d] = <<>> /\ docs'[d] = <<>> /\ pc'[d] \notin Updating /\ pc'[d] # "flushAccounts"
    BY DEF Restart, TypeInv, CallTypes, Running, Updating, Flushing
  <2>2. QED
    BY <2>1, EmptyMap DEF CallCounted, AllCounted
<1>4. QED
  BY <1>1, <1>2, <1>3 DEF CountInv

LEMMA CountStutters == CountInv /\ UNCHANGED storeVars => CountInv'
<1> SUFFICES ASSUME CountInv, UNCHANGED storeVars PROVE CountInv'
  OBVIOUS
<1>1. Known' = Known /\ InMemory' = InMemory
  BY DEF storeVars, callVars, memory, stores, fetched, Known, InMemory, Loose, DirectlyDebited,
    DirectlyCredited, Debited, Credited, Posts
<1>2. StoresCounted' /\ MemoryCounted'
  BY <1>1 DEF CountInv, StoresCounted, MemoryCounted, CacheCounted, AllCounted, Counted, Posts,
    Debited, Credited, storeVars, callVars, memory, stores, fetched
<1>3. ASSUME NEW c \in Calls PROVE CallCounted(c)'
  <2>1. UNCHANGED <<pc, at, keys, docs, snap, journal>>
    BY DEF storeVars, callVars, stores, fetched
  <2>2. Subject(c)' = Subject(c) /\ Side(c)' = Side(c) /\ Entry(c)' = Entry(c)
    BY <2>1 DEF Subject, Side, Step, Entry
  <2>3. Countable(c, Known)' = Countable(c, Known)
    BY <1>1, <2>2 DEF Countable, Debited, Credited
  <2>4. AllCounted(keys[c], Known)' /\ AllCounted(docs[c], Known)'
    BY <1>1, <2>1 DEF CountInv, CallCounted
  <2>5. (pc[c] = "flushAccounts")' => AllCounted(snap[c], Known)'
    BY <1>1, <2>1 DEF CountInv, CallCounted
  <2>6. (pc[c] \in Updating \ {"storeEntry"})' =>
          (snap[c][Subject(c)][Side(c)] \subseteq Countable(c, Known) /\ Entry(c) \in journal)'
    BY <2>1, <2>2, <2>3 DEF CountInv, CallCounted
  <2> QED BY <2>4, <2>5, <2>6 DEF CallCounted
<1>4. QED
  BY <1>2, <1>3 DEF CountInv

LEMMA CountInitially == StoreInit => CountInv
  BY EmptyMap, ZeroCounted DEF StoreInit, CountInv, StoresCounted, MemoryCounted, CacheCounted,
    CallCounted, AllCounted, Updating

\* Whatever the plans of the calls are, whatever fails and whenever the service
\* restarts, no balance in Redis or in MongoDB counts an entry that the journal has
\* not, unless a client outside the batches debits (credits) the same account, and
\* then only entries of batches that were not answered.
THEOREM BalancesStayJournaled == StoreSpec => []BalancesJournaled
<1>1. TypeInv /\ CountInv /\ [StoreNext]_storeVars => CountInv'
  BY LoadCounted, ReadyCounted, UpdateCounted, FlushCounted, CreateCounted, FailsCounted,
     RestartCounted, CountStutters DEF StoreNext
<1>2. TypeInv /\ [StoreNext]_storeVars => TypeInv'
  BY LoadTyped, ReadyTyped, UpdateTyped, FlushTyped, CreateTyped, FailsTyped, RestartTyped,
     TypeStutters DEF StoreNext
<1>3. QED
  BY <1>1, <1>2, TypeInitially, CountInitially, CountInvImplies, PTL DEF StoreSpec
-----------------------------------------------------------------------------
(* The inductive strengthening of AckedJournaled: until a batch is answered  *)
(* what it posted is journaled or in _entriesCache, which its flush empties  *)
(* into the journal; what a client outside the batches posts is journaled    *)
(* before it enters any balance.                                             *)

KeptFor(c) ==
  /\ pc[c] = "idle" => posted[c] = {}
  /\ pc[c] \in Running => posted[c] \subseteq journal \cup entriesCache
  /\ pc[c] \in {"flushAccounts", "uncache", "done"} \/ c \notin Batches
       => posted[c] \subseteq journal
  /\ pc[c] \in Updating \ {"storeEntry"} => Entry(c) \in journal

AckInv == \A c \in Calls : KeptFor(c)

\* posted' differs from posted for call c at most, by the entry of its step
Posted(c) ==
  /\ posted'[c] \in {posted[c], posted[c] \cup {Entry(c)}}
  /\ \A d \in Calls \ {c} : posted'[d] = posted[d]

LEMMA WriteKeeps ==
  ASSUME NEW c, NEW S, Write(c, S)
  PROVE  journal \subseteq journal'
  BY DEF Write, JournalWith

LEMMA OneKeeps ==
  ASSUME AckInv, NEW c \in Calls, Others(c), Posted(c), journal \subseteq journal',
         journal \cup entriesCache \subseteq journal' \cup entriesCache', KeptFor(c)'
  PROVE  AckInv'
<1>1. ASSUME NEW d \in Calls, d # c PROVE KeptFor(d)'
  <2>1. KeptFor(d) /\ pc'[d] = pc[d] /\ at'[d] = at[d] /\ posted'[d] = posted[d]
    BY <1>1 DEF AckInv, Others, Posted
  <2>2. QED
    BY <2>1 DEF KeptFor, Entry
<1>2. QED
  BY <1>1 DEF AckInv

\* A step of a call that posts nothing and does not go on to update or to flush
LEMMA PlainKept ==
  ASSUME TypeInv, AckInv, NEW c \in Calls, pc[c] \in Running,
         journal \subseteq journal', posted'[c] = posted[c],
         journal \cup entriesCache \subseteq journal' \cup entriesCache',
         \/ Advance(c, 1)
         \/ Throw(c)
         \/ Reject(c)
         \/ \E place \in Running \ (Updating \cup {"flushAccounts", "uncache"}) : Goto(c, place)
         \/ Goto(c, "storeEntry")
  PROVE  KeptFor(c)'
<1>1. /\ posted[c] \subseteq journal \cup entriesCache
      /\ c \notin Batches => posted[c] \subseteq journal
  BY DEF AckInv, KeptFor
<1>2. pc'[c] \notin (Updating \ {"storeEntry"}) \cup {"idle", "flushAccounts", "uncache"}
  BY DEF Advance, Throw, Reject, Leave, Goto, TypeInv, CallTypes, Running, Updating, Loading,
    Flushing, Creating
<1>3. pc'[c] = "done" => c \notin Batches
  BY DEF Advance, Throw, Reject, Leave, Goto, TypeInv, CallTypes, Running, Updating, Loading,
    Flushing, Creating
<1>4. QED
  BY <1>1, <1>2, <1>3 DEF KeptFor

LEMMA LoadKept ==
  ASSUME TypeInv, AckInv, NEW c \in Calls,
         Begin(c) \/ GetAccounts(c) \/ ReadCache(c) \/ ReadDb(c) \/ Recache(c)
  PROVE  AckInv'
<1>1. Others(c)
  BY DEF Begin, GetAccounts, ReadCache, ReadDb, Recache, Enter, Goto, Others, TypeInv, CallTypes,
    fetched
<1>2. posted' = posted /\ entriesCache' = entriesCache /\ journal \subseteq journal'
  BY WriteKeeps DEF Begin, GetAccounts, ReadCache, ReadDb, Recache, Enter, memory, stores
<1>3. CASE Begin(c)
  <2>1. posted[c] = {} /\ pc'[c] = "get"
    BY <1>3 DEF Begin, AckInv, KeptFor, Goto, TypeInv, CallTypes
  <2>2. KeptFor(c)'
    BY <1>2, <2>1 DEF KeptFor, Updating
  <2>3. QED
    BY <1>1, <1>2, <2>2, OneKeeps DEF Posted
<1>4. CASE GetAccounts(c) \/ ReadCache(c) \/ ReadDb(c) \/ Recache(c)
  <2>1. pc[c] \in Running
    BY <1>4 DEF GetAccounts, ReadCache, ReadDb, Recache, Running, Loading
  <2>2. \E place \in Running \ (Updating \cup {"flushAccounts", "uncache"}) : Goto(c, place)
    <3>1. {"ready", "readCache", "readDb", "recache"}
            \subseteq Running \ (Updating \cup {"flushAccounts", "uncache"})
      BY DEF Running, Loading, Updating
    <3>2. \E place \in {"ready", "readCache", "readDb", "recache"} : Goto(c, place)
      BY <1>4 DEF GetAccounts, ReadCache, ReadDb, Recache, Enter
    <3>3. QED
      BY <3>1, <3>2
  <2>3. KeptFor(c)'
    BY <1>2, <2>1, <2>2, PlainKept
  <2>4. QED
    BY <1>1, <1>2, <2>3, OneKeeps DEF Posted
<1>5. QED
  BY <1>3, <1>4

LEMMA ReadyKept ==
  ASSUME TypeInv, AckInv, NEW c \in Calls,
         Check(c) \/ PostInBatch(c) \/ BeginDirect(c) \/ BeginCreate(c)
  PROVE  AckInv'
<1>1. Others(c) /\ pc[c] \in Running
  BY DEF Check, PostInBatch, BeginDirect, BeginCreate, Advance, Throw, Reject, Leave, Goto, Others,
    TypeInv, CallTypes, fetched, Running
<1>2. /\ journal' = journal
      /\ entriesCache \subseteq entriesCache'
  BY DEF Check, PostInBatch, BeginDirect, BeginCreate, memory, stores
<1>3. \/ posted'[c] = posted[c] /\ posted' = posted
      \/ PostInBatch(c) /\ posted' = [posted EXCEPT ![c] = @ \cup {Entry(c)}] /\ Advance(c, 1)
         /\ entriesCache' = entriesCache \cup {Entry(c)}
  BY DEF Check, PostInBatch, BeginDirect, BeginCreate
<1>4. CASE posted'[c] = posted[c] /\ posted' = posted
  <2>1. "newKey" \in Running \ (Updating \cup {"flushAccounts", "uncache"})
    BY DEF Running, Creating, Updating
  <2>2. Advance(c, 1) \/ Throw(c) \/ Goto(c, "storeEntry") \/ Goto(c, "newKey")
    BY DEF Check, PostInBatch, BeginDirect, BeginCreate
  <2>3. KeptFor(c)'
    BY <1>1, <1>2, <1>4, <2>1, <2>2, PlainKept
  <2>4. QED
    BY <1>1, <1>2, <1>4, <2>3, OneKeeps DEF Posted
<1>5. CASE PostInBatch(c) /\ posted' = [posted EXCEPT ![c] = @ \cup {Entry(c)}] /\ Advance(c, 1)
           /\ entriesCache' = entriesCache \cup {Entry(c)}
  <2>1. c \in Batches /\ posted[c] \subseteq journal \cup entriesCache
    BY <1>1, <1>5 DEF PostInBatch, AckInv, KeptFor
  <2>2. pc'[c] \in {"get", "flush"}
    BY <1>5, <2>1 DEF Advance, Goto, TypeInv, CallTypes
  <2>3. posted'[c] = posted[c] \cup {Entry(c)} /\ \A d \in Calls \ {c} : posted'[d] = posted[d]
    BY <1>5 DEF TypeInv
  <2>4. KeptFor(c)'
    BY <1>2, <1>5, <2>1, <2>2, <2>3 DEF KeptFor, Updating
  <2>5. QED
    BY <1>1, <1>2, <2>3, <2>4, OneKeeps DEF Posted
<1>6. QED
  BY <1>3, <1>4, <1>5

LEMMA UpdateKept ==
  ASSUME TypeInv, AckInv, NEW c \in Calls,
         StoreEntry(c) \/ GetKey(c) \/ SetKey(c) \/ WriteDr(c) \/ WriteCr(c)
  PROVE  AckInv'
<1>1. Others(c) /\ pc[c] \in Running /\ pc[c] \in Updating
  BY DEF StoreEntry, GetKey, SetKey, WriteDr, WriteCr, Submit, Advance, Throw, Reject, Leave, Goto,
    Others, TypeInv, CallTypes, fetched, Running, Updating
<1>2. entriesCache' = entriesCache /\ journal \subseteq journal'
  BY WriteKeeps DEF StoreEntry, GetKey, SetKey, WriteDr, WriteCr, memory, stores
<1>3. /\ pc[c] # "storeEntry" => Entry(c) \in journal
      /\ posted[c] \subseteq journal \cup entriesCache
      /\ c \notin Batches => posted[c] \subseteq journal
  BY <1>1 DEF AckInv, KeptFor
<1>4. CASE posted' = posted /\ (Throw(c) \/ Advance(c, 1))
  <2>1. KeptFor(c)'
    BY <1>1, <1>2, <1>4, PlainKept
  <2>2. QED
    BY <1>1, <1>2, <1>4, <2>1, OneKeeps DEF Posted
<1>5. CASE WriteCr(c) /\ posted' = [posted EXCEPT ![c] = @ \cup {Entry(c)}] /\ Advance(c, 1)
  <2>1. Entry(c) \in journal
    BY <1>3, <1>5 DEF WriteCr
  <2>2. posted'[c] = posted[c] \cup {Entry(c)} /\ \A d \in Calls \ {c} : posted'[d] = posted[d]
    BY <1>5 DEF TypeInv
  <2>3. pc'[c] \in {"get", "flush"} \/ (c \notin Batches /\ pc'[c] = "done")
    BY <1>5 DEF Advance, Goto, TypeInv, CallTypes
  <2>4. KeptFor(c)'
    BY <1>2, <1>3, <2>1, <2>2, <2>3 DEF KeptFor, Updating
  <2>5. QED
    BY <1>1, <1>2, <2>2, <2>4, OneKeeps DEF Posted
<1>6. CASE posted' = posted /\ UNCHANGED at
           /\ \E place \in {"getDr", "setDr", "writeDr", "getCr", "setCr", "writeCr"} : Goto(c, place)
           /\ Entry(c) \in journal'
  <2>1. pc'[c] \in Updating \ {"storeEntry"}
    BY <1>6 DEF Goto, TypeInv, CallTypes, Updating
  <2>2. KeptFor(c)'
    BY <1>2, <1>3, <1>6, <2>1 DEF KeptFor, Updating, Entry
  <2>3. QED
    BY <1>1, <1>2, <1>6, <2>2, OneKeeps DEF Posted
<1>7. StoreEntry(c) => Entry(c) \in journal'
  <2> SUFFICES ASSUME StoreEntry(c) PROVE Entry(c) \in journal'
    OBVIOUS
  <2>1. Items(c) = {Entry(c)}
    BY DEF StoreEntry, Items, Creating
  <2>2. QED
    BY <2>1 DEF StoreEntry, Write, JournalWith
<1>8. CASE StoreEntry(c)
  <2>1. Throw(c) \/ (Goto(c, "getDr") /\ UNCHANGED at)
    BY <1>8 DEF StoreEntry, Submit
  <2>2. QED
    BY <1>4, <1>6, <1>7, <1>8, <2>1 DEF StoreEntry
<1>9. CASE GetKey(c) \/ SetKey(c)
  <2>1. \E place \in {"getDr", "setDr", "writeDr", "getCr", "setCr", "writeCr"} : Goto(c, place)
    BY <1>9 DEF GetKey, SetKey
  <2>2. Entry(c) \in journal
    BY <1>3, <1>9 DEF GetKey, SetKey
  <2>3. QED
    BY <1>2, <1>6, <1>9, <2>1, <2>2 DEF GetKey, SetKey
<1>10. CASE WriteDr(c)
  <2>1. Throw(c) \/ (Goto(c, "getCr") /\ UNCHANGED at)
    BY <1>10 DEF WriteDr, Submit
  <2>2. Entry(c) \in journal
    BY <1>3, <1>10 DEF WriteDr
  <2>3. QED
    BY <1>2, <1>4, <1>6, <1>10, <2>1, <2>2 DEF WriteDr
<1>11. CASE WriteCr(c)
  BY <1>4, <1>5, <1>11 DEF WriteCr
<1>12. QED
  BY <1>8, <1>9, <1>10, <1>11

LEMMA FlushKept ==
  ASSUME TypeInv, AckInv, NEW c \in Calls,
         BeginFlush(c) \/ FlushEntries(c) \/ FlushAccounts(c) \/ Uncache(c)
  PROVE  AckInv'
<1>1. Others(c) /\ pc[c] \in Running
  BY DEF BeginFlush, FlushEntries, FlushAccounts, Uncache, SendAccounts, Reject, Goto, Others,
    TypeInv, CallTypes, fetched, Running, Flushing
<1>2. posted' = posted /\ journal \subseteq journal'
  BY WriteKeeps DEF BeginFlush, FlushEntries, FlushAccounts, Uncache, memory, stores
<1>3. journal \cup entriesCache \subseteq journal' \cup entriesCache'
  <2>1. CASE FlushEntries(c)
    <3>1. Items(c) = entriesCache
      BY <2>1 DEF FlushEntries, Items, Creating
    <3>2. QED
      BY <2>1, <3>1 DEF FlushEntries, Write, JournalWith
  <2>2. CASE BeginFlush(c) \/ FlushAccounts(c) \/ Uncache(c)
    BY <1>2, <2>2 DEF BeginFlush, FlushAccounts, Uncache, memory
  <2>3. QED
    BY <2>1, <2>2
<1>4. CASE Goto(c, "flushEntries") \/ Reject(c)
  <2>1. "flushEntries" \in Running \ (Updating \cup {"flushAccounts", "uncache"})
    BY DEF Running, Flushing, Updating
  <2>2. KeptFor(c)'
    BY <1>1, <1>2, <1>3, <1>4, <2>1, PlainKept
  <2>3. QED
    BY <1>1, <1>2, <1>3, <2>2, OneKeeps DEF Posted
<1>5. CASE \E place \in {"flushAccounts", "uncache", "done"} : Goto(c, place)
  <2>1. posted[c] \subseteq journal \cup entriesCache
    BY <1>1 DEF AckInv, KeptFor
  <2>2. pc'[c] \in {"flushAccounts", "uncache", "done"}
    BY <1>5 DEF Goto, TypeInv, CallTypes
  <2>3. posted[c] \subseteq journal'
    <3>1. CASE BeginFlush(c)
      <4>1. entriesCache = {}
        <5>1. entriesCache # {} => pc'[c] = "flushEntries"
          BY <3>1 DEF BeginFlush, Goto, TypeInv, CallTypes
        <5>2. QED
          BY <2>2, <5>1
      <4>2. QED
        BY <1>2, <2>1, <4>1
    <3>2. CASE FlushEntries(c)
      BY <1>3, <2>1, <3>2 DEF FlushEntries
    <3>3. CASE FlushAccounts(c) \/ Uncache(c)
      <4>1. posted[c] \subseteq journal
        BY <3>3 DEF FlushAccounts, Uncache, AckInv, KeptFor
      <4>2. QED
        BY <1>2, <4>1
    <3>4. QED
      BY <3>1, <3>2, <3>3
  <2>4. KeptFor(c)'
    BY <1>2, <2>2, <2>3 DEF KeptFor, Updating
  <2>5. QED
    BY <1>1, <1>2, <1>3, <2>4, OneKeeps DEF Posted
<1>6. QED
  BY <1>4, <1>5 DEF BeginFlush, FlushEntries, FlushAccounts, Uncache, SendAccounts

LEMMA CreateKept ==
  ASSUME TypeInv, AckInv, NEW c \in Calls, NewKey(c) \/ NewDocument(c)
  PROVE  AckInv'
<1>1. Others(c) /\ pc[c] \in Running
  BY DEF NewKey, NewDocument, Advance, Reject, Leave, Goto, Others, TypeInv, CallTypes, fetched,
    Running, Creating
<1>2. posted' = posted /\ entriesCache' = entriesCache /\ journal \subseteq journal'
  BY WriteKeeps DEF NewKey, NewDocument, memory
<1>3. "newDocument" \in Running \ (Updating \cup {"flushAccounts", "uncache"})
  BY DEF Running, Creating, Updating
<1>4. Advance(c, 1) \/ Reject(c) \/ Goto(c, "newDocument")
  BY DEF NewKey, NewDocument
<1>5. KeptFor(c)'
  BY <1>1, <1>2, <1>3, <1>4, PlainKept
<1>6. QED
  BY <1>1, <1>2, <1>5, OneKeeps DEF Posted

LEMMA FailsKept ==
  ASSUME TypeInv, AckInv, NEW c \in Calls, RepoFails(c)
  PROVE  AckInv'
<1>1. Others(c) /\ pc[c] \in Running
  BY DEF RepoFails, Advance, Throw, Reject, Leave, Goto, Others, TypeInv, CallTypes, fetched, Running
<1>2. posted' = posted /\ entriesCache' = entriesCache /\ journal \subseteq journal'
  BY WriteKeeps DEF RepoFails, memory
<1>3. KeptFor(c)'
  BY <1>1, <1>2, PlainKept DEF RepoFails
<1>4. QED
  BY <1>1, <1>2, <1>3, OneKeeps DEF Posted

LEMMA RestartKept == TypeInv /\ AckInv /\ Restart => AckInv'
<1> SUFFICES ASSUME TypeInv, AckInv, Restart PROVE AckInv'
  OBVIOUS
<1>1. journal \subseteq journal' /\ posted' = posted
  BY WriteKeeps DEF Restart
<1>2. ASSUME NEW d \in Calls PROVE KeptFor(d)'
  <2>1. KeptFor(d)
    BY DEF AckInv
  <2>2. pc'[d] = (IF pc[d] \in Running THEN "lost" ELSE pc[d])
    BY DEF Restart
  <2>3. pc'[d] \notin Running
    BY <2>2 DEF Running, Loading, Updating, Flushing, Creating
  <2>4. pc'[d] \in {"idle", "flushAccounts", "uncache", "done"} => pc'[d] = pc[d]
    BY <2>2
  <2>5. QED
    BY <1>1, <2>1, <2>3, <2>4 DEF KeptFor, Running
<1>3. QED
  BY <1>2 DEF AckInv

LEMMA KeptStutters == AckInv /\ UNCHANGED storeVars => AckInv'
  BY DEF AckInv, KeptFor, Entry, storeVars, callVars, memory, stores, fetched

LEMMA KeptInitially == StoreInit => AckInv
  BY DEF StoreInit, AckInv, KeptFor, Running, Loading, Updating, Flushing, Creating

\* The entries of every request that was answered are in the journal and stay
\* there, whatever the plans of the calls are and however the clients outside the
\* batches overlap them, whatever fails and whenever the service restarts.
THEOREM AnsweredStaysJournaled == StoreSpec => []AckedJournaled
<1>1. TypeInv /\ AckInv /\ [StoreNext]_storeVars => AckInv'
  BY LoadKept, ReadyKept, UpdateKept, FlushKept, CreateKept, FailsKept, RestartKept, KeptStutters
     DEF StoreNext
<1>2. TypeInv /\ [StoreNext]_storeVars => TypeInv'
  BY LoadTyped, ReadyTyped, UpdateTyped, FlushTyped, CreateTyped, FailsTyped, RestartTyped,
     TypeStutters DEF StoreNext
<1>3. AckInv => AckedJournaled
  BY DEF AckInv, KeptFor, AckedJournaled
<1>4. QED
  BY <1>1, <1>2, <1>3, TypeInitially, KeptInitially, PTL DEF StoreSpec
=============================================================================
