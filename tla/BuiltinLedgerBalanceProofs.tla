---------------------- MODULE BuiltinLedgerBalanceProofs ----------------------
(* Theorems about what the balances and the journal of BuiltinLedger hold, and *)
(* their proofs: the tally of a hub, balances as sums of the entries of the   *)
(* requests answered, reservations, and the journal entry by entry.           *)
EXTENDS BuiltinLedgerProofs, Functions, FiniteSetTheorems, WellFoundedInduction

-----------------------------------------------------------------------------
(* Sums over finite sets: SumFunctionOnSet does not depend on the order in   *)
(* which elements are taken.  A claim about every finite set is proved by    *)
(* taking a smallest counterexample.                                          *)

Pick(s) == CHOOSE x \in s : TRUE

\* g gives the sum of f over every subset of S, one picked element at a time
IsSum(g, f, S) ==
  g = [s \in SUBSET S |-> IF s = {} THEN 0 ELSE f[Pick(s)] + g[s \ {Pick(s)}]]

LEMMA SumIs ==
  ASSUME NEW f, NEW S
  PROVE  SumFunctionOnSet(f, S) = (CHOOSE g : IsSum(g, f, S))[S]
BY DEF SumFunctionOnSet, FoldFunctionOnSet, MapThenFoldSet, IsSum, Pick

LEMMA PickIn == ASSUME NEW s, s # {} PROVE Pick(s) \in s
BY DEF Pick

\* A set of subsets of a finite set has a member none of whose strict subsets is a member
LEMMA Smallest ==
  ASSUME NEW S, IsFiniteSet(S), NEW B, B \subseteq SUBSET S, B # {}
  PROVE  \E s \in B : \A t \in B : t \subseteq s => t = s
<1>1. IsWellFoundedOn(StrictSubsetOrdering(S), SUBSET S)
  BY FS_StrictSubsetOrderingWellFounded, FS_FiniteSubsetsOfFinite
<1>2. PICK s \in B : \A t \in B : ~(<<t, s>> \in StrictSubsetOrdering(S))
  BY <1>1, WFMin
<1>3. ASSUME NEW t \in B, t \subseteq s, t # s
      PROVE  <<t, s>> \in StrictSubsetOrdering(S)
  BY <1>3 DEF StrictSubsetOrdering
<1> QED
  <2> SUFFICES ASSUME NEW t \in B, t \subseteq s PROVE t = s
    OBVIOUS
  <2> QED BY <1>2, <1>3

LEMMA SumUnique ==
  ASSUME NEW f, NEW S, IsFiniteSet(S), NEW T, NEW g, NEW h, IsSum(g, f, S), IsSum(h, f, T)
  PROVE  \A s \in SUBSET (S \cap T) : g[s] = h[s]
<1> DEFINE B == {s \in SUBSET (S \cap T) : g[s] # h[s]}
<1> SUFFICES ASSUME B # {} PROVE FALSE
  OBVIOUS
<1>0. B \subseteq SUBSET S
  OBVIOUS
<1>1. PICK s \in B : \A t \in B : t \subseteq s => t = s
  <2> HIDE DEF B
  <2> QED BY <1>0, Smallest
<1>2. s # {}
  BY DEF IsSum
<1>3. /\ g[s] = f[Pick(s)] + g[s \ {Pick(s)}]
      /\ h[s] = f[Pick(s)] + h[s \ {Pick(s)}]
  BY <1>2 DEF IsSum
<1>4. s \ {Pick(s)} \notin B
  BY <1>1, <1>2, PickIn
<1> QED BY <1>3, <1>4

LEMMA SumExists ==
  ASSUME NEW f, NEW S, IsFiniteSet(S)
  PROVE  \E g : IsSum(g, f, S)
<1> DEFINE B == {s \in SUBSET S : ~\E g : IsSum(g, f, s)}
<1> SUFFICES ASSUME B # {} PROVE FALSE
  OBVIOUS
<1>0. B \subseteq SUBSET S
  OBVIOUS
<1>1. PICK T \in B : \A t \in B : t \subseteq T => t = T
  <2> HIDE DEF B
  <2> QED BY <1>0, Smallest
<1>2. \A s \in SUBSET T : s # T => \E g : IsSum(g, f, s)
  BY <1>1
<1> DEFINE h(s) == CHOOSE g : IsSum(g, f, s)
           at(s) == IF s = {} THEN 0 ELSE f[Pick(s)] + h(s \ {Pick(s)})[s \ {Pick(s)}]
           k == [s \in SUBSET T |-> at(s)]
<1>3. \A s \in SUBSET T : s # T => IsSum(h(s), f, s)
  BY <1>2
<1> HIDE DEF h
<1>4. ASSUME NEW s \in SUBSET T, s # T
      PROVE  at(s) = h(s)[s]
  <2>1. CASE s = {}
    BY <1>3, <1>4, <2>1 DEF IsSum
  <2>2. CASE s # {}
    <3> DEFINE u == s \ {Pick(s)}
    <3>1. u \in SUBSET T /\ u # T /\ u \subseteq s /\ IsFiniteSet(u)
      <4>1. IsFiniteSet(s) BY FS_Subset
      <4> QED BY <2>2, <1>4, <4>1, PickIn, FS_Subset
    <3>2. h(u)[u] = h(s)[u]
      <4>1. IsSum(h(u), f, u) /\ IsSum(h(s), f, s) /\ u \in SUBSET (u \cap s)
        BY <1>3, <1>4, <3>1
      <4> QED BY <4>1, <3>1, SumUnique
    <3>3. h(s)[s] = f[Pick(s)] + h(s)[u]
      BY <1>3, <1>4, <2>2 DEF IsSum
    <3> QED BY <2>2, <3>2, <3>3
  <2> QED BY <2>1, <2>2
<1>5. ASSUME NEW s \in SUBSET T
      PROVE  k[s] = IF s = {} THEN 0 ELSE f[Pick(s)] + k[s \ {Pick(s)}]
  <2>1. CASE s = {}
    BY <2>1
  <2>2. CASE s # {}
    <3>1. s \ {Pick(s)} \in SUBSET T /\ s \ {Pick(s)} # T
      BY <2>2, PickIn
    <3>2. k[s \ {Pick(s)}] = h(s \ {Pick(s)})[s \ {Pick(s)}]
      BY <3>1, <1>4
    <3> QED BY <2>2, <3>2
  <2> QED BY <2>1, <2>2
<1>6. IsSum(k, f, T)
  <2> HIDE DEF at
  <2> QED BY <1>5 DEF IsSum
<1> QED BY <1>1, <1>6

\* The equation of the recursion
LEMMA SumEquation ==
  ASSUME NEW f, NEW S, IsFiniteSet(S)
  PROVE  SumFunctionOnSet(f, S) =
           IF S = {} THEN 0
           ELSE f[Pick(S)] + SumFunctionOnSet(f, S \ {Pick(S)})
<1> DEFINE g(s) == CHOOSE k : IsSum(k, f, s)
           u == S \ {Pick(S)}
<1>1. IsFiniteSet(u)
  BY FS_Subset
<1>2. IsSum(g(S), f, S) /\ IsSum(g(u), f, u)
  BY <1>1, SumExists
<1>3. SumFunctionOnSet(f, S) = g(S)[S] /\ SumFunctionOnSet(f, u) = g(u)[u]
  BY SumIs
<1> HIDE DEF g
<1>4. g(S)[S] = IF S = {} THEN 0 ELSE f[Pick(S)] + g(S)[u]
  BY <1>2 DEF IsSum
<1>5. g(S)[u] = g(u)[u]
  BY <1>1, <1>2, SumUnique
<1> QED BY <1>3, <1>4, <1>5

LEMMA SumEmpty == ASSUME NEW f PROVE SumFunctionOnSet(f, {}) = 0
BY SumEquation, FS_EmptySet

LEMMA SumType ==
  ASSUME NEW f, NEW S, IsFiniteSet(S), \A x \in S : f[x] \in Int
  PROVE  SumFunctionOnSet(f, S) \in Int
<1> DEFINE B == {s \in SUBSET S : SumFunctionOnSet(f, s) \notin Int}
<1> SUFFICES ASSUME B # {} PROVE FALSE
  OBVIOUS
<1>0. B \subseteq SUBSET S
  OBVIOUS
<1>1. PICK s \in B : \A t \in B : t \subseteq s => t = s
  <2> HIDE DEF B
  <2> QED BY <1>0, Smallest
<1>2. IsFiniteSet(s)
  BY FS_Subset
<1>3. s # {}
  BY SumEmpty
<1>4. SumFunctionOnSet(f, s \ {Pick(s)}) \in Int
  BY <1>1, <1>3, PickIn
<1>5. SumFunctionOnSet(f, s) = f[Pick(s)] + SumFunctionOnSet(f, s \ {Pick(s)})
  BY <1>2, <1>3, SumEquation
<1>6. f[Pick(s)] \in Int
  BY <1>3, PickIn
<1> QED BY <1>4, <1>5, <1>6

\* Any element may be taken out first
LEMMA SumRemove ==
  ASSUME NEW f, NEW S, IsFiniteSet(S), \A x \in S : f[x] \in Int, NEW x \in S
  PROVE  SumFunctionOnSet(f, S) = f[x] + SumFunctionOnSet(f, S \ {x})
<1> DEFINE Sum(s) == SumFunctionOnSet(f, s)
           B == {s \in SUBSET S : \E y \in s : Sum(s) # f[y] + Sum(s \ {y})}
<1> SUFFICES ASSUME B # {} PROVE FALSE
  OBVIOUS
<1>0. B \subseteq SUBSET S
  OBVIOUS
<1>1. PICK s \in B : \A t \in B : t \subseteq s => t = s
  <2> HIDE DEF B
  <2> QED BY <1>0, Smallest
<1>2. PICK y \in s : Sum(s) # f[y] + Sum(s \ {y})
  OBVIOUS
<1> DEFINE p == Pick(s)
<1>3. p \in s
  BY <1>2, PickIn
<1>4. \A t \in SUBSET S : IsFiniteSet(t) /\ Sum(t) \in Int
  BY FS_Subset, SumType
<1>5. Sum(s) = f[p] + Sum(s \ {p})
  BY <1>2, <1>4, SumEquation
<1>6. y # p
  BY <1>2, <1>5
<1>7. Sum(s \ {p}) = f[y] + Sum((s \ {p}) \ {y})
  <2>1. s \ {p} \notin B
    BY <1>1, <1>3
  <2> QED BY <2>1, <1>6
<1>8. Sum(s \ {y}) = f[p] + Sum((s \ {y}) \ {p})
  <2>1. s \ {y} \notin B
    BY <1>1, <1>2
  <2> QED BY <2>1, <1>3, <1>6
<1>9. Sum((s \ {y}) \ {p}) = Sum((s \ {p}) \ {y})
  <2>1. (s \ {y}) \ {p} = (s \ {p}) \ {y}
    OBVIOUS
  <2> QED BY <2>1
<1>10. f[p] \in Int /\ f[y] \in Int /\ Sum((s \ {p}) \ {y}) \in Int
  BY <1>3, <1>4
<1> DEFINE a == f[p]
           b == f[y]
           rest == Sum((s \ {p}) \ {y})
<1>11. /\ a \in Int /\ b \in Int /\ rest \in Int
       /\ Sum(s) = a + (b + rest)
       /\ Sum(s \ {y}) = a + rest
       /\ Sum(s) # b + Sum(s \ {y})
  BY <1>2, <1>5, <1>7, <1>8, <1>9, <1>10
<1> HIDE DEF a, b, rest
<1>12. a + (b + rest) = b + (a + rest)
  BY <1>11
<1> QED BY <1>11, <1>12

LEMMA SumAdd ==
  ASSUME NEW f, NEW S, IsFiniteSet(S), NEW x, x \notin S, \A y \in S \cup {x} : f[y] \in Int
  PROVE  SumFunctionOnSet(f, S \cup {x}) = f[x] + SumFunctionOnSet(f, S)
<1>1. IsFiniteSet(S \cup {x}) /\ (S \cup {x}) \ {x} = S
  BY FS_AddElement
<1> QED BY <1>1, SumRemove

LEMMA SumSame ==
  ASSUME NEW f, NEW g, NEW S, IsFiniteSet(S), \A x \in S : f[x] = g[x]
  PROVE  SumFunctionOnSet(f, S) = SumFunctionOnSet(g, S)
<1> DEFINE B == {s \in SUBSET S : SumFunctionOnSet(f, s) # SumFunctionOnSet(g, s)}
<1> SUFFICES ASSUME B # {} PROVE FALSE
  OBVIOUS
<1>0. B \subseteq SUBSET S
  OBVIOUS
<1>1. PICK s \in B : \A t \in B : t \subseteq s => t = s
  <2> HIDE DEF B
  <2> QED BY <1>0, Smallest
<1>2. IsFiniteSet(s)
  BY FS_Subset
<1>3. s # {}
  BY SumEmpty
<1>4. SumFunctionOnSet(f, s \ {Pick(s)}) = SumFunctionOnSet(g, s \ {Pick(s)})
  BY <1>1, <1>3, PickIn
<1>5. /\ SumFunctionOnSet(f, s) = f[Pick(s)] + SumFunctionOnSet(f, s \ {Pick(s)})
      /\ SumFunctionOnSet(g, s) = g[Pick(s)] + SumFunctionOnSet(g, s \ {Pick(s)})
  BY <1>2, <1>3, SumEquation
<1>6. f[Pick(s)] = g[Pick(s)]
  BY <1>3, PickIn
<1> QED BY <1>4, <1>5, <1>6

\* A sum of natural numbers is at least any of them
LEMMA SumNat ==
  ASSUME NEW f, NEW S, IsFiniteSet(S), \A x \in S : f[x] \in Nat
  PROVE  /\ SumFunctionOnSet(f, S) \in Nat
         /\ \A x \in S : f[x] <= SumFunctionOnSet(f, S)
<1> DEFINE B == {s \in SUBSET S : SumFunctionOnSet(f, s) \notin Nat}
<1>1. B = {}
  <2> SUFFICES ASSUME B # {} PROVE FALSE
    OBVIOUS
  <2>0. B \subseteq SUBSET S
    OBVIOUS
  <2>1. PICK s \in B : \A t \in B : t \subseteq s => t = s
    <3> HIDE DEF B
    <3> QED BY <2>0, Smallest
  <2>2. IsFiniteSet(s)
    BY FS_Subset
  <2>3. s # {}
    BY SumEmpty
  <2>4. SumFunctionOnSet(f, s \ {Pick(s)}) \in Nat
    BY <2>1, <2>3, PickIn
  <2>5. SumFunctionOnSet(f, s) = f[Pick(s)] + SumFunctionOnSet(f, s \ {Pick(s)})
    BY <2>2, <2>3, SumEquation
  <2>6. f[Pick(s)] \in Nat
    BY <2>3, PickIn
  <2> QED BY <2>4, <2>5, <2>6
<1>2. ASSUME NEW x \in S
      PROVE  f[x] <= SumFunctionOnSet(f, S)
  <2>1. SumFunctionOnSet(f, S) = f[x] + SumFunctionOnSet(f, S \ {x})
    BY SumRemove
  <2>2. SumFunctionOnSet(f, S \ {x}) \in Nat
    BY <1>1
  <2> QED BY <2>1, <2>2
<1> QED BY <1>1, <1>2

\* One value changes: so does the sum, by as much
LEMMA SumChange ==
  ASSUME NEW f, NEW g, NEW S, IsFiniteSet(S), \A x \in S : f[x] \in Int /\ g[x] \in Int,
         NEW x \in S, \A y \in S \ {x} : f[y] = g[y]
  PROVE  SumFunctionOnSet(g, S) = SumFunctionOnSet(f, S) + (g[x] - f[x])
<1>1. IsFiniteSet(S \ {x})
  BY FS_Subset
<1>2. SumFunctionOnSet(g, S \ {x}) = SumFunctionOnSet(f, S \ {x})
  BY <1>1, SumSame
<1>3. /\ SumFunctionOnSet(f, S) = f[x] + SumFunctionOnSet(f, S \ {x})
      /\ SumFunctionOnSet(g, S) = g[x] + SumFunctionOnSet(g, S \ {x})
      /\ SumFunctionOnSet(f, S \ {x}) \in Int
  BY <1>1, SumRemove, SumType
<1> HIDE DEF SumFunctionOnSet
<1> QED BY <1>2, <1>3

\* What _createJournalEntry validates before it stores an entry
ValidLeg(l) ==
  /\ l.dr # l.cr
  /\ {l.dr, l.cr} \subseteq Accounts
  /\ CurrencyOf[l.dr] = l.currency
  /\ CurrencyOf[l.cr] = l.currency

\* An entry whose balances are being posted was validated
Validated == \A c \in Calls : pc[c] \in {"store", "debit", "credit"} => ValidLeg(CurrentLeg(c))

\* An entry posted to an account changes one balance of that account
LEMMA DebitBalance ==
  ASSUME NEW b \in [Accounts -> Balance], NEW l \in Leg, l.dr \in Accounts, CanDebit(b, l)
  PROVE  /\ Debit(b, l) \in [Accounts -> Balance]
         /\ \A a \in Accounts, f \in Fields :
              Debit(b, l)[a][f] = IF a = l.dr /\ f = DebitField(l) THEN b[a][f] + l.amount
                                                                  ELSE b[a][f]
<1>1. DebitField(l) \in Fields /\ l.amount \in Int
  BY DEF DebitField, Fields, Leg
<1> QED BY <1>1, AddType DEF Debit, CanDebit

LEMMA CreditBalance ==
  ASSUME NEW b \in [Accounts -> Balance], NEW l \in Leg, l.cr \in Accounts, CanCredit(b, l)
  PROVE  /\ Credit(b, l) \in [Accounts -> Balance]
         /\ \A a \in Accounts, f \in Fields :
              Credit(b, l)[a][f] = IF a = l.cr /\ f = CreditField(l) THEN b[a][f] + l.amount
                                                                    ELSE b[a][f]
<1>1. CreditField(l) \in Fields /\ l.amount \in Int
  BY DEF CreditField, Fields, Leg
<1> QED BY <1>1, AddType DEF Credit, CanCredit

-----------------------------------------------------------------------------
(* Validated is kept *)

LEMMA ValidatedFrame ==
  ASSUME Inv, Validated, NEW c \in Calls, OnlyCall(c), reqs' = reqs,
         pc'[c] \in {"store", "debit", "credit"} => ValidLeg(CurrentLeg(c))'
  PROVE  Validated'
<1> SUFFICES ASSUME NEW d \in Calls \ {c}, pc'[d] \in {"store", "debit", "credit"}
             PROVE  ValidLeg(CurrentLeg(d)')
  BY DEF Validated, ValidLeg
<1>1. CurrentLeg(d)' = CurrentLeg(d) /\ pc'[d] = pc[d]
  BY DEF CurrentLeg, Current, OnlyCall
<1> QED BY <1>1 DEF Validated

\* A call that answers, rejects or turns to the next entry posts none yet
LEMMA NotPosting ==
  ASSUME Inv, NEW c \in Calls, NEW ok \in BOOLEAN, NEW b \in [Accounts -> Balance],
         pc[c] \in Suspended, reqs' = reqs,
         Answer(c, ok, b) \/ Reject(c) \/ Throw(c, b) \/ (NextLeg(c, b) /\ pc[c] = "store")
  PROVE  OnlyCall(c) /\ pc'[c] \notin {"store", "debit", "credit"}
<1>1. OnlyCall(c)
  BY AnswerOK, RejectOK, ThrowOK, NextLegOK
<1> USE DEF Inv, TypeOK
<1>2. CASE \E r \in BOOLEAN : Answer(c, r, b)
  BY <1>1, <1>2 DEF Answer, BeginFlush, EntryPoint
<1>3. CASE Reject(c)
  BY <1>1, <1>3 DEF Reject
<1>4. CASE Throw(c, b)
  BY <1>1, <1>2, <1>3, <1>4 DEF Throw
<1>5. CASE NextLeg(c, b)
  BY <1>1, <1>2, <1>5 DEF NextLeg
<1> QED BY <1>2, <1>3, <1>4, <1>5

LEMMA ValidatedInit == Init => Validated
BY DEF Init, Validated

LEMMA ValidatedNext ==
  ASSUME Inv, Validated, [Next]_vars PROVE Validated'
<1>1. CASE UNCHANGED vars
  BY <1>1 DEF vars, Validated, ValidLeg, CurrentLeg, Current
<1>2. ASSUME NEW c \in Calls, Start(c)
      PROVE  Validated'
  <2>1. PICK w \in Workload : /\ reqs' = [reqs EXCEPT ![c] = w]
                              /\ pc' = [pc EXCEPT ![c] = EntryPoint(w[1])]
                              /\ UNCHANGED <<resp, leg>>
    BY <1>2 DEF Start, Arrive
  <2>2. pc'[c] \notin {"store", "debit", "credit"}
    BY <2>1 DEF EntryPoint, Inv, TypeOK
  <2>3. \A d \in Calls \ {c} : CurrentLeg(d)' = CurrentLeg(d) /\ pc'[d] = pc[d]
    BY <2>1 DEF CurrentLeg, Current, Inv, TypeOK
  <2> QED BY <2>2, <2>3 DEF Validated, ValidLeg
<1>3. ASSUME NEW c \in Calls, Resume(c)
      PROVE  Validated'
  <2> USE DEF Inv, TypeOK
  <2>0. reqs' = reqs
    BY <1>3 DEF Resume, CheckLiquid, CreateEntry, PostInBatch, DebitDirect, CreditDirect,
                CompleteDirect, FlushEntries, FlushAccounts, RepoFails
  <2>1. ASSUME pc[c] \in Suspended, NEW b \in [Accounts -> Balance],
               \/ Answer(c, FALSE, b) \/ Answer(c, TRUE, b) \/ Reject(c) \/ Throw(c, b)
               \/ NextLeg(c, b) /\ pc[c] = "store"
        PROVE  Validated'
    BY <2>0, <2>1, NotPosting, ValidatedFrame
  <2>2. ASSUME UNCHANGED <<resp, leg>>,
               \E q : pc' = [pc EXCEPT ![c] = q],
               \/ pc'[c] \notin {"store", "debit", "credit"}
               \/ pc[c] \in {"store", "debit", "credit"}
               \/ ValidLeg(CurrentLeg(c))
        PROVE  Validated'
    <3>1. OnlyCall(c) /\ CurrentLeg(c)' = CurrentLeg(c)
      BY <2>0, <2>2 DEF OnlyCall, CurrentLeg, Current
    <3>2. pc'[c] \in {"store", "debit", "credit"} => ValidLeg(CurrentLeg(c))'
      BY <2>2, <3>1 DEF Validated, ValidLeg
    <3> QED BY <2>0, <3>1, <3>2, ValidatedFrame
  <2>3. CASE CheckLiquid(c)
    BY <2>1, <2>2, <2>3 DEF CheckLiquid, Suspended
  <2>4. CASE CreateEntry(c)
    BY <2>1, <2>2, <2>4 DEF CreateEntry, Suspended, ValidLeg
  <2>5. CASE PostInBatch(c)
    <3> DEFINE l == CurrentLeg(c)
    <3>1. pc[c] = "store" /\ l \in Leg /\ l.dr \in Accounts /\ l.cr \in Accounts
      BY <2>5, CurrentType DEF PostInBatch, CallOK, Suspended
    <3> HIDE DEF l
    <3>2. \E b \in [Accounts -> Balance] : Throw(c, b) \/ NextLeg(c, b)
      <4>1. CASE ~CanDebit(bal, l)
        BY <2>5, <4>1 DEF PostInBatch, l
      <4>2. CASE CanDebit(bal, l) /\ ~CanCredit(Debit(bal, l), l)
        BY <2>5, <3>1, <4>2, DebitType DEF PostInBatch, l
      <4>3. CASE CanDebit(bal, l) /\ CanCredit(Debit(bal, l), l)
        BY <2>5, <3>1, <4>3, DebitType, CreditType DEF PostInBatch, l
      <4> QED BY <4>1, <4>2, <4>3
    <3> QED BY <2>1, <3>1, <3>2 DEF Suspended
  <2>6. CASE DebitDirect(c)
    BY <2>1, <2>2, <2>6 DEF DebitDirect, Suspended
  <2>7. CASE CreditDirect(c)
    BY <2>1, <2>2, <2>7 DEF CreditDirect, Suspended
  <2>8. CASE CompleteDirect(c)
    BY <2>1, <2>8 DEF CompleteDirect, Suspended
  <2>9. CASE FlushEntries(c)
    BY <2>2, <2>9 DEF FlushEntries
  <2>10. CASE FlushAccounts(c)
    BY <2>2, <2>10 DEF FlushAccounts
  <2>11. CASE RepoFails(c)
    BY <2>2, <2>11 DEF RepoFails, Reject
  <2> QED BY <1>3, <2>3, <2>4, <2>5, <2>6, <2>7, <2>8, <2>9, <2>10, <2>11 DEF Resume
<1> QED BY <1>1, <1>2, <1>3 DEF Next

-----------------------------------------------------------------------------
(* The hub's tally *)

\* Balances that agree on what is reserved agree on the tally
LEMMA TallySame ==
  ASSUME NEW b, NEW d, Tallied(b), IsFiniteSet(Accounts),
         \A p \in Payers \cap Accounts : d[p].pendDr = b[p].pendDr,
         \A h \in Hubs \cap Accounts : d[h].pendCr = b[h].pendCr
  PROVE  Tallied(d)
<1> SUFFICES ASSUME NEW h \in Hubs \cap Accounts
             PROVE  d[h].pendCr = SumFunction([p \in Served(h) |-> d[p].pendDr])
  BY DEF Tallied
<1>1. [p \in Served(h) |-> d[p].pendDr] = [p \in Served(h) |-> b[p].pendDr]
  BY DEF Served
<1> QED BY <1>1 DEF Tallied

\* A reservation, or its cancellation, that the payer's account can take can
\* also be taken by the hub's, and keeps the tally
LEMMA TallyStep ==
  ASSUME NEW b \in [Accounts -> Balance], Tallied(b), OneHub, IsFiniteSet(Accounts),
         NEW l \in Leg, ValidLeg(l), l.pending, l.dr \in Payers, l.cr \in Hubs, CanDebit(b, l)
  PROVE  /\ CanCredit(Debit(b, l), l)
         /\ Tallied(Credit(Debit(b, l), l))
<1> DEFINE h == l.cr
           f(k) == [p \in Served(k) |-> b[p].pendDr]
<1>1. /\ DebitField(l) = "pendDr" /\ CreditField(l) = "pendCr" /\ l.amount \in Int
      /\ l.dr \in Accounts /\ h \in Accounts
  BY DEF DebitField, CreditField, Leg, ValidLeg
<1>2. \A a \in Accounts : b[a].pendDr \in Nat /\ b[a].pendCr \in Nat
  BY DEF Balance, Fields
<1>3. l.dr \in Served(h)
  BY <1>1 DEF ValidLeg, Served
<1>4. \A k : IsFiniteSet(Served(k)) /\ DOMAIN f(k) = Served(k)
  BY FS_Subset DEF Served
<1>5. /\ SumFunctionOnSet(f(h), Served(h)) \in Nat
      /\ b[l.dr].pendDr <= SumFunctionOnSet(f(h), Served(h))
  <2>1. \A p \in Served(h) : f(h)[p] \in Nat
    BY <1>2 DEF Served
  <2>2. f(h)[l.dr] = b[l.dr].pendDr
    BY <1>3
  <2> HIDE DEF f
  <2> QED BY <1>3, <1>4, <2>1, <2>2, SumNat
<1>6. b[h].pendCr = SumFunctionOnSet(f(h), Served(h))
  BY <1>1, <1>4 DEF Tallied, SumFunction
<1>7. /\ Debit(b, l) \in [Accounts -> Balance]
      /\ \A a \in Accounts, g \in Fields :
           Debit(b, l)[a][g] = IF a = l.dr /\ g = "pendDr" THEN b[a][g] + l.amount ELSE b[a][g]
  BY <1>1, DebitBalance
<1>8. CanCredit(Debit(b, l), l)
  <2>1. Debit(b, l)[h].pendCr = b[h].pendCr
    BY <1>1, <1>7 DEF Fields
  <2>2. b[l.dr].pendDr + l.amount >= 0
    BY <1>1 DEF CanDebit
  <2>3. b[l.dr].pendDr \in Nat /\ b[h].pendCr \in Nat /\ b[l.dr].pendDr <= b[h].pendCr
    BY <1>1, <1>2, <1>5, <1>6
  <2>4. b[h].pendCr + l.amount >= 0
    BY <1>1, <2>2, <2>3
  <2> QED BY <1>1, <2>1, <2>4 DEF CanCredit
<1> DEFINE d == Credit(Debit(b, l), l)
           e(k) == [p \in Served(k) |-> d[p].pendDr]
<1>9. \A a \in Accounts : /\ d[a].pendDr = IF a = l.dr THEN b[a].pendDr + l.amount ELSE b[a].pendDr
                          /\ d[a].pendCr = IF a = h THEN b[a].pendCr + l.amount ELSE b[a].pendCr
  <2>1. \A a \in Accounts, g \in Fields :
          d[a][g] = IF a = h /\ g = "pendCr" THEN Debit(b, l)[a][g] + l.amount ELSE Debit(b, l)[a][g]
    BY <1>1, <1>7, <1>8, CreditBalance
  <2> HIDE DEF d
  <2> QED BY <1>7, <2>1 DEF Fields
<1> HIDE DEF d
<1>10. ASSUME NEW k \in Hubs \cap Accounts
       PROVE  d[k].pendCr = SumFunction(e(k))
  <2>1. DOMAIN e(k) = Served(k)
    OBVIOUS
  <2>2. CASE k = h
    <3>1. \A p \in Served(h) : f(h)[p] \in Int /\ e(h)[p] \in Int
      BY <1>1, <1>2, <1>9 DEF Served
    <3>2. \A p \in Served(h) \ {l.dr} : f(h)[p] = e(h)[p]
      BY <1>9 DEF Served
    <3>3. e(h)[l.dr] - f(h)[l.dr] = l.amount
      BY <1>1, <1>2, <1>3, <1>9
    <3> HIDE DEF e, f
    <3>4. SumFunctionOnSet(e(h), Served(h)) = SumFunctionOnSet(f(h), Served(h)) + l.amount
      BY <1>3, <1>4, <3>1, <3>2, <3>3, SumChange
    <3> QED BY <1>1, <1>6, <1>9, <2>1, <2>2, <3>4 DEF SumFunction
  <2>3. CASE k # h
    <3>1. l.dr \notin Served(k)
      BY <1>1, <1>3, <2>3 DEF OneHub, Served
    <3>2. e(k) = f(k)
      BY <1>9, <3>1 DEF Served
    <3>3. d[k].pendCr = b[k].pendCr
      BY <1>9, <2>3
    <3> QED BY <3>2, <3>3 DEF Tallied
  <2> QED BY <2>2, <2>3
<1> QED BY <1>8, <1>10 DEF Tallied, d

\* The entry of a batch is a reservation, its negative or a posted movement
LEMMA BatchLegKind ==
  ASSUME NEW r \in Request, InBatch(r), NEW k \in 1..Len(Legs(r))
  PROVE  /\ Legs(r)[k].pending \in BOOLEAN
         /\ Legs(r)[k].pending => Legs(r)[k].dr \in Payers /\ Legs(r)[k].cr \in Hubs
         /\ ~Legs(r)[k].pending => Legs(r)[k].amount \in NatPos
<1> DEFINE tr == Transfer[r.t]
<1>1. /\ r.type \in {"reserve", "cancel", "commit"} /\ r.t \in Transfers
      /\ tr.payer \in Payers /\ tr.hub \in Hubs /\ tr.amount \in NatPos
  BY RequestsAssumption DEF Request, HighLevel, LowLevel, InBatch, Payers, Hubs, TransferTerms
<1>2. CASE r.type = "reserve"
  <2>1. Legs(r) = <<Reservation(tr, tr.amount)>>
    BY <1>2 DEF Legs
  <2>2. k = 1 /\ Legs(r)[k] = Reservation(tr, tr.amount)
    BY <2>1
  <2> QED BY <1>1, <2>2 DEF Reservation
<1>3. CASE r.type = "cancel"
  <2>1. Legs(r) = <<Reservation(tr, -tr.amount)>>
    BY <1>3 DEF Legs
  <2>2. k = 1 /\ Legs(r)[k] = Reservation(tr, -tr.amount)
    BY <2>1
  <2> QED BY <1>1, <2>2 DEF Reservation
<1>4. CASE r.type = "commit"
  <2>1. Legs(r) = <<Reservation(tr, -tr.amount), Movement(tr)>>
    BY <1>4 DEF Legs
  <2>2. \/ k = 1 /\ Legs(r)[k] = Reservation(tr, -tr.amount)
        \/ k = 2 /\ Legs(r)[k] = Movement(tr)
    BY <2>1
  <2>3. CASE k = 1 /\ Legs(r)[k] = Reservation(tr, -tr.amount)
    BY <1>1, <2>3 DEF Reservation
  <2>4. CASE k = 2 /\ Legs(r)[k] = Movement(tr)
    BY <1>1, <2>4 DEF Movement
  <2> QED BY <2>2, <2>3, <2>4
<1> QED BY <1>1, <1>2, <1>3, <1>4

\* The entry of a low-level call is a posting
LEMMA DirectLegKind ==
  ASSUME NEW r \in Request, ~InBatch(r), NEW k \in 1..Len(Legs(r))
  PROVE  /\ k = 1 /\ Len(Legs(r)) = 1
         /\ r.t \in Postings /\ Legs(r)[k] = Posting[r.t]
<1>1. r.type = "entry" /\ r.t \in Postings
  BY DEF Request, HighLevel, LowLevel, InBatch
<1>2. Legs(r) = <<Posting[r.t]>>
  BY <1>1 DEF Legs
<1> QED BY <1>1, <1>2

\* A batch posts an entry to both accounts or to neither
LEMMA BatchPosts ==
  ASSUME Inv, Validated, HubTally, OneHub, IsFiniteSet(Accounts),
         NEW c \in Calls, pc[c] = "store", InBatch(Current(c))
  PROVE  LET l == CurrentLeg(c) IN
         /\ l \in Leg /\ l.dr \in Accounts /\ l.cr \in Accounts /\ l.dr # l.cr
         /\ ~l.pending => CanDebit(bal, l)
         /\ CanDebit(bal, l) => /\ CanCredit(Debit(bal, l), l)
                                /\ Tallied(Credit(Debit(bal, l), l))
<1> DEFINE l == CurrentLeg(c)
<1>1. /\ l \in Leg /\ bal \in [Accounts -> Balance]
      /\ Current(c) \in Request /\ leg[c] \in 1..Len(Legs(Current(c)))
  BY CurrentType DEF Inv, TypeOK, Suspended
<1>2. ValidLeg(l)
  BY DEF Validated
<1>3. /\ l.pending \in BOOLEAN
      /\ l.pending => l.dr \in Payers /\ l.cr \in Hubs
      /\ ~l.pending => l.amount \in NatPos
  BY <1>1, BatchLegKind DEF CurrentLeg
<1>4. l.dr \in Accounts /\ l.cr \in Accounts /\ l.dr # l.cr
  BY <1>2 DEF ValidLeg
<1> HIDE DEF l
<1>5. CASE l.pending
  <2>1. CanDebit(bal, l) => /\ CanCredit(Debit(bal, l), l)
                            /\ Tallied(Credit(Debit(bal, l), l))
    BY <1>1, <1>2, <1>3, <1>5, TallyStep DEF HubTally
  <2> QED BY <1>1, <1>4, <1>5, <2>1 DEF l
<1>6. CASE ~l.pending
  <2>1. DebitField(l) = "postDr" /\ CreditField(l) = "postCr" /\ l.amount \in Nat
    BY <1>3, <1>6 DEF DebitField, CreditField, NatPos
  <2>2. \A a \in Accounts : bal[a].postDr \in Nat /\ bal[a].postCr \in Nat
    BY <1>1 DEF Balance, Fields
  <2>3. CanDebit(bal, l)
    BY <1>4, <2>1, <2>2 DEF CanDebit
  <2>4. /\ Debit(bal, l) \in [Accounts -> Balance]
        /\ \A a \in Accounts, f \in Fields : f # "postDr" => Debit(bal, l)[a][f] = bal[a][f]
    BY <1>1, <1>4, <2>1, <2>3, DebitBalance
  <2>5. CanCredit(Debit(bal, l), l)
    BY <1>4, <2>1, <2>2, <2>4 DEF CanCredit, Fields
  <2>6. \A a \in Accounts, f \in Fields : f # "postCr" =>
           Credit(Debit(bal, l), l)[a][f] = Debit(bal, l)[a][f]
    BY <1>1, <1>4, <2>1, <2>4, <2>5, CreditBalance
  <2>7. \A a \in Accounts : /\ Credit(Debit(bal, l), l)[a].pendDr = bal[a].pendDr
                            /\ Credit(Debit(bal, l), l)[a].pendCr = bal[a].pendCr
    BY <2>4, <2>6 DEF Fields
  <2>8. Tallied(Credit(Debit(bal, l), l))
    BY <2>7, TallySame DEF HubTally
  <2> QED BY <1>1, <1>4, <2>3, <2>5, <2>8 DEF l
<1> QED BY <1>3, <1>5, <1>6 DEF l

LEMMA DirectTally ==
  ASSUME Inv, HubTally, OneHub, IsFiniteSet(Accounts),
         NEW c \in Calls, DebitDirect(c) \/ CreditDirect(c)
  PROVE  HubTally'
<1> DEFINE l == CurrentLeg(c)
<1>1. /\ l \in Leg /\ l.dr \in Accounts /\ l.cr \in Accounts
      /\ bal \in [Accounts -> Balance] /\ ~InBatch(Current(c))
      /\ Current(c) \in Request /\ leg[c] \in 1..Len(Legs(Current(c)))
  BY CurrentType DEF Inv, TypeOK, CallOK, Suspended, DebitDirect, CreditDirect
<1>2. l.pending => l.dr \notin Payers /\ l.cr \notin Hubs
  BY <1>1, DirectLegKind DEF CurrentLeg, OneHub
<1>3. /\ DebitField(l) = IF l.pending THEN "pendDr" ELSE "postDr"
      /\ CreditField(l) = IF l.pending THEN "pendCr" ELSE "postCr"
  BY DEF DebitField, CreditField
<1> HIDE DEF l
<1>4. CASE bal' = bal
  BY <1>4 DEF HubTally, Tallied, Served
<1>5. CASE CanDebit(bal, l) /\ bal' = Debit(bal, l)
  <2>1. \A a \in Accounts, f \in Fields : a # l.dr \/ f # DebitField(l) => bal'[a][f] = bal[a][f]
    BY <1>1, <1>5, DebitBalance
  <2>2. /\ \A p \in Payers \cap Accounts : bal'[p].pendDr = bal[p].pendDr
        /\ \A h \in Hubs \cap Accounts : bal'[h].pendCr = bal[h].pendCr
    BY <1>2, <1>3, <2>1 DEF Fields
  <2> QED BY <2>2, TallySame DEF HubTally
<1>6. CASE CanCredit(bal, l) /\ bal' = Credit(bal, l)
  <2>1. \A a \in Accounts, f \in Fields : a # l.cr \/ f # CreditField(l) => bal'[a][f] = bal[a][f]
    BY <1>1, <1>6, CreditBalance
  <2>2. /\ \A p \in Payers \cap Accounts : bal'[p].pendDr = bal[p].pendDr
        /\ \A h \in Hubs \cap Accounts : bal'[h].pendCr = bal[h].pendCr
    BY <1>2, <1>3, <2>1 DEF Fields
  <2> QED BY <2>2, TallySame DEF HubTally
<1> QED BY <1>4, <1>5, <1>6 DEF DebitDirect, CreditDirect, l

TallyInv == Inv /\ Validated /\ HubTally

LEMMA TallyNext ==
  ASSUME TallyInv, [Next]_vars, OneHub, IsFiniteSet(Accounts)
  PROVE  TallyInv'
<1> USE DEF TallyInv
<1>1. Inv' /\ Validated'
  BY NextInv, ValidatedNext
<1>2. ASSUME bal' = bal PROVE HubTally'
  BY <1>2 DEF HubTally, Tallied, Served
<1>3. ASSUME NEW c \in Calls, PostInBatch(c) PROVE HubTally'
  <2>1. pc[c] = "store" /\ InBatch(Current(c))
    BY <1>3 DEF PostInBatch
  <2>2. CASE ~CanDebit(bal, CurrentLeg(c))
    BY <1>2, <1>3, <2>2 DEF PostInBatch
  <2>3. CASE CanDebit(bal, CurrentLeg(c))
    <3>1. /\ CanCredit(Debit(bal, CurrentLeg(c)), CurrentLeg(c))
          /\ Tallied(Credit(Debit(bal, CurrentLeg(c)), CurrentLeg(c)))
      BY <2>1, <2>3, BatchPosts
    <3>2. bal' = Credit(Debit(bal, CurrentLeg(c)), CurrentLeg(c))
      BY <1>3, <2>3, <3>1 DEF PostInBatch
    <3>3. Tallied(bal')
      BY <3>1, <3>2
    <3> QED BY <3>3 DEF HubTally, Tallied, Served
  <2> QED BY <2>2, <2>3
<1>4. ASSUME NEW c \in Calls, Start(c) \/ Resume(c) PROVE HubTally'
  <2>1. CASE Start(c)
    BY <1>2, <2>1 DEF Start, Arrive
  <2>2. CASE PostInBatch(c)
    BY <1>3, <2>2
  <2>3. CASE DebitDirect(c) \/ CreditDirect(c)
    BY <2>3, DirectTally
  <2>4. CASE CheckLiquid(c) \/ CreateEntry(c) \/ CompleteDirect(c) \/ FlushEntries(c)
               \/ FlushAccounts(c) \/ RepoFails(c)
    BY <1>2, <2>4 DEF CheckLiquid, CreateEntry, CompleteDirect, FlushEntries, FlushAccounts,
                      RepoFails
  <2> QED BY <1>4, <2>1, <2>2, <2>3, <2>4 DEF Resume
<1> QED BY <1>1, <1>2, <1>4 DEF Next, vars

LEMMA TallyHolds ==
  ASSUME OneHub, IsFiniteSet(Accounts), Tallied(InitBalance)
  PROVE  Spec => []TallyInv
<1>1. Init => TallyInv
  BY InitInv, ValidatedInit DEF TallyInv, Init, HubTally, Tallied, Served
<1>2. TallyInv /\ [Next]_vars => TallyInv'
  BY TallyNext
<1> QED BY <1>1, <1>2, PTL DEF Spec

\* For any workload, however its batches overlap and whatever fails, a hub's
\* pending credit is the sum of its payers' pending debits, if a currency has
\* one hub, low-level entries reserve nothing for a payer, and the balances
\* loaded agreed.
THEOREM HubTallies ==
  ASSUME OneHub, IsFiniteSet(Accounts), Tallied(InitBalance)
  PROVE  Spec => []HubTally
<1>1. TallyInv => HubTally
  BY DEF TallyInv
<1> QED BY <1>1, TallyHolds, PTL

-----------------------------------------------------------------------------
(* Which entries the balances should hold *)

IsAsked(c, i, k) == /\ c \in Calls
                    /\ i \in DOMAIN reqs[c]
                    /\ k \in DOMAIN Legs(reqs[c][i])

IsPosted(c, i, k, half) ==
  \/ Accepted(c, i)
  \/ i = Len(resp[c]) + 1 /\ k < leg[c]
  \/ i = Len(resp[c]) + 1 /\ k = leg[c] /\ pc[c] \in half

IsLeft(c, i, k) ==
  /\ i \in DOMAIN resp[c] /\ ~resp[c][i]
  /\ reqs[c][i].type = "commit" /\ k = 1
  /\ ~Payable(Transfer[reqs[c][i].t])

LEMMA AskedIs ==
  /\ \A c, i, k : <<c, i, k>> \in EntriesAsked <=> IsAsked(c, i, k)
  /\ \A e \in EntriesAsked : \E c, i, k : e = <<c, i, k>>
<1>1. ASSUME NEW c, NEW i, NEW k
      PROVE  <<c, i, k>> \in EntriesAsked <=> IsAsked(c, i, k)
  <2>1. <<c, i, k>> \in EntriesAsked <=> \E r \in RequestIds : <<c, i, k>> \in LegIds(r)
    BY DEF EntriesAsked
  <2>2. \A r : <<c, i, k>> \in LegIds(r) <=> r[1] = c /\ r[2] = i /\ k \in DOMAIN Legs(reqs[c][i])
    BY DEF LegIds
  <2>3. \A r \in RequestIds : \E d \in Calls : \E n \in DOMAIN reqs[d] : r = <<d, n>>
    BY DEF RequestIds
  <2>4. \A d \in Calls : \A n \in DOMAIN reqs[d] : <<d, n>> \in RequestIds
    BY DEF RequestIds
  <2>5. ASSUME IsAsked(c, i, k) PROVE <<c, i, k>> \in EntriesAsked
    <3>1. <<c, i>> \in RequestIds /\ <<c, i>>[1] = c /\ <<c, i>>[2] = i
      BY <2>4, <2>5 DEF IsAsked
    <3> QED BY <2>1, <2>2, <2>5, <3>1 DEF IsAsked
  <2>6. ASSUME <<c, i, k>> \in EntriesAsked PROVE IsAsked(c, i, k)
    <3>1. PICK r \in RequestIds : <<c, i, k>> \in LegIds(r)
      BY <2>1, <2>6
    <3>2. \E d \in Calls : \E n \in DOMAIN reqs[d] : r = <<d, n>>
      BY <2>3
    <3> QED BY <2>2, <3>1, <3>2 DEF IsAsked
  <2> QED BY <2>5, <2>6
<1>2. ASSUME NEW e \in EntriesAsked
      PROVE  \E c, i, k : e = <<c, i, k>>
  <2>1. PICK r \in RequestIds : e \in LegIds(r)
    BY DEF EntriesAsked
  <2> QED BY <2>1 DEF LegIds
<1> QED BY <1>1, <1>2

\* An entry is posted, or left behind, if it is asked for and the state of its
\* call says so
PostedAre ==
  \A half : /\ \A c, i, k : <<c, i, k>> \in Posted(half) <=>
                              IsAsked(c, i, k) /\ IsPosted(c, i, k, half)
            /\ \A e \in Posted(half) : \E c, i, k : e = <<c, i, k>>

LeftAre ==
  /\ \A c, i, k : <<c, i, k>> \in LeftBehind <=> IsAsked(c, i, k) /\ IsLeft(c, i, k)
  /\ \A e \in LeftBehind : \E c, i, k : e = <<c, i, k>>

LEMMA PostedIs == PostedAre /\ LeftAre
<1>1. \A half : \A e : e \in Posted(half) <=> e \in EntriesAsked /\ IsPosted(e[1], e[2], e[3], half)
  BY DEF Posted, IsPosted
<1>2. \A e : e \in LeftBehind <=> e \in EntriesAsked /\ IsLeft(e[1], e[2], e[3])
  BY DEF LeftBehind, IsLeft
<1>3. PostedAre
  BY <1>1, AskedIs DEF PostedAre
<1>4. LeftAre
  BY <1>2, AskedIs DEF LeftAre
<1> QED BY <1>3, <1>4

LEMMA PostedIsNext == PostedAre' /\ LeftAre'
BY PostedIs, PTL

\* A step of call c leaves the entries of the other calls where they are
LEMMA PostedFrame ==
  ASSUME NEW c \in Calls, OnlyCall(c), reqs' = reqs, NEW half
  PROVE  /\ \A d, i, k : IsAsked(d, i, k)' <=> IsAsked(d, i, k)
         /\ \A d, i, k : d # c /\ IsAsked(d, i, k) =>
              /\ IsPosted(d, i, k, half)' <=> IsPosted(d, i, k, half)
              /\ IsLeft(d, i, k)' <=> IsLeft(d, i, k)
<1>1. \A d \in Calls \ {c} : pc'[d] = pc[d] /\ resp'[d] = resp[d] /\ leg'[d] = leg[d]
  BY DEF OnlyCall
<1>2. \A d, i, k : IsAsked(d, i, k)' <=> IsAsked(d, i, k)
  BY DEF IsAsked
<1>3. ASSUME NEW d, NEW i, NEW k, d # c, IsAsked(d, i, k)
      PROVE  /\ IsPosted(d, i, k, half)' <=> IsPosted(d, i, k, half)
             /\ IsLeft(d, i, k)' <=> IsLeft(d, i, k)
  <2>1. pc'[d] = pc[d] /\ resp'[d] = resp[d] /\ leg'[d] = leg[d]
    BY <1>1, <1>3 DEF IsAsked
  <2> QED BY <2>1 DEF IsPosted, IsLeft, Accepted
<1> QED BY <1>2, <1>3

\* What the step does to the entries of c it does to the sets
LEMMA PostedSame ==
  ASSUME NEW c \in Calls, OnlyCall(c), reqs' = reqs, NEW half,
         \A n, j : IsAsked(c, n, j) => (IsPosted(c, n, j, half)' <=> IsPosted(c, n, j, half))
  PROVE  Posted(half)' = Posted(half)
<1>1. ASSUME NEW d, NEW n, NEW j
      PROVE  <<d, n, j>> \in Posted(half)' <=> <<d, n, j>> \in Posted(half)
  <2>1. /\ <<d, n, j>> \in Posted(half) <=> IsAsked(d, n, j) /\ IsPosted(d, n, j, half)
        /\ <<d, n, j>> \in Posted(half)' <=> IsAsked(d, n, j)' /\ IsPosted(d, n, j, half)'
        /\ IsAsked(d, n, j)' <=> IsAsked(d, n, j)
    BY PostedFrame, PostedIs, PostedIsNext DEF PostedAre
  <2>2. CASE d = c
    BY <2>1, <2>2
  <2>3. CASE d # c
    <3>1. IsAsked(d, n, j) => (IsPosted(d, n, j, half)' <=> IsPosted(d, n, j, half))
      BY <2>3, PostedFrame
    <3> QED BY <2>1, <2>3, <3>1
  <2> QED BY <2>2, <2>3
<1>2. /\ \A e \in Posted(half)' : \E d, n, j : e = <<d, n, j>>
      /\ \A e \in Posted(half) : \E d, n, j : e = <<d, n, j>>
  BY PostedIs, PostedIsNext DEF PostedAre
<1> QED BY <1>1, <1>2

LEMMA PostedMore ==
  ASSUME NEW c \in Calls, OnlyCall(c), reqs' = reqs, NEW half, NEW i, NEW k, IsAsked(c, i, k),
         \A n, j : IsAsked(c, n, j) =>
                    (IsPosted(c, n, j, half)' <=> IsPosted(c, n, j, half) \/ (n = i /\ j = k))
  PROVE  Posted(half)' = Posted(half) \cup {<<c, i, k>>}
<1>1. ASSUME NEW d, NEW n, NEW j
      PROVE  <<d, n, j>> \in Posted(half)' <=> <<d, n, j>> \in Posted(half) \/ <<d, n, j>> = <<c, i, k>>
  <2>1. /\ <<d, n, j>> \in Posted(half) <=> IsAsked(d, n, j) /\ IsPosted(d, n, j, half)
        /\ <<d, n, j>> \in Posted(half)' <=> IsAsked(d, n, j)' /\ IsPosted(d, n, j, half)'
        /\ IsAsked(d, n, j)' <=> IsAsked(d, n, j)
    BY PostedFrame, PostedIs, PostedIsNext DEF PostedAre
  <2>2. CASE d = c
    BY <2>1, <2>2
  <2>3. CASE d # c
    <3>1. IsAsked(d, n, j) => (IsPosted(d, n, j, half)' <=> IsPosted(d, n, j, half))
      BY <2>3, PostedFrame
    <3> QED BY <2>1, <2>3, <3>1
  <2> QED BY <2>2, <2>3
<1>2. /\ \A e \in Posted(half)' : \E d, n, j : e = <<d, n, j>>
      /\ \A e \in Posted(half) : \E d, n, j : e = <<d, n, j>>
  BY PostedIs, PostedIsNext DEF PostedAre
<1> QED BY <1>1, <1>2

LEMMA PostedLess ==
  ASSUME NEW c \in Calls, OnlyCall(c), reqs' = reqs, NEW half, NEW i,
         \A n, j : IsAsked(c, n, j) =>
                    (IsPosted(c, n, j, half)' <=> IsPosted(c, n, j, half) /\ n # i)
  PROVE  \A e : e \in Posted(half)' <=> e \in Posted(half) /\ ~(e[1] = c /\ e[2] = i)
<1>1. ASSUME NEW d, NEW n, NEW j
      PROVE  <<d, n, j>> \in Posted(half)' <=> <<d, n, j>> \in Posted(half) /\ ~(d = c /\ n = i)
  <2>1. /\ <<d, n, j>> \in Posted(half) <=> IsAsked(d, n, j) /\ IsPosted(d, n, j, half)
        /\ <<d, n, j>> \in Posted(half)' <=> IsAsked(d, n, j)' /\ IsPosted(d, n, j, half)'
        /\ IsAsked(d, n, j)' <=> IsAsked(d, n, j)
    BY PostedFrame, PostedIs, PostedIsNext DEF PostedAre
  <2>2. CASE d = c
    BY <2>1, <2>2
  <2>3. CASE d # c
    <3>1. IsAsked(d, n, j) => (IsPosted(d, n, j, half)' <=> IsPosted(d, n, j, half))
      BY <2>3, PostedFrame
    <3> QED BY <2>1, <2>3, <3>1
  <2> QED BY <2>2, <2>3
<1>2. /\ \A e \in Posted(half)' : \E d, n, j : e = <<d, n, j>>
      /\ \A e \in Posted(half) : \E d, n, j : e = <<d, n, j>>
  BY PostedIs, PostedIsNext DEF PostedAre
<1> QED BY <1>1, <1>2

\* What is left behind stays so: answers are not taken back
LEMMA LeftSame ==
  ASSUME NEW c \in Calls, OnlyCall(c), reqs' = reqs, resp'[c] = resp[c]
  PROVE  LeftBehind' = LeftBehind
<1>1. \A n, j : IsLeft(c, n, j)' <=> IsLeft(c, n, j)
  BY DEF IsLeft
<1>2. \A d, n, j : <<d, n, j>> \in LeftBehind <=> <<d, n, j>> \in LeftBehind'
  <2> TAKE d, n, j
  <2>1. /\ <<d, n, j>> \in LeftBehind <=> IsAsked(d, n, j) /\ IsLeft(d, n, j)
        /\ <<d, n, j>> \in LeftBehind' <=> IsAsked(d, n, j)' /\ IsLeft(d, n, j)'
        /\ IsAsked(d, n, j)' <=> IsAsked(d, n, j)
    BY PostedFrame, PostedIs, PostedIsNext DEF LeftAre
  <2>2. CASE d = c
    BY <1>1, <2>1, <2>2
  <2>3. CASE d # c
    <3>1. IsAsked(d, n, j) => (IsLeft(d, n, j)' <=> IsLeft(d, n, j))
      BY <2>3, PostedFrame
    <3> QED BY <2>1, <3>1
  <2> QED BY <2>2, <2>3
<1> QED BY <1>2, PostedIs, PostedIsNext DEF LeftAre

\* A refusal adds at most the first entry of its request
LEMMA LeftMore ==
  ASSUME NEW c \in Calls, OnlyCall(c), reqs' = reqs, NEW ok \in BOOLEAN,
         resp[c] \in Seq(BOOLEAN), resp'[c] = Append(resp[c], ok)
  PROVE  /\ LeftBehind \subseteq LeftBehind'
         /\ \A e \in LeftBehind' \ LeftBehind : ~ok /\ e = <<c, Len(resp[c]) + 1, 1>>
<1>1. ASSUME NEW n, NEW j
      PROVE  /\ IsLeft(c, n, j) => IsLeft(c, n, j)'
             /\ IsLeft(c, n, j)' => IsLeft(c, n, j) \/ (~ok /\ n = Len(resp[c]) + 1 /\ j = 1)
  <2>1. /\ DOMAIN resp[c] = 1..Len(resp[c]) /\ DOMAIN resp'[c] = 1..(Len(resp[c]) + 1)
        /\ Len(resp[c]) \in Nat
        /\ \A m \in 1..Len(resp[c]) : resp'[c][m] = resp[c][m]
        /\ resp'[c][Len(resp[c]) + 1] = ok
    OBVIOUS
  <2> QED BY <2>1 DEF IsLeft
<1>2. ASSUME NEW d, NEW n, NEW j
      PROVE  /\ <<d, n, j>> \in LeftBehind => <<d, n, j>> \in LeftBehind'
             /\ <<d, n, j>> \in LeftBehind' =>
                  \/ <<d, n, j>> \in LeftBehind
                  \/ ~ok /\ d = c /\ n = Len(resp[c]) + 1 /\ j = 1
  <2>1. /\ <<d, n, j>> \in LeftBehind <=> IsAsked(d, n, j) /\ IsLeft(d, n, j)
        /\ <<d, n, j>> \in LeftBehind' <=> IsAsked(d, n, j)' /\ IsLeft(d, n, j)'
        /\ IsAsked(d, n, j)' <=> IsAsked(d, n, j)
    BY PostedFrame, PostedIs, PostedIsNext DEF LeftAre
  <2>2. CASE d = c
    BY <1>1, <2>1, <2>2
  <2>3. CASE d # c
    <3>1. IsAsked(d, n, j) => (IsLeft(d, n, j)' <=> IsLeft(d, n, j))
      BY <2>3, PostedFrame
    <3> QED BY <2>1, <3>1
  <2> QED BY <2>2, <2>3
<1>3. LeftBehind \subseteq LeftBehind'
  BY <1>2, PostedIs DEF LeftAre
<1>4. ASSUME NEW e \in LeftBehind' \ LeftBehind
      PROVE  ~ok /\ e = <<c, Len(resp[c]) + 1, 1>>
  <2>1. PICK d, n, j : e = <<d, n, j>>
    BY PostedIsNext DEF LeftAre
  <2> QED BY <1>2, <2>1
<1> QED BY <1>3, <1>4

-----------------------------------------------------------------------------
(* The effect of the steps of a call *)

\* The entry being posted is one the call asks for
LEMMA CurrentAsked ==
  ASSUME Inv, NEW c \in Calls, pc[c] \in Suspended
  PROVE  /\ IsAsked(c, Len(resp[c]) + 1, leg[c])
         /\ LegOf(CurrentId(c)) = CurrentLeg(c)
         /\ CurrentId(c) = <<c, Len(resp[c]) + 1, leg[c]>>
         /\ \A n, j : IsAsked(c, n, j) => n \in Nat /\ j \in Nat /\ j >= 1
         /\ \A j : IsAsked(c, Len(resp[c]) + 1, j) => j <= Len(Legs(Current(c)))
<1>1. /\ Len(resp[c]) + 1 \in 1..Len(reqs[c]) /\ leg[c] \in 1..Len(Legs(Current(c)))
      /\ Current(c) \in Request
  BY CurrentType
<1>2. reqs[c] \in Seq(HighLevel) \cup Seq(LowLevel)
  BY DEF Inv, TypeOK
<1>3. DOMAIN reqs[c] = 1..Len(reqs[c])
  BY <1>2
<1>4. ASSUME NEW n \in 1..Len(reqs[c])
      PROVE  DOMAIN Legs(reqs[c][n]) = 1..Len(Legs(reqs[c][n])) /\ Len(Legs(reqs[c][n])) \in Nat
  <2>1. reqs[c][n] \in Request
    BY <1>2, OneKind
  <2> QED BY <2>1, LegsType
<1> QED BY <1>1, <1>3, <1>4 DEF IsAsked, Current, CurrentLeg, CurrentId, LegOf

LEMMA AnswerEffect ==
  ASSUME Inv, NEW c \in Calls, NEW ok \in BOOLEAN, NEW b \in [Accounts -> Balance],
         pc[c] \in Suspended, Answer(c, ok, b), reqs' = reqs,
         NEW half, half \subseteq {"debit", "credit"}
  PROVE  /\ OnlyCall(c)
         /\ ok /\ leg[c] = Len(Legs(Current(c))) => Posted(half)' = Posted(half) \cup {CurrentId(c)}
         /\ ~ok => \A e : e \in Posted(half)' <=>
                             e \in Posted(half) /\ ~(e[1] = c /\ e[2] = Len(resp[c]) + 1)
         /\ LeftBehind \subseteq LeftBehind'
         /\ \A e \in LeftBehind' \ LeftBehind : ~ok /\ e = <<c, Len(resp[c]) + 1, 1>>
<1> DEFINE i == Len(resp[c]) + 1
<1>1. /\ OnlyCall(c) /\ pc'[c] \notin half
      /\ resp'[c] = Append(resp[c], ok) /\ leg'[c] = 1
      /\ resp[c] \in Seq(BOOLEAN) /\ leg[c] \in {1, 2}
  <2>1. pc'[c] \notin {"debit", "credit"}
    BY DEF Answer, BeginFlush, EntryPoint, Inv, TypeOK
  <2> QED BY <2>1, AnswerOK DEF Answer, Inv, TypeOK
<1>2. /\ IsAsked(c, i, leg[c]) /\ CurrentId(c) = <<c, i, leg[c]>>
      /\ \A n, j : IsAsked(c, n, j) => n \in Nat /\ j \in Nat /\ j >= 1
      /\ \A j : IsAsked(c, i, j) => j <= Len(Legs(Current(c)))
  BY CurrentAsked
<1>3. /\ DOMAIN resp[c] = 1..Len(resp[c]) /\ DOMAIN resp'[c] = 1..i /\ Len(resp[c]) \in Nat
      /\ \A n \in 1..Len(resp[c]) : resp'[c][n] = resp[c][n]
      /\ resp'[c][i] = ok
      /\ Len(resp'[c]) = i
  BY <1>1
<1>4. ASSUME NEW n, NEW j, IsAsked(c, n, j)
      PROVE  IsPosted(c, n, j, half)' <=> Accepted(c, n) \/ (n = i /\ ok)
  BY <1>1, <1>2, <1>3, <1>4 DEF IsPosted, Accepted
<1>5. ASSUME NEW n, NEW j, IsAsked(c, n, j), n # i
      PROVE  IsPosted(c, n, j, half) <=> Accepted(c, n)
  BY <1>5 DEF IsPosted
<1>6. ~Accepted(c, i)
  BY <1>3 DEF Accepted
<1>7. ASSUME ok, leg[c] = Len(Legs(Current(c)))
      PROVE  Posted(half)' = Posted(half) \cup {CurrentId(c)}
  <2>1. \A n, j : IsAsked(c, n, j) =>
               (IsPosted(c, n, j, half)' <=> IsPosted(c, n, j, half) \/ (n = i /\ j = leg[c]))
    <3>1. ASSUME NEW j, IsAsked(c, i, j)
          PROVE  IsPosted(c, i, j, half) \/ j = leg[c]
      BY <1>1, <1>2, <1>7, <3>1 DEF IsPosted
    <3> QED BY <1>4, <1>5, <1>7, <3>1
  <2> QED BY <1>1, <1>2, <2>1, PostedMore
<1>8. ASSUME ~ok
      PROVE  \A e : e \in Posted(half)' <=> e \in Posted(half) /\ ~(e[1] = c /\ e[2] = i)
  <2>1. \A n, j : IsAsked(c, n, j) =>
               (IsPosted(c, n, j, half)' <=> IsPosted(c, n, j, half) /\ n # i)
    BY <1>4, <1>5, <1>6, <1>8
  <2> HIDE DEF i
  <2> QED BY <1>1, <2>1, PostedLess
<1>9. /\ LeftBehind \subseteq LeftBehind'
      /\ \A e \in LeftBehind' \ LeftBehind : ~ok /\ e = <<c, i, 1>>
  BY <1>1, LeftMore
<1> QED BY <1>1, <1>7, <1>8, <1>9

\* A batch turns to the second entry of a request
LEMMA NextLegEffect ==
  ASSUME Inv, NEW c \in Calls, pc[c] = "store", leg[c] < Len(Legs(Current(c))),
         leg' = [leg EXCEPT ![c] = @ + 1], pc' = [pc EXCEPT ![c] = "fetch"],
         resp' = resp, reqs' = reqs,
         NEW half, half \subseteq {"debit", "credit"}
  PROVE  /\ Posted(half)' = Posted(half) \cup {CurrentId(c)}
         /\ LeftBehind' = LeftBehind
<1> DEFINE i == Len(resp[c]) + 1
<1>1. /\ OnlyCall(c) /\ pc'[c] \notin half /\ pc[c] \notin half
      /\ leg'[c] = leg[c] + 1 /\ leg[c] \in {1, 2}
  BY DEF OnlyCall, Inv, TypeOK
<1>2. /\ IsAsked(c, i, leg[c]) /\ CurrentId(c) = <<c, i, leg[c]>>
      /\ \A n, j : IsAsked(c, n, j) => n \in Nat /\ j \in Nat
  BY CurrentAsked DEF Suspended
<1>3. \A n, j : IsAsked(c, n, j) =>
             (IsPosted(c, n, j, half)' <=> IsPosted(c, n, j, half) \/ (n = i /\ j = leg[c]))
  BY <1>1, <1>2 DEF IsPosted, Accepted
<1>4. LeftBehind' = LeftBehind
  BY <1>1, LeftSame
<1> QED BY <1>1, <1>2, <1>3, <1>4, PostedMore

\* A step that answers nothing
LEMMA PcEffect ==
  ASSUME Inv, NEW c \in Calls, NEW q, pc' = [pc EXCEPT ![c] = q], UNCHANGED <<reqs, resp, leg>>,
         NEW half
  PROVE  /\ OnlyCall(c)
         /\ (q \in half <=> pc[c] \in half) => Posted(half)' = Posted(half)
         /\ (pc[c] \in Suspended \ half) /\ q \in half => Posted(half)' = Posted(half) \cup {CurrentId(c)}
         /\ LeftBehind' = LeftBehind
<1>1. OnlyCall(c) /\ pc'[c] = q
  BY DEF OnlyCall, Inv, TypeOK
<1>2. ASSUME q \in half <=> pc[c] \in half
      PROVE  Posted(half)' = Posted(half)
  <2>1. \A n, j : IsAsked(c, n, j) => (IsPosted(c, n, j, half)' <=> IsPosted(c, n, j, half))
    BY <1>1, <1>2 DEF IsPosted, Accepted
  <2> QED BY <1>1, <2>1, PostedSame
<1>3. ASSUME pc[c] \in Suspended \ half, q \in half
      PROVE  Posted(half)' = Posted(half) \cup {CurrentId(c)}
  <2>1. IsAsked(c, Len(resp[c]) + 1, leg[c]) /\ CurrentId(c) = <<c, Len(resp[c]) + 1, leg[c]>>
    BY <1>3, CurrentAsked
  <2>2. \A n, j : IsAsked(c, n, j) =>
             (IsPosted(c, n, j, half)' <=>
                IsPosted(c, n, j, half) \/ (n = Len(resp[c]) + 1 /\ j = leg[c]))
    BY <1>1, <1>3 DEF IsPosted, Accepted
  <2> QED BY <1>1, <2>1, <2>2, PostedMore
<1>4. LeftBehind' = LeftBehind
  BY <1>1, LeftSame
<1> QED BY <1>1, <1>2, <1>3, <1>4

-----------------------------------------------------------------------------
(* Balances as sums of entries *)

\* ExplainedAt, at every balance
Explained(b, debits, credits) ==
  \A a \in Accounts, pending \in BOOLEAN : ExplainedAt(b, debits, credits, a, pending)

\* What the answers tell and what half-done commits leave behind
InEffect(half) == LeftBehind \cup Posted(half)

\* ExplainedAt, for the requests r
LegAt(r, e) == Legs(r[e[1]][e[2]])[e[3]]
DrField(pending) == IF pending THEN "pendDr" ELSE "postDr"
CrField(pending) == IF pending THEN "pendCr" ELSE "postCr"
Drs(r, E, a, pending) == {e \in E : LegAt(r, e).dr = a /\ LegAt(r, e).pending = pending}
Crs(r, E, a, pending) == {e \in E : LegAt(r, e).cr = a /\ LegAt(r, e).pending = pending}
Amount(r, E) == SumFunctionOnSet([e \in E |-> LegAt(r, e).amount], E)

DrBook(r, b, D) ==
  \A a \in Accounts, p \in BOOLEAN :
    b[a][DrField(p)] = InitBalance[a][DrField(p)] + Amount(r, Drs(r, D, a, p))
CrBook(r, b, C) ==
  \A a \in Accounts, p \in BOOLEAN :
    b[a][CrField(p)] = InitBalance[a][CrField(p)] + Amount(r, Crs(r, C, a, p))

LEMMA ExplainedAtIs ==
  ASSUME NEW b, NEW D, NEW C, NEW a, NEW p \in BOOLEAN
  PROVE  ExplainedAt(b, D, C, a, p) <=>
           /\ b[a][DrField(p)] = InitBalance[a][DrField(p)] + Amount(reqs, Drs(reqs, D, a, p))
           /\ b[a][CrField(p)] = InitBalance[a][CrField(p)] + Amount(reqs, Crs(reqs, C, a, p))
<1> DEFINE drs == {e \in D : LegOf(e).dr = a /\ LegOf(e).pending = p}
           crs == {e \in C : LegOf(e).cr = a /\ LegOf(e).pending = p}
           on == [pending |-> p]
<1>1. \A E : SumOf(E) = Amount(reqs, E)
  BY DEF SumOf, Amount, SumFunction, LegOf, LegAt
<1>2. DebitField(on) = DrField(p) /\ CreditField(on) = CrField(p)
  BY DEF DebitField, CreditField, DrField, CrField
<1>3. drs = Drs(reqs, D, a, p) /\ crs = Crs(reqs, C, a, p)
  BY DEF LegOf, LegAt, Drs, Crs
<1>4. ExplainedAt(b, D, C, a, p) <=>
        /\ b[a][DebitField(on)] = InitBalance[a][DebitField(on)] + SumOf(drs)
        /\ b[a][CreditField(on)] = InitBalance[a][CreditField(on)] + SumOf(crs)
  BY DEF ExplainedAt
<1> HIDE DEF drs, crs, on
<1> QED BY <1>1, <1>2, <1>3, <1>4

LEMMA ExplainedIs ==
  ASSUME NEW b, NEW D, NEW C
  PROVE  Explained(b, D, C) <=> DrBook(reqs, b, D) /\ CrBook(reqs, b, C)
BY ExplainedAtIs DEF Explained, DrBook, CrBook

LEMMA AmountAdd ==
  ASSUME NEW r, NEW E, IsFiniteSet(E), NEW x, x \notin E,
         \A e \in E \cup {x} : LegAt(r, e).amount \in Int
  PROVE  Amount(r, E \cup {x}) = Amount(r, E) + LegAt(r, x).amount
<1> DEFINE f == [e \in E \cup {x} |-> LegAt(r, e).amount]
           g == [e \in E |-> LegAt(r, e).amount]
<1>1. \A e \in E \cup {x} : f[e] \in Int
  OBVIOUS
<1>2. \A e \in E : f[e] = g[e] /\ g[e] \in Int
  OBVIOUS
<1>3. f[x] = LegAt(r, x).amount
  OBVIOUS
<1>4. Amount(r, E \cup {x}) = SumFunctionOnSet(f, E \cup {x}) /\ Amount(r, E) = SumFunctionOnSet(g, E)
  BY DEF Amount
<1> HIDE DEF f, g
<1>5. SumFunctionOnSet(f, E \cup {x}) = f[x] + SumFunctionOnSet(f, E)
  BY <1>1, SumAdd
<1>6. SumFunctionOnSet(f, E) = SumFunctionOnSet(g, E) /\ SumFunctionOnSet(g, E) \in Int
  BY <1>2, SumSame, SumType
<1> QED BY <1>1, <1>3, <1>4, <1>5, <1>6

\* Other requests that ask for the same entries sum up the same
LEMMA BookSame ==
  ASSUME NEW r, NEW s, NEW b, NEW D, NEW C, C \subseteq D,
         \A e \in D : LegAt(s, e) = LegAt(r, e), DrBook(r, b, D), CrBook(r, b, C)
  PROVE  DrBook(s, b, D) /\ CrBook(s, b, C)
<1>1. \A E \in SUBSET D : Amount(s, E) = Amount(r, E)
  <2> TAKE E \in SUBSET D
  <2>1. [e \in E |-> LegAt(s, e).amount] = [e \in E |-> LegAt(r, e).amount]
    OBVIOUS
  <2> QED BY <2>1 DEF Amount
<1>2. \A a, p : /\ Drs(s, D, a, p) = Drs(r, D, a, p) /\ Drs(r, D, a, p) \in SUBSET D
                /\ Crs(s, C, a, p) = Crs(r, C, a, p) /\ Crs(r, C, a, p) \in SUBSET D
  BY DEF Drs, Crs
<1>3. DrBook(s, b, D)
  BY <1>1, <1>2 DEF DrBook
<1>4. CrBook(s, b, C)
  BY <1>1, <1>2 DEF CrBook
<1> QED BY <1>3, <1>4

\* A debit adds its entry to the debits and leaves the credits
LEMMA BookDebit ==
  ASSUME NEW r, NEW b \in [Accounts -> Balance], NEW D, IsFiniteSet(D), NEW x, x \notin D,
         \A e \in D : LegAt(r, e).amount \in Int,
         LegAt(r, x) \in Leg, LegAt(r, x).dr \in Accounts, CanDebit(b, LegAt(r, x)),
         DrBook(r, b, D), NEW C, CrBook(r, b, C)
  PROVE  LET d == Debit(b, LegAt(r, x))
         IN  d \in [Accounts -> Balance] /\ DrBook(r, d, D \cup {x}) /\ CrBook(r, d, C)
<1> DEFINE l == LegAt(r, x)
           d == Debit(b, l)
<1>1. /\ d \in [Accounts -> Balance]
      /\ \A a \in Accounts, f \in Fields :
           d[a][f] = IF a = l.dr /\ f = DebitField(l) THEN b[a][f] + l.amount ELSE b[a][f]
  BY DebitBalance
<1>2. l.amount \in Int /\ l.pending \in BOOLEAN /\ DebitField(l) = DrField(l.pending)
  BY DEF Leg, DebitField, DrField
<1> HIDE DEF d
<1>3. \A p \in BOOLEAN : /\ DrField(p) \in Fields /\ CrField(p) \in Fields /\ CrField(p) # DrField(l.pending)
                         /\ DrField(p) = DrField(l.pending) <=> p = l.pending
  BY <1>2 DEF DrField, CrField, Fields
<1>4. CrBook(r, d, C)
  BY <1>1, <1>2, <1>3 DEF CrBook
<1>5. ASSUME NEW a \in Accounts, NEW p \in BOOLEAN
      PROVE  d[a][DrField(p)] = InitBalance[a][DrField(p)] + Amount(r, Drs(r, D \cup {x}, a, p))
  <2>1. b[a][DrField(p)] = InitBalance[a][DrField(p)] + Amount(r, Drs(r, D, a, p))
    BY DEF DrBook
  <2>2. CASE a = l.dr /\ p = l.pending
    <3>1. Drs(r, D \cup {x}, a, p) = Drs(r, D, a, p) \cup {x}
      BY <2>2 DEF Drs
    <3>2. /\ IsFiniteSet(Drs(r, D, a, p)) /\ x \notin Drs(r, D, a, p)
          /\ \A e \in Drs(r, D, a, p) \cup {x} : LegAt(r, e).amount \in Int
      BY <1>2, FS_Subset DEF Drs
    <3>3. Amount(r, Drs(r, D \cup {x}, a, p)) = Amount(r, Drs(r, D, a, p)) + l.amount
      BY <3>1, <3>2, AmountAdd
    <3>4. d[a][DrField(p)] = b[a][DrField(p)] + l.amount
      BY <1>1, <1>2, <1>3, <2>2
    <3>5. InitBalance[a][DrField(p)] \in Int /\ Amount(r, Drs(r, D, a, p)) \in Int
      <4>1. InitBalance[a][DrField(p)] \in Nat
        BY <1>3, AccountsAssumption DEF Balance
      <4>2. Amount(r, Drs(r, D, a, p)) \in Int
        BY <3>2, SumType DEF Amount
      <4> QED BY <4>1, <4>2
    <3> QED BY <1>2, <2>1, <3>3, <3>4, <3>5
  <2>3. CASE ~(a = l.dr /\ p = l.pending)
    <3>1. Drs(r, D \cup {x}, a, p) = Drs(r, D, a, p)
      BY <2>3 DEF Drs
    <3>2. d[a][DrField(p)] = b[a][DrField(p)]
      BY <1>1, <1>2, <1>3, <2>3
    <3> QED BY <2>1, <3>1, <3>2
  <2> QED BY <2>2, <2>3
<1>6. DrBook(r, d, D \cup {x})
  BY <1>5 DEF DrBook
<1> QED BY <1>1, <1>4, <1>6 DEF d

\* A credit adds its entry to the credits and leaves the debits
LEMMA BookCredit ==
  ASSUME NEW r, NEW b \in [Accounts -> Balance], NEW C, IsFiniteSet(C), NEW x, x \notin C,
         \A e \in C : LegAt(r, e).amount \in Int,
         LegAt(r, x) \in Leg, LegAt(r, x).cr \in Accounts, CanCredit(b, LegAt(r, x)),
         CrBook(r, b, C), NEW D, DrBook(r, b, D)
  PROVE  LET d == Credit(b, LegAt(r, x))
         IN  d \in [Accounts -> Balance] /\ CrBook(r, d, C \cup {x}) /\ DrBook(r, d, D)
<1> DEFINE l == LegAt(r, x)
           d == Credit(b, l)
<1>1. /\ d \in [Accounts -> Balance]
      /\ \A a \in Accounts, f \in Fields :
           d[a][f] = IF a = l.cr /\ f = CreditField(l) THEN b[a][f] + l.amount ELSE b[a][f]
  BY CreditBalance
<1>2. l.amount \in Int /\ l.pending \in BOOLEAN /\ CreditField(l) = CrField(l.pending)
  BY DEF Leg, CreditField, CrField
<1> HIDE DEF d
<1>3. \A p \in BOOLEAN : /\ DrField(p) \in Fields /\ CrField(p) \in Fields /\ DrField(p) # CrField(l.pending)
                         /\ CrField(p) = CrField(l.pending) <=> p = l.pending
  BY <1>2 DEF DrField, CrField, Fields
<1>4. DrBook(r, d, D)
  BY <1>1, <1>2, <1>3 DEF DrBook
<1>5. ASSUME NEW a \in Accounts, NEW p \in BOOLEAN
      PROVE  d[a][CrField(p)] = InitBalance[a][CrField(p)] + Amount(r, Crs(r, C \cup {x}, a, p))
  <2>1. b[a][CrField(p)] = InitBalance[a][CrField(p)] + Amount(r, Crs(r, C, a, p))
    BY DEF CrBook
  <2>2. CASE a = l.cr /\ p = l.pending
    <3>1. Crs(r, C \cup {x}, a, p) = Crs(r, C, a, p) \cup {x}
      BY <2>2 DEF Crs
    <3>2. /\ IsFiniteSet(Crs(r, C, a, p)) /\ x \notin Crs(r, C, a, p)
          /\ \A e \in Crs(r, C, a, p) \cup {x} : LegAt(r, e).amount \in Int
      BY <1>2, FS_Subset DEF Crs
    <3>3. Amount(r, Crs(r, C \cup {x}, a, p)) = Amount(r, Crs(r, C, a, p)) + l.amount
      BY <3>1, <3>2, AmountAdd
    <3>4. d[a][CrField(p)] = b[a][CrField(p)] + l.amount
      BY <1>1, <1>2, <1>3, <2>2
    <3>5. InitBalance[a][CrField(p)] \in Int /\ Amount(r, Crs(r, C, a, p)) \in Int
      <4>1. InitBalance[a][CrField(p)] \in Nat
        BY <1>3, AccountsAssumption DEF Balance
      <4>2. Amount(r, Crs(r, C, a, p)) \in Int
        BY <3>2, SumType DEF Amount
      <4> QED BY <4>1, <4>2
    <3> QED BY <1>2, <2>1, <3>3, <3>4, <3>5
  <2>3. CASE ~(a = l.cr /\ p = l.pending)
    <3>1. Crs(r, C \cup {x}, a, p) = Crs(r, C, a, p)
      BY <2>3 DEF Crs
    <3>2. d[a][CrField(p)] = b[a][CrField(p)]
      BY <1>1, <1>2, <1>3, <2>3
    <3> QED BY <2>1, <3>1, <3>2
  <2> QED BY <2>2, <2>3
<1>6. CrBook(r, d, C \cup {x})
  BY <1>5 DEF CrBook
<1> QED BY <1>1, <1>4, <1>6 DEF d

-----------------------------------------------------------------------------
(* The invariant *)

\* A call that has not arrived asks for nothing; a request that is at its
\* second entry is a commit whose first was validated
Shaped ==
  \A c \in Calls :
    /\ pc[c] = "idle" => reqs[c] = <<>>
    /\ pc[c] \in Suspended /\ leg[c] = 2 => /\ Current(c).type = "commit"
                                            /\ ValidLeg(Legs(Current(c))[1])

Both == {"debit", "credit"}
Second == {"credit"}

\* No low-level call has failed
DirectSafe == \A c \in Failed : InBatch(reqs[c][1])

ToldBy(left) ==
  /\ left \subseteq LeftBehind
  /\ IsFiniteSet(left \cup Posted(Both))
  /\ DrBook(reqs, bal, left \cup Posted(Both))
  /\ CrBook(reqs, bal, left \cup Posted(Second))

\* The balances are the entries of the requests answered with success, those of
\* the requests under way that are done, and some of what may be left behind
ToldRight == DirectSafe => \E left : ToldBy(left)

ToldInv == TallyInv /\ Shaped /\ ToldRight

LEMMA SomeLeft ==
  ASSUME NEW left, ToldBy(left)
  PROVE  /\ left \cup Posted(Second) \subseteq left \cup Posted(Both)
         /\ left \cup Posted(Both) \subseteq EntriesAsked
         /\ IsFiniteSet(left \cup Posted(Second))
<1>1. Posted(Second) \subseteq Posted(Both)
  BY DEF Posted, Second, Both
<1>2. Posted(Both) \subseteq EntriesAsked /\ LeftBehind \subseteq EntriesAsked
  BY DEF Posted, LeftBehind
<1>3. IsFiniteSet(left \cup Posted(Second))
  BY <1>1, FS_Subset DEF ToldBy
<1> QED BY <1>1, <1>2, <1>3 DEF ToldBy

LEMMA AskedType ==
  ASSUME Inv
  PROVE  \A e \in EntriesAsked : LegAt(reqs, e) \in Leg /\ LegAt(reqs, e).amount \in Int
<1> SUFFICES ASSUME NEW e \in EntriesAsked
             PROVE  LegAt(reqs, e) \in Leg
  BY DEF Leg
<1>1. PICK c, i, k : e = <<c, i, k>> /\ IsAsked(c, i, k)
  BY AskedIs
<1>2. reqs[c] \in Seq(HighLevel) \cup Seq(LowLevel)
  BY <1>1 DEF IsAsked, Inv, TypeOK
<1>3. reqs[c][i] \in Request
  <2>1. i \in 1..Len(reqs[c])
    BY <1>1, <1>2 DEF IsAsked
  <2> QED BY <1>2, <2>1, OneKind
<1>4. k \in 1..Len(Legs(reqs[c][i]))
  BY <1>1, <1>3, LegsType DEF IsAsked
<1> QED BY <1>1, <1>3, <1>4, LegsType DEF LegAt

\* The same entries and the same balances
LEMMA ToldKept ==
  ASSUME NEW left, ToldBy(left), NEW more, more \subseteq LeftBehind',
         bal' = bal, reqs' = reqs,
         more \cup Posted(Both)' = left \cup Posted(Both),
         more \cup Posted(Second)' = left \cup Posted(Second)
  PROVE  ToldBy(more)'
BY DEF ToldBy

LEMMA SafeBefore ==
  ASSUME NEW c \in Calls, OnlyCall(c), reqs' = reqs, DirectSafe', pc[c] # "failed"
  PROVE  DirectSafe
<1> SUFFICES ASSUME NEW d \in Calls, pc[d] = "failed"
             PROVE  InBatch(reqs[d][1])
  BY DEF DirectSafe, Failed
<1>1. d # c /\ pc'[d] = "failed"
  BY DEF OnlyCall
<1> QED BY <1>1 DEF DirectSafe, Failed

\* After the step the balances are told by as much or more, and what is newly
\* left behind is told unless it is of a request refused at its first entry
Grows(left) ==
  ToldBy(left) /\ DirectSafe' =>
    \E more : /\ left \subseteq more
              /\ ToldBy(more)'
              /\ \A e \in LeftBehind' \ LeftBehind : e \in more \/ leg[e[1]] = 1

\* A step that posts nothing and answers nothing
LEMMA ToldSame ==
  ASSUME NEW left, bal' = bal, reqs' = reqs, LeftBehind' = LeftBehind,
         Posted(Both)' = Posted(Both), Posted(Second)' = Posted(Second)
  PROVE  Grows(left)
<1> SUFFICES ASSUME ToldBy(left) PROVE Grows(left)
  BY DEF Grows
<1>1. left \subseteq LeftBehind'
  BY DEF ToldBy
<1>2. ToldBy(left)'
  BY <1>1, ToldKept
<1> QED BY <1>2 DEF Grows

\* A low-level call that rejects
LEMMA ToldReject ==
  ASSUME Inv, NEW c \in Calls, Reject(c), reqs' = reqs, ~InBatch(reqs[c][1]), NEW left
  PROVE  Grows(left)
<1>1. pc'[c] = "failed"
  BY DEF Reject, Inv, TypeOK
<1> QED BY <1>1 DEF Grows, DirectSafe, Failed

\* A step of a call that only moves on, outside the posting of an entry
LEMMA ToldPc ==
  ASSUME Inv, NEW left, NEW c \in Calls, NEW q, pc' = [pc EXCEPT ![c] = q],
         UNCHANGED <<reqs, resp, leg, bal>>, q \notin Both, pc[c] \notin Both
  PROVE  Grows(left)
<1>1. /\ LeftBehind' = LeftBehind
      /\ Posted(Both)' = Posted(Both) /\ Posted(Second)' = Posted(Second)
  BY PcEffect DEF Both, Second
<1> QED BY <1>1, ToldSame

\* A request is refused: what it had posted, if anything, is left behind
LEMMA RefusedEffect ==
  ASSUME Inv, NEW c \in Calls, NEW b \in [Accounts -> Balance],
         pc[c] \in {"check", "fetch", "store"}, Answer(c, FALSE, b), reqs' = reqs,
         leg[c] = 2 => /\ Current(c).type = "commit"
                       /\ ~Payable(Transfer[Current(c).t]),
         NEW x, x = <<c, Len(resp[c]) + 1, 1>>
  PROVE  /\ leg[c] = 1 \/ leg[c] = 2
         /\ LeftBehind \subseteq LeftBehind' /\ \A e \in LeftBehind' \ LeftBehind : e = x
         /\ leg[c] = 2 => x \in LeftBehind'
         /\ \A half \in {Both, Second} :
              /\ leg[c] = 1 => Posted(half)' = Posted(half)
              /\ leg[c] = 2 => Posted(half)' = Posted(half) \ {x} /\ x \in Posted(half)
<1>0. PICK i : i = Len(resp[c]) + 1
  OBVIOUS
<1>1. /\ Both \subseteq {"debit", "credit"} /\ Second \subseteq {"debit", "credit"}
      /\ pc[c] \in Suspended /\ pc[c] \notin Both /\ pc[c] \notin Second /\ x = <<c, i, 1>>
  BY <1>0 DEF Both, Second, Suspended
<1>2. /\ OnlyCall(c) /\ LeftBehind \subseteq LeftBehind'
      /\ \A e \in LeftBehind' \ LeftBehind : e = x
      /\ \A e : e \in Posted(Both)' <=> e \in Posted(Both) /\ ~(e[1] = c /\ e[2] = i)
      /\ \A e : e \in Posted(Second)' <=> e \in Posted(Second) /\ ~(e[1] = c /\ e[2] = i)
  BY <1>0, <1>1, AnswerOK, AnswerEffect
<1>3. /\ IsAsked(c, i, leg[c])
      /\ \A n, j : IsAsked(c, n, j) => n \in Nat /\ j \in Nat /\ j >= 1
      /\ leg[c] \in {1, 2}
  BY <1>0, <1>1, CurrentAsked DEF Inv, TypeOK
<1>4. /\ ~Accepted(c, i)
      /\ i \in DOMAIN resp'[c] /\ ~resp'[c][i]
  <2>1. resp'[c] = Append(resp[c], FALSE) /\ resp[c] \in Seq(BOOLEAN)
    BY DEF Answer, Inv, TypeOK
  <2>2. i \notin DOMAIN resp[c]
    BY <1>0, <2>1
  <2> QED BY <1>0, <2>1, <2>2 DEF Accepted
<1>5. ASSUME NEW half, pc[c] \notin half, NEW e \in Posted(half), e[1] = c, e[2] = i
      PROVE  e = x /\ leg[c] = 2
  <2>1. PICK d, n, j : e = <<d, n, j>> /\ IsAsked(d, n, j) /\ IsPosted(d, n, j, half)
    BY PostedIs DEF PostedAre
  <2>2. d = c /\ n = i
    BY <1>5, <2>1
  <2>3. j < leg[c]
    BY <1>0, <1>4, <1>5, <2>1, <2>2 DEF IsPosted
  <2> QED BY <1>1, <1>3, <2>1, <2>2, <2>3
<1>6. ASSUME leg[c] = 1, NEW half \in {Both, Second} PROVE Posted(half)' = Posted(half)
  <2>1. \A e : /\ e \in Posted(Both) => ~(e[1] = c /\ e[2] = i)
               /\ e \in Posted(Second) => ~(e[1] = c /\ e[2] = i)
    BY <1>1, <1>5, <1>6
  <2>2. Posted(Both)' = Posted(Both) /\ Posted(Second)' = Posted(Second)
    BY <1>2, <2>1
  <2> QED BY <2>2
<1>7. ASSUME leg[c] = 2
      PROVE  /\ x \in LeftBehind'
             /\ \A half : x \in Posted(half)
             /\ Posted(Both)' = Posted(Both) \ {x} /\ Posted(Second)' = Posted(Second) \ {x}
  <2>1. IsAsked(c, i, 1)
    <3>1. reqs[c][i] = Current(c) /\ leg[c] \in 1..Len(Legs(Current(c))) /\ Current(c) \in Request
      BY <1>0, <1>1, CurrentType DEF Current
    <3>2. DOMAIN Legs(Current(c)) = 1..Len(Legs(Current(c))) /\ Len(Legs(Current(c))) \in Nat
      BY <3>1, LegsType
    <3> QED BY <1>3, <1>7, <3>1, <3>2 DEF IsAsked
  <2>2. \A half : x \in Posted(half)
    <3>1. \A half : IsPosted(c, i, 1, half)
      BY <1>0, <1>7 DEF IsPosted
    <3> QED BY <1>1, <2>1, <3>1, PostedIs DEF PostedAre
  <2>3. x \in LeftBehind'
    <3>1. IsAsked(c, i, 1)'
      BY <2>1 DEF IsAsked
    <3>2. /\ reqs'[c][i].type = "commit"
          /\ ~Payable(Transfer[reqs'[c][i].t])
      BY <1>0, <1>7 DEF Current
    <3>3. IsLeft(c, i, 1)'
      BY <1>4, <3>2 DEF IsLeft
    <3> QED BY <1>1, <3>1, <3>3, PostedIsNext DEF LeftAre
  <2>4. x[1] = c /\ x[2] = i
    BY <1>1
  <2>5. \A e \in Posted(Both) : e[1] = c /\ e[2] = i => e = x
    BY <1>1, <1>5
  <2>6. \A e \in Posted(Second) : e[1] = c /\ e[2] = i => e = x
    BY <1>1, <1>5
  <2>7. Posted(Both)' = Posted(Both) \ {x} /\ Posted(Second)' = Posted(Second) \ {x}
    BY <1>2, <2>4, <2>5, <2>6
  <2> QED BY <2>2, <2>3, <2>7
<1> QED BY <1>2, <1>3, <1>6, <1>7

LEMMA ToldRefused ==
  ASSUME Inv, NEW left, NEW c \in Calls, NEW b \in [Accounts -> Balance],
         pc[c] \in {"check", "fetch", "store"}, Answer(c, FALSE, b), reqs' = reqs, bal' = bal,
         leg[c] = 2 => /\ Current(c).type = "commit"
                       /\ ~Payable(Transfer[Current(c).t])
  PROVE  Grows(left)
<1>0. PICK x : x = <<c, Len(resp[c]) + 1, 1>>
  OBVIOUS
<1>1. /\ leg[c] = 1 \/ leg[c] = 2
      /\ LeftBehind \subseteq LeftBehind' /\ \A e \in LeftBehind' \ LeftBehind : e = x
      /\ leg[c] = 2 => x \in LeftBehind'
      /\ \A half \in {Both, Second} :
           /\ leg[c] = 1 => Posted(half)' = Posted(half)
           /\ leg[c] = 2 => Posted(half)' = Posted(half) \ {x} /\ x \in Posted(half)
  BY <1>0, RefusedEffect, ZenonT(40)
<1> SUFFICES ASSUME ToldBy(left) PROVE Grows(left)
  BY DEF Grows
<1>2. CASE leg[c] = 1
  <2>1. Posted(Both)' = Posted(Both) /\ Posted(Second)' = Posted(Second)
    BY <1>1, <1>2
  <2>2. ToldBy(left)'
    <3>1. left \subseteq LeftBehind'
      BY <1>1 DEF ToldBy
    <3> QED BY <2>1, <3>1, ToldKept
  <2>3. \A e \in LeftBehind' \ LeftBehind : leg[e[1]] = 1
    BY <1>0, <1>1, <1>2
  <2> QED BY <2>2, <2>3 DEF Grows
<1>3. CASE leg[c] = 2
  <2> DEFINE more == left \cup {x}
  <2>1. more \subseteq LeftBehind'
    BY <1>1, <1>3 DEF ToldBy
  <2>2. /\ more \cup Posted(Both)' = left \cup Posted(Both)
        /\ more \cup Posted(Second)' = left \cup Posted(Second)
    BY <1>1, <1>3
  <2>3. left \subseteq more /\ \A e \in LeftBehind' \ LeftBehind : e \in more
    BY <1>1
  <2> HIDE DEF more
  <2>4. ToldBy(more)'
    BY <2>1, <2>2, ToldKept
  <2> QED BY <2>3, <2>4 DEF Grows
<1> QED BY <1>1, <1>2, <1>3

LEMMA SecondLeg ==
  ASSUME NEW r \in Request, Len(Legs(r)) = 2
  PROVE  /\ r.type = "commit" /\ InBatch(r) /\ r.t \in Transfers
         /\ Legs(r)[1] = Reservation(Transfer[r.t], -Transfer[r.t].amount)
         /\ Legs(r)[2] = Movement(Transfer[r.t])
<1>1. r.type \in {"reserve", "cancel", "commit", "entry"}
  BY DEF Request, HighLevel, LowLevel
<1>2. r.type = "commit"
  <2>1. r.type \in {"reserve", "cancel", "entry"} => \E x : Legs(r) = <<x>>
    BY DEF Legs
  <2>2. \A x : Len(<<x>>) = 1
    OBVIOUS
  <2> QED BY <1>1, <2>1, <2>2
<1>3. Legs(r) = <<Reservation(Transfer[r.t], -Transfer[r.t].amount), Movement(Transfer[r.t])>>
  BY <1>2 DEF Legs
<1>4. r.t \in Transfers
  BY <1>2 DEF Request, HighLevel, LowLevel
<1> QED BY <1>2, <1>3, <1>4 DEF InBatch

LEMMA ShapedInit == Init => Shaped
BY DEF Init, Shaped, Suspended

LEMMA ShapedFrame ==
  ASSUME Inv, Shaped, NEW c \in Calls, OnlyCall(c), reqs' = reqs, pc'[c] # "idle",
         pc'[c] \in Suspended /\ leg'[c] = 2 =>
           Current(c)'.type = "commit" /\ ValidLeg(Legs(Current(c)')[1])
  PROVE  Shaped'
<1> SUFFICES ASSUME NEW d \in Calls
             PROVE  /\ pc'[d] = "idle" => reqs'[d] = <<>>
                    /\ pc'[d] \in Suspended /\ leg'[d] = 2 =>
                         Current(d)'.type = "commit" /\ ValidLeg(Legs(Current(d)')[1])
  BY DEF Shaped, ValidLeg
<1>1. CASE d = c
  BY <1>1
<1>2. CASE d # c
  <2>1. pc'[d] = pc[d] /\ leg'[d] = leg[d] /\ Current(d)' = Current(d)
    BY <1>2 DEF OnlyCall, Current
  <2> QED BY <2>1 DEF Shaped
<1> QED BY <1>1, <1>2

LEMMA AnswerShaped ==
  ASSUME Inv, Shaped, NEW c \in Calls, NEW ok \in BOOLEAN, NEW b \in [Accounts -> Balance],
         pc[c] \in Suspended, Answer(c, ok, b), reqs' = reqs
  PROVE  Shaped'
<1>1. OnlyCall(c) /\ leg'[c] = 1 /\ pc'[c] # "idle"
  BY AnswerOK DEF Answer, BeginFlush, EntryPoint, Inv, TypeOK
<1> QED BY <1>1, ShapedFrame

LEMMA RejectShaped ==
  ASSUME Inv, Shaped, NEW c \in Calls, Reject(c), reqs' = reqs
  PROVE  Shaped'
<1>1. OnlyCall(c) /\ pc'[c] = "failed"
  BY RejectOK DEF Reject, Inv, TypeOK
<1> QED BY <1>1, ShapedFrame DEF Suspended

LEMMA PcShaped ==
  ASSUME Inv, Shaped, NEW c \in Calls, NEW q, pc' = [pc EXCEPT ![c] = q],
         UNCHANGED <<reqs, resp, leg>>, q # "idle", q \in Suspended => pc[c] \in Suspended
  PROVE  Shaped'
<1>1. OnlyCall(c) /\ pc'[c] = q /\ Current(c)' = Current(c) /\ leg'[c] = leg[c]
  BY DEF OnlyCall, Current, Inv, TypeOK
<1> QED BY <1>1, ShapedFrame DEF Shaped

LEMMA NextLegShaped ==
  ASSUME Inv, Validated, Shaped, NEW c \in Calls, NEW b \in [Accounts -> Balance],
         pc[c] = "store", NextLeg(c, b), reqs' = reqs
  PROVE  Shaped'
<1>1. CASE ~(leg[c] < Len(Legs(Current(c))))
  BY <1>1, AnswerShaped DEF NextLeg, Suspended
<1>2. CASE leg[c] < Len(Legs(Current(c)))
  <2>1. /\ leg' = [leg EXCEPT ![c] = @ + 1] /\ pc' = [pc EXCEPT ![c] = "fetch"]
        /\ resp' = resp
    BY <1>2 DEF NextLeg
  <2>2. OnlyCall(c) /\ pc'[c] = "fetch" /\ Current(c)' = Current(c)
    BY <2>1 DEF OnlyCall, Current, Inv, TypeOK
  <2>3. Current(c) \in Request /\ leg[c] = 1 /\ Len(Legs(Current(c))) = 2
    <3>1. Current(c) \in Request /\ leg[c] \in {1, 2}
      BY CurrentType DEF Suspended, Inv, TypeOK
    <3>2. Len(Legs(Current(c))) = 1 \/ Len(Legs(Current(c))) = 2
      BY <3>1, LegsType
    <3> QED BY <1>2, <3>1, <3>2, OneOrTwo
  <2>4. Current(c).type = "commit" /\ ValidLeg(Legs(Current(c))[1])
    BY <2>3, SecondLeg DEF Validated, CurrentLeg
  <2> QED BY <2>2, <2>4, ShapedFrame
<1> QED BY <1>1, <1>2

\* An entry refused as invalid after another of its request was posted is the
\* movement of a commit whose payee cannot be credited
LEMMA SecondRefused ==
  ASSUME Inv, Shaped, NEW c \in Calls, pc[c] = "fetch", leg[c] = 2, ~ValidLeg(CurrentLeg(c))
  PROVE  Current(c).type = "commit" /\ ~Payable(Transfer[Current(c).t])
<1>1. /\ Current(c).type = "commit" /\ ValidLeg(Legs(Current(c))[1])
      /\ Current(c) \in Request /\ Len(Legs(Current(c))) = 2
  <2>1. leg[c] \in 1..Len(Legs(Current(c))) /\ Current(c) \in Request
    BY CurrentType DEF Suspended
  <2>2. Len(Legs(Current(c))) = 2
    BY <2>1, LegsType
  <2> QED BY <2>1, <2>2 DEF Shaped, Suspended
<1>2. /\ Legs(Current(c))[1] = Reservation(Transfer[Current(c).t], -Transfer[Current(c).t].amount)
      /\ CurrentLeg(c) = Movement(Transfer[Current(c).t])
  BY <1>1, SecondLeg DEF CurrentLeg
<1> QED BY <1>1, <1>2 DEF ValidLeg, Payable, Reservation, Movement

\* In the store step the entry is not in the balances yet
LEMMA NotYet ==
  ASSUME Inv, NEW c \in Calls, pc[c] \in Suspended, NEW half, pc[c] \notin half
  PROVE  CurrentId(c) \notin Posted(half) \cup LeftBehind
<1>1. CurrentId(c) = <<c, Len(resp[c]) + 1, leg[c]>> /\ leg[c] \in {1, 2}
  BY CurrentAsked DEF Inv, TypeOK
<1>2. Len(resp[c]) + 1 \notin DOMAIN resp[c]
  <2>1. resp[c] \in Seq(BOOLEAN)
    BY DEF Inv, TypeOK
  <2> QED BY <2>1
<1>3. ~IsPosted(c, Len(resp[c]) + 1, leg[c], half) /\ ~IsLeft(c, Len(resp[c]) + 1, leg[c])
  BY <1>1, <1>2 DEF IsPosted, IsLeft, Accepted
<1> QED BY <1>1, <1>3, PostedIs DEF PostedAre, LeftAre

\* A call that arrives has posted nothing yet
LEMMA StartPosted ==
  ASSUME Inv, Shaped, NEW c \in Calls, Start(c)
  PROVE  /\ Shaped' /\ bal' = bal /\ LeftBehind' = LeftBehind
         /\ Posted(Both)' = Posted(Both) /\ Posted(Second)' = Posted(Second)
         /\ \A e \in EntriesAsked : LegAt(reqs', e) = LegAt(reqs, e)
<1>1. PICK w \in Workload : /\ pc[c] = "idle"
                            /\ reqs' = [reqs EXCEPT ![c] = w]
                            /\ pc' = [pc EXCEPT ![c] = EntryPoint(w[1])]
                            /\ UNCHANGED <<resp, leg, bal>>
  BY DEF Start, Arrive
<1>2. /\ reqs[c] = <<>> /\ resp[c] = <<>> /\ leg[c] = 1
      /\ \A d \in Calls \ {c} : reqs'[d] = reqs[d] /\ pc'[d] = pc[d] /\ Current(d)' = Current(d)
      /\ pc'[c] \in {"check", "fetch"}
  BY <1>1 DEF Shaped, Inv, CallOK, TypeOK, EntryPoint, Current
<1>3. Shaped'
  <2> SUFFICES ASSUME NEW d \in Calls
               PROVE  /\ pc'[d] = "idle" => reqs'[d] = <<>>
                      /\ pc'[d] \in Suspended /\ leg'[d] = 2 =>
                           Current(d)'.type = "commit" /\ ValidLeg(Legs(Current(d)')[1])
    BY DEF Shaped, ValidLeg
  <2> QED BY <1>1, <1>2 DEF Shaped
<1>4. w \in Seq(HighLevel) \cup Seq(LowLevel)
  BY WorkloadAssumption
<1>5. ASSUME NEW i, NEW k, IsAsked(c, i, k)'
      PROVE  ~IsLeft(c, i, k)' /\ \A half : half \in {Both, Second} => ~IsPosted(c, i, k, half)'
  <2>1. reqs'[c] = w
    BY <1>1 DEF Inv, TypeOK
  <2>2. i \in 1..Len(w) /\ k \in DOMAIN Legs(w[i])
    BY <1>4, <1>5, <2>1 DEF IsAsked
  <2>3. k \in 1..Len(Legs(w[i])) /\ Len(Legs(w[i])) \in Nat
    BY <1>4, <2>2, OneKind, LegsType
  <2> QED BY <1>1, <1>2, <2>3 DEF IsLeft, IsPosted, Accepted, Both, Second
<1>6. \A i, k : ~IsAsked(c, i, k)
  BY <1>2 DEF IsAsked
<1>7. ASSUME NEW d, NEW i, NEW k, d # c
      PROVE  /\ IsAsked(d, i, k)' <=> IsAsked(d, i, k)
             /\ IsAsked(d, i, k) => /\ IsLeft(d, i, k)' <=> IsLeft(d, i, k)
                                    /\ \A half : IsPosted(d, i, k, half)' <=> IsPosted(d, i, k, half)
  BY <1>1, <1>2, <1>7 DEF IsAsked, IsLeft, IsPosted, Accepted
<1>8. ASSUME NEW half, half \in {Both, Second}
      PROVE  Posted(half)' = Posted(half)
  <2>1. \A d, i, k : <<d, i, k>> \in Posted(half)' <=> <<d, i, k>> \in Posted(half)
    <3> TAKE d, i, k
    <3>1. /\ <<d, i, k>> \in Posted(half)' <=> IsAsked(d, i, k)' /\ IsPosted(d, i, k, half)'
          /\ <<d, i, k>> \in Posted(half) <=> IsAsked(d, i, k) /\ IsPosted(d, i, k, half)
      BY PostedIs, PostedIsNext DEF PostedAre
    <3>2. CASE d = c
      BY <1>5, <1>6, <1>8, <3>1, <3>2
    <3>3. CASE d # c
      <4>1. IsAsked(d, i, k)' <=> IsAsked(d, i, k)
        BY <1>7, <3>3
      <4>2. IsAsked(d, i, k) => (IsPosted(d, i, k, half)' <=> IsPosted(d, i, k, half))
        BY <1>7, <3>3
      <4> QED BY <3>1, <4>1, <4>2
    <3> QED BY <3>2, <3>3
  <2>2. /\ \A e \in Posted(half)' : \E d, n, j : e = <<d, n, j>>
        /\ \A e \in Posted(half) : \E d, n, j : e = <<d, n, j>>
    BY PostedIs, PostedIsNext DEF PostedAre
  <2> QED BY <2>1, <2>2
<1>9. LeftBehind' = LeftBehind
  <2>1. \A d, i, k : <<d, i, k>> \in LeftBehind' <=> <<d, i, k>> \in LeftBehind
    BY <1>5, <1>6, <1>7, PostedIs, PostedIsNext DEF LeftAre
  <2> QED BY <2>1, PostedIs, PostedIsNext DEF LeftAre
<1>10. \A e \in EntriesAsked : LegAt(reqs', e) = LegAt(reqs, e)
  <2> SUFFICES ASSUME NEW e \in EntriesAsked
               PROVE  LegAt(reqs', e) = LegAt(reqs, e)
    OBVIOUS
  <2>1. PICK d, i, k : e = <<d, i, k>> /\ IsAsked(d, i, k)
    BY AskedIs
  <2>2. d \in Calls \ {c} /\ e[1] = d
    BY <1>6, <2>1 DEF IsAsked
  <2>3. reqs'[e[1]] = reqs[e[1]]
    BY <1>2, <2>2
  <2> QED BY <2>3 DEF LegAt
<1> QED BY <1>1, <1>3, <1>8, <1>9, <1>10

LEMMA StartTold ==
  ASSUME Inv, Shaped, NEW left, NEW c \in Calls, Start(c)
  PROVE  Shaped' /\ Grows(left)
<1>1. /\ Shaped' /\ bal' = bal /\ LeftBehind' = LeftBehind
      /\ Posted(Both)' = Posted(Both) /\ Posted(Second)' = Posted(Second)
      /\ \A e \in EntriesAsked : LegAt(reqs', e) = LegAt(reqs, e)
  BY StartPosted
<1> SUFFICES ASSUME ToldBy(left) PROVE ToldBy(left)'
  BY <1>1 DEF Grows
<1>2. DrBook(reqs', bal, left \cup Posted(Both)) /\ CrBook(reqs', bal, left \cup Posted(Second))
  <2>1. \A e \in left \cup Posted(Both) : LegAt(reqs', e) = LegAt(reqs, e)
    BY <1>1, SomeLeft
  <2>2. left \cup Posted(Second) \subseteq left \cup Posted(Both)
    BY SomeLeft
  <2> QED BY <2>1, <2>2, BookSame DEF ToldBy
<1> QED BY <1>1, <1>2 DEF ToldBy

\* The debit and the credit of an entry of a batch, taken together
LEMMA ToldPosted ==
  ASSUME Inv, NEW left, NEW c \in Calls, pc[c] = "store", InBatch(Current(c)), reqs' = reqs,
         CurrentLeg(c) \in Leg, CurrentLeg(c).dr \in Accounts, CurrentLeg(c).cr \in Accounts,
         CanDebit(bal, CurrentLeg(c)), CanCredit(Debit(bal, CurrentLeg(c)), CurrentLeg(c)),
         bal' = Credit(Debit(bal, CurrentLeg(c)), CurrentLeg(c)),
         NextLeg(c, bal')
  PROVE  Grows(left)
<1> SUFFICES ASSUME ToldBy(left) PROVE Grows(left)
  BY DEF Grows
<1> DEFINE l == CurrentLeg(c)
           x == CurrentId(c)
<1>1. /\ Both \subseteq {"debit", "credit"} /\ Second \subseteq {"debit", "credit"}
      /\ pc[c] \in Suspended /\ pc[c] \notin Both /\ pc[c] \notin Second
  BY DEF Both, Second, Suspended
<1>2. bal \in [Accounts -> Balance] /\ bal' \in [Accounts -> Balance]
  BY DebitType, CreditType DEF Inv, TypeOK
<1>3. /\ LegAt(reqs, x) = l
      /\ x \notin Posted(Both) \cup LeftBehind /\ x \notin Posted(Second) \cup LeftBehind
  BY <1>1, CurrentAsked, NotYet DEF LegAt, LegOf
<1>4. /\ OnlyCall(c) /\ LeftBehind' = LeftBehind
      /\ Posted(Both)' = Posted(Both) \cup {x} /\ Posted(Second)' = Posted(Second) \cup {x}
  <2>1. CASE leg[c] < Len(Legs(Current(c)))
    <3>1. /\ leg' = [leg EXCEPT ![c] = @ + 1] /\ pc' = [pc EXCEPT ![c] = "fetch"]
          /\ resp' = resp
      BY <2>1 DEF NextLeg
    <3>2. OnlyCall(c)
      BY <3>1 DEF OnlyCall, Inv, TypeOK
    <3> QED BY <1>1, <2>1, <3>1, <3>2, NextLegEffect
  <2>2. CASE ~(leg[c] < Len(Legs(Current(c))))
    <3>1. Answer(c, TRUE, bal')
      BY <2>2 DEF NextLeg
    <3>2. leg[c] = Len(Legs(Current(c)))
      <4>1. leg[c] \in 1..Len(Legs(Current(c))) /\ Current(c) \in Request
        BY <1>1, CurrentType
      <4>2. Len(Legs(Current(c))) \in Nat
        BY <4>1, LegsType
      <4> QED BY <2>2, <4>1, <4>2
    <3> QED BY <1>1, <1>2, <3>1, <3>2, AnswerOK, AnswerEffect
  <2> QED BY <2>1, <2>2
<1>5. \A e \in EntriesAsked : LegAt(reqs, e).amount \in Int
  BY AskedType
<1>6. \A e \in LeftBehind' \ LeftBehind : FALSE
  BY <1>4
<1>8. /\ left \cup Posted(Both) \subseteq EntriesAsked /\ left \cup Posted(Second) \subseteq EntriesAsked
      /\ IsFiniteSet(left \cup Posted(Both)) /\ IsFiniteSet(left \cup Posted(Second))
      /\ x \notin left \cup Posted(Both) /\ x \notin left \cup Posted(Second)
      /\ left \subseteq LeftBehind'
      /\ DrBook(reqs, bal, left \cup Posted(Both)) /\ CrBook(reqs, bal, left \cup Posted(Second))
  BY <1>3, <1>4, SomeLeft DEF ToldBy
<1> DEFINE D == left \cup Posted(Both)
           C == left \cup Posted(Second)
           d == Debit(bal, l)
<1> HIDE DEF l, x
<1>9. /\ d \in [Accounts -> Balance] /\ DrBook(reqs, d, D \cup {x}) /\ CrBook(reqs, d, C)
  BY <1>2, <1>3, <1>5, <1>8, BookDebit DEF l
<1>10. CanCredit(d, l) /\ bal' = Credit(d, l)
  BY DEF l
<1> HIDE DEF d, D, C
<1>11. CrBook(reqs, bal', C \cup {x}) /\ DrBook(reqs, bal', D \cup {x})
  <2>1. /\ x \notin C /\ IsFiniteSet(C) /\ \A e \in C : LegAt(reqs, e).amount \in Int
        /\ LegAt(reqs, x) \in Leg /\ LegAt(reqs, x).cr \in Accounts
        /\ CanCredit(d, LegAt(reqs, x)) /\ bal' = Credit(d, LegAt(reqs, x))
    BY <1>3, <1>5, <1>8, <1>10 DEF C, l
  <2>2. /\ CrBook(reqs, Credit(d, LegAt(reqs, x)), C \cup {x})
        /\ DrBook(reqs, Credit(d, LegAt(reqs, x)), D \cup {x})
    BY <1>9, <2>1, BookCredit
  <2> QED BY <2>1, <2>2
<1>12. D \cup {x} = left \cup Posted(Both)' /\ C \cup {x} = left \cup Posted(Second)'
  BY <1>4 DEF D, C
<1>13. IsFiniteSet(left \cup Posted(Both)')
  BY <1>8, <1>12, FS_AddElement DEF D
<1>14. ToldBy(left)'
  BY <1>8, <1>11, <1>12, <1>13 DEF ToldBy
<1> QED BY <1>6, <1>14 DEF Grows

\* The debit of a low-level entry
LEMMA ToldDebit ==
  ASSUME Inv, NEW left, NEW c \in Calls, pc[c] = "store", UNCHANGED <<reqs, resp, leg>>,
         CurrentLeg(c) \in Leg, CurrentLeg(c).dr \in Accounts,
         CanDebit(bal, CurrentLeg(c)), bal' = Debit(bal, CurrentLeg(c)),
         pc' = [pc EXCEPT ![c] = "debit"]
  PROVE  Grows(left)
<1> SUFFICES ASSUME ToldBy(left) PROVE Grows(left)
  BY DEF Grows
<1> DEFINE x == CurrentId(c)
<1>1. bal \in [Accounts -> Balance]
  BY DEF Inv, TypeOK
<1>2. LegAt(reqs, x) = CurrentLeg(c) /\ x \notin Posted(Both) \cup LeftBehind
  <2>1. pc[c] \in Suspended /\ pc[c] \notin Both
    BY DEF Both, Suspended
  <2>2. LegAt(reqs, x) = CurrentLeg(c)
    BY <2>1, CurrentAsked DEF LegAt, LegOf
  <2>3. x \notin Posted(Both) \cup LeftBehind
    BY <2>1, NotYet
  <2> QED BY <2>2, <2>3
<1>3. /\ OnlyCall(c) /\ LeftBehind' = LeftBehind
      /\ Posted(Both)' = Posted(Both) \cup {x} /\ Posted(Second)' = Posted(Second)
  <2>1. pc[c] \in Suspended \ Both /\ "debit" \in Both /\ pc[c] \notin Second /\ "debit" \notin Second
    BY DEF Both, Second, Suspended
  <2> QED BY <2>1, PcEffect
<1>4. \A e \in EntriesAsked : LegAt(reqs, e).amount \in Int
  BY AskedType
<1>5. \A e \in LeftBehind' \ LeftBehind : FALSE
  BY <1>3
<1>7. /\ left \cup Posted(Both) \subseteq EntriesAsked
      /\ IsFiniteSet(left \cup Posted(Both))
      /\ x \notin left \cup Posted(Both)
      /\ left \subseteq LeftBehind'
      /\ DrBook(reqs, bal, left \cup Posted(Both)) /\ CrBook(reqs, bal, left \cup Posted(Second))
  BY <1>2, <1>3, SomeLeft DEF ToldBy
<1> HIDE DEF x
<1> DEFINE D == left \cup Posted(Both)
           C == left \cup Posted(Second)
<1>8. /\ \A e \in D : LegAt(reqs, e).amount \in Int
      /\ IsFiniteSet(D) /\ x \notin D /\ DrBook(reqs, bal, D) /\ CrBook(reqs, bal, C)
      /\ LegAt(reqs, x) \in Leg /\ LegAt(reqs, x).dr \in Accounts
      /\ CanDebit(bal, LegAt(reqs, x)) /\ bal' = Debit(bal, LegAt(reqs, x))
  BY <1>2, <1>4, <1>7
<1>9. D \cup {x} = left \cup Posted(Both)' /\ C = left \cup Posted(Second)'
  BY <1>3
<1> HIDE DEF D, C
<1>10. DrBook(reqs, bal', D \cup {x}) /\ CrBook(reqs, bal', C)
  <2>1. /\ DrBook(reqs, Debit(bal, LegAt(reqs, x)), D \cup {x})
        /\ CrBook(reqs, Debit(bal, LegAt(reqs, x)), C)
    BY <1>1, <1>8, BookDebit
  <2> QED BY <1>8, <2>1
<1>11. IsFiniteSet(left \cup Posted(Both)')
  BY <1>8, <1>9, FS_AddElement
<1>12. ToldBy(left)'
  BY <1>7, <1>9, <1>10, <1>11 DEF ToldBy
<1> QED BY <1>5, <1>12 DEF Grows

\* The credit of a low-level entry
LEMMA ToldCredit ==
  ASSUME Inv, NEW left, NEW c \in Calls, pc[c] = "debit", UNCHANGED <<reqs, resp, leg>>,
         CurrentLeg(c) \in Leg, CurrentLeg(c).cr \in Accounts,
         CanCredit(bal, CurrentLeg(c)), bal' = Credit(bal, CurrentLeg(c)),
         pc' = [pc EXCEPT ![c] = "credit"]
  PROVE  Grows(left)
<1> SUFFICES ASSUME ToldBy(left) PROVE Grows(left)
  BY DEF Grows
<1> DEFINE x == CurrentId(c)
<1>1. bal \in [Accounts -> Balance]
  BY DEF Inv, TypeOK
<1>2. LegAt(reqs, x) = CurrentLeg(c) /\ x \notin Posted(Second) \cup LeftBehind
  BY CurrentAsked, NotYet DEF LegAt, LegOf, Second, Suspended
<1>3. /\ OnlyCall(c) /\ LeftBehind' = LeftBehind
      /\ Posted(Both)' = Posted(Both) /\ Posted(Second)' = Posted(Second) \cup {x}
  <2>1. pc[c] \in Suspended \ Second /\ "credit" \in Second /\ pc[c] \in Both /\ "credit" \in Both
    BY DEF Both, Second, Suspended
  <2> QED BY <2>1, PcEffect
<1>4. \A e \in EntriesAsked : LegAt(reqs, e).amount \in Int
  BY AskedType
<1>5. \A e \in LeftBehind' \ LeftBehind : FALSE
  BY <1>3
<1>7. /\ left \cup Posted(Second) \subseteq EntriesAsked
      /\ IsFiniteSet(left \cup Posted(Second)) /\ IsFiniteSet(left \cup Posted(Both))
      /\ x \notin left \cup Posted(Second)
      /\ left \subseteq LeftBehind'
      /\ DrBook(reqs, bal, left \cup Posted(Both)) /\ CrBook(reqs, bal, left \cup Posted(Second))
  BY <1>2, <1>3, SomeLeft DEF ToldBy
<1> HIDE DEF x
<1> DEFINE D == left \cup Posted(Both)
           C == left \cup Posted(Second)
<1>8. /\ \A e \in C : LegAt(reqs, e).amount \in Int
      /\ IsFiniteSet(C) /\ x \notin C /\ DrBook(reqs, bal, D) /\ CrBook(reqs, bal, C)
      /\ LegAt(reqs, x) \in Leg /\ LegAt(reqs, x).cr \in Accounts
      /\ CanCredit(bal, LegAt(reqs, x)) /\ bal' = Credit(bal, LegAt(reqs, x))
  BY <1>2, <1>4, <1>7
<1>9. D = left \cup Posted(Both)' /\ C \cup {x} = left \cup Posted(Second)'
  BY <1>3
<1>10. IsFiniteSet(left \cup Posted(Both)')
  BY <1>3, <1>7
<1> HIDE DEF D, C
<1>11. DrBook(reqs, bal', D) /\ CrBook(reqs, bal', C \cup {x})
  <2>1. /\ CrBook(reqs, Credit(bal, LegAt(reqs, x)), C \cup {x})
        /\ DrBook(reqs, Credit(bal, LegAt(reqs, x)), D)
    BY <1>1, <1>8, BookCredit
  <2> QED BY <1>8, <2>1
<1>12. ToldBy(left)'
  BY <1>7, <1>9, <1>10, <1>11 DEF ToldBy
<1> QED BY <1>5, <1>12 DEF Grows

\* The last answer of a low-level entry changes no balance
LEMMA ToldComplete ==
  ASSUME Inv, NEW left, NEW c \in Calls, pc[c] = "credit", ~InBatch(Current(c)), reqs' = reqs, bal' = bal,
         Answer(c, TRUE, bal)
  PROVE  Grows(left)
<1>1. /\ Both \subseteq {"debit", "credit"} /\ Second \subseteq {"debit", "credit"}
      /\ pc[c] \in Suspended /\ pc[c] \in Both /\ pc[c] \in Second
      /\ bal \in [Accounts -> Balance]
  BY DEF Both, Second, Suspended, Inv, TypeOK
<1>2. leg[c] = Len(Legs(Current(c)))
  BY <1>1, CurrentType, DirectLegKind
<1>3. /\ OnlyCall(c) /\ LeftBehind' = LeftBehind
      /\ Posted(Both)' = Posted(Both) \cup {CurrentId(c)}
      /\ Posted(Second)' = Posted(Second) \cup {CurrentId(c)}
  BY <1>1, <1>2, AnswerOK, AnswerEffect
<1>4. CurrentId(c) \in Posted(Both) /\ CurrentId(c) \in Posted(Second)
  <2>1. \A half : pc[c] \in half => IsPosted(c, Len(resp[c]) + 1, leg[c], half)
    BY DEF IsPosted
  <2> QED BY <1>1, <2>1, CurrentAsked, PostedIs DEF PostedAre
<1>5. Posted(Both)' = Posted(Both) /\ Posted(Second)' = Posted(Second)
  BY <1>3, <1>4
<1> QED BY <1>3, <1>5, ToldSame

\* An answer of an entry that was not stored
LEMMA ThrowTold ==
  ASSUME Inv, Shaped, NEW left, NEW c \in Calls, Throw(c, bal), reqs' = reqs, bal' = bal,
         \/ pc[c] = "fetch" /\ ~ValidLeg(CurrentLeg(c))
         \/ pc[c] = "store" /\ leg[c] = 1
         \/ pc[c] \in Suspended /\ ~InBatch(Current(c))
  PROVE  Shaped' /\ Grows(left)
<1>1. pc[c] \in Suspended /\ bal \in [Accounts -> Balance]
  BY DEF Suspended, Inv, TypeOK
<1>2. CASE ~InBatch(Current(c))
  <2>1. Reject(c) /\ ~InBatch(reqs[c][1])
    BY <1>1, <1>2, CurrentType DEF Throw
  <2> QED BY <2>1, RejectShaped, ToldReject
<1>3. CASE InBatch(Current(c))
  <2>1. Answer(c, FALSE, bal)
    BY <1>3 DEF Throw
  <2>2. leg[c] = 2 => /\ Current(c).type = "commit"
                      /\ ~Payable(Transfer[Current(c).t])
    BY <1>3, SecondRefused
  <2>3. pc[c] \in {"check", "fetch", "store"}
    BY <1>3
  <2> QED BY <1>1, <2>1, <2>2, <2>3, AnswerShaped, ToldRefused
<1> QED BY <1>2, <1>3

LEMMA PostInBatchTold ==
  ASSUME TallyInv, Shaped, OneHub, IsFiniteSet(Accounts), NEW left, NEW c \in Calls, PostInBatch(c)
  PROVE  Shaped' /\ Grows(left)
<1> USE DEF TallyInv
<1> DEFINE l == CurrentLeg(c)
<1>1. pc[c] = "store" /\ InBatch(Current(c)) /\ reqs' = reqs
  BY DEF PostInBatch
<1>2. /\ l \in Leg /\ l.dr \in Accounts /\ l.cr \in Accounts
      /\ ~l.pending => CanDebit(bal, l)
      /\ CanDebit(bal, l) => CanCredit(Debit(bal, l), l)
  BY <1>1, BatchPosts
<1>3. CASE ~CanDebit(bal, l)
  <2>1. bal' = bal /\ Throw(c, bal)
    BY <1>3 DEF PostInBatch
  <2>2. leg[c] = 1
    <3>1. leg[c] \in {1, 2} /\ leg[c] \in 1..Len(Legs(Current(c))) /\ Current(c) \in Request
      BY <1>1, CurrentType DEF Suspended, Inv, TypeOK
    <3>2. CASE leg[c] = 2
      <4>1. Len(Legs(Current(c))) = 2
        BY <3>1, <3>2, LegsType
      <4>2. l = Movement(Transfer[Current(c).t])
        BY <3>1, <3>2, <4>1, SecondLeg DEF CurrentLeg
      <4> QED BY <1>2, <1>3, <4>2 DEF Movement
    <3> QED BY <3>1, <3>2
  <2> QED BY <1>1, <2>1, <2>2, ThrowTold
<1>4. CASE CanDebit(bal, l)
  <2>1. bal' = Credit(Debit(bal, l), l) /\ NextLeg(c, bal')
    BY <1>2, <1>4 DEF PostInBatch
  <2>2. bal' \in [Accounts -> Balance]
    BY <1>2, <1>4, <2>1, DebitType, CreditType DEF Inv, TypeOK
  <2>3. Shaped'
    BY <1>1, <2>1, <2>2, NextLegShaped
  <2>4. Grows(left)
    BY <1>1, <1>2, <1>4, <2>1, ToldPosted
  <2> QED BY <2>3, <2>4
<1> QED BY <1>3, <1>4

LEMMA DirectTold ==
  ASSUME TallyInv, Shaped, NEW left, NEW c \in Calls, DebitDirect(c) \/ CreditDirect(c) \/ CompleteDirect(c)
  PROVE  Shaped' /\ Grows(left)
<1> USE DEF TallyInv
<1>1. /\ pc[c] \in {"store", "debit", "credit"} /\ pc[c] \in Suspended /\ reqs' = reqs
      /\ ~InBatch(Current(c)) /\ ~InBatch(reqs[c][1])
      /\ CurrentLeg(c) \in Leg /\ CurrentLeg(c).dr \in Accounts /\ CurrentLeg(c).cr \in Accounts
      /\ bal \in [Accounts -> Balance]
  <2>1. /\ pc[c] \in {"store", "debit", "credit"} /\ reqs' = reqs
        /\ ~InBatch(Current(c))
    BY DEF DebitDirect, CreditDirect, CompleteDirect, Inv, CallOK
  <2> QED BY <2>1, CurrentType DEF Suspended, Inv, TypeOK, CallOK
<1>2. CASE Reject(c)
  BY <1>1, <1>2, RejectShaped, ToldReject
<1>3. CASE DebitDirect(c) /\ ~Reject(c)
  <2>1. /\ pc[c] = "store" /\ CanDebit(bal, CurrentLeg(c)) /\ bal' = Debit(bal, CurrentLeg(c))
        /\ pc' = [pc EXCEPT ![c] = "debit"] /\ UNCHANGED <<resp, leg>>
    BY <1>3 DEF DebitDirect
  <2>2. Shaped'
    BY <1>1, <2>1, PcShaped
  <2> QED BY <1>1, <2>1, <2>2, ToldDebit
<1>4. CASE CreditDirect(c) /\ ~Reject(c)
  <2>1. /\ pc[c] = "debit" /\ CanCredit(bal, CurrentLeg(c)) /\ bal' = Credit(bal, CurrentLeg(c))
        /\ pc' = [pc EXCEPT ![c] = "credit"] /\ UNCHANGED <<resp, leg>>
    BY <1>4 DEF CreditDirect
  <2>2. Shaped'
    BY <1>1, <2>1, PcShaped
  <2> QED BY <1>1, <2>1, <2>2, ToldCredit
<1>5. CASE CompleteDirect(c)
  <2>1. pc[c] = "credit" /\ Answer(c, TRUE, bal) /\ bal' = bal
    BY <1>5 DEF CompleteDirect
  <2> QED BY <1>1, <2>1, AnswerShaped, ToldComplete
<1> QED BY <1>2, <1>3, <1>4, <1>5

LEMMA OtherTold ==
  ASSUME TallyInv, Shaped, NEW left, NEW c \in Calls,
         CheckLiquid(c) \/ CreateEntry(c) \/ FlushEntries(c) \/ FlushAccounts(c) \/ RepoFails(c)
  PROVE  Shaped' /\ Grows(left)
<1> USE DEF TallyInv
<1>1. reqs' = reqs /\ bal' = bal /\ bal \in [Accounts -> Balance]
  BY DEF CheckLiquid, CreateEntry, FlushEntries, FlushAccounts, RepoFails, Inv, TypeOK
<1>2. ASSUME NEW q, pc' = [pc EXCEPT ![c] = q], UNCHANGED <<resp, leg>>,
             pc[c] \notin Both \cup {"failed"}, q \notin Both \cup {"idle"},
             q \in Suspended => pc[c] \in Suspended
      PROVE  Shaped' /\ Grows(left)
  BY <1>1, <1>2, PcShaped, ToldPc
<1>3. CASE CheckLiquid(c)
  <2>1. pc[c] = "check" /\ leg[c] = 1
    <3>1. pc[c] = "check" /\ Current(c).type = "reserve"
      BY <1>3 DEF CheckLiquid, Inv, CallOK
    <3>2. Current(c) \in Request /\ leg[c] \in {1, 2} /\ leg[c] \in 1..Len(Legs(Current(c)))
      BY <3>1, CurrentType DEF Suspended, Inv, TypeOK
    <3>3. Len(Legs(Current(c))) = 1 \/ Len(Legs(Current(c))) = 2
      BY <3>2, LegsType
    <3>4. Len(Legs(Current(c))) # 2
      BY <3>1, <3>2, SecondLeg
    <3>5. Len(Legs(Current(c))) = 1
      BY <3>3, <3>4
    <3> QED BY <3>1, <3>2, <3>5
  <2>2. CASE Answer(c, FALSE, bal)
    <3>1. pc[c] \in Suspended /\ pc[c] \in {"check", "fetch", "store"}
      BY <2>1 DEF Suspended
    <3>2. Shaped'
      BY <1>1, <2>2, <3>1, AnswerShaped
    <3>3. Grows(left)
      <4>1. leg[c] # 2
        BY <2>1
      <4> QED BY <1>1, <2>2, <3>1, <4>1, ToldRefused
    <3> QED BY <3>2, <3>3
  <2>3. CASE pc' = [pc EXCEPT ![c] = "fetch"] /\ UNCHANGED <<resp, leg>>
    BY <1>2, <2>1, <2>3 DEF Both, Suspended
  <2> QED BY <1>3, <2>2, <2>3 DEF CheckLiquid
<1>4. CASE CreateEntry(c)
  <2>1. pc[c] = "fetch"
    BY <1>4 DEF CreateEntry
  <2>2. CASE ValidLeg(CurrentLeg(c))
    <3>1. pc' = [pc EXCEPT ![c] = "store"] /\ UNCHANGED <<resp, leg>>
      BY <1>4, <2>2 DEF CreateEntry, ValidLeg
    <3> QED BY <1>2, <2>1, <3>1 DEF Both, Suspended
  <2>3. CASE ~ValidLeg(CurrentLeg(c))
    <3>1. Throw(c, bal)
      BY <1>4, <2>3 DEF CreateEntry, ValidLeg
    <3> QED BY <1>1, <2>1, <2>3, <3>1, ThrowTold
  <2> QED BY <2>2, <2>3
<1>5. CASE FlushEntries(c)
  BY <1>2, <1>5 DEF FlushEntries, Both, Suspended
<1>6. CASE FlushAccounts(c)
  BY <1>2, <1>6 DEF FlushAccounts, Both, Suspended
<1>7. CASE RepoFails(c)
  <2>1. /\ Reject(c) /\ pc[c] \in {"store", "debit", "credit", "flushEntries", "flushAccounts"}
        /\ pc[c] = "store" => ~InBatch(Current(c))
    BY <1>7 DEF RepoFails
  <2>2. CASE pc[c] \in {"store", "debit", "credit"}
    <3>1. ~InBatch(Current(c)) /\ pc[c] \in Suspended
      BY <2>1, <2>2 DEF Inv, CallOK, Suspended
    <3>2. ~InBatch(reqs[c][1])
      BY <3>1, CurrentType
    <3> QED BY <1>1, <2>1, <3>2, RejectShaped, ToldReject
  <2>3. CASE pc[c] \in {"flushEntries", "flushAccounts"}
    BY <1>2, <2>1, <2>3 DEF Reject, Both, Suspended
  <2> QED BY <2>1, <2>2, <2>3
<1> QED BY <1>3, <1>4, <1>5, <1>6, <1>7

Moves(c) == /\ \E p : pc' = [pc EXCEPT ![c] = p]
            /\ \E p : resp' = [resp EXCEPT ![c] = p]
            /\ \E p : leg' = [leg EXCEPT ![c] = p]

\* A call under way moves, and no other
LEMMA ResumeOnly ==
  ASSUME Inv, NEW c \in Calls, Resume(c)
  PROVE  reqs' = reqs /\ pc[c] \in Active /\ OnlyCall(c)
<1>1. reqs' = reqs /\ pc[c] \in Active
  BY DEF Resume, CheckLiquid, CreateEntry, PostInBatch, DebitDirect, CreditDirect, CompleteDirect,
         FlushEntries, FlushAccounts, RepoFails, Active
<1>2. Moves(c)
  <2>1. resp = [resp EXCEPT ![c] = resp[c]] /\ leg = [leg EXCEPT ![c] = leg[c]]
    BY DEF Inv, TypeOK
  <2>2. ASSUME NEW ok, NEW b, Answer(c, ok, b)
        PROVE  Moves(c)
    BY <2>2 DEF Answer, BeginFlush, Moves
  <2>3. ASSUME Reject(c)
        PROVE  Moves(c)
    BY <2>1, <2>3 DEF Reject, Moves
  <2>4. ASSUME NEW b, Throw(c, b)
        PROVE  Moves(c)
    BY <2>2, <2>3, <2>4 DEF Throw
  <2>5. ASSUME NEW b, NextLeg(c, b)
        PROVE  Moves(c)
    BY <2>1, <2>2, <2>5 DEF NextLeg, Moves
  <2>6. CheckLiquid(c) => Moves(c)
    BY <2>1, <2>2 DEF CheckLiquid, Moves
  <2>7. CreateEntry(c) => Moves(c)
    BY <2>1, <2>4 DEF CreateEntry, Moves
  <2>8. PostInBatch(c) => Moves(c)
    BY <2>4, <2>5 DEF PostInBatch
  <2>9. DebitDirect(c) \/ CreditDirect(c) => Moves(c)
    BY <2>1, <2>3 DEF DebitDirect, CreditDirect, Moves
  <2>10. CompleteDirect(c) => Moves(c)
    BY <2>2 DEF CompleteDirect
  <2>11. FlushEntries(c) \/ FlushAccounts(c) => Moves(c)
    BY <2>1 DEF FlushEntries, FlushAccounts, Moves
  <2>12. RepoFails(c) => Moves(c)
    BY <2>3 DEF RepoFails
  <2> QED BY <2>6, <2>7, <2>8, <2>9, <2>10, <2>11, <2>12 DEF Resume
<1> QED BY <1>1, <1>2 DEF Moves, OnlyCall, Inv, TypeOK

\* A failed call stays failed
LEMMA SafeNext ==
  ASSUME Inv, [Next]_vars, DirectSafe'
  PROVE  DirectSafe
<1> SUFFICES ASSUME NEW d \in Calls, pc[d] = "failed"
             PROVE  InBatch(reqs[d][1])
  BY DEF DirectSafe, Failed
<1>1. pc'[d] = "failed" /\ reqs'[d] = reqs[d]
  <2>1. CASE UNCHANGED vars
    BY <2>1 DEF vars
  <2>2. ASSUME NEW c \in Calls, Start(c)
        PROVE  pc'[d] = "failed" /\ reqs'[d] = reqs[d]
    BY <2>2 DEF Start, Arrive, Inv, TypeOK
  <2>3. ASSUME NEW c \in Calls, Resume(c)
        PROVE  pc'[d] = "failed" /\ reqs'[d] = reqs[d]
    <3>1. reqs' = reqs /\ pc[c] # "failed" /\ OnlyCall(c)
      BY <2>3, ResumeOnly DEF Active
    <3> QED BY <3>1 DEF OnlyCall
  <2> QED BY <2>1, <2>2, <2>3 DEF Next
<1> QED BY <1>1 DEF DirectSafe, Failed

LEMMA ToldInit == Init => Shaped /\ ToldRight
<1> SUFFICES ASSUME Init PROVE Shaped /\ ToldRight
  OBVIOUS
<1>1. EntriesAsked = {}
  <2>1. \A c, i, k : ~IsAsked(c, i, k)
    BY DEF Init, IsAsked
  <2> QED BY <2>1, AskedIs
<1>2. LeftBehind = {} /\ \A half : Posted(half) = {}
  BY <1>1 DEF LeftBehind, Posted
<1>3. Amount(reqs, {}) = 0
  BY SumEmpty DEF Amount
<1>4. DrBook(reqs, bal, {}) /\ CrBook(reqs, bal, {})
  <2> SUFFICES ASSUME NEW a \in Accounts, NEW p \in BOOLEAN
               PROVE  /\ bal[a][DrField(p)] = InitBalance[a][DrField(p)] + Amount(reqs, Drs(reqs, {}, a, p))
                      /\ bal[a][CrField(p)] = InitBalance[a][CrField(p)] + Amount(reqs, Crs(reqs, {}, a, p))
    BY DEF DrBook, CrBook
  <2>1. Drs(reqs, {}, a, p) = {} /\ Crs(reqs, {}, a, p) = {}
    BY DEF Drs, Crs
  <2>2. bal = InitBalance /\ \A f \in Fields : InitBalance[a][f] \in Nat
    BY AccountsAssumption DEF Init, Balance
  <2>3. DrField(p) \in Fields /\ CrField(p) \in Fields
    BY DEF DrField, CrField, Fields
  <2> QED BY <1>3, <2>1, <2>2, <2>3
<1>5. ToldBy({})
  <2>1. \A half : {} \cup Posted(half) = {}
    BY <1>2
  <2> QED BY <1>4, <2>1, FS_EmptySet DEF ToldBy
<1> QED BY <1>5, ShapedInit DEF ToldRight

LEMMA StutterPosted ==
  ASSUME Shaped, UNCHANGED vars
  PROVE  /\ Shaped' /\ UNCHANGED <<reqs, bal>> /\ LeftBehind' = LeftBehind
         /\ Posted(Both)' = Posted(Both) /\ Posted(Second)' = Posted(Second)
<1>1. UNCHANGED <<pc, reqs, resp, leg, bal>>
  BY DEF vars
<1>2. Shaped'
  BY <1>1 DEF Shaped, ValidLeg, Current
<1>3. \A d, i, k : /\ IsAsked(d, i, k)' <=> IsAsked(d, i, k)
                   /\ IsLeft(d, i, k)' <=> IsLeft(d, i, k)
                   /\ \A half : IsPosted(d, i, k, half)' <=> IsPosted(d, i, k, half)
  BY <1>1 DEF IsAsked, IsLeft, IsPosted, Accepted
<1>4. ASSUME NEW half PROVE Posted(half)' = Posted(half)
  <2>1. \A d, i, k : <<d, i, k>> \in Posted(half)' <=> <<d, i, k>> \in Posted(half)
    BY <1>3, PostedIs, PostedIsNext DEF PostedAre
  <2> QED BY <2>1, PostedIs, PostedIsNext DEF PostedAre
<1>5. LeftBehind' = LeftBehind
  <2>1. \A d, i, k : <<d, i, k>> \in LeftBehind' <=> <<d, i, k>> \in LeftBehind
    BY <1>3, PostedIs, PostedIsNext DEF LeftAre
  <2> QED BY <2>1, PostedIs, PostedIsNext DEF LeftAre
<1> QED BY <1>1, <1>2, <1>4, <1>5

\* Every step keeps the balances told
LEMMA GrowsNext ==
  ASSUME TallyInv, Shaped, [Next]_vars, OneHub, IsFiniteSet(Accounts), NEW left
  PROVE  Shaped' /\ Grows(left)
<1>1. CASE UNCHANGED vars
  BY <1>1, StutterPosted, ToldSame
<1>2. CASE Next
  <2>1. PICK c \in Calls : Start(c) \/ Resume(c)
    BY <1>2 DEF Next
  <2> QED BY <2>1, StartTold, PostInBatchTold, DirectTold, OtherTold DEF Resume, TallyInv
<1> QED BY <1>1, <1>2

LEMMA ToldNext ==
  ASSUME ToldInv, [Next]_vars, OneHub, IsFiniteSet(Accounts)
  PROVE  ToldInv'
<1>1. TallyInv' /\ Shaped'
  BY TallyNext, GrowsNext DEF ToldInv
<1>2. ToldRight'
  <2> SUFFICES ASSUME DirectSafe' PROVE \E more : ToldBy(more)'
    BY DEF ToldRight
  <2>1. PICK left : ToldBy(left)
    BY SafeNext DEF ToldInv, TallyInv, ToldRight
  <2>2. Grows(left)
    BY GrowsNext DEF ToldInv
  <2> QED BY <2>1, <2>2 DEF Grows
<1> QED BY <1>1, <1>2 DEF ToldInv

LEMMA ToldHolds ==
  ASSUME OneHub, IsFiniteSet(Accounts), Tallied(InitBalance)
  PROVE  Spec => []ToldInv
<1>1. Init => ToldInv
  BY InitInv, ValidatedInit, ToldInit DEF ToldInv, TallyInv, Init, HubTally, Tallied, Served
<1>2. ToldInv /\ [Next]_vars => ToldInv'
  BY ToldNext
<1> QED BY <1>1, <1>2, PTL DEF Spec

\* What the balances hold, for some of what refused commits may leave behind
BalancesExplained ==
  (\A c \in Failed : InBatch(reqs[c][1])) =>
    \E left \in SUBSET LeftBehind :
      Explained(bal, left \cup Posted({"debit", "credit"}), left \cup Posted({"credit"}))

\* For any workload, however calls overlap and flushes fail, while no low-level
\* call has failed: every balance is its initial value plus the entries of
\* exactly the requests answered with success, but for cancellations that
\* commits with a payee that cannot be credited leave behind.  No update is
\* lost, made twice, or made for another request that was refused.
THEOREM BalancesAreExplained ==
  ASSUME OneHub, IsFiniteSet(Accounts), Tallied(InitBalance)
  PROVE  Spec => []BalancesExplained
<1>1. ToldInv => BalancesExplained
  BY ExplainedIs DEF ToldInv, ToldRight, ToldBy, BalancesExplained, DirectSafe, Both, Second
<1> QED BY <1>1, ToldHolds, PTL

\* For any workload, however calls overlap and flushes fail, while no low-level
\* call has failed: every balance that no half-done commit has changed is its
\* initial value plus the entries of exactly the requests answered with success.
THEOREM AnswersTell ==
  ASSUME OneHub, IsFiniteSet(Accounts), Tallied(InitBalance)
  PROVE  Spec => []AnswersTellBalances
<1>1. ToldInv => AnswersTellBalances
  <2> SUFFICES ASSUME ToldInv, DirectSafe, NEW a \in Accounts, NEW p \in BOOLEAN,
                      ~HalfDone(a, p)
               PROVE  ExplainedAt(bal, Posted(Both), Posted(Second), a, p)
    BY DEF AnswersTellBalances, DirectSafe, Both, Second
  <2>1. PICK left : ToldBy(left)
    BY DEF ToldInv, ToldRight
  <2>2. \A e \in left : ~(LegAt(reqs, e).pending = p /\ a \in {LegAt(reqs, e).dr, LegAt(reqs, e).cr})
    BY <2>1 DEF ToldBy, HalfDone, LegOf, LegAt
  <2>3. /\ Drs(reqs, left \cup Posted(Both), a, p) = Drs(reqs, Posted(Both), a, p)
        /\ Crs(reqs, left \cup Posted(Second), a, p) = Crs(reqs, Posted(Second), a, p)
    BY <2>2 DEF Drs, Crs
  <2>4. /\ bal[a][DrField(p)] = InitBalance[a][DrField(p)]
                                  + Amount(reqs, Drs(reqs, left \cup Posted(Both), a, p))
        /\ bal[a][CrField(p)] = InitBalance[a][CrField(p)]
                                  + Amount(reqs, Crs(reqs, left \cup Posted(Second), a, p))
    BY <2>1 DEF ToldBy, DrBook, CrBook
  <2> QED BY <2>3, <2>4, ExplainedAtIs
<1> QED BY <1>1, ToldHolds, PTL

-----------------------------------------------------------------------------
(* A call answers its requests in order, and all of them before it flushes *)

Answered(c) ==
  /\ Len(resp[c]) <= Len(reqs[c])
  /\ pc[c] \in Flushing \cup {"done"} => Len(resp[c]) = Len(reqs[c])

Complete == \A c \in Calls : Answered(c)

LEMMA CompleteFrame ==
  ASSUME Complete, NEW c \in Calls, OnlyCall(c), reqs' = reqs, Answered(c)'
  PROVE  Complete'
<1> SUFFICES ASSUME NEW d \in Calls \ {c}
             PROVE  Answered(d)'
  BY DEF Complete
<1>1. pc'[d] = pc[d] /\ resp'[d] = resp[d]
  BY DEF OnlyCall
<1> QED BY <1>1 DEF Complete, Answered

LEMMA AnswerComplete ==
  ASSUME Inv, Complete, NEW c \in Calls, NEW ok \in BOOLEAN, NEW b \in [Accounts -> Balance],
         pc[c] \in Suspended, Answer(c, ok, b), reqs' = reqs
  PROVE  Complete'
<1>1. /\ OnlyCall(c) /\ resp'[c] = Append(resp[c], ok) /\ resp[c] \in Seq(BOOLEAN)
      /\ Len(resp[c]) + 1 < Len(reqs[c]) => pc'[c] \in {"check", "fetch"}
  BY AnswerOK DEF Answer, EntryPoint, Inv, TypeOK
<1>2. Len(resp'[c]) = Len(resp[c]) + 1 /\ Len(resp[c]) \in Nat
  BY <1>1
<1>3. Len(resp[c]) + 1 \in 1..Len(reqs[c]) /\ Len(reqs[c]) \in Nat
  <2>1. reqs[c] \in Seq(HighLevel) \cup Seq(LowLevel)
    BY DEF Inv, TypeOK
  <2> QED BY <2>1, CurrentType
<1>4. Answered(c)'
  BY <1>1, <1>2, <1>3 DEF Answered, Flushing
<1> QED BY <1>1, <1>4, CompleteFrame

\* A step that answers nothing, and turns to no flush
LEMMA MoveComplete ==
  ASSUME Complete, NEW c \in Calls, OnlyCall(c), reqs' = reqs, resp'[c] = resp[c],
         pc'[c] \in Flushing \cup {"done"} => pc[c] \in Flushing
  PROVE  Complete'
<1>1. Answered(c)'
  BY DEF Complete, Answered
<1> QED BY <1>1, CompleteFrame

LEMMA RejectComplete ==
  ASSUME Inv, Complete, NEW c \in Calls, Reject(c), reqs' = reqs
  PROVE  Complete'
<1>1. OnlyCall(c) /\ resp'[c] = resp[c] /\ pc'[c] = "failed"
  BY RejectOK DEF Reject, Inv, TypeOK
<1> QED BY <1>1, MoveComplete DEF Flushing

LEMMA NextLegComplete ==
  ASSUME Inv, Complete, NEW c \in Calls, NEW b \in [Accounts -> Balance],
         pc[c] = "store", NextLeg(c, b) \/ Throw(c, b), reqs' = reqs
  PROVE  Complete'
<1>1. CASE Answer(c, TRUE, b) \/ Answer(c, FALSE, b)
  BY <1>1, AnswerComplete DEF Suspended
<1>2. CASE Reject(c)
  BY <1>2, RejectComplete
<1>3. CASE /\ leg' = [leg EXCEPT ![c] = @ + 1] /\ pc' = [pc EXCEPT ![c] = "fetch"]
           /\ resp' = resp
  <2>1. OnlyCall(c) /\ pc'[c] = "fetch"
    BY <1>3 DEF OnlyCall, Inv, TypeOK
  <2> QED BY <1>3, <2>1, MoveComplete DEF Flushing
<1> QED BY <1>1, <1>2, <1>3 DEF NextLeg, Throw

LEMMA CompleteInit == Init => Complete
BY DEF Init, Complete, Answered, Flushing

LEMMA CompleteNext ==
  ASSUME Inv, Complete, [Next]_vars
  PROVE  Complete'
<1>1. CASE UNCHANGED vars
  BY <1>1 DEF vars, Complete, Answered
<1>2. ASSUME NEW c \in Calls, Start(c)
      PROVE  Complete'
  <2>1. PICK w \in Workload : /\ pc[c] = "idle"
                              /\ reqs' = [reqs EXCEPT ![c] = w]
                              /\ pc' = [pc EXCEPT ![c] = EntryPoint(w[1])]
                              /\ resp' = resp
    BY <1>2 DEF Start, Arrive
  <2>2. /\ resp'[c] = <<>> /\ reqs'[c] = w /\ pc'[c] \in {"check", "fetch"}
        /\ \A d \in Calls \ {c} : reqs'[d] = reqs[d] /\ pc'[d] = pc[d] /\ resp'[d] = resp[d]
    BY <2>1 DEF EntryPoint, Inv, CallOK, TypeOK
  <2>3. Len(w) \in Nat
    <3>1. w \in Seq(HighLevel) \cup Seq(LowLevel)
      BY WorkloadAssumption
    <3> QED BY <3>1
  <2> QED BY <2>2, <2>3 DEF Complete, Answered, Flushing
<1>3. ASSUME NEW c \in Calls, Resume(c)
      PROVE  Complete'
  <2>1. reqs' = reqs /\ OnlyCall(c) /\ bal \in [Accounts -> Balance] /\ pc \in [Calls -> {"idle"} \cup Active \cup Ended]
    BY <1>3, ResumeOnly DEF Inv, TypeOK
  <2>2. ASSUME NEW q, pc' = [pc EXCEPT ![c] = q], resp' = resp,
               q \in Flushing \cup {"done"} => pc[c] \in Flushing
        PROVE  Complete'
    BY <2>1, <2>2, MoveComplete
  <2>3. CASE CheckLiquid(c)
    BY <2>1, <2>2, <2>3, AnswerComplete DEF CheckLiquid, Suspended, Flushing
  <2>4. CASE CreateEntry(c)
    <3>1. CASE Throw(c, bal)
      BY <2>1, <2>4, <3>1, AnswerComplete, RejectComplete DEF Throw, CreateEntry, Suspended
    <3> QED BY <2>2, <2>4, <3>1 DEF CreateEntry, Flushing
  <2>5. CASE PostInBatch(c)
    <3>1. CurrentLeg(c) \in Leg /\ CurrentLeg(c).dr \in Accounts /\ CurrentLeg(c).cr \in Accounts
      BY <2>5, CurrentType DEF PostInBatch, Suspended, Inv, CallOK
    <3>2. PICK b \in [Accounts -> Balance] : Throw(c, b) \/ NextLeg(c, b)
      BY <2>1, <2>5, <3>1, DebitType, CreditType DEF PostInBatch
    <3> QED BY <2>1, <2>5, <3>2, NextLegComplete DEF PostInBatch
  <2>6. CASE DebitDirect(c)
    BY <2>1, <2>2, <2>6, RejectComplete DEF DebitDirect, Flushing
  <2>7. CASE CreditDirect(c)
    BY <2>1, <2>2, <2>7, RejectComplete DEF CreditDirect, Flushing
  <2>8. CASE CompleteDirect(c)
    BY <2>1, <2>8, AnswerComplete DEF CompleteDirect, Suspended
  <2>9. CASE FlushEntries(c)
    BY <2>2, <2>9 DEF FlushEntries, Flushing
  <2>10. CASE FlushAccounts(c)
    BY <2>2, <2>10 DEF FlushAccounts, Flushing
  <2>11. CASE RepoFails(c)
    BY <2>1, <2>11, RejectComplete DEF RepoFails
  <2> QED BY <1>3, <2>3, <2>4, <2>5, <2>6, <2>7, <2>8, <2>9, <2>10, <2>11 DEF Resume
<1> QED BY <1>1, <1>2, <1>3 DEF Next

-----------------------------------------------------------------------------
(* Clients that settle only what they reserved *)

Reserves(c, i, t) ==
  /\ c \in Calls /\ i \in DOMAIN reqs[c]
  /\ reqs[c][i].type = "reserve" /\ reqs[c][i].t = t

Settles(c, i, t) ==
  /\ c \in Calls /\ i \in DOMAIN reqs[c]
  /\ reqs[c][i].type \in {"commit", "cancel"} /\ reqs[c][i].t = t

\* The first entry of the i-th request of c is posted, if it is not refused
Reached(c, i) == i \in DOMAIN resp[c] \/ (i = Len(resp[c]) + 1 /\ leg[c] = 2)

Made(t) == \E c, i : Reserves(c, i, t) /\ Accepted(c, i)
Undone(t) == \E c, i : Settles(c, i, t) /\ Reached(c, i)

\* The reservations in the payer's pending debit
Open(p) == {t \in Transfers : Transfer[t].payer = p /\ Made(t) /\ ~Undone(t)}

AmountOf == [t \in Transfers |-> Transfer[t].amount]

Once ==
  \A t, c, i, d, j :
    /\ Reserves(c, i, t) /\ Reserves(d, j, t) => c = d /\ i = j
    /\ Settles(c, i, t) /\ Settles(d, j, t) => c = d /\ i = j

ReservedFirst ==
  \A t, c, i : Settles(c, i, t) =>
    \E d, j : Reserves(d, j, t) /\ Accepted(d, j) /\ pc[d] = "done"

\* What is reserved was valid; only a payee that cannot be credited makes a
\* settlement fail
Sound ==
  \A t, c, i :
    /\ Reserves(c, i, t) /\ Accepted(c, i) => ValidLeg(Reservation(Transfer[t], Transfer[t].amount))
    /\ Settles(c, i, t) /\ i \in DOMAIN resp[c] /\ ~resp[c][i] =>
         reqs[c][i].type = "commit" /\ ~Payable(Transfer[t])

Books ==
  \A p \in Payers \cap Accounts :
    /\ IsFiniteSet(Open(p))
    /\ bal[p].pendDr = SumFunctionOnSet(AmountOf, Open(p))

Orderly == Once /\ ReservedFirst /\ Sound
OrderInv == TallyInv /\ Shaped /\ Complete /\ Orderly /\ Books

\* A commit newly left behind was refused at its second entry
LateLeft == \A e \in LeftBehind' \ LeftBehind : leg[e[1]] = 2

\* The balance that reservations change
SamePending == \A p \in Payers \cap Accounts : bal'[p].pendDr = bal[p].pendDr

-----------------------------------------------------------------------------
(* What a step does to the reservations *)

LEMMA AskFrame ==
  ASSUME reqs' = reqs
  PROVE  \A c, i, t : /\ Reserves(c, i, t)' <=> Reserves(c, i, t)
                      /\ Settles(c, i, t)' <=> Settles(c, i, t)
BY DEF Reserves, Settles

LEMMA OrderFrame ==
  ASSUME Once, ReservedFirst, NEW c \in Calls, OnlyCall(c), reqs' = reqs, pc[c] # "done"
  PROVE  Once' /\ ReservedFirst'
<1>1. Once'
  BY AskFrame DEF Once
<1>2. ASSUME NEW t, NEW d, NEW i, Settles(d, i, t)'
      PROVE  \E e, j : Reserves(e, j, t)' /\ Accepted(e, j)' /\ pc'[e] = "done"
  <2>1. PICK e, j : Reserves(e, j, t) /\ Accepted(e, j) /\ pc[e] = "done"
    BY <1>2, AskFrame DEF ReservedFirst
  <2>2. e \in Calls \ {c}
    BY <2>1 DEF Reserves
  <2>3. Accepted(e, j)' /\ pc'[e] = "done"
    BY <2>1, <2>2 DEF OnlyCall, Accepted
  <2> QED BY <2>1, <2>3, AskFrame
<1> QED BY <1>1, <1>2 DEF ReservedFirst

\* A step that answers nothing
LEMMA OpenSame ==
  ASSUME NEW c \in Calls, OnlyCall(c), reqs' = reqs, resp'[c] = resp[c],
         leg'[c] = leg[c]
  PROVE  /\ \A t : Made(t)' <=> Made(t)
         /\ \A t : Undone(t)' <=> Undone(t)
         /\ Sound => Sound'
<1>1. \A d \in Calls : resp'[d] = resp[d] /\ leg'[d] = leg[d]
  BY DEF OnlyCall
<1>2. \A d \in Calls : \A i : /\ Accepted(d, i)' <=> Accepted(d, i)
                              /\ Reached(d, i)' <=> Reached(d, i)
  BY <1>1 DEF Accepted, Reached
<1>3. \A d, i, t : /\ Reserves(d, i, t) => d \in Calls
                   /\ Settles(d, i, t) => d \in Calls
  BY DEF Reserves, Settles
<1>4. \A t : Made(t)' <=> Made(t)
  BY <1>2, <1>3, AskFrame DEF Made
<1>5. \A t : Undone(t)' <=> Undone(t)
  BY <1>2, <1>3, AskFrame DEF Undone
<1>6. ASSUME Sound, NEW t, NEW d, NEW i
      PROVE  /\ Reserves(d, i, t)' /\ Accepted(d, i)' =>
                  ValidLeg(Reservation(Transfer[t], Transfer[t].amount))
             /\ Settles(d, i, t)' /\ i \in DOMAIN resp'[d] /\ ~resp'[d][i] =>
                  reqs'[d][i].type = "commit" /\ ~Payable(Transfer[t])
  BY <1>1, <1>2, <1>3, <1>6, AskFrame DEF Sound
<1>7. Sound => Sound'
  BY <1>6 DEF Sound, ValidLeg, Payable, Reservation
<1> QED BY <1>4, <1>5, <1>7

\* A batch turns to the second entry of a request
LEMMA OpenNextLeg ==
  ASSUME NEW c \in Calls, OnlyCall(c), reqs' = reqs, resp'[c] = resp[c],
         leg[c] = 1, leg'[c] = 2
  PROVE  /\ \A t : Made(t)' <=> Made(t)
         /\ \A t : Undone(t)' <=> Undone(t) \/ Settles(c, Len(resp[c]) + 1, t)
         /\ Sound => Sound'
<1>1. /\ \A d \in Calls : resp'[d] = resp[d]
      /\ \A d \in Calls \ {c} : leg'[d] = leg[d]
  BY DEF OnlyCall
<1>2. \A d \in Calls : \A i : /\ Accepted(d, i)' <=> Accepted(d, i)
                              /\ Reached(d, i)' <=> Reached(d, i) \/ (d = c /\ i = Len(resp[c]) + 1)
  BY <1>1 DEF Accepted, Reached
<1>3. \A d, i, t : /\ Reserves(d, i, t) => d \in Calls
                   /\ Settles(d, i, t) => d \in Calls
  BY DEF Reserves, Settles
<1>4. \A t : Made(t)' <=> Made(t)
  BY <1>2, <1>3, AskFrame DEF Made
<1>5. \A t : Undone(t)' <=> Undone(t) \/ Settles(c, Len(resp[c]) + 1, t)
  BY <1>2, <1>3, AskFrame DEF Undone
<1>6. ASSUME Sound, NEW t, NEW d, NEW i
      PROVE  /\ Reserves(d, i, t)' /\ Accepted(d, i)' =>
                  ValidLeg(Reservation(Transfer[t], Transfer[t].amount))
             /\ Settles(d, i, t)' /\ i \in DOMAIN resp'[d] /\ ~resp'[d][i] =>
                  reqs'[d][i].type = "commit" /\ ~Payable(Transfer[t])
  BY <1>1, <1>2, <1>3, <1>6, AskFrame DEF Sound
<1>7. Sound => Sound'
  BY <1>6 DEF Sound, ValidLeg, Payable, Reservation
<1> QED BY <1>4, <1>5, <1>7

\* A request is answered
LEMMA OpenAnswer ==
  ASSUME NEW c \in Calls, OnlyCall(c), reqs' = reqs, NEW ok \in BOOLEAN,
         resp[c] \in Seq(BOOLEAN), resp'[c] = Append(resp[c], ok), leg'[c] = 1,
         NEW i, i = Len(resp[c]) + 1
  PROVE  /\ \A t : Made(t)' <=> Made(t) \/ (ok /\ Reserves(c, i, t))
         /\ \A t : Undone(t)' <=> Undone(t) \/ Settles(c, i, t)
         /\ /\ Sound
            /\ \A t : /\ ok /\ Reserves(c, i, t) => ValidLeg(Reservation(Transfer[t], Transfer[t].amount))
                      /\ ~ok /\ Settles(c, i, t) => reqs[c][i].type = "commit" /\ ~Payable(Transfer[t])
            => Sound'
<1>1. \A d \in Calls \ {c} : resp'[d] = resp[d] /\ leg'[d] = leg[d]
  BY DEF OnlyCall
<1>2. /\ DOMAIN resp[c] = 1..Len(resp[c]) /\ DOMAIN resp'[c] = 1..i /\ Len(resp[c]) \in Nat
      /\ \A n \in 1..Len(resp[c]) : resp'[c][n] = resp[c][n]
      /\ resp'[c][i] = ok
  OBVIOUS
<1>3. \A d \in Calls \ {c} : \A n : /\ Accepted(d, n)' <=> Accepted(d, n)
                                    /\ Reached(d, n)' <=> Reached(d, n)
  BY <1>1 DEF Accepted, Reached
<1>4. \A n : /\ Accepted(c, n)' <=> Accepted(c, n) \/ (ok /\ n = i)
             /\ Reached(c, n)' <=> Reached(c, n) \/ n = i
             /\ n \in DOMAIN resp'[c] <=> n \in DOMAIN resp[c] \/ n = i
             /\ n \in DOMAIN resp[c] => n # i
  BY <1>2 DEF Accepted, Reached
<1>5. \A d, n, t : /\ Reserves(d, n, t) => d \in Calls
                   /\ Settles(d, n, t) => d \in Calls
  BY DEF Reserves, Settles
<1>6. \A t : Made(t)' <=> Made(t) \/ (ok /\ Reserves(c, i, t))
  BY <1>3, <1>4, <1>5, AskFrame DEF Made
<1>7. \A t : Undone(t)' <=> Undone(t) \/ Settles(c, i, t)
  BY <1>3, <1>4, <1>5, AskFrame DEF Undone
<1>8. ASSUME Sound,
             \A t : /\ ok /\ Reserves(c, i, t) => ValidLeg(Reservation(Transfer[t], Transfer[t].amount))
                    /\ ~ok /\ Settles(c, i, t) => reqs[c][i].type = "commit" /\ ~Payable(Transfer[t])
      PROVE  Sound'
  <2>1. ASSUME NEW t, NEW d, NEW n
        PROVE  /\ Reserves(d, n, t)' /\ Accepted(d, n)' =>
                    ValidLeg(Reservation(Transfer[t], Transfer[t].amount))
               /\ Settles(d, n, t)' /\ n \in DOMAIN resp'[d] /\ ~resp'[d][n] =>
                    reqs'[d][n].type = "commit" /\ ~Payable(Transfer[t])
    <3>1. CASE d # c
      BY <1>1, <1>3, <1>5, <1>8, <3>1, AskFrame DEF Sound
    <3>2. CASE d = c /\ n # i
      <4>1. /\ Accepted(c, n)' <=> Accepted(c, n)
            /\ n \in DOMAIN resp'[c] => n \in DOMAIN resp[c] /\ resp'[c][n] = resp[c][n]
        BY <1>2, <1>4, <3>2
      <4> QED BY <1>8, <3>2, <4>1, AskFrame DEF Sound
    <3>3. CASE d = c /\ n = i
      <4>1. ~Accepted(c, i)
        BY <1>4 DEF Accepted
      <4> QED BY <1>2, <1>4, <1>8, <3>3, <4>1, AskFrame
    <3> QED BY <3>1, <3>2, <3>3
  <2> QED BY <2>1 DEF Sound, ValidLeg, Payable, Reservation
<1> QED BY <1>6, <1>7, <1>8

\* What a request of a batch asks, and the entry it posts
CurrentIs(c, i, t) ==
  /\ t \in Transfers
  /\ Current(c).type = "reserve" =>
       /\ Reserves(c, i, t) /\ leg[c] = 1 /\ Len(Legs(Current(c))) = 1
       /\ CurrentLeg(c) = Reservation(Transfer[t], Transfer[t].amount)
  /\ Current(c).type # "reserve" => Settles(c, i, t)
  /\ Current(c).type # "reserve" /\ leg[c] = 1 =>
       CurrentLeg(c) = Reservation(Transfer[t], -Transfer[t].amount)
  /\ leg[c] = 2 => Current(c).type = "commit" /\ CurrentLeg(c) = Movement(Transfer[t])
  /\ leg[c] = 1 \/ leg[c] = 2
  /\ \A u : Reserves(c, i, u) => Current(c).type = "reserve" /\ u = t
  /\ \A u : Settles(c, i, u) => Current(c).type # "reserve" /\ u = t

LEMMA CurrentKind ==
  ASSUME Inv, NEW c \in Calls, pc[c] \in Suspended, InBatch(Current(c))
  PROVE  CurrentIs(c, Len(resp[c]) + 1, Current(c).t)
<1>0. PICK i : i = Len(resp[c]) + 1
  OBVIOUS
<1>00. PICK t : t = Current(c).t
  OBVIOUS
<1> SUFFICES CurrentIs(c, i, t)
  BY <1>0, <1>00
<1> USE DEF CurrentIs
<1>1. /\ i \in 1..Len(reqs[c]) /\ Current(c) = reqs[c][i] /\ Current(c) \in Request
      /\ leg[c] \in 1..Len(Legs(Current(c)))
      /\ reqs[c] \in Seq(HighLevel) \cup Seq(LowLevel) /\ leg[c] \in {1, 2}
  BY <1>0, CurrentType DEF Current, Inv, TypeOK
<1>2. i \in DOMAIN reqs[c]
  BY <1>1
<1>3. t \in Transfers /\ Current(c).type \in {"reserve", "commit", "cancel"}
  BY <1>00, <1>1 DEF InBatch, Request, HighLevel, LowLevel
<1>4. CASE Current(c).type = "reserve"
  <2>1. Legs(Current(c)) = <<Reservation(Transfer[t], Transfer[t].amount)>>
    BY <1>00, <1>4 DEF Legs
  <2>2. Len(Legs(Current(c))) = 1
    BY <2>1
  <2>3. leg[c] = 1
    BY <1>1, <2>2
  <2> QED BY <1>00, <1>1, <1>2, <1>3, <1>4, <2>1, <2>2, <2>3 DEF Reserves, Settles, CurrentLeg
<1>5. CASE Current(c).type = "cancel"
  <2>1. Legs(Current(c)) = <<Reservation(Transfer[t], -Transfer[t].amount)>>
    BY <1>00, <1>5 DEF Legs
  <2>2. Len(Legs(Current(c))) = 1
    BY <2>1
  <2>3. leg[c] = 1
    BY <1>1, <2>2
  <2> QED BY <1>00, <1>1, <1>2, <1>3, <1>5, <2>1, <2>3 DEF Reserves, Settles, CurrentLeg
<1>6. CASE Current(c).type = "commit"
  <2>1. Legs(Current(c)) = <<Reservation(Transfer[t], -Transfer[t].amount), Movement(Transfer[t])>>
    BY <1>00, <1>6 DEF Legs
  <2> QED BY <1>00, <1>1, <1>2, <1>3, <1>6, <2>1 DEF Reserves, Settles, CurrentLeg
<1> QED BY <1>3, <1>4, <1>5, <1>6

\* A low-level entry neither reserves nor settles
LEMMA DirectAsks ==
  ASSUME NEW c, NEW i, i \in DOMAIN reqs[c], ~InBatch(reqs[c][i]), NEW t
  PROVE  ~Reserves(c, i, t) /\ ~Settles(c, i, t)
BY DEF InBatch, Reserves, Settles

\* The reservation a request under way asks for is not made, nor undone
LEMMA NotMade ==
  ASSUME Inv, Orderly, NEW c \in Calls, pc[c] \in Suspended, NEW t,
         NEW i, i = Len(resp[c]) + 1, Reserves(c, i, t)
  PROVE  ~Made(t) /\ ~Undone(t)
<1>1. ~Accepted(c, i) /\ pc[c] # "done"
  <2>1. resp[c] \in Seq(BOOLEAN)
    BY DEF Inv, TypeOK
  <2> QED BY <2>1 DEF Accepted, Suspended
<1>2. ~Made(t)
  BY <1>1 DEF Made, Orderly, Once
<1>3. ~Undone(t)
  BY <1>1 DEF Undone, Orderly, Once, ReservedFirst
<1> QED BY <1>2, <1>3

\* The reservation a settlement under way is for is made and valid, and is not
\* undone before its first entry is posted
LEMMA ToSettle ==
  ASSUME Inv, Orderly, NEW c \in Calls, pc[c] \in Suspended, NEW t,
         NEW i, i = Len(resp[c]) + 1, Settles(c, i, t)
  PROVE  /\ Made(t)
         /\ ValidLeg(Reservation(Transfer[t], Transfer[t].amount))
         /\ ValidLeg(Reservation(Transfer[t], -Transfer[t].amount))
         /\ leg[c] = 1 => ~Undone(t)
         /\ leg[c] = 2 => Undone(t)
<1>1. PICK d, j : Reserves(d, j, t) /\ Accepted(d, j) /\ pc[d] = "done"
  BY DEF Orderly, ReservedFirst
<1>2. Made(t) /\ ValidLeg(Reservation(Transfer[t], Transfer[t].amount))
  BY <1>1 DEF Made, Orderly, Sound
<1>3. ValidLeg(Reservation(Transfer[t], -Transfer[t].amount))
  BY <1>2 DEF ValidLeg, Reservation
<1>4. ASSUME leg[c] = 1 PROVE ~Undone(t)
  <2>1. ~Reached(c, i)
    <3>1. resp[c] \in Seq(BOOLEAN)
      BY DEF Inv, TypeOK
    <3> QED BY <1>4, <3>1 DEF Reached
  <2> QED BY <2>1 DEF Undone, Orderly, Once
<1>5. ASSUME leg[c] = 2 PROVE Undone(t)
  BY <1>5 DEF Undone, Reached
<1> QED BY <1>2, <1>3, <1>4, <1>5

-----------------------------------------------------------------------------
(* The pending debit of a payer *)

LEMMA BooksSame ==
  ASSUME Books, SamePending,
         \A t : (Made(t)' <=> Made(t)) /\ (Undone(t)' <=> Undone(t))
  PROVE  Books'
<1>1. \A p : Open(p)' = Open(p)
  BY DEF Open
<1> QED BY <1>1 DEF Books, SamePending, AmountOf

LEMMA AmountsAre == \A t \in Transfers : AmountOf[t] = Transfer[t].amount /\ AmountOf[t] \in NatPos
BY RequestsAssumption DEF AmountOf, TransferTerms

LEMMA BooksMore ==
  ASSUME Books, bal \in [Accounts -> Balance], NEW t \in Transfers, NEW p, p = Transfer[t].payer,
         ~Made(t), ~Undone(t),
         \A a \in Accounts : bal'[a].pendDr = IF a = p THEN bal[a].pendDr + Transfer[t].amount
                                                       ELSE bal[a].pendDr,
         \A u : (Made(u)' <=> Made(u) \/ u = t) /\ (Undone(u)' <=> Undone(u))
  PROVE  Books'
<1> SUFFICES ASSUME NEW q \in Payers \cap Accounts
             PROVE  IsFiniteSet(Open(q)') /\ bal'[q].pendDr = SumFunctionOnSet(AmountOf, Open(q)')
  BY DEF Books, AmountOf
<1>1. IsFiniteSet(Open(q)) /\ bal[q].pendDr = SumFunctionOnSet(AmountOf, Open(q))
  BY DEF Books
<1>2. CASE q # p
  <2>1. Open(q)' = Open(q)
    BY <1>2 DEF Open
  <2> QED BY <1>1, <1>2, <2>1
<1>3. CASE q = p
  <2>1. Open(q)' = Open(q) \cup {t} /\ t \notin Open(q) /\ Open(q) \subseteq Transfers
    BY <1>3 DEF Open
  <2>2. \A u \in Open(q) \cup {t} : AmountOf[u] \in Int
    BY <2>1, AmountsAre DEF NatPos
  <2>3. /\ IsFiniteSet(Open(q) \cup {t})
        /\ SumFunctionOnSet(AmountOf, Open(q) \cup {t}) = AmountOf[t] + SumFunctionOnSet(AmountOf, Open(q))
    BY <1>1, <2>1, <2>2, SumAdd, FS_AddElement
  <2>4. SumFunctionOnSet(AmountOf, Open(q)) \in Int
    BY <1>1, <2>2, SumType
  <2>5. bal'[q].pendDr = bal[q].pendDr + AmountOf[t] /\ AmountOf[t] \in Int
    BY <1>3, AmountsAre DEF NatPos
  <2> QED BY <1>1, <2>1, <2>3, <2>4, <2>5
<1> QED BY <1>2, <1>3

\* What is reserved covers what is settled
LEMMA BooksCover ==
  ASSUME Books, NEW t \in Transfers, NEW p, p = Transfer[t].payer, p \in Accounts,
         Made(t), ~Undone(t)
  PROVE  bal[p].pendDr \in Nat /\ Transfer[t].amount <= bal[p].pendDr
<1>1. t \in Open(p) /\ Open(p) \subseteq Transfers /\ p \in Payers
  BY DEF Open, Payers
<1>2. \A u \in Open(p) : AmountOf[u] \in Nat
  BY <1>1, AmountsAre DEF NatPos
<1> QED BY <1>1, <1>2, SumNat, AmountsAre DEF Books

LEMMA BooksLess ==
  ASSUME Books, NEW t \in Transfers, NEW p, p = Transfer[t].payer,
         Made(t), ~Undone(t),
         \A a \in Accounts : bal'[a].pendDr = IF a = p THEN bal[a].pendDr + -Transfer[t].amount
                                                       ELSE bal[a].pendDr,
         \A u : (Made(u)' <=> Made(u)) /\ (Undone(u)' <=> Undone(u) \/ u = t)
  PROVE  Books'
<1> SUFFICES ASSUME NEW q \in Payers \cap Accounts
             PROVE  IsFiniteSet(Open(q)') /\ bal'[q].pendDr = SumFunctionOnSet(AmountOf, Open(q)')
  BY DEF Books, AmountOf
<1>1. IsFiniteSet(Open(q)) /\ bal[q].pendDr = SumFunctionOnSet(AmountOf, Open(q))
  BY DEF Books
<1>2. CASE q # p
  <2>1. Open(q)' = Open(q)
    BY <1>2 DEF Open
  <2> QED BY <1>1, <1>2, <2>1
<1>3. CASE q = p
  <2>1. Open(q)' = Open(q) \ {t} /\ t \in Open(q) /\ Open(q) \subseteq Transfers
    BY <1>3 DEF Open
  <2>2. \A u \in Open(q) : AmountOf[u] \in Int
    BY <2>1, AmountsAre DEF NatPos
  <2>3. /\ IsFiniteSet(Open(q) \ {t})
        /\ SumFunctionOnSet(AmountOf, Open(q)) = AmountOf[t] + SumFunctionOnSet(AmountOf, Open(q) \ {t})
    BY <1>1, <2>1, <2>2, SumRemove, FS_Subset
  <2>4. SumFunctionOnSet(AmountOf, Open(q) \ {t}) \in Int
    BY <2>2, <2>3, SumType
  <2>5. bal'[q].pendDr = bal[q].pendDr + -AmountOf[t] /\ AmountOf[t] \in Int
    BY <1>3, AmountsAre DEF NatPos
  <2> QED BY <1>1, <2>1, <2>3, <2>4, <2>5
<1> QED BY <1>2, <1>3

\* The pending debits after an entry is posted
LEMMA PendingAfter ==
  ASSUME NEW b \in [Accounts -> Balance], NEW l \in Leg, l.dr \in Accounts, l.cr \in Accounts,
         CanDebit(b, l), CanCredit(Debit(b, l), l)
  PROVE  \A a \in Accounts :
           Credit(Debit(b, l), l)[a].pendDr =
             IF a = l.dr /\ l.pending THEN b[a].pendDr + l.amount ELSE b[a].pendDr
<1>1. /\ Debit(b, l) \in [Accounts -> Balance]
      /\ \A a \in Accounts, f \in Fields :
           Debit(b, l)[a][f] = IF a = l.dr /\ f = DebitField(l) THEN b[a][f] + l.amount ELSE b[a][f]
  BY DebitBalance
<1>2. \A a \in Accounts, f \in Fields : f # CreditField(l) =>
        Credit(Debit(b, l), l)[a][f] = Debit(b, l)[a][f]
  BY <1>1, CreditBalance
<1>3. "pendDr" \in Fields /\ "pendDr" # CreditField(l) /\ ("pendDr" = DebitField(l) <=> l.pending)
  BY DEF Fields, CreditField, DebitField
<1> QED BY <1>1, <1>2, <1>3

-----------------------------------------------------------------------------
(* Every step keeps the reservations in order *)

\* A step that answers nothing
LEMMA PcOrder ==
  ASSUME Orderly, Books, NEW c \in Calls, OnlyCall(c), reqs' = reqs, resp'[c] = resp[c],
         leg'[c] = leg[c], pc[c] # "done", SamePending
  PROVE  Orderly' /\ Books' /\ LateLeft
<1>1. Orderly'
  BY OrderFrame, OpenSame DEF Orderly
<1>2. Books'
  BY OpenSame, BooksSame
<1>3. LateLeft
  BY LeftSame DEF LateLeft
<1> QED BY <1>1, <1>2, <1>3

LEMMA RejectOrder ==
  ASSUME Inv, Orderly, Books, NEW c \in Calls, Reject(c), reqs' = reqs, pc[c] # "done", SamePending
  PROVE  Orderly' /\ Books' /\ LateLeft
<1>1. OnlyCall(c) /\ resp'[c] = resp[c] /\ leg'[c] = leg[c]
  BY RejectOK DEF Reject
<1> QED BY <1>1, PcOrder

\* A refusal of a reservation, or of the movement of a commit
LEMMA RefuseOrder ==
  ASSUME Inv, Shaped, Orderly, Books, NEW c \in Calls, NEW b \in [Accounts -> Balance],
         pc[c] \in Suspended, Answer(c, FALSE, b), reqs' = reqs, InBatch(Current(c)), SamePending,
         leg[c] = 1 => Current(c).type = "reserve",
         leg[c] = 2 => ~Payable(Transfer[Current(c).t])
  PROVE  Orderly' /\ Books' /\ LateLeft
<1>0. PICK i : i = Len(resp[c]) + 1
  OBVIOUS
<1>00. PICK t : t = Current(c).t
  OBVIOUS
<1>1. /\ OnlyCall(c) /\ resp'[c] = Append(resp[c], FALSE) /\ leg'[c] = 1
      /\ resp[c] \in Seq(BOOLEAN) /\ pc[c] # "done"
  BY AnswerOK DEF Answer, Inv, TypeOK, Suspended
<1>2. /\ leg[c] = 1 \/ leg[c] = 2
      /\ leg[c] = 2 => Current(c).type = "commit"
      /\ \A u : Settles(c, i, u) => Current(c).type # "reserve" /\ u = t
  <2>1. CurrentIs(c, i, t)
    BY <1>0, <1>00, CurrentKind
  <2> QED BY <2>1 DEF CurrentIs
<1>3. Current(c) = reqs[c][i]
  BY <1>0 DEF Current
<1>4. \A u : Settles(c, i, u) => leg[c] = 2 /\ reqs[c][i].type = "commit" /\ ~Payable(Transfer[u])
  BY <1>00, <1>2, <1>3
<1>5. /\ \A u : Made(u)' <=> Made(u)
      /\ \A u : Undone(u)' <=> Undone(u) \/ Settles(c, i, u)
      /\ Sound'
  BY <1>0, <1>1, <1>4, OpenAnswer DEF Orderly
<1>6. \A u : Settles(c, i, u) => Undone(u)
  BY <1>0, <1>4, ToSettle
<1>7. Books'
  BY <1>5, <1>6, BooksSame
<1>8. LateLeft
  <2> SUFFICES ASSUME NEW e \in LeftBehind' \ LeftBehind
               PROVE  leg[e[1]] = 2
    BY DEF LateLeft
  <2>1. e = <<c, i, 1>>
    BY <1>0, <1>1, LeftMore
  <2>2. IsAsked(c, i, 1)' /\ IsLeft(c, i, 1)'
    BY <2>1, PostedIsNext DEF LeftAre
  <2>3. Settles(c, i, reqs[c][i].t)
    BY <2>2 DEF IsAsked, IsLeft, Settles
  <2> QED BY <1>4, <2>1, <2>3
<1> QED BY <1>1, <1>5, <1>7, <1>8, OrderFrame DEF Orderly

\* The last answer of a low-level entry
LEMMA CompleteOrder ==
  ASSUME Inv, Orderly, Books, NEW c \in Calls, NEW b \in [Accounts -> Balance],
         pc[c] \in Suspended, Answer(c, TRUE, b), reqs' = reqs, ~InBatch(Current(c)), SamePending
  PROVE  Orderly' /\ Books' /\ LateLeft
<1>0. PICK i : i = Len(resp[c]) + 1
  OBVIOUS
<1>1. /\ OnlyCall(c) /\ resp'[c] = Append(resp[c], TRUE) /\ leg'[c] = 1
      /\ resp[c] \in Seq(BOOLEAN) /\ pc[c] # "done"
  BY AnswerOK DEF Answer, Inv, TypeOK, Suspended
<1>2. \A u : ~Reserves(c, i, u) /\ ~Settles(c, i, u)
  BY <1>0 DEF Current, InBatch, Reserves, Settles
<1>3. /\ \A u : Made(u)' <=> Made(u)
      /\ \A u : Undone(u)' <=> Undone(u)
      /\ Sound'
  BY <1>0, <1>1, <1>2, OpenAnswer DEF Orderly
<1>4. Books'
  BY <1>3, BooksSame
<1>5. LateLeft
  <2>1. \A e \in LeftBehind' \ LeftBehind : FALSE
    BY <1>1, LeftMore
  <2> QED BY <2>1 DEF LateLeft
<1> QED BY <1>1, <1>3, <1>4, <1>5, OrderFrame DEF Orderly

\* The entry a batch posts fits both its accounts: a settlement takes back no
\* more than was reserved
LEMMA BatchFits ==
  ASSUME OrderInv, OneHub, IsFiniteSet(Accounts), NEW c \in Calls, pc[c] = "store",
         InBatch(Current(c))
  PROVE  /\ CurrentLeg(c) \in Leg /\ CurrentLeg(c).dr \in Accounts /\ CurrentLeg(c).cr \in Accounts
         /\ ValidLeg(CurrentLeg(c))
         /\ CanDebit(bal, CurrentLeg(c))
         /\ CanCredit(Debit(bal, CurrentLeg(c)), CurrentLeg(c))
<1> USE DEF OrderInv, TallyInv
<1>0. PICK i : i = Len(resp[c]) + 1
  OBVIOUS
<1>00. PICK t : t = Current(c).t
  OBVIOUS
<1> DEFINE l == CurrentLeg(c)
           r == Current(c)
<1>1. /\ pc[c] = "store" /\ pc[c] \in Suspended /\ InBatch(r)
      /\ bal \in [Accounts -> Balance]
  BY DEF Suspended, Inv, TypeOK
<1>2. /\ l \in Leg /\ l.dr \in Accounts /\ l.cr \in Accounts
      /\ ~l.pending => CanDebit(bal, l)
      /\ CanDebit(bal, l) => CanCredit(Debit(bal, l), l)
      /\ ValidLeg(l)
  BY <1>1, BatchPosts DEF Validated
<1>03. CurrentIs(c, i, t)
  BY <1>0, <1>00, <1>1, CurrentKind
<1>3. /\ t \in Transfers
      /\ r.type = "reserve" => /\ Reserves(c, i, t) /\ leg[c] = 1 /\ Len(Legs(r)) = 1
                               /\ l = Reservation(Transfer[t], Transfer[t].amount)
      /\ r.type # "reserve" => Settles(c, i, t)
      /\ r.type # "reserve" /\ leg[c] = 1 => l = Reservation(Transfer[t], -Transfer[t].amount)
      /\ leg[c] = 2 => r.type = "commit" /\ l = Movement(Transfer[t])
      /\ leg[c] = 1 \/ leg[c] = 2
      /\ \A u : Reserves(c, i, u) => r.type = "reserve" /\ u = t
      /\ \A u : Settles(c, i, u) => r.type # "reserve" /\ u = t
  BY <1>03 DEF CurrentIs
<1>33. leg[c] = 1 \/ leg[c] = 2
  BY <1>3
<1>4. Transfer[t].amount \in NatPos
  BY <1>3, AmountsAre
<1>5. l.pending => bal[l.dr].pendDr \in Nat /\ DebitField(l) = "pendDr"
  BY <1>1, <1>2 DEF Balance, Fields, DebitField
<1>6. CanDebit(bal, l)
  <2>1. CASE r.type = "reserve"
    <3>1. l.amount \in Nat /\ l.pending /\ l.amount = Transfer[t].amount
      BY <1>3, <1>4, <2>1 DEF Reservation, NatPos
    <3> QED BY <1>5, <3>1 DEF CanDebit
  <2>2. CASE r.type # "reserve" /\ leg[c] = 1
    <3>1. l.amount = -Transfer[t].amount /\ l.pending /\ l.dr = Transfer[t].payer
      BY <1>3, <2>2 DEF Reservation
    <3>2. Made(t) /\ ~Undone(t)
      BY <1>0, <1>1, <1>3, <2>2, ToSettle
    <3>3. Transfer[t].amount <= bal[l.dr].pendDr
      BY <1>2, <1>3, <3>1, <3>2, BooksCover
    <3> QED BY <1>4, <1>5, <3>1, <3>3 DEF CanDebit, NatPos
  <2>3. CASE leg[c] = 2
    BY <1>2, <1>3, <2>3 DEF Movement
  <2> QED BY <1>3, <2>1, <2>2, <2>3
<1> QED BY <1>2, <1>6

\* In a batch nothing that was validated is refused
LEMMA PostOrder ==
  ASSUME OrderInv, OneHub, IsFiniteSet(Accounts), NEW c \in Calls, PostInBatch(c)
  PROVE  Orderly' /\ Books' /\ LateLeft
<1> USE DEF OrderInv, TallyInv
<1>0. PICK i : i = Len(resp[c]) + 1
  OBVIOUS
<1>00. PICK t : t = Current(c).t
  OBVIOUS
<1> DEFINE l == CurrentLeg(c)
           r == Current(c)
<1>1. /\ pc[c] = "store" /\ pc[c] \in Suspended /\ InBatch(r) /\ reqs' = reqs
      /\ bal \in [Accounts -> Balance]
  BY DEF PostInBatch, Suspended, Inv, TypeOK
<1>2. /\ l \in Leg /\ l.dr \in Accounts /\ l.cr \in Accounts
      /\ CanDebit(bal, l) /\ CanCredit(Debit(bal, l), l) /\ ValidLeg(l)
  BY <1>1, BatchFits
<1>03. CurrentIs(c, i, t)
  BY <1>0, <1>00, <1>1, CurrentKind
<1>3. /\ t \in Transfers
      /\ r.type = "reserve" => /\ Reserves(c, i, t) /\ leg[c] = 1 /\ Len(Legs(r)) = 1
                               /\ l = Reservation(Transfer[t], Transfer[t].amount)
      /\ r.type # "reserve" => Settles(c, i, t)
      /\ r.type # "reserve" /\ leg[c] = 1 => l = Reservation(Transfer[t], -Transfer[t].amount)
      /\ leg[c] = 2 => r.type = "commit" /\ l = Movement(Transfer[t])
      /\ leg[c] = 1 \/ leg[c] = 2
      /\ \A u : Reserves(c, i, u) => r.type = "reserve" /\ u = t
      /\ \A u : Settles(c, i, u) => r.type # "reserve" /\ u = t
  BY <1>03 DEF CurrentIs
<1>33. leg[c] = 1 \/ leg[c] = 2
  BY <1>3
<1>7. bal' = Credit(Debit(bal, l), l) /\ NextLeg(c, bal') /\ bal' \in [Accounts -> Balance]
  <2>1. bal' = Credit(Debit(bal, l), l) /\ NextLeg(c, bal')
    BY <1>2 DEF PostInBatch
  <2> QED BY <1>1, <1>2, <2>1, DebitType, CreditType
<1>8. \A a \in Accounts : bal'[a].pendDr =
         IF a = l.dr /\ l.pending THEN bal[a].pendDr + l.amount ELSE bal[a].pendDr
  BY <1>1, <1>2, <1>7, PendingAfter
<1> HIDE DEF l, r
<1>9. CASE r.type = "reserve"
  <2>0. ~(leg[c] < Len(Legs(Current(c))))
    <3>1. leg[c] = 1 /\ Len(Legs(r)) = 1
      BY <1>3, <1>9
    <3> QED BY <3>1 DEF r
  <2>1. Answer(c, TRUE, bal')
    BY <1>7, <2>0 DEF NextLeg
  <2>2. /\ OnlyCall(c) /\ resp'[c] = Append(resp[c], TRUE) /\ leg'[c] = 1
        /\ resp[c] \in Seq(BOOLEAN)
    BY <1>1, <1>7, <2>1, AnswerOK DEF Answer, Inv, TypeOK
  <2>3. ValidLeg(Reservation(Transfer[t], Transfer[t].amount))
    BY <1>2, <1>3, <1>9
  <2>4. /\ \A u : Made(u)' <=> Made(u) \/ u = t
        /\ \A u : Undone(u)' <=> Undone(u)
        /\ Sound'
    <3>1. \A u : /\ Reserves(c, i, u) <=> u = t
                 /\ ~Settles(c, i, u)
      BY <1>3, <1>9
    <3>2. \A u : /\ TRUE /\ Reserves(c, i, u) => ValidLeg(Reservation(Transfer[u], Transfer[u].amount))
                 /\ ~TRUE /\ Settles(c, i, u) => reqs[c][i].type = "commit" /\ ~Payable(Transfer[u])
      BY <2>3, <3>1
    <3>3. /\ \A u : Made(u)' <=> Made(u) \/ (TRUE /\ Reserves(c, i, u))
          /\ \A u : Undone(u)' <=> Undone(u) \/ Settles(c, i, u)
          /\ Sound'
      BY <1>0, <1>1, <2>2, <3>2, OpenAnswer DEF Orderly
    <3> QED BY <3>1, <3>3
  <2>5. ~Made(t) /\ ~Undone(t)
    BY <1>0, <1>1, <1>3, <1>9, NotMade
  <2>6. \A a \in Accounts : bal'[a].pendDr =
           IF a = Transfer[t].payer THEN bal[a].pendDr + Transfer[t].amount ELSE bal[a].pendDr
    BY <1>3, <1>8, <1>9 DEF Reservation
  <2>7. Books'
    BY <1>1, <1>3, <2>4, <2>5, <2>6, BooksMore
  <2>8. LateLeft
    <3>1. \A e \in LeftBehind' \ LeftBehind : FALSE
      BY <1>1, <2>2, LeftMore
    <3> QED BY <3>1 DEF LateLeft
  <2> QED BY <1>1, <2>2, <2>4, <2>7, <2>8, OrderFrame DEF Orderly
<1>10. ASSUME r.type # "reserve"
       PROVE  /\ OnlyCall(c) /\ LateLeft
              /\ \A u : Made(u)' <=> Made(u)
              /\ \A u : Undone(u)' <=> Undone(u) \/ u = t
              /\ Orderly'
  <2>1. \A u : /\ ~Reserves(c, i, u)
               /\ Settles(c, i, u) <=> u = t
    BY <1>3, <1>10
  <2>2. CASE leg[c] < Len(Legs(r))
    <3>1. /\ leg' = [leg EXCEPT ![c] = @ + 1] /\ pc' = [pc EXCEPT ![c] = "fetch"] /\ resp' = resp
      BY <1>7, <2>2 DEF NextLeg, r
    <3>2. OnlyCall(c) /\ leg'[c] = leg[c] + 1 /\ resp'[c] = resp[c]
      BY <3>1 DEF OnlyCall, Inv, TypeOK
    <3>3. leg[c] = 1
      <4>1. r \in Request
        BY <1>1, CurrentType DEF r
      <4>2. Len(Legs(r)) = 1 \/ Len(Legs(r)) = 2
        BY <4>1, LegsType
      <4>3. leg[c] \in {1, 2}
        BY <1>33
      <4> QED BY <2>2, <4>2, <4>3, OneOrTwo
    <3>4. /\ \A u : Made(u)' <=> Made(u)
          /\ \A u : Undone(u)' <=> Undone(u) \/ u = t
          /\ Sound'
      BY <1>0, <1>1, <2>1, <3>2, <3>3, OpenNextLeg DEF Orderly
    <3>5. LateLeft
      BY <1>1, <3>2, LeftSame DEF LateLeft
    <3> QED BY <1>1, <3>2, <3>4, <3>5, OrderFrame DEF Orderly
  <2>3. CASE ~(leg[c] < Len(Legs(r)))
    <3>1. Answer(c, TRUE, bal')
      BY <1>7, <2>3 DEF NextLeg, r
    <3>2. /\ OnlyCall(c) /\ resp'[c] = Append(resp[c], TRUE) /\ leg'[c] = 1
          /\ resp[c] \in Seq(BOOLEAN)
      BY <1>1, <1>7, <3>1, AnswerOK DEF Answer, Inv, TypeOK
    <3>3. /\ \A u : Made(u)' <=> Made(u)
          /\ \A u : Undone(u)' <=> Undone(u) \/ u = t
          /\ Sound'
      BY <1>0, <1>1, <2>1, <3>2, OpenAnswer DEF Orderly
    <3>4. LateLeft
      <4>1. \A e \in LeftBehind' \ LeftBehind : FALSE
        BY <1>1, <3>2, LeftMore
      <4> QED BY <4>1 DEF LateLeft
    <3> QED BY <1>1, <3>2, <3>3, <3>4, OrderFrame DEF Orderly
  <2> QED BY <2>2, <2>3
<1>11. CASE r.type # "reserve" /\ leg[c] = 1
  <2>1. Made(t) /\ ~Undone(t)
    BY <1>0, <1>1, <1>3, <1>11, ToSettle
  <2>2. \A a \in Accounts : bal'[a].pendDr =
           IF a = Transfer[t].payer THEN bal[a].pendDr + -Transfer[t].amount ELSE bal[a].pendDr
    BY <1>3, <1>8, <1>11 DEF Reservation
  <2>3. Books'
    BY <1>3, <1>10, <1>11, <2>1, <2>2, BooksLess
  <2> QED BY <1>10, <1>11, <2>3
<1>12. CASE r.type # "reserve" /\ leg[c] = 2
  <2>1. Undone(t)
    BY <1>0, <1>1, <1>3, <1>12, ToSettle
  <2>2. SamePending
    BY <1>3, <1>8, <1>12 DEF Movement, SamePending
  <2>3. Books'
    <3>1. \A u : (Made(u)' <=> Made(u)) /\ (Undone(u)' <=> Undone(u))
      BY <1>10, <1>12, <2>1
    <3> QED BY <2>2, <3>1, BooksSame
  <2> QED BY <1>10, <1>12, <2>3
<1> QED BY <1>3, <1>9, <1>11, <1>12

-----------------------------------------------------------------------------
(* The other steps *)

\* A low-level entry leaves the pending debits of the payers alone
LEMMA DirectPending ==
  ASSUME Inv, OneHub, NEW c \in Calls, DebitDirect(c) \/ CreditDirect(c)
  PROVE  SamePending
<1> DEFINE l == CurrentLeg(c)
<1>1. /\ l \in Leg /\ l.dr \in Accounts /\ l.cr \in Accounts
      /\ bal \in [Accounts -> Balance] /\ ~InBatch(Current(c))
      /\ Current(c) \in Request /\ leg[c] \in 1..Len(Legs(Current(c)))
  BY CurrentType DEF Inv, TypeOK, CallOK, Suspended, DebitDirect, CreditDirect
<1>2. l.pending => l.dr \notin Payers
  BY <1>1, DirectLegKind DEF OneHub, CurrentLeg
<1> HIDE DEF l
<1>3. "pendDr" \in Fields /\ CreditField(l) # "pendDr" /\ (DebitField(l) = "pendDr" => l.pending)
  BY DEF Fields, CreditField, DebitField
<1>4. CASE bal' = Debit(bal, l) /\ CanDebit(bal, l)
  <2>1. \A a \in Accounts, f \in Fields : ~(a = l.dr /\ f = DebitField(l)) => bal'[a][f] = bal[a][f]
    BY <1>1, <1>4, DebitBalance
  <2> QED BY <1>2, <1>3, <2>1 DEF SamePending
<1>5. CASE bal' = Credit(bal, l) /\ CanCredit(bal, l)
  <2>1. \A a \in Accounts, f \in Fields : ~(a = l.cr /\ f = CreditField(l)) => bal'[a][f] = bal[a][f]
    BY <1>1, <1>5, CreditBalance
  <2> QED BY <1>3, <2>1 DEF SamePending
<1>6. CASE bal' = bal
  BY <1>6 DEF SamePending
<1> QED BY <1>4, <1>5, <1>6 DEF DebitDirect, CreditDirect, l

LEMMA DirectOrder ==
  ASSUME OrderInv, OneHub, NEW c \in Calls, DebitDirect(c) \/ CreditDirect(c) \/ CompleteDirect(c)
  PROVE  Orderly' /\ Books' /\ LateLeft
<1> USE DEF OrderInv, TallyInv
<1>1. /\ pc[c] \in {"store", "debit", "credit"} /\ pc[c] \in Suspended /\ pc[c] # "done"
      /\ reqs' = reqs /\ ~InBatch(Current(c)) /\ bal \in [Accounts -> Balance]
  BY DEF DebitDirect, CreditDirect, CompleteDirect, Inv, CallOK, Suspended, TypeOK
<1>2. CASE DebitDirect(c) \/ CreditDirect(c)
  <2>1. SamePending
    BY <1>2, DirectPending
  <2>2. CASE Reject(c)
    BY <1>1, <2>1, <2>2, RejectOrder
  <2>3. CASE ~Reject(c)
    <3>1. UNCHANGED <<resp, leg>>
      BY <1>2, <2>3 DEF DebitDirect, CreditDirect
    <3>2. OnlyCall(c)
      BY <1>2, ResumeOnly DEF Resume
    <3> QED BY <1>1, <2>1, <3>1, <3>2, PcOrder
  <2> QED BY <2>2, <2>3
<1>3. CASE CompleteDirect(c)
  <2>1. Answer(c, TRUE, bal) /\ bal' = bal
    BY <1>3 DEF CompleteDirect
  <2>2. SamePending
    BY <2>1 DEF SamePending
  <2> QED BY <1>1, <2>1, <2>2, CompleteOrder
<1> QED BY <1>2, <1>3

LEMMA CheckOrder ==
  ASSUME OrderInv, NEW c \in Calls, CheckLiquid(c)
  PROVE  Orderly' /\ Books' /\ LateLeft
<1> USE DEF OrderInv, TallyInv
<1>1. /\ pc[c] = "check" /\ pc[c] \in Suspended /\ pc[c] # "done" /\ Current(c).type = "reserve"
      /\ InBatch(Current(c)) /\ reqs' = reqs /\ bal' = bal /\ bal \in [Accounts -> Balance]
  BY DEF CheckLiquid, Suspended, Inv, CallOK, InBatch, TypeOK
<1>2. SamePending
  BY <1>1 DEF SamePending
<1>3. CASE Answer(c, FALSE, bal)
  <2>1. leg[c] # 2
    BY <1>1, CurrentKind DEF CurrentIs
  <2> QED BY <1>1, <1>2, <1>3, <2>1, RefuseOrder
<1>4. CASE ~Answer(c, FALSE, bal)
  <2>1. UNCHANGED <<resp, leg>>
    BY <1>4 DEF CheckLiquid
  <2>2. OnlyCall(c)
    BY ResumeOnly DEF Resume
  <2> QED BY <1>1, <1>2, <2>1, <2>2, PcOrder
<1> QED BY <1>3, <1>4

\* An entry is refused as invalid only if it is a reservation or a movement
LEMMA CreateOrder ==
  ASSUME OrderInv, NEW c \in Calls, CreateEntry(c)
  PROVE  Orderly' /\ Books' /\ LateLeft
<1> USE DEF OrderInv, TallyInv
<1>1. /\ pc[c] = "fetch" /\ pc[c] \in Suspended /\ pc[c] # "done"
      /\ reqs' = reqs /\ bal' = bal /\ bal \in [Accounts -> Balance]
  BY DEF CreateEntry, Suspended, Inv, TypeOK
<1>2. SamePending
  BY <1>1 DEF SamePending
<1>3. CASE ValidLeg(CurrentLeg(c))
  <2>1. UNCHANGED <<resp, leg>>
    BY <1>3 DEF CreateEntry, ValidLeg
  <2>2. OnlyCall(c)
    BY ResumeOnly DEF Resume
  <2> QED BY <1>1, <1>2, <2>1, <2>2, PcOrder
<1>4. CASE ~ValidLeg(CurrentLeg(c)) /\ ~InBatch(Current(c))
  <2>1. Reject(c)
    BY <1>4 DEF CreateEntry, ValidLeg, Throw
  <2> QED BY <1>1, <1>2, <2>1, RejectOrder
<1>5. CASE ~ValidLeg(CurrentLeg(c)) /\ InBatch(Current(c))
  <2>1. Answer(c, FALSE, bal)
    BY <1>5 DEF CreateEntry, ValidLeg, Throw
  <2>2. leg[c] = 2 => ~Payable(Transfer[Current(c).t])
    BY <1>1, <1>5, SecondRefused
  <2>3. leg[c] = 1 => Current(c).type = "reserve"
    <3> SUFFICES ASSUME leg[c] = 1, Current(c).type # "reserve" PROVE FALSE
      OBVIOUS
    <3>0. PICK i : i = Len(resp[c]) + 1
      OBVIOUS
    <3>00. PICK t : t = Current(c).t
      OBVIOUS
    <3>1. CurrentIs(c, i, t)
      BY <1>1, <1>5, <3>0, <3>00, CurrentKind
    <3>2. Settles(c, i, t) /\ CurrentLeg(c) = Reservation(Transfer[t], -Transfer[t].amount)
      BY <3>1 DEF CurrentIs
    <3>3. ValidLeg(Reservation(Transfer[t], -Transfer[t].amount))
      BY <1>1, <3>0, <3>2, ToSettle
    <3> QED BY <1>5, <3>2, <3>3
  <2> QED BY <1>1, <1>2, <1>5, <2>1, <2>2, <2>3, RefuseOrder
<1> QED BY <1>3, <1>4, <1>5

LEMMA FlushOrder ==
  ASSUME OrderInv, NEW c \in Calls, FlushEntries(c) \/ FlushAccounts(c) \/ RepoFails(c)
  PROVE  Orderly' /\ Books' /\ LateLeft
<1> USE DEF OrderInv, TallyInv
<1>1. /\ reqs' = reqs /\ bal' = bal /\ UNCHANGED <<resp, leg>> /\ pc[c] # "done"
  BY DEF FlushEntries, FlushAccounts, RepoFails, Reject
<1>2. SamePending
  BY <1>1 DEF SamePending
<1>3. OnlyCall(c)
  BY ResumeOnly DEF Resume
<1> QED BY <1>1, <1>2, <1>3, PcOrder

\* A call that arrives reserves and settles nothing yet, and nothing twice
LEMMA StartOrder ==
  ASSUME OrderInv, Disciplined, NEW c \in Calls, Start(c)
  PROVE  Orderly' /\ Books' /\ LateLeft
<1> USE DEF OrderInv, TallyInv
<1>1. PICK w \in Workload : /\ pc[c] = "idle" /\ WellFormed(w)
                            /\ reqs' = [reqs EXCEPT ![c] = w]
                            /\ pc' = [pc EXCEPT ![c] = EntryPoint(w[1])]
                            /\ UNCHANGED <<resp, leg, bal>>
  BY DEF Start, Arrive
<1>2. /\ reqs[c] = <<>> /\ resp[c] = <<>> /\ leg[c] = 1 /\ reqs'[c] = w
      /\ \A d \in Calls \ {c} : reqs'[d] = reqs[d] /\ pc'[d] = pc[d]
  BY <1>1 DEF Shaped, Inv, CallOK, TypeOK
<1>3. \A d, i, t : /\ Reserves(d, i, t)' <=> IF d = c THEN i \in DOMAIN w /\ w[i].type = "reserve" /\ w[i].t = t
                                                     ELSE Reserves(d, i, t)
                   /\ Settles(d, i, t)' <=> IF d = c THEN i \in DOMAIN w /\ w[i].type \in {"commit", "cancel"} /\ w[i].t = t
                                                    ELSE Settles(d, i, t)
                   /\ Reserves(d, i, t) => d # c
                   /\ Settles(d, i, t) => d # c
  BY <1>2 DEF Reserves, Settles
<1>4. \A d, i : /\ Accepted(d, i)' <=> Accepted(d, i)
                /\ Reached(d, i)' <=> Reached(d, i)
                /\ ~Accepted(c, i) /\ (Reached(c, i) => FALSE)
  BY <1>1, <1>2 DEF Accepted, Reached
<1>5. ASSUME NEW d, NEW i, NEW t
      PROVE  /\ Reserves(d, i, t) => Sent("reserve", t)
             /\ Settles(d, i, t) => Sent("commit", t) \/ Sent("cancel", t)
  <2> SUFFICES ASSUME d \in Calls, i \in DOMAIN reqs[d], reqs[d][i].t = t
               PROVE  \A type : reqs[d][i].type = type => Sent(type, t)
    BY DEF Reserves, Settles
  <2>1. reqs[d][i] \in Request
    <3>1. reqs[d] \in Seq(HighLevel) \cup Seq(LowLevel)
      BY DEF Inv, TypeOK
    <3> QED BY <3>1, OneKind
  <2>2. reqs[d][i] = [type |-> reqs[d][i].type, t |-> t]
    BY <2>1 DEF Request, HighLevel, LowLevel
  <2> QED BY <2>2 DEF Sent
<1>6. /\ \A i, j \in DOMAIN w : w[i].t = w[j].t => i = j
      /\ \A i \in DOMAIN w : w[i].type = "reserve" => ~Sent("reserve", w[i].t)
      /\ \A i \in DOMAIN w : w[i].type \in {"commit", "cancel"} =>
             Acknowledged("reserve", w[i].t) /\ ~Sent("commit", w[i].t) /\ ~Sent("cancel", w[i].t)
  BY <1>1 DEF WellFormed
<1>7. Once'
  <2> SUFFICES ASSUME NEW t, NEW d, NEW i, NEW e, NEW j
               PROVE  /\ Reserves(d, i, t)' /\ Reserves(e, j, t)' => d = e /\ i = j
                      /\ Settles(d, i, t)' /\ Settles(e, j, t)' => d = e /\ i = j
    BY DEF Once
  <2>1. CASE d = c /\ e = c
    BY <1>3, <1>6, <2>1
  <2>2. CASE d # c /\ e # c
    BY <1>3, <2>2 DEF Orderly, Once
  <2>3. CASE d = c /\ e # c
    BY <1>3, <1>5, <1>6, <2>3
  <2>4. CASE d # c /\ e = c
    BY <1>3, <1>5, <1>6, <2>4
  <2> QED BY <2>1, <2>2, <2>3, <2>4
<1>8. ReservedFirst'
  <2> SUFFICES ASSUME NEW t, NEW d, NEW i, Settles(d, i, t)'
               PROVE  \E e, j : Reserves(e, j, t)' /\ Accepted(e, j)' /\ pc'[e] = "done"
    BY DEF ReservedFirst
  <2>1. \E e, j : Reserves(e, j, t) /\ Accepted(e, j) /\ pc[e] = "done"
    <3>1. CASE d # c
      BY <1>3, <3>1 DEF Orderly, ReservedFirst
    <3>2. CASE d = c
      <4>1. Acknowledged("reserve", t)
        BY <1>3, <1>6, <3>2
      <4>2. PICK e, j : /\ e \in Calls /\ j \in DOMAIN resp[e] /\ pc[e] = "done" /\ resp[e][j]
                       /\ reqs[e][j] = [type |-> "reserve", t |-> t]
        BY <4>1 DEF Acknowledged
      <4>3. j \in DOMAIN reqs[e]
        <5>1. Len(resp[e]) = Len(reqs[e])
          BY <4>2 DEF Complete, Answered
        <5>2. resp[e] \in Seq(BOOLEAN) /\ reqs[e] \in Seq(HighLevel) \cup Seq(LowLevel)
          BY <4>2 DEF Inv, TypeOK
        <5>3. DOMAIN resp[e] = 1..Len(resp[e]) /\ DOMAIN reqs[e] = 1..Len(reqs[e])
          BY <5>2
        <5> QED BY <4>2, <5>1, <5>3
      <4> QED BY <4>2, <4>3 DEF Reserves, Accepted
    <3> QED BY <3>1, <3>2
  <2>2. PICK e, j : Reserves(e, j, t) /\ Accepted(e, j) /\ pc[e] = "done"
    BY <2>1
  <2>3. e # c /\ e \in Calls
    BY <1>3, <2>2 DEF Reserves
  <2> QED BY <1>2, <1>3, <1>4, <2>2, <2>3
<1>9. Sound'
  <2>1. ASSUME NEW t, NEW d, NEW i
        PROVE  /\ Reserves(d, i, t)' /\ Accepted(d, i)' =>
                    ValidLeg(Reservation(Transfer[t], Transfer[t].amount))
               /\ Settles(d, i, t)' /\ i \in DOMAIN resp'[d] /\ ~resp'[d][i] =>
                    reqs'[d][i].type = "commit" /\ ~Payable(Transfer[t])
    <3>1. CASE d = c
      BY <1>1, <1>2, <1>4, <3>1
    <3>2. CASE d # c
      <4>1. Settles(d, i, t) => d \in Calls
        BY DEF Settles
      <4> QED BY <1>1, <1>2, <1>3, <1>4, <3>2, <4>1 DEF Orderly, Sound
    <3> QED BY <3>1, <3>2
  <2> QED BY <2>1 DEF Sound, ValidLeg, Payable, Reservation
<1>10. Books'
  <2>1. \A t : Made(t)' <=> Made(t)
    BY <1>3, <1>4 DEF Made
  <2>2. \A t : Undone(t)' <=> Undone(t)
    BY <1>3, <1>4 DEF Undone
  <2>3. SamePending
    BY <1>1 DEF SamePending
  <2> QED BY <2>1, <2>2, <2>3, BooksSame
<1>11. LateLeft
  BY StartPosted DEF LateLeft
<1> QED BY <1>7, <1>8, <1>9, <1>10, <1>11 DEF Orderly

LEMMA OrderInit == ASSUME Tallied(InitBalance), NoneReserved, Init PROVE OrderInv
<1>1. TallyInv /\ Shaped /\ Complete
  BY InitInv, ValidatedInit, ShapedInit, CompleteInit DEF TallyInv, Init, HubTally, Tallied, Served
<1>2. \A c, i, t : ~Reserves(c, i, t) /\ ~Settles(c, i, t)
  BY DEF Init, Reserves, Settles
<1>3. Orderly
  BY <1>2 DEF Orderly, Once, ReservedFirst, Sound
<1>4. \A p : Open(p) = {}
  BY <1>2 DEF Open, Made
<1>5. Books
  BY <1>4, SumEmpty, FS_EmptySet DEF Books, Init, NoneReserved
<1> QED BY <1>1, <1>3, <1>5 DEF OrderInv

LEMMA OrderNext ==
  ASSUME OrderInv, [Next]_vars, Disciplined, OneHub, IsFiniteSet(Accounts)
  PROVE  OrderInv' /\ LateLeft
<1>1. TallyInv' /\ Shaped' /\ Complete'
  BY TallyNext, GrowsNext, CompleteNext DEF OrderInv, TallyInv
<1>2. CASE UNCHANGED vars
  <2>1. UNCHANGED <<pc, reqs, resp, leg, bal>>
    BY <1>2 DEF vars
  <2>2. /\ \A c, i, t : /\ Reserves(c, i, t)' <=> Reserves(c, i, t)
                        /\ Settles(c, i, t)' <=> Settles(c, i, t)
        /\ \A c, i : /\ Accepted(c, i)' <=> Accepted(c, i)
                     /\ Reached(c, i)' <=> Reached(c, i)
    BY <2>1 DEF Reserves, Settles, Accepted, Reached
  <2>3. Orderly'
    BY <2>1, <2>2 DEF OrderInv, Orderly, Once, ReservedFirst, Sound, ValidLeg, Payable, Reservation
  <2>4. \A t : (Made(t)' <=> Made(t)) /\ (Undone(t)' <=> Undone(t))
    BY <2>2 DEF Made, Undone
  <2>5. Books'
    BY <2>1, <2>4, BooksSame DEF OrderInv, SamePending
  <2>6. LateLeft
    BY <1>2, StutterPosted DEF OrderInv, LateLeft
  <2> QED BY <1>1, <2>3, <2>5, <2>6 DEF OrderInv
<1>3. CASE Next
  <2>1. PICK c \in Calls : Start(c) \/ Resume(c)
    BY <1>3 DEF Next
  <2>2. Orderly' /\ Books' /\ LateLeft
    BY <2>1, StartOrder, CheckOrder, CreateOrder, PostOrder, DirectOrder, FlushOrder DEF Resume
  <2> QED BY <1>1, <2>2 DEF OrderInv
<1> QED BY <1>2, <1>3

\* With clients that settle only what they reserved, all that may be left behind
\* is in the balances
AllTold == OrderInv /\ (DirectSafe => ToldBy(LeftBehind))

LEMMA AllToldNext ==
  ASSUME AllTold, [Next]_vars, Disciplined, OneHub, IsFiniteSet(Accounts)
  PROVE  AllTold'
<1>1. OrderInv' /\ LateLeft
  BY OrderNext DEF AllTold
<1>2. ASSUME DirectSafe'
      PROVE  ToldBy(LeftBehind)'
  <2>1. PICK left : left = LeftBehind
    OBVIOUS
  <2>2. ToldBy(left)
    <3>1. DirectSafe
      BY <1>2, SafeNext DEF AllTold, OrderInv, TallyInv
    <3> QED BY <2>1, <3>1 DEF AllTold
  <2>3. Grows(left)
    BY GrowsNext DEF AllTold, OrderInv
  <2>4. PICK more : /\ left \subseteq more /\ ToldBy(more)'
                    /\ \A e \in LeftBehind' \ LeftBehind : e \in more \/ leg[e[1]] = 1
    BY <1>2, <2>2, <2>3 DEF Grows
  <2>5. more = LeftBehind'
    <3>1. more \subseteq LeftBehind'
      BY <2>4 DEF ToldBy
    <3>2. \A e \in LeftBehind' \ LeftBehind : e \in more
      BY <1>1, <2>4 DEF LateLeft
    <3> QED BY <2>1, <2>4, <3>1, <3>2
  <2> QED BY <2>4, <2>5 DEF ToldBy
<1> QED BY <1>1, <1>2 DEF AllTold

LEMMA AllToldHolds ==
  ASSUME Disciplined, OneHub, IsFiniteSet(Accounts), Tallied(InitBalance), NoneReserved
  PROVE  Spec => []AllTold
<1>1. Init => AllTold
  <2> SUFFICES ASSUME Init PROVE DirectSafe => ToldBy(LeftBehind)
    BY OrderInit DEF AllTold
  <2>1. ToldRight
    BY ToldInit
  <2>2. LeftBehind = {}
    <3>1. \A c, i, k : ~IsAsked(c, i, k)
      BY DEF Init, IsAsked
    <3> QED BY <3>1, PostedIs DEF LeftAre
  <2>3. ASSUME NEW left, ToldBy(left) PROVE ToldBy(LeftBehind)
    BY <2>2, <2>3 DEF ToldBy
  <2> QED BY <2>1, <2>3 DEF ToldRight
<1>2. AllTold /\ [Next]_vars => AllTold'
  BY AllToldNext
<1> QED BY <1>1, <1>2, PTL DEF Spec

\* What half-done commits do to balances, at every balance
HalfDoneExplained ==
  (\A c \in Failed : InBatch(reqs[c][1])) =>
    Explained(bal, InEffect({"debit", "credit"}), InEffect({"credit"}))

\* With clients that settle only what they reserved, however calls overlap and
\* flushes fail: a half-done commit, one whose payee cannot be credited, has made
\* its cancellation and nothing else, so that every balance is its initial value
\* plus the entries of exactly the requests answered with success and those
\* cancellations.
THEOREM HalfDoneIsCancelled ==
  ASSUME Disciplined, OneHub, IsFiniteSet(Accounts), Tallied(InitBalance), NoneReserved
  PROVE  Spec => []HalfDoneExplained
<1>1. AllTold => HalfDoneExplained
  BY ExplainedIs DEF AllTold, ToldBy, HalfDoneExplained, DirectSafe, InEffect, Both, Second
<1> QED BY <1>1, AllToldHolds, PTL

\* The transfer of a half-done commit: its payer's pending debit was changed
LEMMA LeftTransfer ==
  ASSUME Inv, NEW e \in LeftBehind, NEW t, reqs[e[1]][e[2]].t = t
  PROVE  /\ t \in Transfers /\ ~Payable(Transfer[t])
         /\ HalfDone(Transfer[t].payer, TRUE)
<1>1. PICK c, i, k : e = <<c, i, k>> /\ IsAsked(c, i, k) /\ IsLeft(c, i, k)
  BY PostedIs DEF LeftAre
<1>2. reqs[c] \in Seq(HighLevel) \cup Seq(LowLevel) /\ i \in 1..Len(reqs[c])
  BY <1>1 DEF IsAsked, Inv, TypeOK
<1>3. reqs[c][i] \in Request /\ reqs[c][i].type = "commit" /\ k = 1
  BY <1>1, <1>2, OneKind DEF IsLeft
<1>4. t \in Transfers /\ reqs[c][i].t = t
  BY <1>1, <1>3 DEF Request, HighLevel, LowLevel
<1>5. LegOf(e) = Reservation(Transfer[t], -Transfer[t].amount)
  BY <1>1, <1>3, <1>4 DEF LegOf, Legs
<1> QED BY <1>1, <1>4, <1>5 DEF HalfDone, Reservation, IsLeft

\* When no call runs and none has failed, an answered reservation is
\* acknowledged, and one that is undone was settled, but for half-done commits
LEMMA OpenIsReserved ==
  ASSUME OrderInv, Quiet, Failed = {}, NEW p, ~HalfDone(p, TRUE)
  PROVE  Open(p) = ReservedFor(p)
<1> USE DEF OrderInv, TallyInv
<1>1. \A c \in Calls : pc[c] = "idle" \/ pc[c] = "done"
  BY DEF Quiet, Failed, Inv, TypeOK, Ended
<1>2. ASSUME NEW c \in Calls, reqs[c] # <<>>
      PROVE  pc[c] = "done" /\ DOMAIN resp[c] = DOMAIN reqs[c]
  <2>1. pc[c] = "done"
    BY <1>1, <1>2 DEF Shaped
  <2>2. Len(resp[c]) = Len(reqs[c])
    BY <2>1 DEF Complete, Answered
  <2>3. resp[c] \in Seq(BOOLEAN) /\ reqs[c] \in Seq(HighLevel) \cup Seq(LowLevel)
    BY DEF Inv, TypeOK
  <2>4. DOMAIN resp[c] = 1..Len(resp[c]) /\ DOMAIN reqs[c] = 1..Len(reqs[c])
    BY <2>3
  <2> QED BY <2>1, <2>2, <2>4
<1>3. ASSUME NEW c, NEW i, NEW t, Reserves(c, i, t) \/ Settles(c, i, t)
      PROVE  /\ c \in Calls /\ pc[c] = "done" /\ i \in DOMAIN resp[c] /\ i \in DOMAIN reqs[c]
             /\ Reached(c, i)
             /\ \A type : reqs[c][i].type = type /\ resp[c][i] => Acknowledged(type, t)
  <2>1. c \in Calls /\ i \in DOMAIN reqs[c] /\ reqs[c][i].t = t
    BY <1>3 DEF Reserves, Settles
  <2>2. reqs[c] \in Seq(HighLevel) \cup Seq(LowLevel)
    BY <2>1 DEF Inv, TypeOK
  <2>3. reqs[c][i] \in Request /\ reqs[c] # <<>>
    BY <2>1, <2>2, OneKind
  <2>4. reqs[c][i] = [type |-> reqs[c][i].type, t |-> t]
    BY <2>1, <2>3 DEF Request, HighLevel, LowLevel
  <2>5. pc[c] = "done" /\ i \in DOMAIN resp[c]
    BY <1>2, <2>1, <2>3
  <2> QED BY <2>1, <2>4, <2>5 DEF Acknowledged, Reached
<1>4. ASSUME NEW type, NEW t, Acknowledged(type, t)
      PROVE  \E c, i : /\ c \in Calls /\ i \in DOMAIN reqs[c] /\ i \in DOMAIN resp[c] /\ resp[c][i]
                       /\ reqs[c][i].type = type /\ reqs[c][i].t = t
  <2>1. PICK c, i : /\ c \in Calls /\ i \in DOMAIN resp[c] /\ pc[c] = "done" /\ resp[c][i]
                    /\ reqs[c][i] = [type |-> type, t |-> t]
    BY <1>4 DEF Acknowledged
  <2>2. resp[c] \in Seq(BOOLEAN) /\ reqs[c] \in Seq(HighLevel) \cup Seq(LowLevel)
    BY <2>1 DEF Inv, TypeOK
  <2>3. Len(resp[c]) = Len(reqs[c])
    BY <2>1 DEF Complete, Answered
  <2>4. DOMAIN resp[c] = 1..Len(resp[c]) /\ DOMAIN reqs[c] = 1..Len(reqs[c])
    BY <2>2
  <2> QED BY <2>1, <2>3, <2>4
<1>5. \A t : Made(t) <=> Acknowledged("reserve", t)
  <2> TAKE t
  <2>1. ASSUME Made(t) PROVE Acknowledged("reserve", t)
    <3>1. PICK c, i : Reserves(c, i, t) /\ Accepted(c, i)
      BY <2>1 DEF Made
    <3> QED BY <1>3, <3>1 DEF Reserves, Accepted
  <2>2. ASSUME Acknowledged("reserve", t) PROVE Made(t)
    BY <1>4, <2>2 DEF Made, Reserves, Accepted
  <2> QED BY <2>1, <2>2
<1>6. ASSUME NEW t
      PROVE  Undone(t) <=> \/ Acknowledged("commit", t) \/ Acknowledged("cancel", t)
                           \/ \E e \in LeftBehind : reqs[e[1]][e[2]].t = t
  <2>1. ASSUME Acknowledged("commit", t) \/ Acknowledged("cancel", t)
        PROVE  Undone(t)
    BY <1>4, <2>1 DEF Undone, Settles, Reached
  <2>2. ASSUME NEW e \in LeftBehind, reqs[e[1]][e[2]].t = t
        PROVE  Undone(t)
    <3>1. PICK c, i, k : e = <<c, i, k>> /\ IsAsked(c, i, k) /\ IsLeft(c, i, k)
      BY PostedIs DEF LeftAre
    <3> QED BY <2>2, <3>1 DEF Undone, Settles, Reached, IsAsked, IsLeft
  <2>3. ASSUME Undone(t), ~Acknowledged("commit", t), ~Acknowledged("cancel", t)
        PROVE  \E e \in LeftBehind : reqs[e[1]][e[2]].t = t
    <3>1. PICK c, i : Settles(c, i, t)
      BY <2>3 DEF Undone
    <3>2. c \in Calls /\ i \in DOMAIN resp[c] /\ i \in DOMAIN reqs[c] /\ ~resp[c][i]
      BY <1>3, <2>3, <3>1 DEF Settles
    <3>3. reqs[c][i].type = "commit" /\ ~Payable(Transfer[t]) /\ reqs[c][i].t = t
      BY <3>1, <3>2 DEF Orderly, Sound, Settles
    <3>4. 1 \in DOMAIN Legs(reqs[c][i])
      <4>1. reqs[c][i] \in Request
        <5>1. reqs[c] \in Seq(HighLevel) \cup Seq(LowLevel)
          BY <3>2 DEF Inv, TypeOK
        <5> QED BY <3>2, <5>1, OneKind
      <4>2. DOMAIN Legs(reqs[c][i]) = 1..Len(Legs(reqs[c][i]))
        BY <4>1, LegsType
      <4> QED BY <4>1, <4>2, LegsType, OneOrTwo
    <3>5. <<c, i, 1>> \in LeftBehind
      BY <3>2, <3>3, <3>4, PostedIs DEF LeftAre, IsAsked, IsLeft
    <3>6. reqs[<<c, i, 1>>[1]][<<c, i, 1>>[2]].t = t
      BY <3>3
    <3> QED BY <3>5, <3>6
  <2> QED BY <2>1, <2>2, <2>3
<1>7. ASSUME NEW t \in Transfers, Transfer[t].payer = p
      PROVE  Undone(t) <=> Acknowledged("commit", t) \/ Acknowledged("cancel", t)
  BY <1>6, <1>7, LeftTransfer
<1> QED BY <1>5, <1>7 DEF Open, ReservedFor

LEMMA HeldUnlessHalfDone ==
  ASSUME OrderInv, Quiet, Failed = {}, NEW p \in Payers \cap Accounts, ~HalfDone(p, TRUE)
  PROVE  ReservedHeld(p)
<1> DEFINE f == [t \in ReservedFor(p) |-> Transfer[t].amount]
<1>1. IsFiniteSet(Open(p)) /\ bal[p].pendDr = SumFunctionOnSet(AmountOf, Open(p))
  BY DEF OrderInv, Books
<1>2. Open(p) = ReservedFor(p) /\ Open(p) \subseteq Transfers
  BY OpenIsReserved DEF Open
<1>3. \A t \in Open(p) : AmountOf[t] = f[t]
  BY <1>2 DEF AmountOf
<1>4. SumFunction(f) = SumFunctionOnSet(f, Open(p))
  BY <1>2 DEF SumFunction
<1> HIDE DEF f
<1>5. SumFunctionOnSet(AmountOf, Open(p)) = SumFunctionOnSet(f, Open(p))
  BY <1>1, <1>3, SumSame
<1> QED BY <1>1, <1>4, <1>5 DEF f, ReservedHeld

\* With clients that settle only what they reserved: when no call runs and none
\* has failed, the pending debit of a payer without a half-done commit is the sum
\* of what its answers say is reserved and not settled.
THEOREM PendingReserved ==
  ASSUME Disciplined, OneHub, IsFiniteSet(Accounts), Tallied(InitBalance), NoneReserved
  PROVE  Spec => []PendingIsReserved
<1>1. AllTold => PendingIsReserved
  BY HeldUnlessHalfDone DEF AllTold, PendingIsReserved
<1> QED BY <1>1, AllToldHolds, PTL

\* Where README.md:28 of grpc-svc does hold: if every transfer names a payee that
\* can be credited, commits are all or nothing.
THEOREM PayableAllOrNothing ==
  ASSUME Disciplined, OneHub, IsFiniteSet(Accounts), Tallied(InitBalance), NoneReserved,
         \A t \in Transfers : Payable(Transfer[t])
  PROVE  Spec => []CommitAllOrNothing
<1>1. AllTold => CommitAllOrNothing
  <2> SUFFICES ASSUME OrderInv, Quiet, Failed = {}, NEW p \in Payers \cap Accounts
               PROVE  ReservedHeld(p)
    BY DEF AllTold, CommitAllOrNothing
  <2>1. LeftBehind = {}
    BY LeftTransfer DEF OrderInv, TallyInv
  <2> QED BY <2>1, HeldUnlessHalfDone DEF HalfDone
<1> QED BY <1>1, AllToldHolds, PTL

-----------------------------------------------------------------------------
(* The journal and the cache as sets of entries without repetition *)

NoRepeat(s) == \A m, n \in DOMAIN s : s[m] = s[n] => m = n

\* The sequences j and q together hold the entries of E, each once
Exactly(j, q, E) ==
  /\ \A e : In(e, j) \/ In(e, q) <=> e \in E
  /\ NoRepeat(j) /\ NoRepeat(q)
  /\ \A e : ~(In(e, j) /\ In(e, q))

LEMMA AppendIn ==
  ASSUME NEW S, NEW s \in Seq(S), NEW x \in S
  PROVE  /\ Append(s, x) \in Seq(S)
         /\ \A e : In(e, Append(s, x)) <=> In(e, s) \/ e = x
         /\ NoRepeat(s) /\ ~In(x, s) => NoRepeat(Append(s, x))
<1>1. /\ Append(s, x) \in Seq(S) /\ Len(s) \in Nat
      /\ DOMAIN s = 1..Len(s) /\ DOMAIN Append(s, x) = 1..(Len(s) + 1)
      /\ \A n \in 1..Len(s) : Append(s, x)[n] = s[n]
      /\ Append(s, x)[Len(s) + 1] = x
  OBVIOUS
<1>2. \A n : n \in 1..(Len(s) + 1) <=> n \in 1..Len(s) \/ n = Len(s) + 1
  BY <1>1
<1>3. \A e : In(e, Append(s, x)) <=> In(e, s) \/ e = x
  BY <1>1, <1>2 DEF In
<1>4. NoRepeat(s) /\ ~In(x, s) => NoRepeat(Append(s, x))
  BY <1>1, <1>2 DEF In, NoRepeat
<1> QED BY <1>1, <1>3, <1>4

LEMMA ConcatIn ==
  ASSUME NEW S, NEW s \in Seq(S), NEW t \in Seq(S)
  PROVE  /\ \A e : In(e, s \o t) <=> In(e, s) \/ In(e, t)
         /\ NoRepeat(s) /\ NoRepeat(t) /\ (\A e : ~(In(e, s) /\ In(e, t))) => NoRepeat(s \o t)
<1>1. /\ Len(s) \in Nat /\ Len(t) \in Nat
      /\ DOMAIN s = 1..Len(s) /\ DOMAIN t = 1..Len(t)
      /\ DOMAIN (s \o t) = 1..(Len(s) + Len(t))
      /\ \A n \in 1..Len(s) : (s \o t)[n] = s[n]
      /\ \A n \in (Len(s) + 1)..(Len(s) + Len(t)) : (s \o t)[n] = t[n - Len(s)]
  OBVIOUS
<1>2. \A n \in DOMAIN (s \o t) :
        \/ n \in DOMAIN s /\ (s \o t)[n] = s[n]
        \/ n - Len(s) \in DOMAIN t /\ (s \o t)[n] = t[n - Len(s)]
  BY <1>1
<1>3. \A e : In(e, s \o t) => In(e, s) \/ In(e, t)
  BY <1>2 DEF In
<1>4. \A e : In(e, s) \/ In(e, t) => In(e, s \o t)
  BY InAppended
<1>5. ASSUME NoRepeat(s), NoRepeat(t), \A e : ~(In(e, s) /\ In(e, t)),
             NEW m \in DOMAIN (s \o t), NEW n \in DOMAIN (s \o t), (s \o t)[m] = (s \o t)[n]
      PROVE  m = n
  <2>1. m \in Int /\ n \in Int
    BY <1>1
  <2>2. CASE m \in DOMAIN s /\ (s \o t)[m] = s[m] /\ n \in DOMAIN s /\ (s \o t)[n] = s[n]
    BY <1>5, <2>2 DEF NoRepeat
  <2>3. CASE /\ m - Len(s) \in DOMAIN t /\ (s \o t)[m] = t[m - Len(s)]
             /\ n - Len(s) \in DOMAIN t /\ (s \o t)[n] = t[n - Len(s)]
    <3>1. m - Len(s) = n - Len(s)
      BY <1>5, <2>3 DEF NoRepeat
    <3> QED BY <1>1, <2>1, <3>1
  <2>4. CASE /\ m \in DOMAIN s /\ (s \o t)[m] = s[m]
             /\ n - Len(s) \in DOMAIN t /\ (s \o t)[n] = t[n - Len(s)]
    BY <1>5, <2>4 DEF In
  <2>5. CASE /\ n \in DOMAIN s /\ (s \o t)[n] = s[n]
             /\ m - Len(s) \in DOMAIN t /\ (s \o t)[m] = t[m - Len(s)]
    BY <1>5, <2>5 DEF In
  <2> QED BY <1>2, <2>2, <2>3, <2>4, <2>5
<1> QED BY <1>3, <1>4, <1>5 DEF NoRepeat

LEMMA ExactlyMore ==
  ASSUME NEW S, NEW j \in Seq(S), NEW q \in Seq(S), NEW E, Exactly(j, q, E), NEW x \in S, x \notin E
  PROVE  /\ Exactly(Append(j, x), q, E \cup {x})
         /\ Exactly(j, Append(q, x), E \cup {x})
<1>1. ~In(x, j) /\ ~In(x, q)
  BY DEF Exactly
<1> QED BY <1>1, AppendIn DEF Exactly

LEMMA ExactlyFlushed ==
  ASSUME NEW S, NEW j \in Seq(S), NEW q \in Seq(S), NEW E, Exactly(j, q, E)
  PROVE  Exactly(j \o q, <<>>, E)
<1>1. \A e : ~In(e, <<>>)
  BY DEF In
<1>2. NoRepeat(<<>>)
  BY DEF NoRepeat
<1> QED BY <1>1, <1>2, ConcatIn DEF Exactly

\* A sequence without repetition is as long as the set of its members
LEMMA ExactlyCounts ==
  ASSUME NEW S, NEW j \in Seq(S), NEW E, Exactly(j, <<>>, E)
  PROVE  {j[n] : n \in DOMAIN j} = E /\ Len(j) = Cardinality(E)
<1>1. \A e : ~In(e, <<>>)
  BY DEF In
<1>2. {j[n] : n \in DOMAIN j} = E
  BY <1>1 DEF Exactly, In
<1>3. DOMAIN j = 1..Len(j) /\ Len(j) \in Nat
  OBVIOUS
<1>4. IsFiniteSet(1..Len(j)) /\ Cardinality(1..Len(j)) = Len(j)
  <2>1. Len(j) \in Int /\ 1 \in Int
    BY <1>3
  <2>2. /\ IsFiniteSet(1..Len(j))
        /\ Cardinality(1..Len(j)) = IF 1 > Len(j) THEN 0 ELSE Len(j) - 1 + 1
    BY <2>1, FS_Interval
  <2>3. (IF 1 > Len(j) THEN 0 ELSE Len(j) - 1 + 1) = Len(j)
    BY <1>3
  <2> QED BY <2>2, <2>3
<1>5. j \in Bijection(1..Len(j), E)
  <2>1. \A n \in 1..Len(j) : j[n] \in E
    BY <1>2, <1>3
  <2>2. j \in [1..Len(j) -> E]
    BY <1>3, <2>1
  <2>3. IsInjective(j)
    BY <1>3 DEF IsInjective, Exactly, NoRepeat
  <2>4. \A e \in E : \E n \in 1..Len(j) : j[n] = e
    BY <1>2, <1>3
  <2> QED BY <2>2, <2>3, <2>4 DEF Bijection, Injection, Surjection
<1>6. ExistsBijection(1..Len(j), E)
  BY <1>5 DEF ExistsBijection
<1> QED BY <1>2, <1>3, <1>4, <1>6, FS_Bijection

-----------------------------------------------------------------------------
(* The journal, one batch at a time *)

\* The call's entry is noted and not yet posted
AtStore(c) == pc[c] = "store" /\ InBatch(Current(c))

Stored == {CurrentId(c) : c \in {d \in Calls : AtStore(d)}}

Recorded == InEffect(Both) \cup Stored

\* The journal and the cache hold what is in effect, or about to be
JournalOK == Failed = {} => Exactly(journal, entriesCache, Recorded)

\* Only a running batch has entries in the cache
CacheIdle == Failed = {} /\ (\A c \in Calls : ~BatchActive(c)) => entriesCache = <<>>

ExactInv == KeptInv /\ StoredInv /\ OrderInv /\ JournalOK /\ CacheIdle

LEMMA StoredFrame ==
  ASSUME NEW c \in Calls, \A d \in Calls \ {c} : /\ AtStore(d)' <=> AtStore(d)
                                                 /\ AtStore(d) => CurrentId(d)' = CurrentId(d)
  PROVE  /\ ~AtStore(c) /\ ~AtStore(c)' => Stored' = Stored
         /\ ~AtStore(c) /\ AtStore(c)' => Stored' = Stored \cup {CurrentId(c)'}
         /\ AtStore(c) /\ ~AtStore(c)' => Stored = Stored' \cup {CurrentId(c)}
<1>1. \A e : e \in Stored <=> \E d \in Calls : AtStore(d) /\ e = CurrentId(d)
  BY DEF Stored
<1>2. \A e : e \in Stored' <=> \E d \in Calls : AtStore(d)' /\ e = CurrentId(d)'
  BY DEF Stored
<1>3. CASE ~AtStore(c) /\ ~AtStore(c)'
  <2>1. \A e : e \in Stored' <=> e \in Stored
    BY <1>1, <1>2, <1>3
  <2> QED BY <1>3, <2>1
<1>4. CASE ~AtStore(c) /\ AtStore(c)'
  <2>1. \A e : e \in Stored' <=> e \in Stored \/ e = CurrentId(c)'
    BY <1>1, <1>2, <1>4
  <2> QED BY <1>4, <2>1
<1>5. CASE AtStore(c) /\ ~AtStore(c)'
  <2>1. \A e : e \in Stored <=> e \in Stored' \/ e = CurrentId(c)
    BY <1>1, <1>2, <1>5
  <2> QED BY <1>5, <2>1
<1> QED BY <1>3, <1>4, <1>5

LEMMA StoredStepOf ==
  ASSUME NEW c \in Calls, OnlyCall(c), reqs' = reqs
  PROVE  /\ ~AtStore(c) /\ pc'[c] # "store" => Stored' = Stored
         /\ ~AtStore(c) /\ ~InBatch(Current(c)) /\ resp'[c] = resp[c] => Stored' = Stored
         /\ pc[c] # "store" /\ pc'[c] = "store" /\ InBatch(Current(c))
              /\ resp'[c] = resp[c] /\ leg'[c] = leg[c] => Stored' = Stored \cup {CurrentId(c)}
         /\ AtStore(c) /\ pc'[c] # "store" => Stored = Stored' \cup {CurrentId(c)}
<1>1. \A d \in Calls \ {c} : /\ AtStore(d)' <=> AtStore(d)
                             /\ AtStore(d) => CurrentId(d)' = CurrentId(d)
  BY DEF OnlyCall, AtStore, Current, CurrentId
<1>2. pc'[c] # "store" => ~AtStore(c)'
  BY DEF AtStore
<1>3. resp'[c] = resp[c] => Current(c)' = Current(c)
  BY DEF Current
<1>4. resp'[c] = resp[c] /\ leg'[c] = leg[c] => CurrentId(c)' = CurrentId(c)
  BY DEF CurrentId
<1>5. resp'[c] = resp[c] /\ pc'[c] = "store" /\ InBatch(Current(c)) => AtStore(c)'
  BY <1>3 DEF AtStore
<1>6. resp'[c] = resp[c] /\ ~InBatch(Current(c)) => ~AtStore(c)'
  BY <1>3 DEF AtStore
<1>7. pc[c] # "store" => ~AtStore(c)
  BY DEF AtStore
<1> QED BY <1>1, <1>2, <1>4, <1>5, <1>6, <1>7, StoredFrame

\* No other call is at the entry of call c
LEMMA NotStored ==
  ASSUME NEW c \in Calls, ~AtStore(c)
  PROVE  CurrentId(c) \notin Stored
<1> SUFFICES ASSUME NEW d \in Calls, AtStore(d), CurrentId(d) = CurrentId(c) PROVE FALSE
  BY DEF Stored
<1>1. d = c
  BY DEF CurrentId
<1> QED BY <1>1

\* A step that records nothing
LEMMA JournalSame ==
  ASSUME JournalOK, Failed' = {} => Failed = {}, UNCHANGED <<journal, entriesCache>>,
         Recorded' = Recorded
  PROVE  JournalOK'
BY DEF JournalOK, Exactly, In

\* A failed call stays failed
LEMMA FailedKept ==
  ASSUME Inv, NEW c \in Calls, OnlyCall(c), pc[c] # "failed", Failed' = {}
  PROVE  Failed = {} /\ pc'[c] # "failed"
BY DEF Failed, OnlyCall

\* A running batch goes on, or the cache is as it was
LEMMA CacheStep ==
  ASSUME Inv, CacheIdle, NEW c \in Calls, OnlyCall(c), reqs' = reqs, pc[c] \in Active,
         \/ entriesCache' = <<>>
         \/ InBatch(reqs[c][1]) /\ pc'[c] \in Active
         \/ ~InBatch(reqs[c][1]) /\ entriesCache' = entriesCache
         \/ pc'[c] = "failed"
  PROVE  CacheIdle'
<1> SUFFICES ASSUME Failed' = {}, \A d \in Calls : ~BatchActive(d)' PROVE entriesCache' = <<>>
  BY DEF CacheIdle
<1>1. Failed = {} /\ pc'[c] # "failed"
  <2>1. pc[c] # "failed"
    BY DEF Active
  <2> QED BY <2>1, FailedKept
<1>2. \A d \in Calls \ {c} : ~BatchActive(d)
  BY DEF OnlyCall, BatchActive
<1>3. InBatch(reqs[c][1]) => pc'[c] \notin Active
  BY DEF BatchActive
<1>4. ~InBatch(reqs[c][1]) => ~BatchActive(c)
  BY DEF BatchActive
<1> QED BY <1>1, <1>2, <1>3, <1>4 DEF CacheIdle

\* After an answer a batch is still running
LEMMA AnswerActive ==
  ASSUME Inv, NEW c \in Calls, NEW ok \in BOOLEAN, NEW b \in [Accounts -> Balance],
         pc[c] \in Suspended, Answer(c, ok, b), reqs' = reqs
  PROVE  /\ InBatch(Current(c)) => pc'[c] \in Active
         /\ pc'[c] # "store"
<1>1. pc \in [Calls -> {"idle"} \cup Active \cup Ended]
  BY DEF Inv, TypeOK
<1>2. CASE Len(resp[c]) + 1 < Len(reqs[c])
  BY <1>1, <1>2 DEF Answer, EntryPoint, Active
<1>3. CASE ~(Len(resp[c]) + 1 < Len(reqs[c]))
  BY <1>1, <1>3 DEF Answer, BeginFlush, Active
<1> QED BY <1>2, <1>3

-----------------------------------------------------------------------------
(* Every step keeps the journal exact *)

\* A refusal before the entry is noted takes nothing back that is recorded
LEMMA RefuseRecords ==
  ASSUME Inv, LateLeft, NEW c \in Calls, NEW b \in [Accounts -> Balance],
         pc[c] \in {"check", "fetch"}, Answer(c, FALSE, b), reqs' = reqs,
         leg[c] = 2 => /\ Current(c).type = "commit"
                       /\ ~Payable(Transfer[Current(c).t])
  PROVE  Recorded' = Recorded
<1>1. pc[c] \in Suspended /\ pc[c] # "store" /\ pc[c] \in {"check", "fetch", "store"}
  BY DEF Suspended
<1>2. OnlyCall(c)
  BY <1>1, AnswerOK
<1>3. Stored' = Stored
  BY <1>1, <1>2, StoredStepOf, AnswerActive DEF AtStore
<1>4. PICK x : x = <<c, Len(resp[c]) + 1, 1>>
  OBVIOUS
<1>5. /\ leg[c] = 1 \/ leg[c] = 2
      /\ LeftBehind \subseteq LeftBehind' /\ \A e \in LeftBehind' \ LeftBehind : e = x
      /\ leg[c] = 2 => x \in LeftBehind'
      /\ leg[c] = 1 => Posted(Both)' = Posted(Both)
      /\ leg[c] = 2 => Posted(Both)' = Posted(Both) \ {x} /\ x \in Posted(Both)
  BY <1>1, <1>4, RefusedEffect
<1>6. CASE leg[c] = 1
  <2>1. x[1] = c
    BY <1>4
  <2>2. \A e \in LeftBehind' \ LeftBehind : FALSE
    BY <1>5, <1>6, <2>1 DEF LateLeft
  <2>3. LeftBehind' = LeftBehind
    BY <1>5, <2>2
  <2> QED BY <1>3, <1>5, <1>6, <2>3 DEF Recorded, InEffect
<1>7. CASE leg[c] = 2
  <2>1. /\ Posted(Both)' = Posted(Both) \ {x} /\ x \in Posted(Both) /\ x \in LeftBehind'
        /\ LeftBehind \subseteq LeftBehind' /\ \A e \in LeftBehind' \ LeftBehind : e = x
    BY <1>5, <1>7
  <2>2. \A e : e \in InEffect(Both)' <=> e \in InEffect(Both)
    BY <2>1 DEF InEffect
  <2>3. InEffect(Both)' = InEffect(Both)
    BY <2>2
  <2> QED BY <1>3, <2>3 DEF Recorded
<1> QED BY <1>5, <1>6, <1>7

\* A step that only moves a call that posts nothing
LEMMA PcRecords ==
  ASSUME Inv, NEW c \in Calls, NEW q, pc' = [pc EXCEPT ![c] = q],
         UNCHANGED <<reqs, resp, leg>>, q \in Both <=> pc[c] \in Both,
         ~AtStore(c), q # "store" \/ ~InBatch(Current(c))
  PROVE  OnlyCall(c) /\ Recorded' = Recorded
<1>1. OnlyCall(c) /\ Posted(Both)' = Posted(Both) /\ LeftBehind' = LeftBehind
  BY PcEffect
<1>2. pc'[c] = q
  BY DEF Inv, TypeOK
<1>3. Stored' = Stored
  BY <1>1, <1>2, StoredStepOf
<1> QED BY <1>1, <1>3 DEF Recorded, InEffect

LEMMA RejectJournal ==
  ASSUME Inv, NEW c \in Calls, Reject(c)
  PROVE  JournalOK' /\ CacheIdle'
<1>1. Failed' # {}
  BY DEF Reject, Failed, Inv, TypeOK
<1> QED BY <1>1 DEF JournalOK, CacheIdle

LEMMA StartJournal ==
  ASSUME ExactInv, NEW c \in Calls, Start(c)
  PROVE  JournalOK' /\ CacheIdle'
<1> USE DEF ExactInv, OrderInv, TallyInv
<1>1. /\ Posted(Both)' = Posted(Both) /\ LeftBehind' = LeftBehind
  BY StartPosted
<1>2. /\ pc[c] = "idle" /\ pc'[c] \in {"check", "fetch"} /\ UNCHANGED <<journal, entriesCache>>
      /\ \A d \in Calls \ {c} : /\ pc'[d] = pc[d] /\ reqs'[d] = reqs[d]
                                /\ resp'[d] = resp[d] /\ leg'[d] = leg[d]
  BY DEF Start, Arrive, EntryPoint, Inv, TypeOK
<1>3. Stored' = Stored
  <2>1. ~AtStore(c) /\ ~AtStore(c)'
    BY <1>2 DEF AtStore
  <2>2. \A d \in Calls \ {c} : /\ AtStore(d)' <=> AtStore(d)
                               /\ AtStore(d) => CurrentId(d)' = CurrentId(d)
    BY <1>2 DEF AtStore, Current, CurrentId
  <2> QED BY <2>1, <2>2, StoredFrame
<1>4. Recorded' = Recorded
  BY <1>1, <1>3 DEF Recorded, InEffect
<1>5. Failed' = Failed
  BY <1>2 DEF Failed
<1>6. (\A d \in Calls : ~BatchActive(d)') => \A d \in Calls : ~BatchActive(d)
  BY <1>2 DEF BatchActive, Active
<1>7. JournalOK'
  BY <1>2, <1>4, <1>5, JournalSame
<1> QED BY <1>2, <1>5, <1>6, <1>7 DEF CacheIdle

LEMMA CheckJournal ==
  ASSUME ExactInv, LateLeft, NEW c \in Calls, CheckLiquid(c)
  PROVE  JournalOK' /\ CacheIdle'
<1> USE DEF ExactInv, OrderInv, TallyInv
<1>1. /\ pc[c] = "check" /\ pc[c] \in Suspended /\ Current(c).type = "reserve"
      /\ InBatch(Current(c)) /\ reqs' = reqs /\ bal \in [Accounts -> Balance]
      /\ UNCHANGED <<journal, entriesCache>> /\ pc[c] \in Active /\ pc[c] # "failed"
  BY DEF CheckLiquid, Suspended, Inv, CallOK, InBatch, TypeOK, Active
<1>2. OnlyCall(c)
  BY ResumeOnly DEF Resume
<1>3. Recorded' = Recorded /\ pc'[c] \in Active
  <2>1. CASE Answer(c, FALSE, bal)
    <3>1. leg[c] # 2
      BY <1>1, CurrentKind DEF CurrentIs
    <3> QED BY <1>1, <2>1, <3>1, RefuseRecords, AnswerActive
  <2>2. CASE ~Answer(c, FALSE, bal)
    <3>1. pc' = [pc EXCEPT ![c] = "fetch"] /\ UNCHANGED <<resp, leg>>
      BY <2>2 DEF CheckLiquid
    <3>2. "fetch" \in Both <=> pc[c] \in Both
      BY <1>1 DEF Both
    <3>3. Recorded' = Recorded
      BY <1>1, <3>1, <3>2, PcRecords DEF AtStore
    <3> QED BY <3>1, <3>3 DEF Inv, TypeOK, Active
  <2> QED BY <2>1, <2>2
<1>4. InBatch(reqs[c][1])
  BY <1>1, CurrentType
<1>5. JournalOK'
  BY <1>1, <1>2, <1>3, FailedKept, JournalSame
<1> QED BY <1>1, <1>2, <1>3, <1>4, <1>5, CacheStep

\* The entry a batch notes is not yet in the journal or the cache
LEMMA CreateJournal ==
  ASSUME ExactInv, LateLeft, NEW c \in Calls, CreateEntry(c)
  PROVE  JournalOK' /\ CacheIdle'
<1> USE DEF ExactInv, OrderInv, TallyInv
<1>1. /\ pc[c] = "fetch" /\ pc[c] \in Suspended /\ ~AtStore(c)
      /\ reqs' = reqs /\ bal \in [Accounts -> Balance]
      /\ journal' = journal /\ pc[c] \in Active /\ pc[c] # "failed"
      /\ pc \in [Calls -> {"idle"} \cup Active \cup Ended]
  BY DEF CreateEntry, Suspended, Inv, TypeOK, Active, AtStore
<1>2. OnlyCall(c) /\ (InBatch(Current(c)) <=> InBatch(reqs[c][1]))
  BY <1>1, ResumeOnly, CurrentType DEF Resume
<1>3. CASE ValidLeg(CurrentLeg(c))
  <2>1. /\ pc' = [pc EXCEPT ![c] = "store"] /\ UNCHANGED <<resp, leg>>
        /\ InBatch(Current(c)) => entriesCache' = Append(entriesCache, CurrentId(c))
        /\ ~InBatch(Current(c)) => entriesCache' = entriesCache
    BY <1>3 DEF CreateEntry, ValidLeg
  <2>2. pc'[c] = "store" /\ pc'[c] \in Active
    BY <1>1, <2>1 DEF Active
  <2>3. "store" \in Both <=> pc[c] \in Both
    BY <1>1 DEF Both
  <2>4. CASE InBatch(Current(c))
    <3>1. Posted(Both)' = Posted(Both) /\ LeftBehind' = LeftBehind
      BY <1>1, <2>1, <2>3, PcEffect
    <3>2. Stored' = Stored \cup {CurrentId(c)}
      BY <1>1, <1>2, <2>1, <2>2, <2>4, StoredStepOf
    <3>3. Recorded' = Recorded \cup {CurrentId(c)}
      BY <3>1, <3>2 DEF Recorded, InEffect
    <3>4. CurrentId(c) \notin Recorded
      BY <1>1, NotYet, NotStored DEF Recorded, InEffect, Both
    <3>5. /\ journal \in Seq(EntryIds) /\ entriesCache \in Seq(EntryIds)
          /\ CurrentId(c) \in EntryIds
      BY <1>1, CurrentType DEF Inv, TypeOK
    <3>6. JournalOK'
      <4> SUFFICES ASSUME Failed' = {}
                   PROVE  Exactly(journal, Append(entriesCache, CurrentId(c)), Recorded')
        BY <1>1, <2>1, <2>4 DEF JournalOK, Exactly, In
      <4>1. Exactly(journal, entriesCache, Recorded)
        BY <1>1, <1>2, FailedKept DEF JournalOK
      <4> QED BY <3>3, <3>4, <3>5, <4>1, ExactlyMore
    <3>7. CacheIdle'
      BY <1>1, <1>2, <2>2, <2>4, CacheStep
    <3> QED BY <3>6, <3>7
  <2>5. CASE ~InBatch(Current(c))
    <3>1. Recorded' = Recorded
      BY <1>1, <2>1, <2>3, <2>5, PcRecords
    <3>2. JournalOK'
      BY <1>1, <1>2, <2>1, <2>5, <3>1, FailedKept, JournalSame
    <3> QED BY <1>1, <1>2, <2>1, <2>5, <3>2, CacheStep
  <2> QED BY <2>4, <2>5
<1>4. CASE ~ValidLeg(CurrentLeg(c)) /\ ~InBatch(Current(c))
  <2>1. Reject(c)
    BY <1>4 DEF CreateEntry, ValidLeg, Throw
  <2> QED BY <2>1, RejectJournal
<1>5. CASE ~ValidLeg(CurrentLeg(c)) /\ InBatch(Current(c))
  <2>1. Answer(c, FALSE, bal) /\ entriesCache' = entriesCache
    BY <1>5 DEF CreateEntry, ValidLeg, Throw
  <2>2. leg[c] = 2 => Current(c).type = "commit" /\ ~Payable(Transfer[Current(c).t])
    BY <1>1, <1>5, SecondRefused
  <2>3. Recorded' = Recorded
    BY <1>1, <2>1, <2>2, RefuseRecords
  <2>4. JournalOK'
    BY <1>1, <1>2, <2>1, <2>3, FailedKept, JournalSame
  <2>5. pc'[c] \in Active
    BY <1>1, <1>5, <2>1, AnswerActive
  <2> QED BY <1>1, <1>2, <1>5, <2>4, <2>5, CacheStep
<1> QED BY <1>3, <1>4, <1>5

\* A batch posts what it noted
LEMMA PostJournal ==
  ASSUME ExactInv, LateLeft, OneHub, IsFiniteSet(Accounts), NEW c \in Calls, PostInBatch(c)
  PROVE  JournalOK' /\ CacheIdle'
<1> USE DEF ExactInv, OrderInv, TallyInv
<1>1. /\ pc[c] = "store" /\ pc[c] \in Suspended /\ AtStore(c) /\ InBatch(Current(c))
      /\ reqs' = reqs /\ bal \in [Accounts -> Balance] /\ UNCHANGED <<journal, entriesCache>>
      /\ pc[c] \in Active /\ pc[c] # "failed"
      /\ pc \in [Calls -> {"idle"} \cup Active \cup Ended]
  BY DEF PostInBatch, Suspended, Inv, TypeOK, Active, AtStore
<1>2. OnlyCall(c) /\ InBatch(reqs[c][1])
  BY <1>1, ResumeOnly, CurrentType DEF Resume
<1>3. /\ CurrentLeg(c) \in Leg /\ CurrentLeg(c).dr \in Accounts /\ CurrentLeg(c).cr \in Accounts
      /\ CanDebit(bal, CurrentLeg(c)) /\ CanCredit(Debit(bal, CurrentLeg(c)), CurrentLeg(c))
  BY <1>1, BatchFits
<1>4. NextLeg(c, bal') /\ bal' \in [Accounts -> Balance]
  BY <1>1, <1>3, DebitType, CreditType DEF PostInBatch
<1>5. /\ Posted(Both)' = Posted(Both) \cup {CurrentId(c)} /\ LeftBehind' = LeftBehind
      /\ pc'[c] \in Active /\ pc'[c] # "store"
  <2>0. Both \subseteq {"debit", "credit"}
    BY DEF Both
  <2>1. CASE leg[c] < Len(Legs(Current(c)))
    <3>1. /\ leg' = [leg EXCEPT ![c] = @ + 1] /\ pc' = [pc EXCEPT ![c] = "fetch"] /\ resp' = resp
      BY <1>4, <2>1 DEF NextLeg
    <3>2. pc'[c] = "fetch"
      BY <1>1, <3>1
    <3> QED BY <1>1, <2>0, <2>1, <3>1, <3>2, NextLegEffect DEF Active
  <2>2. CASE ~(leg[c] < Len(Legs(Current(c))))
    <3>1. Answer(c, TRUE, bal')
      BY <1>4, <2>2 DEF NextLeg
    <3>2. leg[c] = Len(Legs(Current(c)))
      <4>1. Current(c) \in Request /\ leg[c] \in 1..Len(Legs(Current(c)))
        BY <1>1, CurrentType
      <4>2. Len(Legs(Current(c))) \in Nat
        BY <4>1, LegsType
      <4> QED BY <2>2, <4>1, <4>2
    <3>3. /\ Posted(Both)' = Posted(Both) \cup {CurrentId(c)}
          /\ LeftBehind \subseteq LeftBehind'
          /\ \A e \in LeftBehind' \ LeftBehind : FALSE
      BY <1>1, <1>4, <2>0, <3>1, <3>2, AnswerEffect
    <3> QED BY <1>1, <1>4, <3>1, <3>3, AnswerActive
  <2> QED BY <2>1, <2>2
<1>6. Recorded' = Recorded
  <2>1. Stored = Stored' \cup {CurrentId(c)}
    BY <1>1, <1>2, <1>5, StoredStepOf
  <2> QED BY <1>5, <2>1 DEF Recorded, InEffect
<1>7. JournalOK'
  BY <1>1, <1>2, <1>6, FailedKept, JournalSame
<1> QED BY <1>1, <1>2, <1>5, <1>7, CacheStep

\* A low-level entry is in the journal when its debit is made
LEMMA DebitJournal ==
  ASSUME ExactInv, NEW c \in Calls, DebitDirect(c)
  PROVE  JournalOK' /\ CacheIdle'
<1> USE DEF ExactInv, OrderInv, TallyInv
<1>1. /\ pc[c] = "store" /\ pc[c] \in Suspended /\ ~AtStore(c) /\ ~InBatch(Current(c))
      /\ reqs' = reqs /\ entriesCache' = entriesCache /\ journal' = Append(journal, CurrentId(c))
      /\ pc[c] \in Active /\ pc[c] # "failed"
      /\ pc \in [Calls -> {"idle"} \cup Active \cup Ended]
  BY DEF DebitDirect, Suspended, Inv, TypeOK, Active, AtStore
<1>2. OnlyCall(c) /\ ~InBatch(reqs[c][1])
  BY <1>1, ResumeOnly, CurrentType DEF Resume
<1>3. CASE CanDebit(bal, CurrentLeg(c))
  <2>1. pc' = [pc EXCEPT ![c] = "debit"] /\ UNCHANGED <<resp, leg>>
    BY <1>3 DEF DebitDirect
  <2>2. pc'[c] = "debit"
    BY <1>1, <2>1
  <2>3. "debit" \in Both /\ pc[c] \in Suspended \ Both
    BY <1>1 DEF Both
  <2>4. Posted(Both)' = Posted(Both) \cup {CurrentId(c)} /\ LeftBehind' = LeftBehind
    BY <1>1, <2>1, <2>3, PcEffect
  <2>5. Stored' = Stored
    BY <1>1, <1>2, <2>2, StoredStepOf
  <2>6. Recorded' = Recorded \cup {CurrentId(c)}
    BY <2>4, <2>5 DEF Recorded, InEffect
  <2>7. CurrentId(c) \notin Recorded
    BY <1>1, <2>3, NotYet, NotStored DEF Recorded, InEffect
  <2>8. /\ journal \in Seq(EntryIds) /\ entriesCache \in Seq(EntryIds)
        /\ CurrentId(c) \in EntryIds
    BY <1>1, CurrentType DEF Inv, TypeOK
  <2>9. JournalOK'
    <3> SUFFICES ASSUME Failed' = {}
                 PROVE  Exactly(Append(journal, CurrentId(c)), entriesCache, Recorded')
      BY <1>1 DEF JournalOK, Exactly, In
    <3>1. Exactly(journal, entriesCache, Recorded)
      BY <1>1, <1>2, FailedKept DEF JournalOK
    <3> QED BY <2>6, <2>7, <2>8, <3>1, ExactlyMore
  <2> QED BY <1>1, <1>2, <2>9, CacheStep
<1>4. CASE ~CanDebit(bal, CurrentLeg(c))
  BY <1>4, RejectJournal DEF DebitDirect
<1> QED BY <1>3, <1>4

LEMMA CreditJournal ==
  ASSUME ExactInv, NEW c \in Calls, CreditDirect(c)
  PROVE  JournalOK' /\ CacheIdle'
<1> USE DEF ExactInv, OrderInv, TallyInv
<1>1. /\ pc[c] = "debit" /\ pc[c] \in Suspended /\ ~AtStore(c) /\ ~InBatch(Current(c))
      /\ reqs' = reqs /\ UNCHANGED <<entriesCache, journal>>
      /\ pc[c] \in Active /\ pc[c] # "failed"
  BY DEF CreditDirect, Suspended, Inv, TypeOK, Active, AtStore, CallOK
<1>2. OnlyCall(c) /\ ~InBatch(reqs[c][1])
  BY <1>1, ResumeOnly, CurrentType DEF Resume
<1>3. CASE CanCredit(bal, CurrentLeg(c))
  <2>1. pc' = [pc EXCEPT ![c] = "credit"] /\ UNCHANGED <<resp, leg>>
    BY <1>3 DEF CreditDirect
  <2>2. "credit" \in Both <=> pc[c] \in Both
    BY <1>1 DEF Both
  <2>3. Recorded' = Recorded
    BY <1>1, <2>1, <2>2, PcRecords
  <2>4. JournalOK'
    BY <1>1, <1>2, <2>3, FailedKept, JournalSame
  <2> QED BY <1>1, <1>2, <2>4, CacheStep
<1>4. CASE ~CanCredit(bal, CurrentLeg(c))
  BY <1>4, RejectJournal DEF CreditDirect
<1> QED BY <1>3, <1>4

LEMMA CompleteJournal ==
  ASSUME ExactInv, NEW c \in Calls, CompleteDirect(c)
  PROVE  JournalOK' /\ CacheIdle'
<1> USE DEF ExactInv, OrderInv, TallyInv
<1>1. /\ pc[c] = "credit" /\ pc[c] \in Suspended /\ ~AtStore(c) /\ ~InBatch(Current(c))
      /\ reqs' = reqs /\ UNCHANGED <<entriesCache, journal>> /\ Answer(c, TRUE, bal)
      /\ pc[c] \in Active /\ pc[c] # "failed" /\ bal \in [Accounts -> Balance]
  BY DEF CompleteDirect, Suspended, Inv, TypeOK, Active, AtStore, CallOK
<1>2. OnlyCall(c) /\ ~InBatch(reqs[c][1])
  BY <1>1, ResumeOnly, CurrentType DEF Resume
<1>3. leg[c] = Len(Legs(Current(c)))
  BY <1>1, CurrentType, DirectLegKind
<1>4. CurrentId(c) \in Posted(Both)
  <2>1. /\ IsAsked(c, Len(resp[c]) + 1, leg[c])
        /\ CurrentId(c) = <<c, Len(resp[c]) + 1, leg[c]>>
    BY <1>1, CurrentAsked
  <2>2. IsPosted(c, Len(resp[c]) + 1, leg[c], Both)
    BY <1>1 DEF IsPosted, Both
  <2> QED BY <2>1, <2>2, PostedIs DEF PostedAre
<1>5. Posted(Both)' = Posted(Both) /\ LeftBehind' = LeftBehind
  <2>1. Both \subseteq {"debit", "credit"}
    BY DEF Both
  <2>2. /\ Posted(Both)' = Posted(Both) \cup {CurrentId(c)}
        /\ LeftBehind \subseteq LeftBehind'
        /\ \A e \in LeftBehind' \ LeftBehind : FALSE
    BY <1>1, <1>3, <2>1, AnswerEffect
  <2> QED BY <1>4, <2>2
<1>6. Stored' = Stored
  BY <1>1, <1>2, AnswerActive, StoredStepOf
<1>7. Recorded' = Recorded
  BY <1>5, <1>6 DEF Recorded, InEffect
<1>8. JournalOK'
  BY <1>1, <1>2, <1>7, FailedKept, JournalSame
<1> QED BY <1>1, <1>2, <1>8, CacheStep

\* A flush moves the whole cache into the journal
LEMMA FlushJournal ==
  ASSUME ExactInv, NEW c \in Calls, FlushEntries(c)
  PROVE  JournalOK' /\ CacheIdle'
<1> USE DEF ExactInv, OrderInv, TallyInv
<1>1. /\ pc[c] = "flushEntries" /\ reqs' = reqs /\ ~AtStore(c)
      /\ pc' = [pc EXCEPT ![c] = "flushAccounts"] /\ UNCHANGED <<reqs, resp, leg>>
      /\ entriesCache' = <<>> /\ journal' = journal \o sent[c]
      /\ pc[c] \in Active /\ pc[c] # "failed"
  BY DEF FlushEntries, Active, AtStore
<1>2. "flushAccounts" \in Both <=> pc[c] \in Both
  BY <1>1 DEF Both
<1>3. OnlyCall(c) /\ Recorded' = Recorded
  BY <1>1, <1>2, PcRecords
<1>4. sent[c] = entriesCache
  BY <1>1 DEF KeptInv, Kept
<1>5. journal \in Seq(EntryIds) /\ entriesCache \in Seq(EntryIds)
  BY DEF Inv, TypeOK
<1>6. JournalOK'
  <2> SUFFICES ASSUME Failed' = {} PROVE Exactly(journal \o entriesCache, <<>>, Recorded')
    BY <1>1, <1>4 DEF JournalOK, Exactly, In
  <2>1. Exactly(journal, entriesCache, Recorded)
    BY <1>1, <1>3, FailedKept DEF JournalOK
  <2> QED BY <1>3, <1>5, <2>1, ExactlyFlushed
<1> QED BY <1>1, <1>3, <1>6, CacheStep

LEMMA DoneJournal ==
  ASSUME ExactInv, NEW c \in Calls, FlushAccounts(c)
  PROVE  JournalOK' /\ CacheIdle'
<1> USE DEF ExactInv, OrderInv, TallyInv
<1>1. /\ pc[c] = "flushAccounts" /\ reqs' = reqs /\ ~AtStore(c)
      /\ pc' = [pc EXCEPT ![c] = "done"] /\ UNCHANGED <<reqs, resp, leg>>
      /\ UNCHANGED <<entriesCache, journal>>
      /\ pc[c] \in Active /\ pc[c] # "failed"
  BY DEF FlushAccounts, Active, AtStore
<1>2. "done" \in Both <=> pc[c] \in Both
  BY <1>1 DEF Both
<1>3. OnlyCall(c) /\ Recorded' = Recorded
  BY <1>1, <1>2, PcRecords
<1>4. entriesCache = <<>>
  BY <1>1 DEF StoredInv, Storing
<1>5. JournalOK'
  BY <1>1, <1>3, FailedKept, JournalSame
<1> QED BY <1>1, <1>3, <1>4, <1>5, CacheStep

LEMMA ExactNext ==
  ASSUME ExactInv, [SerialNext]_vars, Disciplined, OneHub, IsFiniteSet(Accounts)
  PROVE  ExactInv'
<1>1. [Next]_vars
  BY SerialIsNext
<1>2. Inv
  BY DEF ExactInv, OrderInv, TallyInv
<1>3. OrderInv' /\ LateLeft
  BY <1>1, OrderNext DEF ExactInv
<1>4. KeptInv' /\ StoredInv'
  BY <1>2, NextKept, NextStores DEF ExactInv
<1>5. JournalOK' /\ CacheIdle'
  <2>1. ASSUME NEW c \in Calls, Start(c) \/ Resume(c) PROVE JournalOK' /\ CacheIdle'
    <3>1. CASE Start(c)
      BY <3>1, StartJournal
    <3>2. CASE CheckLiquid(c)
      BY <1>3, <3>2, CheckJournal
    <3>3. CASE CreateEntry(c)
      BY <1>3, <3>3, CreateJournal
    <3>4. CASE PostInBatch(c)
      BY <1>3, <3>4, PostJournal
    <3>5. CASE DebitDirect(c)
      BY <3>5, DebitJournal
    <3>6. CASE CreditDirect(c)
      BY <3>6, CreditJournal
    <3>7. CASE CompleteDirect(c)
      BY <3>7, CompleteJournal
    <3>8. CASE FlushEntries(c)
      BY <3>8, FlushJournal
    <3>9. CASE FlushAccounts(c)
      BY <3>9, DoneJournal
    <3>10. CASE RepoFails(c)
      BY <1>2, <3>10, RejectJournal DEF RepoFails
    <3> QED BY <2>1, <3>1, <3>2, <3>3, <3>4, <3>5, <3>6, <3>7, <3>8, <3>9, <3>10 DEF Resume
  <2>2. ASSUME UNCHANGED vars PROVE JournalOK' /\ CacheIdle'
    <3>1. /\ UNCHANGED <<journal, entriesCache>>
          /\ \A d \in Calls : /\ pc'[d] = pc[d] /\ reqs'[d] = reqs[d]
                              /\ resp'[d] = resp[d] /\ leg'[d] = leg[d]
      BY <2>2 DEF vars
    <3>2. Posted(Both)' = Posted(Both) /\ LeftBehind' = LeftBehind
      BY <2>2, StutterPosted DEF ExactInv, OrderInv
    <3>3. Stored' = Stored
      <4>1. \A d \in Calls : /\ AtStore(d)' <=> AtStore(d)
                             /\ CurrentId(d)' = CurrentId(d)
        BY <3>1 DEF AtStore, Current, CurrentId
      <4>2. \A e : e \in Stored' <=> e \in Stored
        BY <4>1 DEF Stored
      <4> QED BY <4>2
    <3>4. Recorded' = Recorded
      BY <3>2, <3>3 DEF Recorded, InEffect
    <3>5. Failed' = Failed
      BY <3>1 DEF Failed
    <3>6. (\A d \in Calls : ~BatchActive(d)') => \A d \in Calls : ~BatchActive(d)
      BY <3>1 DEF BatchActive
    <3> QED BY <3>1, <3>4, <3>5, <3>6, JournalSame DEF ExactInv, CacheIdle
  <2> QED BY <1>1, <2>1, <2>2 DEF Next
<1> QED BY <1>3, <1>4, <1>5 DEF ExactInv

LEMMA ExactInit ==
  ASSUME Tallied(InitBalance), NoneReserved, Init
  PROVE  ExactInv
<1>1. OrderInv /\ KeptInv
  BY OrderInit, InitKept
<1>2. StoredInv
  BY DEF Init, StoredInv, OneBatch, BatchActive, Active, Storing
<1>3. CacheIdle
  BY DEF Init, CacheIdle
<1>4. Recorded = {}
  <2>1. \A c, i, k : ~IsAsked(c, i, k)
    BY DEF Init, IsAsked
  <2>2. LeftBehind = {} /\ Posted(Both) = {}
    BY <2>1, PostedIs DEF LeftAre, PostedAre
  <2>3. Stored = {}
    BY DEF Init, Stored, AtStore
  <2> QED BY <2>2, <2>3 DEF Recorded, InEffect
<1>5. Exactly(<<>>, <<>>, {})
  <2>1. DOMAIN <<>> = {}
    OBVIOUS
  <2> QED BY <2>1 DEF Exactly, In, NoRepeat
<1>6. journal = <<>> /\ entriesCache = <<>>
  BY DEF Init
<1>7. JournalOK
  BY <1>4, <1>5, <1>6 DEF JournalOK
<1> QED BY <1>1, <1>2, <1>3, <1>7 DEF ExactInv

\* When no call runs and none has failed nothing is under way or in the cache
LEMMA ExactMeans ==
  ASSUME ExactInv
  PROVE  JournalExact
<1> USE DEF ExactInv, OrderInv, TallyInv
<1> SUFFICES ASSUME Quiet, Failed = {}
             PROVE  /\ {journal[n] : n \in DOMAIN journal} = AcceptedIds \cup LeftBehind
                    /\ Len(journal) = Cardinality(AcceptedIds \cup LeftBehind)
  BY DEF JournalExact
<1>1. \A c \in Calls : pc[c] = "idle" \/ pc[c] = "done"
  BY DEF Quiet, Failed, Inv, TypeOK, Ended
<1>2. entriesCache = <<>>
  BY <1>1 DEF CacheIdle, BatchActive, Active
<1>3. Stored = {}
  BY <1>1 DEF Stored, AtStore
<1>4. ASSUME NEW c, NEW i, NEW k, IsAsked(c, i, k)
      PROVE  IsPosted(c, i, k, Both) <=> Accepted(c, i)
  <2>1. c \in Calls /\ i \in DOMAIN reqs[c]
    BY <1>4 DEF IsAsked
  <2>2. pc[c] = "done"
    BY <1>1, <2>1 DEF Shaped
  <2>3. Len(resp[c]) = Len(reqs[c])
    BY <2>1, <2>2 DEF Complete, Answered
  <2>4. reqs[c] \in Seq(HighLevel) \cup Seq(LowLevel)
    BY <2>1 DEF Inv, TypeOK
  <2>5. DOMAIN reqs[c] = 1..Len(reqs[c]) /\ Len(reqs[c]) \in Nat
    BY <2>4
  <2>6. i # Len(resp[c]) + 1
    BY <2>1, <2>3, <2>5
  <2> QED BY <2>6 DEF IsPosted
<1>5. Posted(Both) = AcceptedIds
  <2>1. \A e \in EntriesAsked : \E c, i, k : e = <<c, i, k>>
    BY AskedIs
  <2>2. \A c, i, k : <<c, i, k>> \in Posted(Both) <=> IsAsked(c, i, k) /\ Accepted(c, i)
    BY <1>4, PostedIs DEF PostedAre
  <2>3. \A e : e \in AcceptedIds <=> e \in EntriesAsked /\ Accepted(e[1], e[2])
    BY DEF AcceptedIds
  <2>4. \A c, i, k : <<c, i, k>> \in AcceptedIds <=> IsAsked(c, i, k) /\ Accepted(c, i)
    <3> TAKE c, i, k
    <3>1. PICK e : e = <<c, i, k>>
      OBVIOUS
    <3>2. e[1] = c /\ e[2] = i
      BY <3>1
    <3>3. e \in EntriesAsked <=> IsAsked(c, i, k)
      BY <3>1, AskedIs
    <3> QED BY <2>3, <3>1, <3>2, <3>3
  <2>5. \A e \in Posted(Both) \cup AcceptedIds : \E c, i, k : e = <<c, i, k>>
    BY <2>1, <2>3, PostedIs DEF PostedAre
  <2>6. \A e : e \in Posted(Both) <=> e \in AcceptedIds
    BY <2>2, <2>4, <2>5
  <2> QED BY <2>6
<1>6. Exactly(journal, <<>>, AcceptedIds \cup LeftBehind)
  <2>1. Recorded = AcceptedIds \cup LeftBehind
    BY <1>3, <1>5 DEF Recorded, InEffect
  <2> QED BY <1>2, <2>1 DEF JournalOK
<1>7. journal \in Seq(EntryIds)
  BY DEF Inv, TypeOK
<1> QED BY <1>6, <1>7, ExactlyCounts

\* With one batch at a time, and clients that settle only what they reserved:
\* when no call runs and none has failed, the journal holds the entries of the
\* requests answered with success, and the cancellations refused commits left
\* behind, each exactly once, and no other entry.
THEOREM JournalIsExact ==
  ASSUME Disciplined, OneHub, IsFiniteSet(Accounts), Tallied(InitBalance), NoneReserved
  PROVE  SerialSpec => []JournalExact
<1>1. Init => ExactInv
  BY ExactInit
<1>2. ExactInv /\ [SerialNext]_vars => ExactInv'
  BY ExactNext
<1>3. ExactInv => JournalExact
  BY ExactMeans
<1> QED BY <1>1, <1>2, <1>3, PTL DEF SerialSpec
=============================================================================
