------------------------- MODULE BuiltinLedgerProofs -------------------------
(* Theorems about BuiltinLedger and their proofs, for every set of calls,    *)
(* accounts, transfers and every workload.                                    *)
EXTENDS BuiltinLedger, TLAPS

-----------------------------------------------------------------------------
(* What a suspended call is entitled to assume *)

Suspended == {"check", "fetch", "store", "debit", "credit"}
Flushing == {"flushEntries", "flushAccounts"}

\* The request under way exists, the entry being posted is one of its entries,
\* accounts were validated before they are posted to, and only a low-level
\* call awaits a single update.
CallOK(c) ==
  /\ pc[c] = "idle" => resp[c] = <<>> /\ leg[c] = 1
  /\ pc[c] \in Active => reqs[c] # <<>>
  /\ pc[c] \in Suspended => /\ Len(resp[c]) < Len(reqs[c])
                            /\ leg[c] \in 1..Len(Legs(Current(c)))
  /\ pc[c] = "check" => Current(c).type = "reserve"
  /\ pc[c] \in {"store", "debit", "credit"} =>
       {CurrentLeg(c).dr, CurrentLeg(c).cr} \subseteq Accounts
  /\ pc[c] \in {"debit", "credit"} => ~InBatch(Current(c))
  /\ pc[c] \in Flushing => InBatch(reqs[c][1])

Inv == TypeOK /\ \A c \in Calls : CallOK(c)

-----------------------------------------------------------------------------
(* Lemmas on requests and entries *)

LEMMA OneOrTwo ==
  ASSUME NEW n, n = 1 \/ n = 2
  PROVE  /\ n \in Nat
         /\ 1 \in 1..n
         /\ \A m \in {1, 2} : m < n => m = 1 /\ n = 2
OBVIOUS

LEMMA OneOf ==
  ASSUME NEW S, NEW x \in S
  PROVE  <<x>> \in Seq(S) /\ Len(<<x>>) = 1 /\ \A k \in 1..1 : <<x>>[k] \in S
OBVIOUS

LEMMA TwoOf ==
  ASSUME NEW S, NEW x \in S, NEW y \in S
  PROVE  <<x, y>> \in Seq(S) /\ Len(<<x, y>>) = 2 /\ \A k \in 1..2 : <<x, y>>[k] \in S
OBVIOUS

LEMMA LegsType ==
  ASSUME NEW r \in Request
  PROVE  /\ Legs(r) \in Seq(Leg)
         /\ Len(Legs(r)) \in Nat
         /\ Len(Legs(r)) = 1 \/ Len(Legs(r)) = 2
         /\ \A k \in 1..Len(Legs(r)) : Legs(r)[k] \in Leg
<1>1. CASE r.type = "reserve"
  <2>1. Reservation(Transfer[r.t], Transfer[r.t].amount) \in Leg
    BY <1>1, RequestsAssumption DEF Reservation, Request, HighLevel, LowLevel, Leg, TransferTerms, NatPos
  <2>2. Legs(r) = <<Reservation(Transfer[r.t], Transfer[r.t].amount)>>
    BY <1>1 DEF Legs
  <2> QED BY <2>1, <2>2, OneOf
<1>2. CASE r.type = "cancel"
  <2>1. Reservation(Transfer[r.t], -Transfer[r.t].amount) \in Leg
    BY <1>2, RequestsAssumption DEF Reservation, Request, HighLevel, LowLevel, Leg, TransferTerms, NatPos
  <2>2. Legs(r) = <<Reservation(Transfer[r.t], -Transfer[r.t].amount)>>
    BY <1>2 DEF Legs
  <2> QED BY <2>1, <2>2, OneOf
<1>3. CASE r.type = "commit"
  <2>1. Reservation(Transfer[r.t], -Transfer[r.t].amount) \in Leg
    BY <1>3, RequestsAssumption DEF Reservation, Request, HighLevel, LowLevel, Leg, TransferTerms, NatPos
  <2>2. Movement(Transfer[r.t]) \in Leg
    BY <1>3, RequestsAssumption DEF Movement, Request, HighLevel, LowLevel, Leg, TransferTerms, NatPos
  <2>3. Legs(r) = <<Reservation(Transfer[r.t], -Transfer[r.t].amount), Movement(Transfer[r.t])>>
    BY <1>3 DEF Legs
  <2> QED BY <2>1, <2>2, <2>3, TwoOf
<1>4. CASE r.type = "entry"
  <2>1. Posting[r.t] \in Leg
    BY <1>4, RequestsAssumption DEF Request, HighLevel, LowLevel
  <2>2. Legs(r) = <<Posting[r.t]>>
    BY <1>4 DEF Legs
  <2> QED BY <2>1, <2>2, OneOf
<1>5. r.type \in {"reserve", "cancel", "commit", "entry"}
  BY DEF Request, HighLevel, LowLevel
<1> QED BY <1>1, <1>2, <1>3, <1>4, <1>5

\* All the requests of a call are of the kind of the first
LEMMA OneKind ==
  ASSUME NEW w \in Seq(HighLevel) \cup Seq(LowLevel), NEW i \in 1..Len(w)
  PROVE  /\ w[i] \in Request
         /\ w # <<>>
         /\ w[1] \in Request
         /\ InBatch(w[i]) <=> InBatch(w[1])
<1>1. CASE w \in Seq(HighLevel)
  <2>1. w[i] \in HighLevel /\ w[1] \in HighLevel /\ w # <<>>
    BY <1>1
  <2> QED BY <2>1 DEF HighLevel, Request, InBatch
<1>2. CASE w \in Seq(LowLevel)
  <2>1. w[i] \in LowLevel /\ w[1] \in LowLevel /\ w # <<>>
    BY <1>2
  <2> QED BY <2>1 DEF LowLevel, Request, InBatch
<1> QED BY <1>1, <1>2

LEMMA AddType ==
  ASSUME NEW b \in [Accounts -> Balance], NEW a \in Accounts, NEW f \in Fields,
         NEW amount \in Int, b[a][f] + amount >= 0
  PROVE  /\ Add(b, a, f, amount) \in [Accounts -> Balance]
         /\ \A x \in Accounts, g \in Fields :
              Add(b, a, f, amount)[x][g] = IF x = a /\ g = f THEN b[a][f] + amount ELSE b[x][g]
<1>1. b[a] \in [Fields -> Nat]
  BY DEF Balance
<1>2. [b[a] EXCEPT ![f] = @ + amount] \in [Fields -> Nat]
  BY <1>1
<1>3. Add(b, a, f, amount) = [b EXCEPT ![a] = [b[a] EXCEPT ![f] = b[a][f] + amount]]
  BY DEF Add
<1> QED BY <1>1, <1>2, <1>3 DEF Balance
-----------------------------------------------------------------------------
(* Lemmas on the steps every action is made of *)

ControlType ==
  /\ pc \in [Calls -> {"idle"} \cup Active \cup Ended]
  /\ resp \in [Calls -> Seq(BOOLEAN)]
  /\ leg \in [Calls -> {1, 2}]
  /\ sent \in [Calls -> Seq(EntryIds)]
  /\ snap \in [Calls -> [Accounts -> Balance]]

\* A step of call c leaves the control state of the other calls alone
OnlyCall(c) ==
  \A d \in Calls \ {c} : /\ pc'[d] = pc[d]
                         /\ resp'[d] = resp[d]
                         /\ leg'[d] = leg[d]

LEMMA Frame ==
  ASSUME Inv, NEW c \in Calls, OnlyCall(c), NEW d \in Calls \ {c}, reqs'[d] = reqs[d]
  PROVE  CallOK(d)'
<1>1. pc'[d] = pc[d] /\ resp'[d] = resp[d] /\ leg'[d] = leg[d] /\ reqs'[d] = reqs[d]
  BY DEF OnlyCall
<1>2. CallOK(d)
  BY DEF Inv
<1> QED BY <1>1, <1>2 DEF CallOK, Current, CurrentLeg

\* The request under way of a suspended call
LEMMA CurrentType ==
  ASSUME Inv, NEW c \in Calls, pc[c] \in Suspended
  PROVE  /\ Len(resp[c]) + 1 \in 1..Len(reqs[c])
         /\ Len(resp[c]) + 1 \in NatPos
         /\ Current(c) \in Request
         /\ InBatch(Current(c)) <=> InBatch(reqs[c][1])
         /\ leg[c] \in 1..Len(Legs(Current(c)))
         /\ CurrentLeg(c) \in Leg
         /\ CurrentId(c) \in EntryIds
<1>1. /\ reqs[c] \in Seq(HighLevel) \cup Seq(LowLevel)
      /\ resp[c] \in Seq(BOOLEAN)
      /\ leg[c] \in {1, 2}
  BY DEF Inv, TypeOK
<1>2. Len(resp[c]) < Len(reqs[c]) /\ leg[c] \in 1..Len(Legs(Current(c)))
  BY DEF Inv, CallOK
<1>3. Len(resp[c]) + 1 \in 1..Len(reqs[c]) /\ Len(resp[c]) + 1 \in NatPos
  BY <1>1, <1>2 DEF NatPos
<1>4. Current(c) \in Request /\ (InBatch(Current(c)) <=> InBatch(reqs[c][1]))
  BY <1>1, <1>3, OneKind DEF Current
<1>5. CurrentLeg(c) \in Leg
  BY <1>2, <1>4, LegsType DEF CurrentLeg
<1> QED BY <1>1, <1>2, <1>3, <1>4, <1>5 DEF CurrentId, EntryIds

LEMMA AnswerOK ==
  ASSUME Inv, NEW c \in Calls, NEW ok \in BOOLEAN, NEW b \in [Accounts -> Balance],
         pc[c] \in Suspended, Answer(c, ok, b), reqs' = reqs
  PROVE  ControlType' /\ OnlyCall(c) /\ CallOK(c)'
<1> USE DEF Inv, TypeOK
<1>0. /\ reqs[c] \in Seq(HighLevel) \cup Seq(LowLevel)
      /\ resp[c] \in Seq(BOOLEAN)
  OBVIOUS
<1>1. /\ resp' \in [Calls -> Seq(BOOLEAN)]
      /\ leg' \in [Calls -> {1, 2}]
      /\ resp'[c] = Append(resp[c], ok)
      /\ Len(resp'[c]) = Len(resp[c]) + 1
      /\ leg'[c] = 1
      /\ \A d \in Calls \ {c} : resp'[d] = resp[d] /\ leg'[d] = leg[d]
  BY <1>0 DEF Answer
<1>2. /\ Len(resp[c]) + 1 \in 1..Len(reqs[c])
      /\ Current(c) \in Request
      /\ InBatch(Current(c)) <=> InBatch(reqs[c][1])
  BY CurrentType
<1>3. CASE Len(resp[c]) + 1 < Len(reqs[c])
  <2> DEFINE next == reqs[c][Len(resp[c]) + 2]
  <2>1. /\ pc' = [pc EXCEPT ![c] = EntryPoint(next)]
        /\ sent' = sent /\ snap' = snap
    BY <1>3 DEF Answer
  <2>2. next \in Request
    BY <1>0, <1>3, OneKind
  <2>3. Current(c)' = next
    BY <1>0, <1>1 DEF Current
  <2>4. Len(Legs(next)) \in Nat /\ (Len(Legs(next)) = 1 \/ Len(Legs(next)) = 2)
    BY <2>2, LegsType
  <2>5. EntryPoint(next) \in {"check", "fetch"} /\ (EntryPoint(next) = "check" => next.type = "reserve")
    BY DEF EntryPoint
  <2>6. /\ ControlType'
        /\ pc'[c] \in {"check", "fetch"}
        /\ \A d \in Calls \ {c} : pc'[d] = pc[d]
    BY <1>1, <2>1, <2>5 DEF ControlType, Active, Ended
  <2>7. /\ (Len(resp[c]) < Len(reqs[c]))'
        /\ (leg[c] \in 1..Len(Legs(Current(c))))'
        /\ reqs[c]' # <<>>
        /\ pc'[c] = "check" => Current(c)'.type = "reserve"
    <3>1. Len(resp'[c]) < Len(reqs[c])
      BY <1>0, <1>1, <1>3
    <3>2. 1 \in 1..Len(Legs(next))
      BY <2>4, OneOrTwo, Zenon
    <3>3. reqs[c] # <<>>
      BY <1>0, <1>3
    <3> QED BY <1>1, <2>1, <2>3, <2>5, <3>1, <3>2, <3>3
  <2>8. CallOK(c)'
    BY <2>6, <2>7 DEF CallOK, Suspended, Flushing, Active
  <2> QED BY <1>1, <2>6, <2>8 DEF OnlyCall
<1>4. CASE Len(resp[c]) + 1 = Len(reqs[c]) /\ InBatch(Current(c))
  <2>1. BeginFlush(c, b)
    BY <1>4 DEF Answer
  <2>2. /\ ControlType'
        /\ pc'[c] \in Flushing
        /\ \A d \in Calls \ {c} : pc'[d] = pc[d]
    <3>1. \E f \in Flushing : pc' = [pc EXCEPT ![c] = f]
      BY <2>1 DEF BeginFlush, Flushing
    <3>2. sent' \in [Calls -> Seq(EntryIds)]
      BY <2>1 DEF BeginFlush
    <3>3. snap' \in [Calls -> [Accounts -> Balance]]
      BY <2>1 DEF BeginFlush
    <3>4. /\ pc' \in [Calls -> {"idle"} \cup Active \cup Ended]
          /\ pc'[c] \in Flushing
          /\ \A d \in Calls \ {c} : pc'[d] = pc[d]
      BY <3>1 DEF Active, Ended, Flushing
    <3> QED BY <1>1, <3>2, <3>3, <3>4 DEF ControlType
  <2>3. CallOK(c)'
    BY <1>0, <1>2, <1>4, <2>2 DEF CallOK, Suspended, Flushing, Active
  <2> QED BY <1>1, <2>2, <2>3 DEF OnlyCall
<1>5. CASE Len(resp[c]) + 1 = Len(reqs[c]) /\ ~InBatch(Current(c))
  <2>1. /\ pc' = [pc EXCEPT ![c] = "done"]
        /\ sent' = sent /\ snap' = snap
    BY <1>5 DEF Answer
  <2>2. /\ ControlType'
        /\ pc'[c] = "done"
        /\ \A d \in Calls \ {c} : pc'[d] = pc[d]
    BY <1>1, <2>1 DEF ControlType, Active, Ended
  <2> QED BY <1>1, <2>2 DEF OnlyCall, CallOK, Suspended, Flushing, Active
<1> QED BY <1>2, <1>3, <1>4, <1>5

LEMMA RejectOK ==
  ASSUME Inv, NEW c \in Calls, Reject(c)
  PROVE  ControlType' /\ OnlyCall(c) /\ CallOK(c)'
BY DEF Inv, TypeOK, Reject, ControlType, OnlyCall, CallOK, Suspended, Flushing, Active, Ended

LEMMA ThrowOK ==
  ASSUME Inv, NEW c \in Calls, NEW b \in [Accounts -> Balance],
         pc[c] \in Suspended, Throw(c, b), reqs' = reqs
  PROVE  ControlType' /\ OnlyCall(c) /\ CallOK(c)'
BY AnswerOK, RejectOK DEF Throw

LEMMA NextLegOK ==
  ASSUME Inv, NEW c \in Calls, NEW b \in [Accounts -> Balance],
         pc[c] = "store", NextLeg(c, b), reqs' = reqs
  PROVE  ControlType' /\ OnlyCall(c) /\ CallOK(c)'
<1>1. CASE leg[c] < Len(Legs(Current(c)))
  <2>1. /\ leg' = [leg EXCEPT ![c] = @ + 1]
        /\ pc' = [pc EXCEPT ![c] = "fetch"]
        /\ resp' = resp /\ sent' = sent /\ snap' = snap
    BY <1>1 DEF NextLeg
  <2>2. /\ leg[c] \in {1, 2}
        /\ Len(Legs(Current(c))) = 1 \/ Len(Legs(Current(c))) = 2
    BY CurrentType, LegsType DEF Inv, TypeOK, Suspended
  <2>3. /\ leg'[c] = leg[c] + 1
        /\ leg' \in [Calls -> {1, 2}]
        /\ leg'[c] \in 1..Len(Legs(Current(c)))
    <3>1. leg[c] = 1 /\ Len(Legs(Current(c))) = 2
      BY <1>1, <2>2, OneOrTwo, Zenon
    <3>2. leg \in [Calls -> {1, 2}]
      BY DEF Inv, TypeOK
    <3> QED BY <2>1, <3>1, <3>2
  <2>4. ControlType' /\ OnlyCall(c) /\ pc'[c] = "fetch"
    BY <2>1, <2>3 DEF Inv, TypeOK, ControlType, OnlyCall, Active
  <2>5. Current(c)' = Current(c) /\ CallOK(c)
    BY <2>1 DEF Current, Inv
  <2>6. CallOK(c)'
    BY <2>1, <2>3, <2>4, <2>5 DEF CallOK, Suspended, Flushing, Active
  <2> QED BY <2>4, <2>6
<1>2. CASE ~(leg[c] < Len(Legs(Current(c))))
  BY <1>2, AnswerOK DEF NextLeg, Suspended
<1> QED BY <1>1, <1>2

LEMMA DebitType ==
  ASSUME NEW b \in [Accounts -> Balance], NEW l \in Leg, l.dr \in Accounts, CanDebit(b, l)
  PROVE  Debit(b, l) \in [Accounts -> Balance]
<1>1. DebitField(l) \in Fields /\ l.amount \in Int
  BY DEF DebitField, Fields, Leg
<1> QED BY <1>1, AddType DEF Debit, CanDebit

LEMMA CreditType ==
  ASSUME NEW b \in [Accounts -> Balance], NEW l \in Leg, l.cr \in Accounts, CanCredit(b, l)
  PROVE  Credit(b, l) \in [Accounts -> Balance]
<1>1. CreditField(l) \in Fields /\ l.amount \in Int
  BY DEF CreditField, Fields, Leg
<1> QED BY <1>1, AddType DEF Credit, CanCredit

\* A single-field update of the collection keeps its type
LEMMA UpdateType ==
  ASSUME Inv, NEW c \in Calls, pc[c] \in {"debit", "credit"}
  PROVE  /\ DebitUpdate(c) \in [Accounts -> Balance]
         /\ CreditUpdate(c) \in [Accounts -> Balance]
<1>1. /\ CurrentLeg(c) \in Leg
      /\ CurrentLeg(c).dr \in Accounts /\ CurrentLeg(c).cr \in Accounts
      /\ snap[c] \in [Accounts -> Balance] /\ db \in [Accounts -> Balance]
  BY CurrentType DEF Inv, TypeOK, CallOK, Suspended
<1>2. DebitField(CurrentLeg(c)) \in Fields /\ CreditField(CurrentLeg(c)) \in Fields
  BY <1>1 DEF DebitField, CreditField, Fields, Leg
<1>3. ASSUME NEW a \in Accounts, NEW f \in Fields
      PROVE  [db EXCEPT ![a][f] = snap[c][a][f]] \in [Accounts -> Balance]
  BY <1>1 DEF Balance
<1> QED BY <1>1, <1>2, <1>3 DEF DebitUpdate, CreditUpdate

-----------------------------------------------------------------------------
(* Inv is inductive: one lemma per action *)

LEMMA InvStep ==
  ASSUME Inv, NEW c \in Calls, reqs' = reqs, ControlType', OnlyCall(c), CallOK(c)',
         bal' \in [Accounts -> Balance], db' \in [Accounts -> Balance],
         entriesCache' \in Seq(EntryIds), journal' \in Seq(EntryIds)
  PROVE  Inv'
<1>1. TypeOK'
  BY DEF Inv, TypeOK, ControlType
<1>2. ASSUME NEW d \in Calls PROVE CallOK(d)'
  <2>1. CASE d = c
    BY <2>1
  <2>2. CASE d # c
    BY <2>2, Frame
  <2> QED BY <2>1, <2>2
<1> QED BY <1>1, <1>2 DEF Inv

LEMMA StartInv == ASSUME Inv, NEW c \in Calls, Start(c) PROVE Inv'
<1>1. PICK w \in Workload : /\ reqs' = [reqs EXCEPT ![c] = w]
                            /\ pc' = [pc EXCEPT ![c] = EntryPoint(w[1])]
  BY DEF Start, Arrive
<1>2. /\ w \in Seq(HighLevel) \cup Seq(LowLevel)
      /\ w # <<>>
  BY WorkloadAssumption
<1>3. 1 \in 1..Len(w) /\ w[1] \in Request
  <2>1. 1 \in 1..Len(w)
    BY <1>2
  <2> QED BY <1>2, <2>1, OneKind
<1>4. /\ EntryPoint(w[1]) \in {"check", "fetch"}
      /\ EntryPoint(w[1]) = "check" => w[1].type = "reserve"
  BY DEF EntryPoint
<1>5. /\ pc[c] = "idle"
      /\ resp' = resp /\ leg' = leg /\ sent' = sent /\ snap' = snap
      /\ bal' = bal /\ db' = db /\ entriesCache' = entriesCache /\ journal' = journal
  BY DEF Start, Arrive
<1>6. TypeOK'
  BY <1>1, <1>2, <1>4, <1>5 DEF Inv, TypeOK, Active
<1>7. CallOK(c)'
  <2>1. resp[c] = <<>> /\ leg[c] = 1
    BY <1>5 DEF Inv, CallOK
  <2>2. /\ pc'[c] = EntryPoint(w[1]) /\ reqs'[c] = w
        /\ resp'[c] = <<>> /\ leg'[c] = 1
    BY <1>1, <1>5, <2>1 DEF Inv, TypeOK
  <2>3. Current(c)' = w[1] /\ Len(resp'[c]) < Len(w)
    BY <1>3, <2>2 DEF Current
  <2>4. 1 \in 1..Len(Legs(w[1]))
    BY <1>3, LegsType, OneOrTwo, Zenon
  <2> QED BY <1>2, <1>4, <2>2, <2>3, <2>4 DEF CallOK, Suspended, Flushing, Active
<1>8. ASSUME NEW d \in Calls \ {c} PROVE CallOK(d)'
  <2>1. reqs'[d] = reqs[d] /\ OnlyCall(c)
    BY <1>1, <1>5 DEF OnlyCall, Inv, TypeOK
  <2> QED BY <2>1, Frame
<1> QED BY <1>6, <1>7, <1>8 DEF Inv

LEMMA CheckLiquidInv == ASSUME Inv, NEW c \in Calls, CheckLiquid(c) PROVE Inv'
<1>1. /\ pc[c] = "check" /\ reqs' = reqs
      /\ bal' = bal /\ db' = db /\ entriesCache' = entriesCache /\ journal' = journal
  BY DEF CheckLiquid
<1>2. CASE Answer(c, FALSE, bal)
  BY <1>1, <1>2, AnswerOK, InvStep DEF Suspended, Inv, TypeOK
<1>3. CASE /\ pc' = [pc EXCEPT ![c] = "fetch"]
           /\ UNCHANGED <<resp, leg, sent, snap>>
  <2>1. ControlType' /\ OnlyCall(c)
    BY <1>3 DEF ControlType, OnlyCall, Inv, TypeOK, Active
  <2>2. CallOK(c)'
    BY <1>1, <1>3 DEF CallOK, Current, CurrentLeg, Suspended, Flushing, Active, Inv, TypeOK
  <2> QED BY <1>1, <2>1, <2>2, InvStep DEF Inv, TypeOK
<1> QED BY <1>2, <1>3 DEF CheckLiquid

LEMMA CreateEntryInv == ASSUME Inv, NEW c \in Calls, CreateEntry(c) PROVE Inv'
<1>1. pc[c] = "fetch" /\ reqs' = reqs /\ bal' = bal /\ db' = db /\ journal' = journal
  BY DEF CreateEntry
<1>2. entriesCache' \in Seq(EntryIds)
  BY <1>1, CurrentType DEF CreateEntry, Suspended, Inv, TypeOK
<1>3. CASE Throw(c, bal)
  BY <1>1, <1>2, <1>3, ThrowOK, InvStep DEF Suspended, Inv, TypeOK
<1>4. CASE /\ {CurrentLeg(c).dr, CurrentLeg(c).cr} \subseteq Accounts
           /\ pc' = [pc EXCEPT ![c] = "store"]
           /\ UNCHANGED <<resp, leg, sent, snap>>
  <2>1. ControlType' /\ OnlyCall(c)
    BY <1>4 DEF ControlType, OnlyCall, Inv, TypeOK, Active
  <2>2. CallOK(c)'
    BY <1>1, <1>4 DEF CallOK, Current, CurrentLeg, Suspended, Flushing, Active, Inv, TypeOK
  <2> QED BY <1>1, <1>2, <2>1, <2>2, InvStep DEF Inv, TypeOK
<1> QED BY <1>3, <1>4 DEF CreateEntry

LEMMA PostInBatchInv == ASSUME Inv, NEW c \in Calls, PostInBatch(c) PROVE Inv'
<1> DEFINE l == CurrentLeg(c)
<1>1. /\ pc[c] = "store" /\ reqs' = reqs /\ db' = db
      /\ entriesCache' = entriesCache /\ journal' = journal
  BY DEF PostInBatch
<1>2. /\ l \in Leg /\ l.dr \in Accounts /\ l.cr \in Accounts
      /\ bal \in [Accounts -> Balance] /\ pc[c] \in Suspended
  BY <1>1, CurrentType DEF Inv, TypeOK, CallOK, Suspended
<1> HIDE DEF l
<1>3. CASE ~CanDebit(bal, l)
  <2>1. bal' = bal /\ Throw(c, bal)
    BY <1>3 DEF PostInBatch, l
  <2> QED BY <1>1, <1>2, <2>1, ThrowOK, InvStep DEF Inv, TypeOK
<1>4. CASE CanDebit(bal, l) /\ ~CanCredit(Debit(bal, l), l)
  <2>1. bal' = Debit(bal, l) /\ Throw(c, Debit(bal, l))
    BY <1>4 DEF PostInBatch, l
  <2>2. Debit(bal, l) \in [Accounts -> Balance]
    BY <1>2, <1>4, DebitType
  <2> QED BY <1>1, <1>2, <2>1, <2>2, ThrowOK, InvStep DEF Inv, TypeOK
<1>5. CASE CanDebit(bal, l) /\ CanCredit(Debit(bal, l), l)
  <2> DEFINE b == Credit(Debit(bal, l), l)
  <2>1. bal' = b /\ NextLeg(c, b)
    BY <1>5 DEF PostInBatch, l
  <2>2. b \in [Accounts -> Balance]
    BY <1>2, <1>5, DebitType, CreditType
  <2> QED BY <1>1, <1>2, <2>1, <2>2, NextLegOK, InvStep DEF Inv, TypeOK
<1> QED BY <1>3, <1>4, <1>5

LEMMA DebitDirectInv == ASSUME Inv, NEW c \in Calls, DebitDirect(c) PROVE Inv'
<1> DEFINE l == CurrentLeg(c)
<1>1. /\ pc[c] = "store" /\ reqs' = reqs /\ db' = db /\ entriesCache' = entriesCache
      /\ ~InBatch(Current(c)) /\ journal' = Append(journal, CurrentId(c))
  BY DEF DebitDirect
<1>2. /\ l \in Leg /\ l.dr \in Accounts /\ l.cr \in Accounts
      /\ bal \in [Accounts -> Balance] /\ journal' \in Seq(EntryIds)
  BY <1>1, CurrentType DEF Inv, TypeOK, CallOK, Suspended
<1> HIDE DEF l
<1>3. CASE CanDebit(bal, l)
  <2>1. /\ bal' = Debit(bal, l)
        /\ snap' = [snap EXCEPT ![c] = bal']
        /\ pc' = [pc EXCEPT ![c] = "debit"]
        /\ UNCHANGED <<resp, leg, sent>>
    BY <1>3 DEF DebitDirect, l
  <2>2. bal' \in [Accounts -> Balance]
    BY <1>2, <1>3, <2>1, DebitType
  <2>3. ControlType' /\ OnlyCall(c)
    BY <2>1, <2>2 DEF ControlType, OnlyCall, Inv, TypeOK, Active
  <2>4. CallOK(c)'
    BY <1>1, <2>1 DEF CallOK, Current, CurrentLeg, Suspended, Flushing, Active, Inv, TypeOK
  <2> QED BY <1>1, <1>2, <2>2, <2>3, <2>4, InvStep DEF Inv, TypeOK
<1>4. CASE bal' = bal /\ Reject(c)
  BY <1>1, <1>2, <1>4, RejectOK, InvStep DEF Inv, TypeOK
<1> QED BY <1>3, <1>4 DEF DebitDirect, l

LEMMA CreditDirectInv == ASSUME Inv, NEW c \in Calls, CreditDirect(c) PROVE Inv'
<1> DEFINE l == CurrentLeg(c)
<1>1. /\ pc[c] = "debit" /\ reqs' = reqs /\ db' = DebitUpdate(c)
      /\ entriesCache' = entriesCache /\ journal' = journal
  BY DEF CreditDirect
<1>2. /\ l \in Leg /\ l.dr \in Accounts /\ l.cr \in Accounts
      /\ bal \in [Accounts -> Balance] /\ db' \in [Accounts -> Balance]
  BY <1>1, CurrentType, UpdateType DEF Inv, TypeOK, CallOK, Suspended
<1> HIDE DEF l
<1>3. CASE CanCredit(bal, l)
  <2>1. /\ bal' = Credit(bal, l)
        /\ snap' = [snap EXCEPT ![c] = bal']
        /\ pc' = [pc EXCEPT ![c] = "credit"]
        /\ UNCHANGED <<resp, leg, sent>>
    BY <1>3 DEF CreditDirect, l
  <2>2. bal' \in [Accounts -> Balance]
    BY <1>2, <1>3, <2>1, CreditType
  <2>3. ControlType' /\ OnlyCall(c)
    BY <2>1, <2>2 DEF ControlType, OnlyCall, Inv, TypeOK, Active
  <2>4. CallOK(c)'
    BY <1>1, <2>1 DEF CallOK, Current, CurrentLeg, Suspended, Flushing, Active, Inv, TypeOK
  <2> QED BY <1>1, <1>2, <2>2, <2>3, <2>4, InvStep DEF Inv, TypeOK
<1>4. CASE bal' = bal /\ Reject(c)
  BY <1>1, <1>2, <1>4, RejectOK, InvStep DEF Inv, TypeOK
<1> QED BY <1>3, <1>4 DEF CreditDirect, l

LEMMA CompleteDirectInv == ASSUME Inv, NEW c \in Calls, CompleteDirect(c) PROVE Inv'
<1>1. db' \in [Accounts -> Balance] /\ bal \in [Accounts -> Balance]
  BY UpdateType DEF CompleteDirect, Inv, TypeOK
<1>2. ControlType' /\ OnlyCall(c) /\ CallOK(c)'
  BY <1>1, AnswerOK DEF CompleteDirect, Suspended
<1> QED BY <1>1, <1>2, InvStep DEF CompleteDirect, Inv, TypeOK

LEMMA FlushEntriesInv == ASSUME Inv, NEW c \in Calls, FlushEntries(c) PROVE Inv'
<1> USE DEF FlushEntries, Inv, TypeOK
<1>1. journal' \in Seq(EntryIds) /\ entriesCache' \in Seq(EntryIds)
  OBVIOUS
<1>2. ControlType' /\ OnlyCall(c)
  BY DEF ControlType, OnlyCall, Active
<1>3. CallOK(c)'
  BY DEF CallOK, Suspended, Flushing, Active
<1> QED BY <1>1, <1>2, <1>3, InvStep

LEMMA FlushAccountsInv == ASSUME Inv, NEW c \in Calls, FlushAccounts(c) PROVE Inv'
<1> USE DEF FlushAccounts, Inv, TypeOK
<1>1. ControlType' /\ OnlyCall(c)
  BY DEF ControlType, OnlyCall, Ended
<1>2. CallOK(c)'
  BY DEF CallOK, Suspended, Flushing, Active
<1> QED BY <1>1, <1>2, InvStep

LEMMA RepoFailsInv == ASSUME Inv, NEW c \in Calls, RepoFails(c) PROVE Inv'
<1>1. Reject(c) /\ reqs' = reqs /\ bal' = bal /\ entriesCache' = entriesCache
  BY DEF RepoFails
<1>2. journal' \in Seq(EntryIds) /\ db' \in [Accounts -> Balance]
  <2>1. CASE /\ pc[c] = "store"
             /\ journal' \in {journal, Append(journal, CurrentId(c))} /\ db' = db
    <3>1. CurrentId(c) \in EntryIds
      BY <2>1, CurrentType DEF Suspended
    <3>2. /\ journal \in Seq(EntryIds) /\ db \in [Accounts -> Balance]
          /\ journal' = journal \/ journal' = Append(journal, CurrentId(c))
      BY <2>1 DEF Inv, TypeOK
    <3>3. ASSUME NEW e \in EntryIds PROVE Append(journal, e) \in Seq(EntryIds)
      BY <3>2
    <3> QED BY <2>1, <3>1, <3>2, <3>3
  <2>2. CASE pc[c] = "debit" /\ db' \in {db, DebitUpdate(c)} /\ journal' = journal
    BY <2>2, UpdateType DEF Inv, TypeOK
  <2>3. CASE pc[c] = "credit" /\ db' \in {db, CreditUpdate(c)} /\ journal' = journal
    BY <2>3, UpdateType DEF Inv, TypeOK
  <2>4. CASE /\ \E n \in 0..Len(sent[c]) : journal' = journal \o SubSeq(sent[c], 1, n)
             /\ db' = db
    <3>1. PICK n \in 0..Len(sent[c]) : journal' = journal \o SubSeq(sent[c], 1, n)
      BY <2>4
    <3>2. sent[c] \in Seq(EntryIds) /\ journal \in Seq(EntryIds)
      BY DEF Inv, TypeOK
    <3>3. SubSeq(sent[c], 1, n) \in Seq(EntryIds)
      BY <3>2
    <3> QED BY <2>4, <3>1, <3>2, <3>3 DEF Inv, TypeOK
  <2>5. CASE /\ \E written \in SUBSET Accounts :
                  db' = [a \in Accounts |-> IF a \in written THEN snap[c][a] ELSE db[a]]
             /\ journal' = journal
    BY <2>5 DEF Inv, TypeOK
  <2> QED BY <2>1, <2>2, <2>3, <2>4, <2>5 DEF RepoFails
<1> QED BY <1>1, <1>2, RejectOK, InvStep DEF Inv, TypeOK

LEMMA InitInv == Init => Inv
<1> SUFFICES ASSUME Init PROVE Inv
  OBVIOUS
<1>1. TypeOK
  BY AccountsAssumption DEF Init, TypeOK
<1>2. \A c \in Calls : CallOK(c)
  BY DEF Init, CallOK, Suspended, Flushing, Active
<1> QED BY <1>1, <1>2 DEF Inv

LEMMA NextInv == Inv /\ [Next]_vars => Inv'
<1> SUFFICES ASSUME Inv, [Next]_vars PROVE Inv'
  OBVIOUS
<1>1. CASE UNCHANGED vars
  BY <1>1 DEF vars, Inv, TypeOK, CallOK, Current, CurrentLeg
<1>2. CASE Next
  <2>1. PICK c \in Calls : Start(c) \/ Resume(c)
    BY <1>2 DEF Next
  <2> QED BY <2>1, StartInv, CheckLiquidInv, CreateEntryInv, PostInBatchInv,
             DebitDirectInv, CreditDirectInv, CompleteDirectInv, FlushEntriesInv,
             FlushAccountsInv, RepoFailsInv DEF Resume
<1> QED BY <1>1, <1>2

THEOREM InvHolds == Spec => []Inv
BY InitInv, NextInv, PTL DEF Spec

\* In every reachable state the variables have their types; in particular no
\* debit or credit balance of any account is ever negative, in memory or in
\* the collection, however the calls interleave and whichever repository call
\* fails.
THEOREM TypeCorrect == Spec => []TypeOK
<1>1. Inv => TypeOK
  BY DEF Inv
<1> QED BY <1>1, InvHolds, PTL

-----------------------------------------------------------------------------
(* Liquidity: what an entry does to exposure and cover *)

InLedger(p) == {p, LiquidityOf[p]} \subseteq Accounts
Covered(b, p, amount) == InLedger(p) => Exposure(b, p) + amount <= Cover(b, p)

\* b2 leaves every payer with no more exposure and no less cover than b1
Safer(b1, b2) ==
  \A p \in Payers : InLedger(p) => /\ Exposure(b2, p) <= Exposure(b1, p)
                                /\ Cover(b2, p) >= Cover(b1, p)

LEMMA MeasureType ==
  ASSUME NEW b \in [Accounts -> Balance], NEW p \in Payers, InLedger(p)
  PROVE  Exposure(b, p) \in Int /\ Cover(b, p) \in Int
<1>1. /\ b[p] \in [Fields -> Nat] /\ b[LiquidityOf[p]] \in [Fields -> Nat]
      /\ NetDebitCap[p] \in Int
  BY RequestsAssumption DEF InLedger, Balance
<1> QED BY <1>1 DEF Exposure, Cover, Fields

LEMMA DebitEffect ==
  ASSUME NEW b \in [Accounts -> Balance], NEW l \in Leg, l.dr \in Accounts, CanDebit(b, l),
         NEW p \in Payers, InLedger(p)
  PROVE  /\ Exposure(Debit(b, l), p) = Exposure(b, p) + (IF l.dr = p THEN l.amount ELSE 0)
         /\ l.dr # LiquidityOf[p] => Cover(Debit(b, l), p) = Cover(b, p)
<1>1. DebitField(l) \in {"pendDr", "postDr"} /\ l.amount \in Int
  BY DEF DebitField, Leg
<1>2. /\ b[p] \in [Fields -> Nat] /\ b[LiquidityOf[p]] \in [Fields -> Nat]
      /\ p \in Accounts /\ LiquidityOf[p] \in Accounts
      /\ NetDebitCap[p] \in Int
  BY RequestsAssumption DEF InLedger, Balance
<1>3. \A x \in Accounts, g \in Fields :
        Debit(b, l)[x][g] = IF x = l.dr /\ g = DebitField(l)
                            THEN b[l.dr][DebitField(l)] + l.amount ELSE b[x][g]
  BY <1>1, AddType DEF Debit, CanDebit, Fields
<1> QED BY <1>1, <1>2, <1>3 DEF Exposure, Cover, Fields

LEMMA CreditEffect ==
  ASSUME NEW b \in [Accounts -> Balance], NEW l \in Leg, l.cr \in Accounts, CanCredit(b, l),
         NEW p \in Payers, InLedger(p),
         l.pending \/ l.amount >= 0 \/ (l.cr # p /\ l.cr # LiquidityOf[p])
  PROVE  /\ Exposure(Credit(b, l), p) <= Exposure(b, p)
         /\ Cover(Credit(b, l), p) >= Cover(b, p)
<1>1. /\ CreditField(l) = IF l.pending THEN "pendCr" ELSE "postCr"
      /\ CreditField(l) \in Fields /\ l.amount \in Int /\ l.pending \in BOOLEAN
  BY DEF CreditField, Leg, Fields
<1>2. /\ b[p] \in [Fields -> Nat] /\ b[LiquidityOf[p]] \in [Fields -> Nat]
      /\ p \in Accounts /\ LiquidityOf[p] \in Accounts
      /\ NetDebitCap[p] \in Int
  BY RequestsAssumption DEF InLedger, Balance
<1>3. \A x \in Accounts, g \in Fields :
        Credit(b, l)[x][g] = IF x = l.cr /\ g = CreditField(l)
                             THEN b[l.cr][CreditField(l)] + l.amount ELSE b[x][g]
  BY <1>1, AddType DEF Credit, CanCredit
<1>4. CASE l.pending
  BY <1>1, <1>2, <1>3, <1>4 DEF Exposure, Cover, Fields
<1>5. CASE ~l.pending
  BY <1>1, <1>2, <1>3, <1>5 DEF Exposure, Cover, Fields
<1> QED BY <1>4, <1>5

\* The entries of high-level requests: always from a payer, and only pending
\* ones are negative
LEMMA BatchLeg ==
  ASSUME NEW r \in Request, InBatch(r), NEW k \in 1..Len(Legs(r))
  PROVE  /\ Legs(r)[k].dr \in Payers
         /\ Legs(r)[k].amount < 0 => Legs(r)[k].pending
         /\ r.type # "reserve" /\ k = 1 => Legs(r)[k].amount < 0
         /\ k = 2 => /\ Legs(r)[2].dr = Legs(r)[1].dr
                     /\ Legs(r)[1].amount = -Legs(r)[2].amount
<1> DEFINE tr == Transfer[r.t]
<1>1. /\ r.type \in {"reserve", "cancel", "commit"} /\ r.t \in Transfers
      /\ tr.payer \in Payers /\ tr.amount \in Nat /\ tr.amount > 0
  BY RequestsAssumption DEF Request, HighLevel, LowLevel, InBatch, Payers, TransferTerms, NatPos
<1>2. CASE r.type = "reserve"
  <2>1. Legs(r) = <<Reservation(tr, tr.amount)>>
    BY <1>2 DEF Legs
  <2> QED BY <1>1, <1>2, <2>1 DEF Reservation
<1>3. CASE r.type = "cancel"
  <2>1. Legs(r) = <<Reservation(tr, -tr.amount)>>
    BY <1>3 DEF Legs
  <2> QED BY <1>1, <1>3, <2>1 DEF Reservation
<1>4. CASE r.type = "commit"
  <2>1. Legs(r) = <<Reservation(tr, -tr.amount), Movement(tr)>>
    BY <1>4 DEF Legs
  <2> QED BY <1>1, <1>4, <2>1 DEF Reservation, Movement
<1> QED BY <1>1, <1>2, <1>3, <1>4

-----------------------------------------------------------------------------
(* Liquidity: the inductive invariant *)

\* At most one batch is running
OneBatch == \A c, d \in Calls : BatchActive(c) /\ BatchActive(d) => c = d

\* c is about to add a positive amount to its payer's exposure
Promised(c) ==
  /\ pc[c] \in {"fetch", "store"}
  /\ InBatch(Current(c))
  /\ CurrentLeg(c).amount > 0

\* The amount still fits: the check that allowed it is not stale
PromiseKept(c) ==
  Promised(c) => Covered(bal, CurrentLeg(c).dr, CurrentLeg(c).amount)

LiquidityInv ==
  /\ OneBatch
  /\ LiquidityCovered
  /\ \A c \in Calls : PromiseKept(c)

\* A request is never promised anything when it begins, or when its call ends
LEMMA NothingPromised ==
  ASSUME Inv, NEW c \in Calls, NEW ok \in BOOLEAN, NEW b \in [Accounts -> Balance],
         pc[c] \in Suspended, Answer(c, ok, b) \/ Reject(c), reqs' = reqs
  PROVE  ~Promised(c)' /\ OnlyCall(c)
<1>1. CASE Reject(c)
  <2>1. pc'[c] = "failed"
    BY <1>1 DEF Reject, Inv, TypeOK
  <2> QED BY <1>1, <2>1, RejectOK DEF Promised, Suspended, Active
<1>2. CASE Answer(c, ok, b)
  <2>1. /\ ControlType' /\ OnlyCall(c) /\ CallOK(c)'
    BY <1>2, AnswerOK
  <2>2. /\ reqs[c] \in Seq(HighLevel) \cup Seq(LowLevel)
        /\ resp[c] \in Seq(BOOLEAN)
        /\ leg'[c] = 1
        /\ resp'[c] = Append(resp[c], ok)
    BY <1>2 DEF Answer, Inv, TypeOK
  <2>3. Len(resp[c]) + 1 \in 1..Len(reqs[c])
    BY CurrentType
  <2>4. CASE Len(resp[c]) + 1 < Len(reqs[c])
    <3> DEFINE next == reqs[c][Len(resp[c]) + 2]
    <3>1. next \in Request
      <4>1. Len(resp[c]) \in Nat /\ Len(reqs[c]) \in Nat
        BY <2>2
      <4>2. Len(resp[c]) + 2 \in 1..Len(reqs[c])
        BY <2>4, <4>1
      <4> QED BY ONLY <2>2, <4>2, OneKind
    <3>2. pc'[c] = EntryPoint(next)
      BY <1>2, <2>4 DEF Answer, Inv, TypeOK
    <3>3. Current(c)' = next
      BY <2>2 DEF Current
    <3>4. CurrentLeg(c)' = Legs(next)[1]
      BY <2>2, <3>3 DEF CurrentLeg
    <3>5. CASE next.type = "reserve"
      BY <2>1, <3>2, <3>5 DEF EntryPoint, Promised, Suspended, Active
    <3>6. CASE next.type # "reserve" /\ InBatch(next)
      <4>1. 1 \in 1..Len(Legs(next))
        BY <3>1, LegsType, OneOrTwo, Zenon
      <4>2. Legs(next)[1].amount < 0 /\ Legs(next)[1].amount \in Int
        BY <3>1, <3>6, <4>1, BatchLeg, LegsType DEF Leg
      <4> QED BY <2>1, <3>2, <3>4, <3>6, <4>2 DEF EntryPoint, Promised, Suspended, Active
    <3>7. CASE ~InBatch(next)
      BY <2>1, <3>2, <3>3, <3>7 DEF EntryPoint, Promised, Suspended, Active
    <3> QED BY <3>5, <3>6, <3>7
  <2>5. CASE ~(Len(resp[c]) + 1 < Len(reqs[c]))
    <3>1. pc'[c] \in {"flushEntries", "flushAccounts", "done"}
      BY <1>2, <2>5 DEF Answer, BeginFlush, Inv, TypeOK
    <3> QED BY <2>1, <3>1 DEF Promised, Suspended, Active
  <2> QED BY <2>4, <2>5
<1> QED BY <1>1, <1>2

\* A step of call c that does not start it, keeps c's promise and harms no
\* payer unless c is the running batch
LEMMA LiquidityStep ==
  ASSUME Inv, LiquidityInv, NEW c \in Calls, reqs' = reqs, OnlyCall(c),
         pc[c] \in Active,
         PromiseKept(c)', LiquidityCovered',
         Safer(bal, bal') \/ BatchActive(c),
         bal' \in [Accounts -> Balance]
  PROVE  LiquidityInv'
<1>1. \A d \in Calls : BatchActive(d)' => BatchActive(d)
  BY DEF OnlyCall, BatchActive, LiquidityInv
<1>2. OneBatch'
  <2>1. BatchActive(c)' => BatchActive(c)
    BY <1>1
  <2> QED BY <1>1 DEF OneBatch, LiquidityInv
<1>3. ASSUME NEW d \in Calls \ {c} PROVE PromiseKept(d)'
  <2>1. /\ Promised(d)' <=> Promised(d)
        /\ CurrentLeg(d)' = CurrentLeg(d)
    BY DEF OnlyCall, Promised, Current, CurrentLeg
  <2>2. CASE ~Promised(d)
    BY <2>1, <2>2 DEF PromiseKept
  <2>3. CASE Promised(d)
    <3> DEFINE l == CurrentLeg(d)
    <3>1. /\ BatchActive(d)
          /\ l \in Leg /\ l.dr \in Payers /\ l.amount \in Int
      <4>1. pc[d] \in Suspended /\ InBatch(Current(d))
        BY <2>3 DEF Promised, Suspended
      <4>2. /\ Current(d) \in Request /\ leg[d] \in 1..Len(Legs(Current(d))) /\ l \in Leg
            /\ InBatch(reqs[d][1])
        BY <4>1, CurrentType
      <4>3. l.dr \in Payers
        BY <4>1, <4>2, BatchLeg DEF CurrentLeg
      <4> QED BY <4>1, <4>2, <4>3 DEF BatchActive, Active, Suspended, Leg
    <3>2. Safer(bal, bal')
      BY <3>1 DEF OneBatch, LiquidityInv
    <3>3. Covered(bal, l.dr, l.amount)
      BY <2>3 DEF PromiseKept, LiquidityInv
    <3>4. CASE InLedger(l.dr)
      <4>1. /\ Exposure(bal, l.dr) \in Int /\ Cover(bal, l.dr) \in Int
            /\ Exposure(bal', l.dr) \in Int /\ Cover(bal', l.dr) \in Int
        BY <3>1, <3>4, MeasureType DEF Inv, TypeOK
      <4>2. Covered(bal', l.dr, l.amount)
        BY <3>1, <3>2, <3>3, <3>4, <4>1 DEF Covered, Safer
      <4> QED BY <2>1, <4>2 DEF PromiseKept
    <3>5. CASE ~InLedger(l.dr)
      BY <2>1, <3>5 DEF PromiseKept, Covered
    <3> QED BY <3>4, <3>5
  <2> QED BY <2>2, <2>3
<1>4. \A d \in Calls : PromiseKept(d)'
  BY <1>3
<1> QED BY <1>2, <1>4 DEF LiquidityInv

LEMMA SaferCovered ==
  ASSUME Inv, LiquidityInv, bal' \in [Accounts -> Balance], Safer(bal, bal')
  PROVE  LiquidityCovered'
<1> SUFFICES ASSUME NEW p \in Payers, InLedger(p)
             PROVE  Exposure(bal', p) <= Cover(bal', p)
  BY DEF LiquidityCovered, InLedger
<1>1. /\ Exposure(bal, p) \in Int /\ Cover(bal, p) \in Int
      /\ Exposure(bal', p) \in Int /\ Cover(bal', p) \in Int
  BY MeasureType DEF Inv, TypeOK
<1>2. Exposure(bal, p) <= Cover(bal, p)
  BY DEF LiquidityInv, LiquidityCovered, InLedger
<1> QED BY <1>1, <1>2 DEF Safer

LEMMA SaferSame ==
  ASSUME Inv, bal' = bal
  PROVE  Safer(bal, bal') /\ bal' \in [Accounts -> Balance]
<1> SUFFICES ASSUME NEW p \in Payers, InLedger(p)
             PROVE  /\ Exposure(bal, p) <= Exposure(bal, p)
                    /\ Cover(bal, p) >= Cover(bal, p)
  BY DEF Safer, Inv, TypeOK
<1>1. Exposure(bal, p) \in Int /\ Cover(bal, p) \in Int
  BY MeasureType DEF Inv, TypeOK
<1>2. \A e, k \in Int : e <= e /\ k >= k
  OBVIOUS
<1> QED BY <1>1, <1>2, Zenon

\* Steps that change no balance and promise nothing
LEMMA LiquiditySame ==
  ASSUME Inv, LiquidityInv, NEW c \in Calls, reqs' = reqs, OnlyCall(c), pc[c] \in Active,
         bal' = bal, PromiseKept(c)'
  PROVE  LiquidityInv'
BY SaferSame, SaferCovered, LiquidityStep

LEMMA StartLiquidity ==
  ASSUME Inv, LiquidityInv, NEW c \in Calls, StartSerial(c) PROVE LiquidityInv'
<1>1. PICK w \in Workload : /\ reqs' = [reqs EXCEPT ![c] = w]
                            /\ pc' = [pc EXCEPT ![c] = EntryPoint(w[1])]
                            /\ InBatch(w[1]) => \A d \in Calls : ~BatchActive(d)
  BY DEF StartSerial, Arrive
<1>2. /\ pc[c] = "idle" /\ bal' = bal /\ resp' = resp /\ leg' = leg
      /\ resp[c] = <<>> /\ leg[c] = 1
      /\ pc'[c] = EntryPoint(w[1]) /\ reqs'[c] = w
  BY <1>1 DEF StartSerial, Arrive, Inv, CallOK, TypeOK
<1>3. \A d \in Calls \ {c} : /\ pc'[d] = pc[d] /\ reqs'[d] = reqs[d]
                             /\ resp'[d] = resp[d] /\ leg'[d] = leg[d]
  BY <1>1, <1>2 DEF Inv, TypeOK
<1>4. w[1] \in Request
  <2>1. w \in Seq(HighLevel) \cup Seq(LowLevel) /\ 1 \in 1..Len(w)
    BY WorkloadAssumption
  <2> QED BY <2>1, OneKind
<1>5. OneBatch'
  <2>1. \A d \in Calls \ {c} : BatchActive(d)' => BatchActive(d)
    BY <1>3 DEF BatchActive
  <2>2. BatchActive(c)' => InBatch(w[1])
    BY <1>2 DEF BatchActive
  <2> QED BY <1>1, <2>1, <2>2 DEF OneBatch, LiquidityInv
<1>6. LiquidityCovered'
  BY <1>2, SaferSame, SaferCovered
<1>7. ASSUME NEW d \in Calls PROVE PromiseKept(d)'
  <2>1. CASE d # c
    BY <1>2, <1>3, <2>1 DEF LiquidityInv, PromiseKept, Promised, Current, CurrentLeg
  <2>2. CASE d = c
    <3>1. Current(c)' = w[1] /\ CurrentLeg(c)' = Legs(w[1])[1]
      BY <1>2 DEF Current, CurrentLeg
    <3>2. CASE w[1].type = "reserve"
      BY <1>2, <2>2, <3>2 DEF EntryPoint, PromiseKept, Promised
    <3>3. CASE w[1].type # "reserve" /\ InBatch(w[1])
      <4>1. 1 \in 1..Len(Legs(w[1]))
        BY <1>4, LegsType, OneOrTwo, Zenon
      <4>2. Legs(w[1])[1].amount < 0 /\ Legs(w[1])[1].amount \in Int
        BY <1>4, <3>3, <4>1, BatchLeg, LegsType DEF Leg
      <4> QED BY <2>2, <3>1, <4>2 DEF PromiseKept, Promised
    <3>4. CASE ~InBatch(w[1])
      BY <2>2, <3>1, <3>4 DEF PromiseKept, Promised
    <3> QED BY <3>2, <3>3, <3>4
  <2> QED BY <2>1, <2>2
<1> QED BY <1>5, <1>6, <1>7 DEF LiquidityInv

\* The check is what makes the promise
LEMMA CheckLiquidLiquidity ==
  ASSUME Inv, LiquidityInv, NEW c \in Calls, CheckLiquid(c) PROVE LiquidityInv'
<1> DEFINE tr == Transfer[Current(c).t]
<1>1. pc[c] = "check" /\ reqs' = reqs /\ bal' = bal /\ pc[c] \in Suspended /\ pc[c] \in Active
  BY DEF CheckLiquid, Suspended, Active
<1>2. CASE Answer(c, FALSE, bal)
  BY <1>1, <1>2, NothingPromised, LiquiditySame DEF PromiseKept, Inv, TypeOK
<1>3. CASE /\ CheckParticipantLiquidity(bal, tr.payer, tr.amount)
           /\ pc' = [pc EXCEPT ![c] = "fetch"]
           /\ UNCHANGED <<resp, leg, sent, snap>>
  <2>1. OnlyCall(c) /\ CurrentLeg(c)' = CurrentLeg(c)
    BY <1>1, <1>3 DEF OnlyCall, Current, CurrentLeg, Inv, TypeOK
  <2>2. Current(c).type = "reserve" /\ leg[c] \in 1..Len(Legs(Current(c)))
    BY <1>1, CurrentType DEF Inv, CallOK
  <2>3. Legs(Current(c)) = <<Reservation(tr, tr.amount)>>
    BY <2>2 DEF Legs
  <2>4. CurrentLeg(c) = Reservation(tr, tr.amount)
    BY <2>2, <2>3 DEF CurrentLeg
  <2>5. Covered(bal, CurrentLeg(c).dr, CurrentLeg(c).amount)
    BY <1>3, <2>4 DEF Reservation, Covered, CheckParticipantLiquidity
  <2>6. PromiseKept(c)'
    BY <1>1, <2>1, <2>5 DEF PromiseKept
  <2> QED BY <1>1, <2>1, <2>6, LiquiditySame
<1> QED BY <1>2, <1>3 DEF CheckLiquid

LEMMA CreateEntryLiquidity ==
  ASSUME Inv, LiquidityInv, NEW c \in Calls, CreateEntry(c) PROVE LiquidityInv'
<1>1. pc[c] = "fetch" /\ reqs' = reqs /\ bal' = bal /\ pc[c] \in Suspended /\ pc[c] \in Active
  BY DEF CreateEntry, Suspended, Active
<1>2. CASE Throw(c, bal)
  <2>1. Answer(c, FALSE, bal) \/ Reject(c)
    BY <1>2 DEF Throw
  <2> QED BY <1>1, <2>1, NothingPromised, LiquiditySame DEF PromiseKept, Inv, TypeOK
<1>3. CASE /\ pc' = [pc EXCEPT ![c] = "store"]
           /\ UNCHANGED <<resp, leg, sent, snap>>
  <2>1. /\ OnlyCall(c) /\ CurrentLeg(c)' = CurrentLeg(c) /\ Current(c)' = Current(c)
        /\ Promised(c)' => Promised(c)
    BY <1>1, <1>3 DEF OnlyCall, Promised, Current, CurrentLeg, Inv, TypeOK
  <2>2. PromiseKept(c)'
    BY <1>1, <2>1 DEF PromiseKept, LiquidityInv
  <2> QED BY <1>1, <2>1, <2>2, LiquiditySame
<1> QED BY <1>2, <1>3 DEF CreateEntry

\* What a whole entry does to a payer: at most its amount is added to the
\* exposure, and only of the account it debits
LEMMA PostEffect ==
  ASSUME FundingOnly, NEW b \in [Accounts -> Balance], NEW l \in Leg,
         l.dr \in Accounts, l.cr \in Accounts,
         \A q \in Payers : InLedger(q) => l.dr # LiquidityOf[q],
         l.pending \/ l.amount >= 0,
         CanDebit(b, l), CanCredit(Debit(b, l), l)
  PROVE  /\ Credit(Debit(b, l), l) \in [Accounts -> Balance]
         /\ \A p \in Payers : InLedger(p) =>
              /\ Exposure(Credit(Debit(b, l), l), p)
                   <= Exposure(b, p) + (IF l.dr = p THEN l.amount ELSE 0)
              /\ Cover(Credit(Debit(b, l), l), p) >= Cover(b, p)
<1> DEFINE d == Debit(b, l)
           k == Credit(d, l)
<1>1. d \in [Accounts -> Balance] /\ k \in [Accounts -> Balance]
  BY DebitType, CreditType
<1>2. ASSUME NEW p \in Payers, InLedger(p)
      PROVE  /\ Exposure(k, p) <= Exposure(b, p) + (IF l.dr = p THEN l.amount ELSE 0)
             /\ Cover(k, p) >= Cover(b, p)
  <2>1. /\ Exposure(d, p) = Exposure(b, p) + (IF l.dr = p THEN l.amount ELSE 0)
        /\ Cover(d, p) = Cover(b, p)
    BY <1>2, DebitEffect
  <2>2. Exposure(k, p) <= Exposure(d, p) /\ Cover(k, p) >= Cover(d, p)
    BY <1>1, <1>2, CreditEffect
  <2> QED BY <2>1, <2>2
<1> QED BY <1>1, <1>2

\* The entry a batch is posting
LEMMA BatchPosting ==
  ASSUME Inv, FundingOnly, NEW c \in Calls, pc[c] = "store", InBatch(Current(c))
  PROVE  /\ CurrentLeg(c) \in Leg
         /\ CurrentLeg(c).dr \in Accounts /\ CurrentLeg(c).cr \in Accounts
         /\ CurrentLeg(c).dr \in Payers
         /\ \A q \in Payers : CurrentLeg(c).dr # LiquidityOf[q]
         /\ CurrentLeg(c).pending \/ CurrentLeg(c).amount >= 0
         /\ BatchActive(c)
<1> DEFINE l == CurrentLeg(c)
<1>1. /\ Current(c) \in Request /\ leg[c] \in 1..Len(Legs(Current(c))) /\ l \in Leg
      /\ InBatch(reqs[c][1])
  BY CurrentType DEF Suspended
<1>2. l.dr \in Payers /\ (l.amount < 0 => l.pending) /\ l.amount \in Int
  BY <1>1, BatchLeg DEF CurrentLeg, Leg
<1>3. l.dr \in Accounts /\ l.cr \in Accounts
  BY DEF Inv, CallOK
<1>4. \A q \in Payers : l.dr # LiquidityOf[q]
  BY <1>2 DEF FundingOnly
<1>5. BatchActive(c)
  BY <1>1 DEF BatchActive, Active
<1>6. l.pending \/ l.amount >= 0
  BY <1>2
<1> QED BY <1>1, <1>2, <1>3, <1>4, <1>5, <1>6

\* A positive entry was promised; a commit's second entry takes back no more
\* than its first one gave
LEMMA PostInBatchLiquidity ==
  ASSUME Inv, LiquidityInv, FundingOnly, NEW c \in Calls, PostInBatch(c)
  PROVE  LiquidityInv'
<1> DEFINE l == CurrentLeg(c)
           d == Debit(bal, l)
           b == Credit(d, l)
<1>1. /\ pc[c] = "store" /\ pc[c] \in Suspended /\ pc[c] \in Active
      /\ InBatch(Current(c)) /\ reqs' = reqs
      /\ bal \in [Accounts -> Balance]
  BY DEF PostInBatch, Suspended, Active, Inv, TypeOK
<1>2. /\ l \in Leg /\ l.amount \in Int
      /\ l.dr \in Accounts /\ l.cr \in Accounts /\ l.dr \in Payers
      /\ \A q \in Payers : l.dr # LiquidityOf[q]
      /\ l.pending \/ l.amount >= 0
      /\ BatchActive(c)
  BY <1>1, BatchPosting DEF Leg
<1>3. CASE bal' = bal /\ Throw(c, bal)
  <2>1. Answer(c, FALSE, bal) \/ Reject(c)
    BY <1>3 DEF Throw
  <2> QED BY <1>1, <1>3, <2>1, NothingPromised, LiquiditySame DEF PromiseKept
<1>4. CASE CanDebit(bal, l) /\ ~CanCredit(d, l) /\ bal' = d /\ Throw(c, d)
  <2>1. d \in [Accounts -> Balance]
    BY <1>1, <1>2, <1>4, DebitType
  <2>2. l.amount < 0
    <3>1. d[l.cr][CreditField(l)] \in Nat
      BY <1>2, <2>1 DEF Balance, CreditField, Fields
    <3> QED BY <1>2, <1>4, <3>1 DEF CanCredit
  <2>3. Safer(bal, d)
    <3> SUFFICES ASSUME NEW p \in Payers, InLedger(p)
                 PROVE  Exposure(d, p) <= Exposure(bal, p) /\ Cover(d, p) >= Cover(bal, p)
      BY DEF Safer
    <3>1. /\ Exposure(d, p) = Exposure(bal, p) + (IF l.dr = p THEN l.amount ELSE 0)
          /\ Cover(d, p) = Cover(bal, p)
      BY <1>1, <1>2, <1>4, DebitEffect
    <3>2. Exposure(bal, p) \in Int /\ Cover(bal, p) \in Int
      BY <1>1, MeasureType
    <3> QED BY <1>2, <2>2, <3>1, <3>2
  <2>4. Answer(c, FALSE, d) \/ Reject(c)
    BY <1>4 DEF Throw
  <2>5. ~Promised(c)' /\ OnlyCall(c)
    BY <1>1, <2>1, <2>4, NothingPromised
  <2>6. LiquidityCovered'
    BY <1>4, <2>1, <2>3, SaferCovered
  <2> QED BY <1>1, <1>2, <1>4, <2>1, <2>3, <2>5, <2>6, LiquidityStep DEF PromiseKept
<1>5. CASE CanDebit(bal, l) /\ CanCredit(d, l) /\ bal' = b /\ NextLeg(c, b)
  <2>1. /\ b \in [Accounts -> Balance]
        /\ \A p \in Payers : InLedger(p) =>
             /\ Exposure(b, p) <= Exposure(bal, p) + (IF l.dr = p THEN l.amount ELSE 0)
             /\ Cover(b, p) >= Cover(bal, p)
    BY <1>1, <1>2, <1>5, PostEffect
  <2>2. \A p \in Payers : InLedger(p) =>
          /\ Exposure(bal, p) \in Int /\ Cover(bal, p) \in Int
          /\ Exposure(b, p) \in Int /\ Cover(b, p) \in Int
          /\ Exposure(bal, p) <= Cover(bal, p)
    BY <1>1, <2>1, MeasureType DEF LiquidityInv, LiquidityCovered, InLedger
  <2>3. l.amount > 0 => Covered(bal, l.dr, l.amount)
    BY <1>1 DEF LiquidityInv, PromiseKept, Promised
  <2>4. LiquidityCovered'
    <3> SUFFICES ASSUME NEW p \in Payers, InLedger(p) PROVE Exposure(b, p) <= Cover(b, p)
      BY <1>5 DEF LiquidityCovered, InLedger
    <3>1. CASE l.dr = p /\ l.amount > 0
      <4>1. Exposure(bal, p) + l.amount <= Cover(bal, p)
        BY <2>3, <3>1 DEF Covered
      <4> QED BY <1>2, <2>1, <2>2, <3>1, <4>1
    <3>2. CASE l.dr # p \/ l.amount <= 0
      BY <1>2, <2>1, <2>2, <3>2
    <3> QED BY <1>2, <3>1, <3>2
  <2>5. OnlyCall(c)
    BY <1>1, <1>5, <2>1, NextLegOK
  <2>6. PromiseKept(c)'
    <3>1. CASE leg[c] < Len(Legs(Current(c)))
      <4>1. leg[c] = 1 /\ Len(Legs(Current(c))) = 2 /\ Current(c) \in Request
        <5>1. /\ leg[c] \in {1, 2} /\ Current(c) \in Request
              /\ Len(Legs(Current(c))) = 1 \/ Len(Legs(Current(c))) = 2
          BY <1>1, CurrentType, LegsType DEF Inv, TypeOK
        <5> QED BY <3>1, <5>1, OneOrTwo, Zenon
      <4>2. leg'[c] = 2 /\ resp' = resp /\ reqs' = reqs
        BY <1>1, <1>5, <3>1, <4>1 DEF NextLeg, Inv, TypeOK
      <4>3. CurrentLeg(c)' = Legs(Current(c))[2] /\ l = Legs(Current(c))[1]
        BY <4>1, <4>2 DEF CurrentLeg, Current
      <4>4. 2 \in 1..Len(Legs(Current(c)))
        BY <4>1
      <4>5. /\ CurrentLeg(c)'.dr = l.dr
            /\ l.amount = -(CurrentLeg(c)'.amount)
            /\ CurrentLeg(c)'.amount \in Int
        <5>1. /\ Legs(Current(c))[2].dr = Legs(Current(c))[1].dr
              /\ Legs(Current(c))[1].amount = -Legs(Current(c))[2].amount
          BY <1>1, <4>1, <4>4, BatchLeg
        <5>2. Legs(Current(c))[2].amount \in Int
          BY <4>1, <4>4, LegsType DEF Leg
        <5> QED BY <4>3, <5>1, <5>2
      <4>6. InLedger(l.dr) => Exposure(b, l.dr) + CurrentLeg(c)'.amount <= Cover(b, l.dr)
        BY <1>2, <2>1, <2>2, <4>5
      <4> QED BY <1>5, <4>5, <4>6 DEF PromiseKept, Covered
    <3>2. CASE ~(leg[c] < Len(Legs(Current(c))))
      <4>1. Answer(c, TRUE, b)
        BY <1>5, <3>2 DEF NextLeg
      <4> QED BY <1>1, <2>1, <4>1, NothingPromised DEF PromiseKept
    <3> QED BY <3>1, <3>2
  <2> QED BY <1>1, <1>2, <1>5, <2>1, <2>4, <2>5, <2>6, LiquidityStep
<1> QED BY <1>3, <1>4, <1>5 DEF PostInBatch

-----------------------------------------------------------------------------
(* Liquidity: low-level entries, flushes, failures *)

\* A low-level entry takes nothing from a payer or a liquidity account
LEMMA DirectPosting ==
  ASSUME Inv, FundingOnly, NEW c \in Calls, pc[c] \in {"store", "debit", "credit"},
         ~InBatch(Current(c))
  PROVE  /\ CurrentLeg(c) \in Leg
         /\ CurrentLeg(c).dr \in Accounts /\ CurrentLeg(c).cr \in Accounts
         /\ \A p \in Payers : /\ CurrentLeg(c).dr # p
                              /\ CurrentLeg(c).dr # LiquidityOf[p]
                              /\ \/ CurrentLeg(c).amount >= 0
                                 \/ CurrentLeg(c).cr # p /\ CurrentLeg(c).cr # LiquidityOf[p]
<1> DEFINE r == Current(c)
<1>1. r \in Request /\ leg[c] \in 1..Len(Legs(r)) /\ CurrentLeg(c) \in Leg
  BY CurrentType DEF Suspended
<1>2. r.type = "entry" /\ r.t \in Postings
  BY <1>1 DEF Request, HighLevel, LowLevel, InBatch
<1>3. CurrentLeg(c) = Posting[r.t]
  <2>1. Legs(r) = <<Posting[r.t]>>
    BY <1>2 DEF Legs
  <2> QED BY <1>1, <2>1 DEF CurrentLeg
<1>4. CurrentLeg(c).dr \in Accounts /\ CurrentLeg(c).cr \in Accounts
  BY DEF Inv, CallOK
<1>5. \A p \in Payers : p \in Payers \cup {LiquidityOf[q] : q \in Payers}
                       /\ LiquidityOf[p] \in Payers \cup {LiquidityOf[q] : q \in Payers}
  OBVIOUS
<1> QED BY <1>1, <1>2, <1>3, <1>4, <1>5 DEF FundingOnly

LEMMA DebitDirectLiquidity ==
  ASSUME Inv, LiquidityInv, FundingOnly, NEW c \in Calls, DebitDirect(c)
  PROVE  LiquidityInv'
<1> DEFINE l == CurrentLeg(c)
<1>1. /\ pc[c] = "store" /\ pc[c] \in Suspended /\ pc[c] \in Active
      /\ ~InBatch(Current(c)) /\ reqs' = reqs
      /\ bal \in [Accounts -> Balance]
  BY DEF DebitDirect, Suspended, Active, Inv, TypeOK
<1>2. CASE bal' = bal /\ Reject(c)
  BY <1>1, <1>2, NothingPromised, LiquiditySame DEF PromiseKept
<1>3. CASE /\ CanDebit(bal, l) /\ bal' = Debit(bal, l)
           /\ pc' = [pc EXCEPT ![c] = "debit"]
           /\ UNCHANGED <<resp, leg, sent>>
  <2>1. /\ l \in Leg /\ l.dr \in Accounts
        /\ \A p \in Payers : l.dr # p /\ l.dr # LiquidityOf[p]
    BY <1>1, DirectPosting
  <2>2. bal' \in [Accounts -> Balance]
    BY <1>1, <1>3, <2>1, DebitType
  <2>3. Safer(bal, bal')
    <3> SUFFICES ASSUME NEW p \in Payers, InLedger(p)
                 PROVE  Exposure(bal', p) <= Exposure(bal, p) /\ Cover(bal', p) >= Cover(bal, p)
      BY DEF Safer
    <3>1. Exposure(bal', p) = Exposure(bal, p) + 0 /\ Cover(bal', p) = Cover(bal, p)
      BY <1>1, <1>3, <2>1, DebitEffect
    <3>2. Exposure(bal, p) \in Int /\ Cover(bal, p) \in Int
      BY <1>1, MeasureType
    <3> QED BY <3>1, <3>2
  <2>4. OnlyCall(c) /\ ~Promised(c)'
    BY <1>1, <1>3 DEF OnlyCall, Promised, Inv, TypeOK
  <2> QED BY <1>1, <2>2, <2>3, <2>4, SaferCovered, LiquidityStep DEF PromiseKept
<1> QED BY <1>2, <1>3 DEF DebitDirect

LEMMA CreditDirectLiquidity ==
  ASSUME Inv, LiquidityInv, FundingOnly, NEW c \in Calls, CreditDirect(c)
  PROVE  LiquidityInv'
<1> DEFINE l == CurrentLeg(c)
<1>1. /\ pc[c] = "debit" /\ pc[c] \in Suspended /\ pc[c] \in Active
      /\ ~InBatch(Current(c)) /\ reqs' = reqs
      /\ bal \in [Accounts -> Balance]
  BY DEF CreditDirect, Suspended, Active, Inv, TypeOK, CallOK
<1>2. CASE bal' = bal /\ Reject(c)
  BY <1>1, <1>2, NothingPromised, LiquiditySame DEF PromiseKept
<1>3. CASE /\ CanCredit(bal, l) /\ bal' = Credit(bal, l)
           /\ pc' = [pc EXCEPT ![c] = "credit"]
           /\ UNCHANGED <<resp, leg, sent>>
  <2>1. /\ l \in Leg /\ l.cr \in Accounts
        /\ \A p \in Payers : l.amount >= 0 \/ (l.cr # p /\ l.cr # LiquidityOf[p])
    BY <1>1, DirectPosting
  <2>2. bal' \in [Accounts -> Balance]
    BY <1>1, <1>3, <2>1, CreditType
  <2>3. Safer(bal, bal')
    <3> SUFFICES ASSUME NEW p \in Payers, InLedger(p)
                 PROVE  Exposure(bal', p) <= Exposure(bal, p) /\ Cover(bal', p) >= Cover(bal, p)
      BY DEF Safer
    <3> QED BY <1>1, <1>3, <2>1, CreditEffect
  <2>4. OnlyCall(c) /\ ~Promised(c)'
    BY <1>1, <1>3 DEF OnlyCall, Promised, Inv, TypeOK
  <2> QED BY <1>1, <2>2, <2>3, <2>4, SaferCovered, LiquidityStep DEF PromiseKept
<1> QED BY <1>2, <1>3 DEF CreditDirect

LEMMA CompleteDirectLiquidity ==
  ASSUME Inv, LiquidityInv, NEW c \in Calls, CompleteDirect(c) PROVE LiquidityInv'
<1>1. /\ pc[c] = "credit" /\ pc[c] \in Suspended /\ pc[c] \in Active
      /\ reqs' = reqs /\ bal' = bal /\ Answer(c, TRUE, bal)
      /\ bal \in [Accounts -> Balance]
  BY DEF CompleteDirect, Suspended, Active, Inv, TypeOK
<1> QED BY <1>1, NothingPromised, LiquiditySame DEF PromiseKept

LEMMA FlushLiquidity ==
  ASSUME Inv, LiquidityInv, NEW c \in Calls, FlushEntries(c) \/ FlushAccounts(c)
  PROVE  LiquidityInv'
<1>1. /\ reqs' = reqs /\ bal' = bal /\ pc[c] \in Active
      /\ OnlyCall(c) /\ ~Promised(c)'
  BY DEF FlushEntries, FlushAccounts, OnlyCall, Promised, Active, Inv, TypeOK
<1> QED BY <1>1, LiquiditySame DEF PromiseKept

LEMMA RepoFailsLiquidity ==
  ASSUME Inv, LiquidityInv, NEW c \in Calls, RepoFails(c) PROVE LiquidityInv'
<1>1. reqs' = reqs /\ bal' = bal /\ pc[c] \in Active /\ Reject(c)
  BY DEF RepoFails, Active
<1>2. OnlyCall(c) /\ ~Promised(c)'
  BY <1>1 DEF OnlyCall, Reject, Promised, Inv, TypeOK
<1> QED BY <1>1, <1>2, LiquiditySame DEF PromiseKept

LEMMA InitLiquidity == ASSUME InitiallyCovered, Init PROVE LiquidityInv
<1>1. OneBatch /\ \A c \in Calls : PromiseKept(c)
  BY DEF Init, OneBatch, BatchActive, Active, PromiseKept, Promised
<1>2. LiquidityCovered
  BY DEF Init, LiquidityCovered, InitiallyCovered
<1> QED BY <1>1, <1>2 DEF LiquidityInv

LEMMA SerialIsNext == [SerialNext]_vars => [Next]_vars
BY DEF SerialNext, Next, StartSerial, Start

LEMMA NextLiquidity ==
  ASSUME FundingOnly, Inv, LiquidityInv, [SerialNext]_vars PROVE LiquidityInv'
<1>1. CASE UNCHANGED vars
  BY <1>1 DEF vars, LiquidityInv, OneBatch, BatchActive, LiquidityCovered,
              PromiseKept, Promised, Covered, Current, CurrentLeg
<1>2. CASE SerialNext
  <2>1. PICK c \in Calls : StartSerial(c) \/ Resume(c)
    BY <1>2 DEF SerialNext
  <2> QED BY <2>1, StartLiquidity, CheckLiquidLiquidity, CreateEntryLiquidity,
             PostInBatchLiquidity, DebitDirectLiquidity, CreditDirectLiquidity,
             CompleteDirectLiquidity, FlushLiquidity, RepoFailsLiquidity DEF Resume
<1> QED BY <1>1, <1>2

\* With one batch at a time, and low-level entries that only fund, no payer's
\* debits and reservations ever exceed its liquidity beyond its net debit cap:
\* for any number of calls and accounts, any batch, and whichever repository
\* call fails.
THEOREM LiquidityAlwaysCovered ==
  ASSUME FundingOnly, InitiallyCovered
  PROVE  SerialSpec => []LiquidityCovered
<1>1. Init => Inv /\ LiquidityInv
  BY InitInv, InitLiquidity
<1>2. Inv /\ LiquidityInv /\ [SerialNext]_vars => (Inv /\ LiquidityInv)'
  BY NextInv, NextLiquidity, SerialIsNext
<1>3. LiquidityInv => LiquidityCovered
  BY DEF LiquidityInv
<1> QED BY <1>1, <1>2, <1>3, PTL DEF SerialSpec

-----------------------------------------------------------------------------
(* The inductive strengthening of AcknowledgedJournaled: an entry that a     *)
(* call will have to answer for is in the journal or, while its batch has    *)
(* not flushed, in _entriesCache.  It needs one batch at a time: a batch     *)
(* that adds entries while another flushes has them cleared with the rest.   *)

In(e, s) == \E n \in DOMAIN s : s[n] = e

\* Entry k of request i is made, and not refused, or counts as made at an await
Owed(c, i, k) ==
  \/ i \in DOMAIN resp[c] /\ resp[c][i] /\ k \in DOMAIN Legs(reqs[c][i])
  \/ /\ pc[c] \in Suspended /\ i = Len(resp[c]) + 1
     /\ \/ k \in 1..(leg[c] - 1)
        \/ k = leg[c] /\ pc[c] \in {"debit", "credit"}
        \/ k = leg[c] /\ pc[c] = "store" /\ InBatch(Current(c))

Noted(c, e) == In(e, journal) \/ (InBatch(reqs[c][1]) /\ In(e, entriesCache))

Kept(c) ==
  /\ pc[c] = "flushEntries" => sent[c] = entriesCache
  /\ pc[c] \in Active => \A i, k : Owed(c, i, k) => Noted(c, <<c, i, k>>)
  /\ pc[c] \in {"flushAccounts", "done"} =>
       \A i, k : Owed(c, i, k) => In(<<c, i, k>>, journal)

KeptInv == OneBatch /\ \A c \in Calls : Kept(c)

LEMMA InAppended ==
  ASSUME NEW S, NEW s \in Seq(S), NEW t \in Seq(S)
  PROVE  /\ \A e : In(e, s) => In(e, s \o t)
         /\ \A e : In(e, t) => In(e, s \o t)
         /\ \A x \in S : In(x, Append(s, x)) /\ \A e : In(e, s) => In(e, Append(s, x))
<1>1. ASSUME NEW e, In(e, s) PROVE In(e, s \o t)
  BY <1>1 DEF In
<1>2. ASSUME NEW e, In(e, t) PROVE In(e, s \o t)
  <2>1. PICK n \in DOMAIN t : t[n] = e
    BY <1>2 DEF In
  <2>2. Len(s) + n \in DOMAIN (s \o t) /\ (s \o t)[Len(s) + n] = e
    BY <2>1
  <2> QED BY <2>2 DEF In
<1>3. ASSUME NEW x \in S PROVE In(x, Append(s, x)) /\ \A e : In(e, s) => In(e, Append(s, x))
  <2>1. Len(s) + 1 \in DOMAIN Append(s, x) /\ Append(s, x)[Len(s) + 1] = x
    OBVIOUS
  <2>2. \A n \in DOMAIN s : n \in DOMAIN Append(s, x) /\ Append(s, x)[n] = s[n]
    OBVIOUS
  <2> QED BY <2>1, <2>2 DEF In
<1> QED BY <1>1, <1>2, <1>3

\* A step of call c that keeps what c owes and what is in the journal; only the
\* running batch changes the cache
LEMMA KeptStep ==
  ASSUME Inv, KeptInv, NEW c \in Calls, reqs' = reqs, OnlyCall(c), pc[c] \in Active,
         \A d \in Calls \ {c} : sent'[d] = sent[d],
         \A e : In(e, journal) => In(e, journal'),
         entriesCache' = entriesCache \/ BatchActive(c),
         Kept(c)'
  PROVE  KeptInv'
<1>1. OneBatch'
  <2>1. \A d \in Calls : BatchActive(d)' => BatchActive(d)
    BY DEF OnlyCall, BatchActive
  <2> QED BY <2>1 DEF OneBatch, KeptInv
<1>2. ASSUME NEW d \in Calls \ {c} PROVE Kept(d)'
  <2>1. /\ pc'[d] = pc[d] /\ resp'[d] = resp[d] /\ leg'[d] = leg[d] /\ reqs'[d] = reqs[d]
        /\ sent'[d] = sent[d] /\ Kept(d)
    BY DEF OnlyCall, KeptInv
  <2>2. \A i, k : Owed(d, i, k)' <=> Owed(d, i, k)
    BY <2>1 DEF Owed, Current
  <2>3. BatchActive(d) => entriesCache' = entriesCache
    BY DEF OneBatch, KeptInv
  <2>4. (pc[d] = "flushEntries")' => (sent[d] = entriesCache)'
    <3>1. pc[d] = "flushEntries" => BatchActive(d)
      BY DEF Inv, CallOK, BatchActive, Flushing, Active
    <3> QED BY <2>1, <2>3, <3>1 DEF Kept
  <2>5. (pc[d] \in Active)' => \A i, k : Owed(d, i, k)' => Noted(d, <<d, i, k>>)'
    BY <2>1, <2>2, <2>3 DEF Kept, Noted, BatchActive
  <2>6. (pc[d] \in {"flushAccounts", "done"})' =>
          \A i, k : Owed(d, i, k)' => In(<<d, i, k>>, journal')
    BY <2>1, <2>2 DEF Kept
  <2> QED BY <2>4, <2>5, <2>6 DEF Kept
<1> QED BY <1>1, <1>2 DEF KeptInv

\* A request is answered, and if with success then all its entries are noted
LEMMA AnswerKept ==
  ASSUME Inv, KeptInv, NEW c \in Calls, NEW ok \in BOOLEAN, NEW b \in [Accounts -> Balance],
         pc[c] \in Suspended, Answer(c, ok, b), UNCHANGED <<reqs, entriesCache, journal>>,
         ok => \A k \in DOMAIN Legs(Current(c)) : Noted(c, <<c, Len(resp[c]) + 1, k>>)
  PROVE  KeptInv'
<1>1. ControlType' /\ OnlyCall(c) /\ pc[c] \in Active
  BY AnswerOK DEF Suspended, Active
<1>2. /\ resp[c] \in Seq(BOOLEAN) /\ resp'[c] = Append(resp[c], ok) /\ leg'[c] = 1
      /\ \A d \in Calls \ {c} : sent'[d] = sent[d]
  BY DEF Answer, BeginFlush, Inv, TypeOK
<1>3. pc'[c] \in {"check", "fetch", "flushEntries", "flushAccounts", "done"}
  BY DEF Answer, BeginFlush, EntryPoint, Inv, TypeOK
<1>4. ASSUME NEW i, NEW k, Owed(c, i, k)' PROVE Noted(c, <<c, i, k>>)
  <2>1. i \in DOMAIN resp'[c] /\ resp'[c][i] /\ k \in DOMAIN Legs(reqs[c][i])
    <3>1. 1..(1 - 1) = {}
      OBVIOUS
    <3>2. ~(k \in 1..(leg'[c] - 1)) /\ pc'[c] \notin {"store", "debit", "credit"}
      BY <1>2, <1>3, <3>1
    <3> QED BY <1>4, <3>2 DEF Owed
  <2>2. CASE i \in DOMAIN resp[c]
    <3>1. Owed(c, i, k)
      BY <1>2, <2>1, <2>2 DEF Owed
    <3> QED BY <1>1, <3>1 DEF KeptInv, Kept
  <2>3. CASE i = Len(resp[c]) + 1
    <3>1. ok
      BY <1>2, <2>1, <2>3
    <3> QED BY <2>1, <2>3, <3>1 DEF Current
  <2> QED BY <1>2, <2>1, <2>2, <2>3
<1>5. pc'[c] \in {"flushAccounts", "done"} => \A e : Noted(c, e) => In(e, journal)
  <2>1. CASE pc'[c] = "flushAccounts"
    <3>1. entriesCache = <<>>
      BY <2>1 DEF Answer, BeginFlush, EntryPoint, Inv, TypeOK
    <3> QED BY <3>1 DEF Noted, In
  <2>2. CASE pc'[c] = "done"
    <3>1. ~InBatch(Current(c))
      BY <2>2 DEF Answer, BeginFlush, EntryPoint, Inv, TypeOK
    <3>2. ~InBatch(reqs[c][1])
      BY <3>1, CurrentType
    <3> QED BY <3>2 DEF Noted
  <2> QED BY <2>1, <2>2
<1>6. pc'[c] = "flushEntries" => sent'[c] = entriesCache
  BY DEF Answer, BeginFlush, EntryPoint, Inv, TypeOK
<1>7. Kept(c)'
  BY <1>4, <1>5, <1>6 DEF Kept, Noted
<1> QED BY <1>1, <1>2, <1>7, KeptStep

\* A call that rejects owes nothing any more
LEMMA RejectKept ==
  ASSUME Inv, KeptInv, NEW c \in Calls, Reject(c), reqs' = reqs, entriesCache' = entriesCache,
         pc[c] \in Active, \A e : In(e, journal) => In(e, journal')
  PROVE  KeptInv'
<1>1. OnlyCall(c) /\ pc'[c] = "failed" /\ sent' = sent
  BY RejectOK DEF Reject, Inv, TypeOK
<1>2. Kept(c)'
  BY <1>1 DEF Kept, Active
<1> QED BY <1>1, <1>2, KeptStep

LEMMA ThrowKept ==
  ASSUME Inv, KeptInv, NEW c \in Calls, NEW b \in [Accounts -> Balance], pc[c] \in Suspended,
         Throw(c, b), UNCHANGED <<reqs, entriesCache, journal>>
  PROVE  KeptInv'
<1>1. CASE Answer(c, FALSE, b)
  BY <1>1, AnswerKept
<1>2. CASE Reject(c)
  BY <1>2, RejectKept DEF Suspended, Active
<1> QED BY <1>1, <1>2 DEF Throw

LEMMA StartKept == ASSUME Inv, KeptInv, NEW c \in Calls, StartSerial(c) PROVE KeptInv'
<1>1. PICK w \in Workload : /\ reqs' = [reqs EXCEPT ![c] = w]
                            /\ pc' = [pc EXCEPT ![c] = EntryPoint(w[1])]
                            /\ InBatch(w[1]) => \A d \in Calls : ~BatchActive(d)
  BY DEF StartSerial, Arrive
<1>2. /\ resp' = resp /\ leg' = leg /\ sent' = sent
      /\ entriesCache' = entriesCache /\ journal' = journal
      /\ resp[c] = <<>> /\ leg[c] = 1
      /\ pc'[c] \in {"check", "fetch"} /\ reqs'[c] = w
  BY <1>1 DEF StartSerial, Arrive, EntryPoint, Inv, CallOK, TypeOK
<1>3. \A d \in Calls \ {c} : pc'[d] = pc[d] /\ reqs'[d] = reqs[d]
  BY <1>1 DEF Inv, TypeOK
<1>4. OneBatch'
  <2>1. \A d \in Calls \ {c} : BatchActive(d)' => BatchActive(d)
    BY <1>3 DEF BatchActive
  <2>2. BatchActive(c)' => InBatch(w[1])
    BY <1>2 DEF BatchActive
  <2> QED BY <1>1, <2>1, <2>2 DEF OneBatch, KeptInv
<1>5. ASSUME NEW d \in Calls PROVE Kept(d)'
  <2>1. CASE d # c
    BY <1>2, <1>3, <2>1 DEF KeptInv, Kept, Owed, Noted, Current
  <2>2. CASE d = c
    <3>1. \A i, k : ~Owed(c, i, k)'
      <4>1. 1..(1 - 1) = {} /\ DOMAIN <<>> = {}
        OBVIOUS
      <4> QED BY <1>2, <4>1 DEF Owed
    <3> QED BY <1>2, <2>2, <3>1 DEF Kept
  <2> QED BY <2>1, <2>2
<1> QED BY <1>4, <1>5 DEF KeptInv

LEMMA CheckLiquidKept == ASSUME Inv, KeptInv, NEW c \in Calls, CheckLiquid(c) PROVE KeptInv'
<1>1. pc[c] = "check" /\ UNCHANGED <<reqs, entriesCache, journal>>
  BY DEF CheckLiquid
<1>2. CASE Answer(c, FALSE, bal)
  BY <1>1, <1>2, AnswerKept DEF Suspended, Inv, TypeOK
<1>3. CASE pc' = [pc EXCEPT ![c] = "fetch"] /\ UNCHANGED <<resp, leg, sent, snap>>
  <2>1. OnlyCall(c) /\ pc'[c] = "fetch"
    BY <1>3 DEF OnlyCall, Inv, TypeOK
  <2>2. \A i, k : Owed(c, i, k)' => Owed(c, i, k)
    BY <1>1, <1>3, <2>1 DEF Owed, Suspended
  <2>3. Kept(c)'
    BY <1>1, <2>1, <2>2 DEF KeptInv, Kept, Noted, Active
  <2> QED BY <1>1, <1>3, <2>1, <2>3, KeptStep DEF Active
<1> QED BY <1>2, <1>3 DEF CheckLiquid

LEMMA CreateEntryKept == ASSUME Inv, KeptInv, NEW c \in Calls, CreateEntry(c) PROVE KeptInv'
<1>1. pc[c] = "fetch" /\ reqs' = reqs /\ journal' = journal /\ pc[c] \in Active
  BY DEF CreateEntry, Active
<1>2. CASE Throw(c, bal) /\ entriesCache' = entriesCache
  BY <1>1, <1>2, ThrowKept DEF Suspended, Inv, TypeOK
<1>3. CASE /\ pc' = [pc EXCEPT ![c] = "store"]
           /\ UNCHANGED <<resp, leg, sent, snap>>
           /\ entriesCache' = IF InBatch(Current(c))
                              THEN Append(entriesCache, CurrentId(c)) ELSE entriesCache
  <2>1. OnlyCall(c) /\ pc'[c] = "store" /\ Current(c)' = Current(c)
    BY <1>1, <1>3 DEF OnlyCall, Current, Inv, TypeOK
  <2>2. InBatch(Current(c)) <=> InBatch(reqs[c][1])
    BY <1>1, CurrentType DEF Suspended
  <2>3. /\ \A e : In(e, entriesCache) => In(e, entriesCache')
        /\ InBatch(Current(c)) => In(CurrentId(c), entriesCache')
    BY <1>1, <1>3, CurrentType, InAppended DEF Suspended, Inv, TypeOK
  <2>4. \A i, k : Owed(c, i, k)' => Owed(c, i, k) \/ (InBatch(Current(c)) /\ <<c, i, k>> = CurrentId(c))
    BY <1>1, <1>3, <2>1 DEF Owed, Suspended, CurrentId
  <2>5. \A i, k : Owed(c, i, k)' => Noted(c, <<c, i, k>>)'
    BY <1>1, <2>2, <2>3, <2>4 DEF KeptInv, Kept, Noted
  <2>6. Kept(c)'
    BY <2>1, <2>5 DEF Kept
  <2>7. entriesCache' = entriesCache \/ BatchActive(c)
    BY <1>1, <1>3, <2>2 DEF BatchActive
  <2> QED BY <1>1, <1>3, <2>1, <2>6, <2>7, KeptStep
<1> QED BY <1>2, <1>3 DEF CreateEntry

LEMMA PostInBatchKept == ASSUME Inv, KeptInv, NEW c \in Calls, PostInBatch(c) PROVE KeptInv'
<1> DEFINE l == CurrentLeg(c)
<1>1. pc[c] = "store" /\ UNCHANGED <<reqs, entriesCache, journal>> /\ InBatch(Current(c))
  BY DEF PostInBatch
<1>2. /\ l \in Leg /\ l.dr \in Accounts /\ l.cr \in Accounts
      /\ bal \in [Accounts -> Balance] /\ pc[c] \in Suspended /\ pc[c] \in Active
  BY <1>1, CurrentType DEF Inv, TypeOK, CallOK, Suspended, Active
<1> HIDE DEF l
<1>3. CASE ~CanDebit(bal, l)
  <2>1. Throw(c, bal)
    BY <1>3 DEF PostInBatch, l
  <2> QED BY <1>1, <1>2, <2>1, ThrowKept
<1>4. CASE CanDebit(bal, l) /\ ~CanCredit(Debit(bal, l), l)
  <2>1. Throw(c, Debit(bal, l)) /\ Debit(bal, l) \in [Accounts -> Balance]
    BY <1>2, <1>4, DebitType DEF PostInBatch, l
  <2> QED BY <1>1, <1>2, <2>1, ThrowKept
<1>5. CASE CanDebit(bal, l) /\ CanCredit(Debit(bal, l), l)
  <2> DEFINE b == Credit(Debit(bal, l), l)
  <2>1. NextLeg(c, b)
    BY <1>5 DEF PostInBatch, l
  <2>2. b \in [Accounts -> Balance]
    BY <1>2, <1>5, DebitType, CreditType
  <2> HIDE DEF b
  <2>3. /\ leg[c] \in {1, 2} /\ Legs(Current(c)) \in Seq(Leg) /\ leg[c] \in 1..Len(Legs(Current(c)))
        /\ Len(Legs(Current(c))) \in {1, 2}
    BY <1>2, CurrentType, LegsType DEF Inv, TypeOK
  <2>4. \A k \in 1..leg[c] : Noted(c, <<c, Len(resp[c]) + 1, k>>)
    <3>1. \A k \in 1..leg[c] : Owed(c, Len(resp[c]) + 1, k)
      BY <1>1, <1>2, <2>3 DEF Owed
    <3> QED BY <1>2, <3>1 DEF KeptInv, Kept
  <2>5. CASE leg[c] < Len(Legs(Current(c)))
    <3>1. /\ leg' = [leg EXCEPT ![c] = @ + 1] /\ pc' = [pc EXCEPT ![c] = "fetch"]
          /\ resp' = resp /\ sent' = sent
      BY <2>1, <2>5 DEF NextLeg
    <3>2. OnlyCall(c) /\ pc'[c] = "fetch" /\ leg'[c] = leg[c] + 1
      BY <3>1 DEF OnlyCall, Inv, TypeOK
    <3>3. ASSUME NEW i, NEW k, Owed(c, i, k)' PROVE Noted(c, <<c, i, k>>)
      <4>1. CASE i \in DOMAIN resp[c] /\ resp[c][i] /\ k \in DOMAIN Legs(reqs[c][i])
        BY <1>2, <4>1 DEF Owed, KeptInv, Kept
      <4>2. CASE i = Len(resp[c]) + 1 /\ k \in 1..(leg'[c] - 1)
        BY <2>3, <2>4, <3>2, <4>2
      <4> QED BY <1>1, <3>1, <3>2, <3>3, <4>1, <4>2 DEF Owed
    <3>4. Kept(c)'
      BY <1>1, <3>2, <3>3 DEF Kept, Noted
    <3> QED BY <1>1, <1>2, <3>1, <3>2, <3>4, KeptStep
  <2>6. CASE ~(leg[c] < Len(Legs(Current(c))))
    <3>1. Answer(c, TRUE, b)
      BY <2>1, <2>6 DEF NextLeg
    <3>2. DOMAIN Legs(Current(c)) = 1..leg[c]
      BY <2>3, <2>6
    <3> QED BY <1>1, <1>2, <2>2, <2>4, <3>1, <3>2, AnswerKept
  <2> QED BY <2>5, <2>6
<1> QED BY <1>3, <1>4, <1>5

LEMMA DebitDirectKept == ASSUME Inv, KeptInv, NEW c \in Calls, DebitDirect(c) PROVE KeptInv'
<1>1. /\ pc[c] = "store" /\ ~InBatch(Current(c)) /\ reqs' = reqs /\ entriesCache' = entriesCache
      /\ journal' = Append(journal, CurrentId(c)) /\ pc[c] \in Active
  BY DEF DebitDirect, Active
<1>2. /\ \A e : In(e, journal) => In(e, journal')
      /\ In(CurrentId(c), journal')
  BY <1>1, CurrentType, InAppended DEF Suspended, Inv, TypeOK
<1>3. CASE Reject(c)
  BY <1>1, <1>2, <1>3, RejectKept
<1>4. CASE pc' = [pc EXCEPT ![c] = "debit"] /\ UNCHANGED <<resp, leg, sent>>
  <2>1. OnlyCall(c) /\ pc'[c] = "debit"
    BY <1>4 DEF OnlyCall, Inv, TypeOK
  <2>2. \A i, k : Owed(c, i, k)' => Owed(c, i, k) \/ <<c, i, k>> = CurrentId(c)
    BY <1>1, <1>4, <2>1 DEF Owed, Suspended, CurrentId
  <2>3. Kept(c)'
    BY <1>1, <1>2, <2>1, <2>2 DEF KeptInv, Kept, Noted
  <2> QED BY <1>1, <1>2, <1>4, <2>1, <2>3, KeptStep
<1> QED BY <1>3, <1>4 DEF DebitDirect

LEMMA CreditDirectKept == ASSUME Inv, KeptInv, NEW c \in Calls, CreditDirect(c) PROVE KeptInv'
<1>1. pc[c] = "debit" /\ UNCHANGED <<reqs, entriesCache, journal>> /\ pc[c] \in Active
  BY DEF CreditDirect, Active
<1>2. CASE Reject(c)
  BY <1>1, <1>2, RejectKept
<1>3. CASE pc' = [pc EXCEPT ![c] = "credit"] /\ UNCHANGED <<resp, leg, sent>>
  <2>1. OnlyCall(c) /\ pc'[c] = "credit"
    BY <1>3 DEF OnlyCall, Inv, TypeOK
  <2>2. \A i, k : Owed(c, i, k)' => Owed(c, i, k)
    BY <1>1, <1>3, <2>1 DEF Owed, Suspended
  <2>3. Kept(c)'
    BY <1>1, <2>1, <2>2 DEF KeptInv, Kept, Noted
  <2> QED BY <1>1, <1>3, <2>1, <2>3, KeptStep
<1> QED BY <1>2, <1>3 DEF CreditDirect

LEMMA CompleteDirectKept == ASSUME Inv, KeptInv, NEW c \in Calls, CompleteDirect(c) PROVE KeptInv'
<1>1. /\ pc[c] = "credit" /\ Answer(c, TRUE, bal) /\ UNCHANGED <<reqs, entriesCache, journal>>
      /\ pc[c] \in Suspended /\ pc[c] \in Active /\ ~InBatch(Current(c))
  BY DEF CompleteDirect, Suspended, Active, Inv, CallOK
<1>2. Legs(Current(c)) = <<Posting[Current(c).t]>> /\ leg[c] \in 1..Len(Legs(Current(c)))
  BY <1>1, CurrentType DEF Legs, InBatch
<1>3. \A k \in DOMAIN Legs(Current(c)) : k = leg[c]
  BY <1>2
<1>4. \A k \in DOMAIN Legs(Current(c)) : Noted(c, <<c, Len(resp[c]) + 1, k>>)
  BY <1>1, <1>3 DEF KeptInv, Kept, Owed
<1> QED BY <1>1, <1>4, AnswerKept DEF Inv, TypeOK

LEMMA FlushKept ==
  ASSUME Inv, KeptInv, NEW c \in Calls, FlushEntries(c) \/ FlushAccounts(c)
  PROVE  KeptInv'
<1>1. reqs' = reqs /\ resp' = resp /\ leg' = leg /\ OnlyCall(c) /\ pc[c] \in Active
  BY DEF FlushEntries, FlushAccounts, OnlyCall, Active, Inv, TypeOK
<1>2. \A i, k : Owed(c, i, k)' => Owed(c, i, k)
  BY <1>1 DEF FlushEntries, FlushAccounts, Owed, Suspended, Inv, TypeOK
<1>3. CASE FlushEntries(c)
  <2>1. /\ pc[c] = "flushEntries" /\ pc'[c] = "flushAccounts" /\ sent[c] = entriesCache
        /\ journal' = journal \o entriesCache /\ \A d \in Calls \ {c} : sent'[d] = sent[d]
        /\ BatchActive(c)
    BY <1>3 DEF FlushEntries, KeptInv, Kept, Inv, TypeOK, CallOK, Flushing, BatchActive, Active
  <2>2. \A e : In(e, journal) \/ In(e, entriesCache) => In(e, journal')
    BY <2>1, InAppended DEF Inv, TypeOK
  <2>3. Kept(c)'
    BY <1>1, <1>2, <2>1, <2>2 DEF KeptInv, Kept, Noted
  <2> QED BY <1>1, <2>1, <2>2, <2>3, KeptStep
<1>4. CASE FlushAccounts(c)
  <2>1. /\ pc[c] = "flushAccounts" /\ pc'[c] = "done" /\ UNCHANGED <<sent, entriesCache, journal>>
    BY <1>4 DEF FlushAccounts, Inv, TypeOK
  <2>2. Kept(c)'
    BY <1>2, <2>1 DEF KeptInv, Kept, Active
  <2> QED BY <1>1, <2>1, <2>2, KeptStep
<1> QED BY <1>3, <1>4

LEMMA RepoFailsKept == ASSUME Inv, KeptInv, NEW c \in Calls, RepoFails(c) PROVE KeptInv'
<1>1. reqs' = reqs /\ entriesCache' = entriesCache /\ Reject(c) /\ pc[c] \in Active
  BY DEF RepoFails, Active
<1>2. \A e : In(e, journal) => In(e, journal')
  <2>1. CASE journal' = Append(journal, CurrentId(c)) /\ pc[c] = "store"
    BY <2>1, CurrentType, InAppended DEF Suspended, Inv, TypeOK
  <2>2. CASE \E n \in 0..Len(sent[c]) : journal' = journal \o SubSeq(sent[c], 1, n)
    <3>1. PICK n \in 0..Len(sent[c]) : journal' = journal \o SubSeq(sent[c], 1, n)
      BY <2>2
    <3>2. SubSeq(sent[c], 1, n) \in Seq(EntryIds) /\ journal \in Seq(EntryIds)
      BY DEF Inv, TypeOK
    <3> QED BY <3>1, <3>2, InAppended
  <2>3. CASE journal' = journal
    BY <2>3
  <2> QED BY <2>1, <2>2, <2>3 DEF RepoFails
<1> QED BY <1>1, <1>2, RejectKept

LEMMA NextKept == ASSUME Inv, KeptInv, [SerialNext]_vars PROVE KeptInv'
<1>1. CASE UNCHANGED vars
  BY <1>1 DEF vars, KeptInv, OneBatch, BatchActive, Kept, Owed, Noted, Current
<1>2. CASE SerialNext
  <2>1. PICK c \in Calls : StartSerial(c) \/ Resume(c)
    BY <1>2 DEF SerialNext
  <2> QED BY <2>1, StartKept, CheckLiquidKept, CreateEntryKept, PostInBatchKept, DebitDirectKept,
             CreditDirectKept, CompleteDirectKept, FlushKept, RepoFailsKept DEF Resume
<1> QED BY <1>1, <1>2

LEMMA InitKept == Init => KeptInv
BY DEF Init, KeptInv, OneBatch, BatchActive, Active, Kept

LEMMA KeptMeansJournaled == ASSUME KeptInv PROVE AcknowledgedJournaled
<1> SUFFICES ASSUME NEW c \in Calls, pc[c] = "done", NEW e \in AcceptedIds, e[1] = c
             PROVE  \E n \in DOMAIN journal : journal[n] = e
  BY DEF AcknowledgedJournaled
<1>1. PICK r \in RequestIds : e \in LegIds(r)
  BY DEF AcceptedIds, EntriesAsked
<1>2. e = <<r[1], r[2], e[3]>> /\ e[3] \in DOMAIN Legs(reqs[r[1]][r[2]])
  BY <1>1 DEF LegIds
<1>3. e[2] \in DOMAIN resp[c] /\ resp[c][e[2]]
  BY DEF AcceptedIds, Accepted
<1>4. Owed(c, e[2], e[3]) /\ e = <<c, e[2], e[3]>>
  BY <1>2, <1>3 DEF Owed
<1> QED BY <1>4 DEF KeptInv, Kept, In

\* With one batch at a time, every entry of a request that the client was told
\* succeeded is in the journal: for any calls, accounts and workload, whichever
\* repository call fails, before or after it wrote.
THEOREM AcknowledgedStaysJournaled == SerialSpec => []AcknowledgedJournaled
<1>1. Inv /\ KeptInv /\ [SerialNext]_vars => (Inv /\ KeptInv)'
  BY NextInv, NextKept, SerialIsNext
<1>2. KeptInv => AcknowledgedJournaled
  BY KeptMeansJournaled
<1> QED BY <1>1, <1>2, InitInv, InitKept, PTL DEF SerialSpec

-----------------------------------------------------------------------------
(* AnsweredMeansStored.  What a batch hands to updateAccounts is what is in   *)
(* memory when it is written: no other batch runs, and low-level entries stay *)
(* away from the accounts that the property is about.                         *)

Apart == {a \in Accounts : \A q \in Postings : a \notin {Posting[q].dr, Posting[q].cr}}

Storing(c) ==
  pc[c] = "flushAccounts" => entriesCache = <<>> /\ \A a \in Apart : snap[c][a] = bal[a]

StoredInv == OneBatch /\ \A c \in Calls : Storing(c)

\* A low-level entry changes no balance of an account that is apart
LEMMA ApartUntouched ==
  ASSUME Inv, NEW c \in Calls, pc[c] \in {"store", "debit"}, ~InBatch(Current(c)), NEW a \in Apart
  PROVE  Debit(bal, CurrentLeg(c))[a] = bal[a] /\ Credit(bal, CurrentLeg(c))[a] = bal[a]
<1> DEFINE r == Current(c)
<1>1. r \in Request /\ leg[c] \in 1..Len(Legs(r))
  BY CurrentType DEF Suspended
<1>2. r.type = "entry" /\ r.t \in Postings
  BY <1>1 DEF Request, HighLevel, LowLevel, InBatch
<1>3. CurrentLeg(c) = Posting[r.t]
  <2>1. Legs(r) = <<Posting[r.t]>>
    BY <1>2 DEF Legs
  <2> QED BY <1>1, <2>1 DEF CurrentLeg
<1>4. a # CurrentLeg(c).dr /\ a # CurrentLeg(c).cr /\ a \in Accounts
  BY <1>2, <1>3 DEF Apart
<1> QED BY <1>4 DEF Debit, Credit, Add, Inv, TypeOK

LEMMA StoredStep ==
  ASSUME Inv, StoredInv, NEW c \in Calls, reqs' = reqs, OnlyCall(c), pc[c] \in Active,
         \A d \in Calls \ {c} : snap'[d] = snap[d],
         BatchActive(c) \/ (entriesCache' = entriesCache /\ \A a \in Apart : bal'[a] = bal[a]),
         Storing(c)'
  PROVE  StoredInv'
<1>1. OneBatch'
  <2>1. \A d \in Calls : BatchActive(d)' => BatchActive(d)
    BY DEF OnlyCall, BatchActive
  <2> QED BY <2>1 DEF OneBatch, StoredInv
<1>2. ASSUME NEW d \in Calls \ {c}, pc'[d] = "flushAccounts" PROVE Storing(d)'
  <2>1. pc[d] = "flushAccounts" /\ BatchActive(d) /\ Storing(d)
    BY <1>2 DEF OnlyCall, Inv, CallOK, Flushing, BatchActive, Active, StoredInv
  <2>2. ~BatchActive(c)
    BY <2>1 DEF OneBatch, StoredInv
  <2> QED BY <2>1, <2>2 DEF Storing
<1>3. \A d \in Calls \ {c} : Storing(d)'
  BY <1>2 DEF Storing
<1> QED BY <1>1, <1>3 DEF StoredInv

LEMMA AnswerStores ==
  ASSUME Inv, StoredInv, NEW c \in Calls, NEW ok \in BOOLEAN, bal' \in [Accounts -> Balance],
         pc[c] \in Suspended, Answer(c, ok, bal'), UNCHANGED <<reqs, entriesCache>>,
         InBatch(Current(c)) \/ bal' = bal
  PROVE  StoredInv'
<1>1. OnlyCall(c) /\ pc[c] \in Active
  BY AnswerOK DEF Suspended, Active
<1>2. /\ pc'[c] = "flushAccounts" => entriesCache = <<>> /\ snap'[c] = bal'
      /\ \A d \in Calls \ {c} : snap'[d] = snap[d]
  BY DEF Answer, BeginFlush, EntryPoint, Inv, TypeOK
<1>3. InBatch(Current(c)) => BatchActive(c)
  BY <1>1, CurrentType DEF BatchActive
<1>4. Storing(c)'
  BY <1>2 DEF Storing
<1> QED BY <1>1, <1>2, <1>3, <1>4, StoredStep

LEMMA RejectStores ==
  ASSUME Inv, StoredInv, NEW c \in Calls, Reject(c), UNCHANGED <<reqs, entriesCache, bal>>,
         pc[c] \in Active
  PROVE  StoredInv'
<1>1. OnlyCall(c) /\ pc'[c] = "failed" /\ snap' = snap
  BY RejectOK DEF Reject, Inv, TypeOK
<1>2. Storing(c)'
  BY <1>1 DEF Storing
<1> QED BY <1>1, <1>2, StoredStep

LEMMA ThrowStores ==
  ASSUME Inv, StoredInv, NEW c \in Calls, bal' \in [Accounts -> Balance], pc[c] \in Suspended,
         Throw(c, bal'), UNCHANGED <<reqs, entriesCache>>, InBatch(Current(c)) \/ bal' = bal
  PROVE  StoredInv'
<1>1. CASE InBatch(Current(c))
  BY <1>1, AnswerStores DEF Throw
<1>2. CASE ~InBatch(Current(c))
  BY <1>2, RejectStores DEF Throw, Suspended, Active
<1> QED BY <1>1, <1>2

\* A step of c that leaves the balances alone and does not hand them over
LEMMA PlainStores ==
  ASSUME Inv, StoredInv, NEW c \in Calls, pc[c] \in Suspended, reqs' = reqs, bal' = bal,
         NEW place \in Suspended, pc' = [pc EXCEPT ![c] = place],
         UNCHANGED <<resp, leg, snap>>, entriesCache' = entriesCache \/ BatchActive(c)
  PROVE  StoredInv'
<1>1. OnlyCall(c) /\ pc'[c] = place /\ pc[c] \in Active
  BY DEF OnlyCall, Inv, TypeOK, Suspended, Active
<1>2. Storing(c)'
  BY <1>1 DEF Storing, Suspended
<1> QED BY <1>1, <1>2, StoredStep

LEMMA StartStores == ASSUME Inv, StoredInv, NEW c \in Calls, StartSerial(c) PROVE StoredInv'
<1>1. PICK w \in Workload : /\ reqs' = [reqs EXCEPT ![c] = w]
                            /\ pc' = [pc EXCEPT ![c] = EntryPoint(w[1])]
                            /\ InBatch(w[1]) => \A d \in Calls : ~BatchActive(d)
  BY DEF StartSerial, Arrive
<1>2. /\ UNCHANGED <<snap, bal, entriesCache>>
      /\ pc'[c] \in {"check", "fetch"} /\ reqs'[c] = w
  BY <1>1 DEF StartSerial, Arrive, EntryPoint, Inv, TypeOK
<1>3. \A d \in Calls \ {c} : pc'[d] = pc[d] /\ reqs'[d] = reqs[d]
  BY <1>1 DEF Inv, TypeOK
<1>4. OneBatch'
  <2>1. \A d \in Calls \ {c} : BatchActive(d)' => BatchActive(d)
    BY <1>3 DEF BatchActive
  <2>2. BatchActive(c)' => InBatch(w[1])
    BY <1>2 DEF BatchActive
  <2> QED BY <1>1, <2>1, <2>2 DEF OneBatch, StoredInv
<1> QED BY <1>2, <1>3, <1>4 DEF StoredInv, Storing

LEMMA BatchStepStores ==
  ASSUME Inv, StoredInv, NEW c \in Calls, CheckLiquid(c) \/ CreateEntry(c) \/ PostInBatch(c)
  PROVE  StoredInv'
<1> DEFINE l == CurrentLeg(c)
<1>1. reqs' = reqs /\ pc[c] \in Suspended /\ bal \in [Accounts -> Balance]
  BY DEF CheckLiquid, CreateEntry, PostInBatch, Suspended, Inv, TypeOK
<1>2. CASE CheckLiquid(c)
  <2>1. UNCHANGED <<bal, entriesCache>>
    BY <1>2 DEF CheckLiquid
  <2>2. CASE Answer(c, FALSE, bal)
    BY <1>1, <2>1, <2>2, AnswerStores
  <2>3. CASE pc' = [pc EXCEPT ![c] = "fetch"] /\ UNCHANGED <<resp, leg, snap>>
    BY <1>1, <2>1, <2>3, PlainStores DEF Suspended
  <2> QED BY <1>2, <2>2, <2>3 DEF CheckLiquid
<1>3. CASE CreateEntry(c)
  <2>1. bal' = bal
    BY <1>3 DEF CreateEntry
  <2>2. CASE Throw(c, bal) /\ entriesCache' = entriesCache
    BY <1>1, <2>1, <2>2, ThrowStores
  <2>3. CASE /\ pc' = [pc EXCEPT ![c] = "store"] /\ UNCHANGED <<resp, leg, snap>>
             /\ entriesCache' = entriesCache \/ InBatch(Current(c))
    <3>1. InBatch(Current(c)) => BatchActive(c)
      BY <1>1, CurrentType DEF BatchActive, Suspended, Active
    <3> QED BY <1>1, <2>1, <2>3, <3>1, PlainStores DEF Suspended
  <2> QED BY <1>3, <2>2, <2>3 DEF CreateEntry
<1>4. CASE PostInBatch(c)
  <2>1. /\ pc[c] = "store" /\ InBatch(Current(c)) /\ entriesCache' = entriesCache
        /\ l \in Leg /\ l.dr \in Accounts /\ l.cr \in Accounts
    BY <1>1, <1>4, CurrentType DEF PostInBatch, Inv, CallOK
  <2>2. bal' \in [Accounts -> Balance]
    BY <1>1, <1>4, <2>1, DebitType, CreditType DEF PostInBatch
  <2>3. CASE Throw(c, bal')
    BY <1>1, <2>1, <2>2, <2>3, ThrowStores
  <2>4. CASE NextLeg(c, bal')
    <3>1. CASE /\ pc' = [pc EXCEPT ![c] = "fetch"] /\ UNCHANGED <<resp, sent, snap>>
               /\ leg' = [leg EXCEPT ![c] = @ + 1]
      <4>1. OnlyCall(c) /\ pc'[c] = "fetch" /\ pc[c] \in Active
        BY <1>1, <3>1 DEF OnlyCall, Inv, TypeOK, Suspended, Active
      <4>2. BatchActive(c)
        BY <1>1, <2>1, <4>1, CurrentType DEF BatchActive
      <4>3. Storing(c)'
        BY <4>1 DEF Storing
      <4> QED BY <1>1, <3>1, <4>1, <4>2, <4>3, StoredStep
    <3>2. CASE Answer(c, TRUE, bal')
      BY <1>1, <2>1, <2>2, <3>2, AnswerStores
    <3> QED BY <2>4, <3>1, <3>2 DEF NextLeg
  <2> QED BY <1>4, <2>3, <2>4 DEF PostInBatch
<1> QED BY <1>2, <1>3, <1>4

LEMMA DirectStepStores ==
  ASSUME Inv, StoredInv, NEW c \in Calls, DebitDirect(c) \/ CreditDirect(c) \/ CompleteDirect(c)
  PROVE  StoredInv'
<1>1. /\ UNCHANGED <<reqs, entriesCache>> /\ pc[c] \in Suspended /\ pc[c] \in Active
      /\ ~InBatch(Current(c))
  BY DEF DebitDirect, CreditDirect, CompleteDirect, Suspended, Active, Inv, CallOK
<1>2. CASE CompleteDirect(c)
  BY <1>1, <1>2, AnswerStores DEF CompleteDirect, Inv, TypeOK
<1>3. CASE Reject(c) /\ bal' = bal
  BY <1>1, <1>3, RejectStores
<1>4. CASE /\ pc[c] \in {"store", "debit"}
           /\ bal' \in {Debit(bal, CurrentLeg(c)), Credit(bal, CurrentLeg(c))}
           /\ snap' = [snap EXCEPT ![c] = bal'] /\ UNCHANGED <<resp, leg>>
           /\ \E place \in {"debit", "credit"} : pc' = [pc EXCEPT ![c] = place]
  <2>1. OnlyCall(c) /\ pc'[c] # "flushAccounts"
    BY <1>4 DEF OnlyCall, Inv, TypeOK
  <2>2. \A a \in Apart : bal'[a] = bal[a]
    BY <1>1, <1>4, ApartUntouched
  <2>3. \A d \in Calls \ {c} : snap'[d] = snap[d]
    BY <1>4 DEF Inv, TypeOK
  <2>4. Storing(c)'
    BY <2>1 DEF Storing
  <2> QED BY <1>1, <2>1, <2>2, <2>3, <2>4, StoredStep
<1> QED BY <1>2, <1>3, <1>4 DEF DebitDirect, CreditDirect

LEMMA FlushStores ==
  ASSUME Inv, StoredInv, NEW c \in Calls, FlushEntries(c) \/ FlushAccounts(c) \/ RepoFails(c)
  PROVE  StoredInv'
<1>1. CASE FlushEntries(c)
  <2>1. /\ reqs' = reqs /\ OnlyCall(c) /\ pc[c] \in Active /\ BatchActive(c)
        /\ \A d \in Calls \ {c} : snap'[d] = snap[d]
    BY <1>1 DEF FlushEntries, OnlyCall, BatchActive, Active, Flushing, Inv, TypeOK, CallOK
  <2>2. Storing(c)'
    BY <1>1 DEF FlushEntries, Storing, Inv, TypeOK
  <2> QED BY <2>1, <2>2, StoredStep
<1>2. CASE FlushAccounts(c)
  <2>1. /\ reqs' = reqs /\ OnlyCall(c) /\ pc[c] \in Active /\ pc'[c] = "done"
        /\ UNCHANGED <<snap, bal, entriesCache>>
    BY <1>2 DEF FlushAccounts, OnlyCall, Active, Inv, TypeOK
  <2>2. Storing(c)'
    BY <2>1 DEF Storing
  <2> QED BY <2>1, <2>2, StoredStep
<1>3. CASE RepoFails(c)
  BY <1>3, RejectStores DEF RepoFails, Active
<1> QED BY <1>1, <1>2, <1>3

LEMMA NextStores == ASSUME Inv, StoredInv, [SerialNext]_vars PROVE StoredInv'
<1>1. CASE UNCHANGED vars
  BY <1>1 DEF vars, StoredInv, OneBatch, BatchActive, Storing
<1>2. CASE SerialNext
  <2>1. PICK c \in Calls : StartSerial(c) \/ Resume(c)
    BY <1>2 DEF SerialNext
  <2> QED BY <2>1, StartStores, BatchStepStores, DirectStepStores, FlushStores DEF Resume
<1> QED BY <1>1, <1>2

\* With one batch at a time, when a batch is answered nothing is left to flush
\* and the collection has what memory has, but for accounts that low-level
\* entries name: for any calls, accounts and workload, and although earlier
\* flushes may have failed half way.
THEOREM AnsweredIsStored == SerialSpec => AnsweredMeansStored
<1> DEFINE Stored(c) == pc[c] = "flushAccounts" /\ pc'[c] = "done" =>
              /\ entriesCache' = <<>>
              /\ \A a \in Accounts : (\A q \in Postings : a \notin {Posting[q].dr, Posting[q].cr})
                   => db'[a] = bal'[a]
<1>1. Init => StoredInv
  BY DEF Init, StoredInv, OneBatch, BatchActive, Active, Storing
<1>2. Inv /\ StoredInv /\ [SerialNext]_vars => (Inv /\ StoredInv)'
  BY NextInv, NextStores, SerialIsNext
<1>3. Inv /\ StoredInv /\ [SerialNext]_vars => [\A c \in Calls : Stored(c)]_vars
  <2> SUFFICES ASSUME Inv, StoredInv, SerialNext, NEW c \in Calls,
                      pc[c] = "flushAccounts", pc'[c] = "done"
               PROVE  /\ entriesCache' = <<>>
                      /\ \A a \in Accounts : (\A q \in Postings : a \notin {Posting[q].dr, Posting[q].cr})
                           => db'[a] = bal'[a]
    OBVIOUS
  <2>1. PICK d \in Calls : StartSerial(d) \/ Resume(d)
    BY DEF SerialNext
  <2>2. d = c
    <3>1. StartSerial(d) => \A e \in Calls \ {d} : pc'[e] = pc[e]
      BY DEF StartSerial, Arrive, Inv, TypeOK
    <3>2. CheckLiquid(d) \/ CreateEntry(d) => \A e \in Calls \ {d} : pc'[e] = pc[e]
      BY DEF CheckLiquid, CreateEntry, Throw, Reject, Answer, BeginFlush, Inv, TypeOK
    <3>3. PostInBatch(d) => \A e \in Calls \ {d} : pc'[e] = pc[e]
      <4>1. \A b, ok : Answer(d, ok, b) => \E place : pc' = [pc EXCEPT ![d] = place]
        BY DEF Answer, BeginFlush
      <4>2. \A b : Throw(d, b) => \E place : pc' = [pc EXCEPT ![d] = place]
        BY <4>1 DEF Throw, Reject
      <4>3. \A b : NextLeg(d, b) => \E place : pc' = [pc EXCEPT ![d] = place]
        BY <4>1 DEF NextLeg
      <4>4. PostInBatch(d) => \E b : Throw(d, b) \/ NextLeg(d, b)
        BY DEF PostInBatch
      <4>5. DOMAIN pc = Calls
        BY DEF Inv, TypeOK
      <4> QED BY <4>2, <4>3, <4>4, <4>5
    <3>4. DebitDirect(d) \/ CreditDirect(d) \/ CompleteDirect(d) \/ FlushEntries(d)
            \/ FlushAccounts(d) \/ RepoFails(d) => \A e \in Calls \ {d} : pc'[e] = pc[e]
      BY DEF DebitDirect, CreditDirect, CompleteDirect, FlushEntries, FlushAccounts, RepoFails,
         Reject, Answer, BeginFlush, Inv, TypeOK
    <3> QED BY <2>1, <3>1, <3>2, <3>3, <3>4 DEF Resume
  <2>3. FlushAccounts(c)
    <3>1. ~StartSerial(c) /\ ~RepoFails(c)
      BY DEF StartSerial, Arrive, RepoFails, Reject, Inv, TypeOK
    <3> QED BY <2>1, <2>2, <3>1 DEF Resume, CheckLiquid, CreateEntry, PostInBatch, DebitDirect,
               CreditDirect, CompleteDirect, FlushEntries
  <2>4. entriesCache = <<>> /\ \A a \in Apart : snap[c][a] = bal[a]
    BY DEF StoredInv, Storing
  <2> QED BY <2>3, <2>4 DEF FlushAccounts, Apart
<1> QED BY <1>1, <1>2, <1>3, InitInv, PTL DEF SerialSpec, AnsweredMeansStored
=============================================================================
