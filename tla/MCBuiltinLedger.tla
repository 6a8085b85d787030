--------------------------- MODULE MCBuiltinLedger ---------------------------
(* Instances of BuiltinLedger for TLC: two participants A and B of one       *)
(* currency, a third, X, of another, and transfers that compete for A's       *)
(* liquidity.                                                                 *)
EXTENDS BuiltinLedger, TLC

CONSTANTS
  \* positions, liquidity, hub, the hub's reconciliation account, and an id
  \* the ledger does not know
  posA, posB, posX, liqA, liqB, hub, rec, ghost,
  cur, otherCur,
  t1, t2, t3, t4, fund, fundDr

MCAccounts == {posA, posB, posX, liqA, liqB, hub, rec}
MCAccountIds == MCAccounts \cup {ghost}
MCCurrencyOf == [a \in MCAccounts |-> IF a = posX THEN otherCur ELSE cur]

Zero == [f \in Fields |-> 0]

\* A may reserve 4 (5 of liquidity, a net debit cap of 1), B may reserve 1
MCInitBalance ==
  [a \in MCAccounts |-> CASE a = liqA -> [Zero EXCEPT !.postCr = 5]
                          [] a = liqB -> [Zero EXCEPT !.postCr = 1]
                          [] a = rec -> [Zero EXCEPT !.postDr = 6]
                          [] OTHER -> Zero]

MCLiquidityOf == posA :> liqA @@ posB :> liqB
MCNetDebitCap == posA :> 1 @@ posB :> 0

Terms(payer, payee, amount) ==
  [payer |-> payer, payee |-> payee, hub |-> hub, amount |-> amount, currency |-> cur]

\* t1 and t2 fit A's liquidity one at a time, not together; t3 pays B's way
\* back; t4 is to a payee the ledger does not know
MCTransfer ==
  t1 :> Terms(posA, posB, 3) @@ t2 :> Terms(posA, posB, 2) @@
  t3 :> Terms(posB, posA, 3) @@ t4 :> Terms(posA, ghost, 1)

\* A's liquidity is funded; a negative entry is refused after its debit
MCPosting ==
  fund :> [dr |-> rec, cr |-> liqA, amount |-> 2, pending |-> FALSE, currency |-> cur] @@
  fundDr :> [dr |-> rec, cr |-> hub, amount |-> -2, pending |-> FALSE, currency |-> cur]

R(t) == [type |-> "reserve", t |-> t]
C(t) == [type |-> "commit", t |-> t]
V(t) == [type |-> "cancel", t |-> t]
F(q) == [type |-> "entry", t |-> q]

\* Reservations that compete, settlements of both kinds and of a transfer whose
\* payee is unknown, mixed batches, funding, and an entry that is refused after
\* its debit was stored
SerialWork ==
  {<<R(t1)>>, <<R(t2), R(t1)>>, <<R(t4)>>, <<C(t1)>>, <<V(t1), R(t2)>>,
   <<C(t2), R(t3)>>, <<C(t4), V(t2)>>, <<F(fund)>>, <<F(fundDr)>>}

ASSUME FundingOnly /\ InitiallyCovered /\ OneHub /\ Tallied(InitBalance) /\ NoneReserved

Symmetry == Permutations(Calls)
=============================================================================
