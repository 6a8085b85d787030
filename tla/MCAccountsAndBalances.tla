------------------------- MODULE MCAccountsAndBalances -------------------------
(* Instances of AccountsAndBalances for TLC: one payer whose liquidity allows *)
(* one of two transfers, two callers and an unqueued funding entry.           *)
EXTENDS AccountsAndBalances, TLC

CONSTANTS posA, posB, liqA, hub, rec, ghost, cur, t1, t2, t3, fund

MCAccounts == {posA, posB, liqA, hub, rec}
Zero == [f \in Fields |-> 0]

MCInitBalance ==
  [a \in MCAccounts |-> CASE a = liqA -> [Zero EXCEPT !.postCr = 4]
                          [] a = rec -> [Zero EXCEPT !.postDr = 4]
                          [] OTHER -> Zero]

MCCurrencyOf == [a \in MCAccounts |-> cur]
MCLiquidityOf == posA :> liqA
MCNetDebitCap == posA :> 1

Terms(payee, amount) ==
  [payer |-> posA, payee |-> payee, hub |-> hub, amount |-> amount, currency |-> cur]

\* The chart of accounts does not know the payee of t3
MCTransfer == t1 :> Terms(posB, 2) @@ t2 :> Terms(posB, 3) @@ t3 :> Terms(ghost, 1)

MCPosting ==
  fund :> [dr |-> rec, cr |-> liqA, amount |-> 1, pending |-> FALSE, currency |-> cur]

R(t) == [type |-> "reserve", t |-> t]
C(t) == [type |-> "commit", t |-> t]
F == [type |-> "entry", t |-> fund]

\* A commit of t3 names an unknown account, a reservation of it lacks a field
MCRequests == {R(t1), R(t2), C(t1), R(t3), C(t3)}
MCValid == MCRequests \ {R(t3)}
MCKnown == {R(t1), R(t2), C(t1)}
MCRequestId == [r \in MCRequests |-> r]
MCArrays == {<<R(t1)>>, <<R(t2)>>, <<C(t1)>>, <<C(t3)>>, <<R(t3)>>}

\* Few calls for the run in which batches overlap and connections break; a commit
\* comes with or without its reservation
LiveArrays == {<<R(t1)>>, <<C(t1)>>, <<C(t3)>>}
RaceArrays == {<<R(t1)>>, <<R(t2)>>}

\* What one batch of at most two such calls may carry, and the funding
MCWorkload == {<<F>>} \cup UNION {[1..n -> MCKnown] : n \in 1..2}

Symmetry == Permutations(Callers) \cup Permutations(Calls \ Direct)

ASSUME FundingOnly /\ InitiallyCovered /\ OneHub /\ Tallied(InitBalance) /\ NoneReserved
=============================================================================
