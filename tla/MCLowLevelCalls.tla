--------------------------- MODULE MCLowLevelCalls ---------------------------
(* Instances of LowLevelCalls for TLC.  Floating-point numbers have 11 bits and   *)
(* toFixed keeps one decimal: amounts of up to 51 units are exact, as those of up *)
(* to 2^51 / 10^8 units are in JavaScript.                                        *)
EXTENDS LowLevelCalls, TLC

CONSTANTS first, second, reader,  \* calls
          a, b, x, ghost,         \* accounts; x is in a currency of its own
          cur, otherCur

MCCalls == {first, second, reader}
MCCurrencies == {cur, otherCur}
MCCurrencyOf == a :> cur @@ b :> cur @@ x :> otherCur
MCLedgerDecimals == a :> 2 @@ b :> 2 @@ x :> 1
\* b was created while the chart had fewer decimals than the ledger
MCChartDecimals == a :> 2 @@ b :> 1

\* One currency loses a decimal, the other is taken away
MCConfigs == {cur :> 2 @@ otherCur :> 1, cur :> 1}

Dec(k, e) == [k |-> k, e |-> e]
Q(dr, cr, amount, u) == [dr |-> dr, cr |-> cr, amount |-> amount, currency |-> u]
Post(es) == [kind |-> "entries", entries |-> es]
AccountsOf(ids) == [kind |-> "accounts", ids |-> ids]
JournalOf(id) == [kind |-> "journal", ids |-> {id}]

\* Two entries, the second of which has two decimals
Payment == Post(<<Q(a, b, Dec(1, 1), cur), Q(a, b, Dec(5, 2), cur)>>)

\* A way back that ends with a negative entry, which needs the payment
Back == Post(<<Q(b, a, Dec(51, 2), cur), Q(a, b, Dec(-12, 2), cur)>>)

\* An entry with an error, and another that is not to be posted after it
Faulty == {Post(<<q, Q(b, a, Dec(2, 1), cur)>>) :
             q \in {Q(a, NoId, Dec(1, 1), cur), Q(a, ghost, Dec(1, 1), cur), Q(a, a, Dec(1, 1), cur),
                    Q(x, a, Dec(1, 1), otherCur)}}

\* x, of another currency, is not charted; b is, with fewer decimals
MCRequests ==
  first :> {Payment} @@
  second :> {Back, AccountsOf({a, b}), JournalOf(x)} \cup Faulty @@
  reader :> {AccountsOf({a, ghost}), JournalOf(a)}

\* What the proofs assume of the amounts that are asked for
ASSUME RequestsSmall == Requests = MCRequests => AmountsSmall

\* Amounts of more units than the number format is exact for
LargePayment == Post(<<Q(a, b, Dec(102, 2), cur)>>)
LargeConfigs == {cur :> 2 @@ otherCur :> 1}
LargeRequests ==
  first :> {LargePayment} @@ second :> {Back} @@ reader :> {AccountsOf({a}), JournalOf(a)}
=============================================================================
