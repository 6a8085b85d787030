-------------------------------- MODULE Amounts --------------------------------
(***************************************************************************)
(* The converters of both services: amounts are decimal strings outside,   *)
(* bigints of the currency's smallest unit inside, and floating-point      *)
(* numbers on the way from one to the other.                               *)
(*                                                                         *)
(* A decimal string is a record [k, e]: the number k / 10^e, written with  *)
(* e decimals.  A floating-point number is a record [m, x]: m / 2^x, with  *)
(* at most Precision bits in m.  JavaScript has 53 bits and the code keeps *)
(* 8 decimals; both are constants, so that TLC can run a small number      *)
(* format through the same steps.                                          *)
(***************************************************************************)
EXTENDS Integers

CONSTANTS
  Precision,      \* bits of a floating-point number: 53
  FixedDecimals,  \* the argument of toFixed: 8
  MaxExponent     \* bound: exponents x, and decimals, that are looked for

ASSUME AmountsAssumption ==
  /\ Precision \in Nat \ {0, 1} /\ FixedDecimals \in Nat /\ MaxExponent \in Nat

-----------------------------------------------------------------------------
(* Floating-point numbers *)

Magnitude(n) == IF n < 0 THEN -n ELSE n

\* The integer nearest to n / q for n >= 0, halves to even (up, in toFixed)
NearestEven(n, q) ==
  LET m == n \div q
      rest == 2 * (n % q)
  IN IF rest > q \/ (rest = q /\ m % 2 = 1) THEN m + 1 ELSE m

NearestUp(n, q) == (2 * n + q) \div (2 * q)

CeilDiv(n, q) == (n + q - 1) \div q

\* The number of Precision bits nearest to n / q, for fractions below
\* 2^Precision, which have no positive exponent
Float(n, q) ==
  IF n = 0 THEN [m |-> 0, x |-> 0]
  ELSE LET fits(i) == /\ CeilDiv(q * 2^(Precision - 1), 2^i) <= Magnitude(n)
                      /\ Magnitude(n) < CeilDiv(q * 2^Precision, 2^i)
           i == CHOOSE j \in 0..MaxExponent : fits(j)
           m == NearestEven(Magnitude(n) * 2^i, q)
       IN [m |-> IF n < 0 THEN -m ELSE m, x |-> i]

Numerator(f) == f.m
Denominator(f) == 2^f.x

SameNumber(f, g) == Numerator(f) * Denominator(g) = Numerator(g) * Denominator(f)

IsInteger(f) == Numerator(f) % Denominator(f) = 0

-----------------------------------------------------------------------------
(* The converters *)

\* (mutant) without toFixed, as the product comes out
ScaledUnfixed(s, decimals) ==
  LET num == Float(s.k, 10^s.e) IN Float(Numerator(num) * 10^decimals, Denominator(num))

\* The string as a number, times 10^decimals, to FixedDecimals decimals, as a
\* number again
ScaledNumber(s, decimals) ==
  LET num == Float(s.k, 10^s.e)
      product == Float(Numerator(num) * 10^decimals, Denominator(num))
      digits == NearestUp(Magnitude(Numerator(product)) * 10^FixedDecimals, Denominator(product))
  IN Float(IF s.k < 0 THEN -digits ELSE digits, 10^FixedDecimals)

\* stringToBigint throws if anything is left after the point
Converts(s, decimals) == IsInteger(ScaledNumber(s, decimals))

stringToBigint(s, decimals) ==
  LET f == ScaledNumber(s, decimals) IN Numerator(f) \div Denominator(f)

\* toString: the fewest digits that still tell the number from its neighbours
Shortest(f) ==
  LET candidate(e) == LET n == NearestUp(Magnitude(Numerator(f)) * 10^e, Denominator(f))
                      IN [k |-> IF f.m < 0 THEN -n ELSE n, e |-> e]
      tells(e) == SameNumber(Float(candidate(e).k, 10^e), f)
  IN candidate(CHOOSE e \in 0..MaxExponent : tells(e) /\ \A i \in 0..(e - 1) : ~tells(i))

bigintToString(value, decimals) ==
  LET num == Float(value, 1)
  IN Shortest(Float(Numerator(num), 10^decimals * Denominator(num)))

-----------------------------------------------------------------------------
(* What they are for *)

SameAmount(s, t) == s.k * 10^t.e = t.k * 10^s.e

\* The string says value units of 10^-decimals
Says(s, value, decimals) == SameAmount(s, [k |-> value, e |-> decimals])

\* The units of 10^-decimals in an amount, and whether it is a number of them
Units(s, decimals) == (s.k * 10^decimals) \div 10^s.e
Fits(s, decimals) == (s.k * 10^decimals) % 10^s.e = 0

\* Amounts whose roundings lose nothing: toFixed keeps all of their decimals, and they
\* are below 2^(Precision - 2) units of the last decimal that it keeps
Small(s, decimals) ==
  /\ s.k \in Int /\ s.e \in 0..(decimals + FixedDecimals)
  /\ 4 * Magnitude(s.k) * 10^(decimals + FixedDecimals) < 2^Precision * 10^s.e

\* The exponents that are looked for are those that there are
Roomy(decimals) ==
  /\ decimals <= MaxExponent
  /\ 10^(decimals + FixedDecimals) * 2^(Precision - 1) <= 2^MaxExponent
=============================================================================
