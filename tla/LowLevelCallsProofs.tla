-------------------------- MODULE LowLevelCallsProofs --------------------------
(***************************************************************************)
(* What LowLevelCalls says of the journal, of the balances and of what     *)
(* clients are told of them, for any calls, accounts and currencies, and   *)
(* for any number of reloads, lost answers and failed writes.              *)
(*                                                                         *)
(* The first half is about the converters of Amounts: of numbers that the  *)
(* number format has room for, reading and writing lose nothing, whatever  *)
(* the precision.  The second half is about the calls: first what becomes  *)
(* of entries, then what the balances come to and what is told of them.    *)
(***************************************************************************)
EXTENDS LowLevelCalls, WellFoundedInduction, TLAPS

-----------------------------------------------------------------------------
(* Arithmetic *)
\* What the Integers module says of powers, of which the provers know nothing
PowersLaw == \A b \in {2, 10} : b^0 = 1 /\ \A i \in Nat : b^(i + 1) = b * b^i

LEMMA Division ==
  ASSUME NEW a \in Int, NEW b \in Nat \ {0}
  PROVE  /\ a \div b \in Int /\ a % b \in 0..(b - 1)
         /\ a - b * (a \div b) = a % b
OBVIOUS

LEMMA DivisionIs ==
  ASSUME NEW a \in Int, NEW b \in Nat \ {0}, NEW q \in Int, NEW r \in 0..(b - 1), a = b * q + r
  PROVE  a \div b = q /\ a % b = r
OBVIOUS

LEMMA Multiple ==
  ASSUME NEW a \in Int, NEW b \in Nat \ {0}
  PROVE  (a * b) \div b = a /\ (a * b) % b = 0
OBVIOUS

LEMMA Cancel ==
  ASSUME NEW a \in Int, NEW b \in Int, NEW c \in Nat \ {0}
  PROVE  /\ a * c = b * c => a = b
         /\ a * c <= b * c <=> a <= b
         /\ a * c < b * c <=> a < b
OBVIOUS

\* A set of natural numbers has a least one
LEMMA Least ==
  ASSUME NEW T, T \subseteq Nat, T # {}
  PROVE  \E n \in T : \A m \in T : n <= m
<1>1. PICK n \in T : \A m \in T : ~(<<m, n>> \in OpToRel(<, Nat))
  BY NatLessThanWellFounded, WFMin
<1>2. ASSUME NEW m \in T, m < n
      PROVE  <<m, n>> \in OpToRel(<, Nat)
  BY <1>2 DEF OpToRel
<1> QED
  <2> SUFFICES ASSUME NEW m \in T PROVE n <= m
    BY <1>1
  <2>1. ~(m < n)
    BY <1>1, <1>2
  <2> QED BY <2>1

Power(b, i) == b^i

LEMMA PowerStep ==
  ASSUME PowersLaw, NEW b \in {2, 10}
  PROVE  /\ Power(b, 0) = 1
         /\ \A i \in Nat : Power(b, i + 1) = b * Power(b, i)
BY Zenon DEF PowersLaw, Power

LEMMA PowerNat ==
  ASSUME PowersLaw, NEW b \in {2, 10}, NEW i \in Nat
  PROVE  Power(b, i) \in Nat \ {0}
<1> DEFINE T == {n \in Nat : Power(b, n) \notin Nat \ {0}}
<1> SUFFICES ASSUME T # {} PROVE FALSE
  OBVIOUS
<1>1. PICK n \in T : \A m \in T : n <= m
  <2> HIDE DEF T
  <2>1. T \subseteq Nat BY DEF T
  <2> QED BY <2>1, Least
<1>2. n # 0
  BY <1>1, PowerStep
<1>3. n - 1 \in Nat /\ (n - 1) + 1 = n /\ n - 1 \notin T
  BY <1>1, <1>2
<1>4. Power(b, n) = b * Power(b, n - 1)
  <2>1. Power(b, (n - 1) + 1) = b * Power(b, n - 1)
    BY <1>3, PowerStep
  <2> QED BY <2>1, <1>3
<1>5. Power(b, n - 1) \in Nat \ {0} /\ b \in Nat \ {0}
  BY <1>3
<1>6. b * Power(b, n - 1) \in Nat \ {0}
  BY <1>5
<1>7. n \notin T
  BY <1>4, <1>6
<1> QED BY <1>1, <1>7

LEMMA PowerSum ==
  ASSUME PowersLaw, NEW b \in {2, 10}, NEW i \in Nat, NEW j \in Nat
  PROVE  Power(b, i + j) = Power(b, i) * Power(b, j)
<1> DEFINE T == {n \in Nat : Power(b, i + n) # Power(b, i) * Power(b, n)}
<1> SUFFICES ASSUME T # {} PROVE FALSE
  OBVIOUS
<1>1. PICK n \in T : \A m \in T : n <= m
  <2> HIDE DEF T
  <2>1. T \subseteq Nat BY DEF T
  <2> QED BY <2>1, Least
<1>2. n # 0
  <2>1. Power(b, 0) = 1
    BY PowerStep
  <2>2. Power(b, i) * Power(b, 0) = Power(b, i) /\ Power(b, i + 0) = Power(b, i)
    <3>1. i + 0 = i /\ Power(b, i) \in Nat
      BY PowerNat
    <3> QED BY <2>1, <3>1
  <2>3. 0 \notin T
    BY <2>2
  <2> HIDE DEF T
  <2> QED BY <1>1, <2>3
<1>3. n - 1 \in Nat /\ (n - 1) + 1 = n /\ n - 1 \notin T /\ (i + (n - 1)) + 1 = i + n
  BY <1>1, <1>2
<1>4. Power(b, (n - 1) + 1) = b * Power(b, n - 1) /\ Power(b, (i + (n - 1)) + 1) = b * Power(b, i + (n - 1))
  BY <1>3, PowerStep
<1>5. Power(b, n) = b * Power(b, n - 1) /\ Power(b, i + n) = b * Power(b, i + (n - 1))
  BY <1>3, <1>4
<1>6. Power(b, i + (n - 1)) = Power(b, i) * Power(b, n - 1)
  BY <1>3
<1>7. Power(b, i) \in Nat /\ Power(b, n - 1) \in Nat
  BY <1>3, PowerNat
<1> HIDE DEF T
<1>8. b * (Power(b, i) * Power(b, n - 1)) = Power(b, i) * (b * Power(b, n - 1))
  BY <1>7
<1>9. n \notin T
  BY <1>5, <1>6, <1>8 DEF T
<1> QED BY <1>1, <1>9

LEMMA PowerLess ==
  ASSUME PowersLaw, NEW b \in {2, 10}, NEW i \in Nat, NEW j \in Nat
  PROVE  /\ i <= j => Power(b, i) <= Power(b, j)
         /\ i < j => 2 * Power(b, i) <= Power(b, j)
<1>1. ASSUME i <= j
      PROVE  Power(b, i) <= Power(b, j)
  <2>1. j - i \in Nat /\ i + (j - i) = j
    BY <1>1
  <2>2. Power(b, j) = Power(b, i) * Power(b, j - i)
    <3>1. Power(b, i + (j - i)) = Power(b, i) * Power(b, j - i)
      BY <2>1, PowerSum
    <3> QED BY <2>1, <3>1
  <2>3. Power(b, i) \in Nat \ {0} /\ Power(b, j - i) \in Nat \ {0}
    BY <2>1, PowerNat
  <2> QED BY <2>2, <2>3
<1>2. ASSUME i < j
      PROVE  2 * Power(b, i) <= Power(b, j)
  <2>1. j - (i + 1) \in Nat /\ i + 1 \in Nat /\ (i + 1) + (j - (i + 1)) = j
    BY <1>2
  <2>2. Power(b, j) = Power(b, i + 1) * Power(b, j - (i + 1)) /\ Power(b, i + 1) = b * Power(b, i)
    <3>1. Power(b, (i + 1) + (j - (i + 1))) = Power(b, i + 1) * Power(b, j - (i + 1))
      BY <2>1, PowerSum
    <3> QED BY <2>1, <3>1, PowerStep
  <2>3. Power(b, i) \in Nat \ {0} /\ Power(b, j - (i + 1)) \in Nat \ {0} /\ b \in Nat /\ b >= 2
    BY <2>1, PowerNat
  <2> DEFINE x == Power(b, i)
             y == Power(b, j - (i + 1))
  <2>4. x \in Nat \ {0} /\ y \in Nat \ {0} /\ Power(b, j) = (b * x) * y
    BY <2>2, <2>3
  <2> HIDE DEF x, y
  <2>5. 2 * x <= b * x
    BY <2>3, <2>4
  <2>6. b * x \in Nat /\ b * x <= (b * x) * y
    BY <2>3, <2>4
  <2>7. 2 * x <= Power(b, j)
    BY <2>4, <2>5, <2>6
  <2> QED BY <2>7 DEF x
<1> QED BY <1>1, <1>2

-----------------------------------------------------------------------------
(* Rounding *)

\* z is an integer that is at most half away from n / q
Nearly(z, n, q) == 2 * z * q <= 2 * n + q /\ 2 * n <= 2 * z * q + q

LEMMA Rounded ==
  ASSUME NEW n \in Nat, NEW q \in Nat \ {0}
  PROVE  /\ NearestEven(n, q) \in Nat /\ Nearly(NearestEven(n, q), n, q)
         /\ NearestUp(n, q) \in Nat /\ Nearly(NearestUp(n, q), n, q)
<1>1. NearestEven(n, q) \in Nat /\ Nearly(NearestEven(n, q), n, q)
  <2> DEFINE m == n \div q
             r == n % q
  <2>1. m \in Int /\ r \in 0..(q - 1) /\ n - q * m = r
    BY Division
  <2>2. NearestEven(n, q) = IF 2 * r > q \/ (2 * r = q /\ m % 2 = 1) THEN m + 1 ELSE m
    BY DEF NearestEven
  <2> HIDE DEF m, r
  <2>3. m \in Nat
    <3>1. q * m > 0 - q
      BY <2>1
    <3>2. ASSUME m <= -1 PROVE FALSE
      <4>1. q * m <= q * (-1)
        BY <2>1, <3>2
      <4> QED BY <2>1, <3>1, <4>1
    <3> QED BY <2>1, <3>2
  <2>4. n = q * m + r /\ q * m \in Nat
    BY <2>1, <2>3
  <2>5. CASE NearestEven(n, q) = m /\ 2 * r <= q
    BY <2>1, <2>3, <2>4, <2>5 DEF Nearly
  <2>6. CASE NearestEven(n, q) = m + 1 /\ 2 * r >= q
    <3>1. 2 * (m + 1) * q = 2 * (q * m) + 2 * q
      BY <2>3
    <3> QED BY <2>1, <2>3, <2>4, <2>6, <3>1 DEF Nearly
  <2> QED BY <2>1, <2>2, <2>5, <2>6
<1>2. NearestUp(n, q) \in Nat /\ Nearly(NearestUp(n, q), n, q)
  <2> DEFINE m == (2 * n + q) \div (2 * q)
             r == (2 * n + q) % (2 * q)
  <2>1. 2 * q \in Nat \ {0} /\ 2 * n + q \in Nat
    OBVIOUS
  <2>2. m \in Int /\ r \in 0..(2 * q - 1) /\ (2 * n + q) - 2 * q * m = r
    <3> DEFINE x == 2 * n + q
               y == 2 * q
    <3>1. y \in Nat \ {0} /\ x \in Int
      BY <2>1
    <3> HIDE DEF x, y
    <3>2. x \div y \in Int /\ x % y \in 0..(y - 1) /\ x - y * (x \div y) = x % y
      BY <3>1, Division
    <3> QED BY <3>2 DEF x, y
  <2>3. NearestUp(n, q) = m
    BY DEF NearestUp
  <2> HIDE DEF m, r
  <2>4. m \in Nat
    <3>1. 2 * q * m > 0 - 2 * q
      BY <2>2
    <3>2. ASSUME m <= -1 PROVE FALSE
      <4>1. 2 * q * m <= 2 * q * (-1)
        BY <2>2, <3>2
      <4> QED BY <2>2, <3>1, <4>1
    <3> QED BY <2>2, <3>2
  <2>5. 2 * m * q = 2 * q * m
    BY <2>4
  <2> QED BY <2>2, <2>3, <2>4, <2>5 DEF Nearly
<1> QED BY <1>1, <1>2

\* What is nearer than half
LEMMA NearestUpIs ==
  ASSUME NEW n \in Nat, NEW q \in Nat \ {0}, NEW z \in Nat,
         2 * z * q <= 2 * n + q, 2 * n + q < 2 * z * q + 2 * q
  PROVE  NearestUp(n, q) = z
<1> DEFINE r == (2 * n + q) - 2 * z * q
<1>1. r \in 0..(2 * q - 1) /\ 2 * n + q = (2 * q) * z + r
  OBVIOUS
<1> HIDE DEF r
<1>2. (2 * n + q) \div (2 * q) = z
  BY <1>1, DivisionIs
<1> QED BY <1>2 DEF NearestUp

\* An integer is rounded to itself
LEMMA NearlyExact ==
  ASSUME NEW z \in Nat, NEW y \in Nat, NEW q \in Nat \ {0}, Nearly(z, y * q, q)
  PROVE  z = y
<1>1. 2 * z * q <= (2 * y + 1) * q /\ (2 * y) * q <= (2 * z + 1) * q
  BY DEF Nearly
<1>2. 2 * z <= 2 * y + 1 /\ 2 * y <= 2 * z + 1
  BY <1>1, Cancel
<1> QED BY <1>2

\* Rounding depends on the fraction only
LEMMA NearestSame ==
  ASSUME NEW n \in Nat, NEW q \in Nat \ {0}, NEW b \in Nat \ {0}
  PROVE  NearestEven(n * b, q * b) = NearestEven(n, q)
<1> DEFINE m == n \div q
           r == n % q
<1>1. m \in Int /\ r \in 0..(q - 1) /\ n - q * m = r
  BY Division
<1>2. NearestEven(n, q) = IF 2 * r > q \/ (2 * r = q /\ m % 2 = 1) THEN m + 1 ELSE m
  BY DEF NearestEven
<1> HIDE DEF m, r
<1>3. q * b \in Nat \ {0} /\ n * b \in Int /\ r * b \in 0..(q * b - 1)
  <2>1. r * b < q * b
    BY <1>1, Cancel
  <2> QED BY <1>1, <2>1
<1>4. n * b = (q * b) * m + r * b
  <2>1. n = q * m + r
    BY <1>1
  <2> QED BY <1>1, <2>1
<1>5. (n * b) \div (q * b) = m /\ (n * b) % (q * b) = r * b
  <2> DEFINE x == n * b
             y == q * b
             z == r * b
  <2>1. y \in Nat \ {0} /\ x \in Int /\ z \in 0..(y - 1) /\ x = y * m + z
    BY <1>3, <1>4
  <2> HIDE DEF x, y, z
  <2>2. x \div y = m /\ x % y = z
    BY <1>1, <2>1, DivisionIs
  <2> QED BY <2>2 DEF x, y, z
<1>6. 2 * (r * b) > q * b <=> 2 * r > q
  BY <1>1, Cancel
<1>7. 2 * (r * b) = q * b <=> 2 * r = q
  BY <1>1, Cancel
<1> QED BY <1>2, <1>5, <1>6, <1>7 DEF NearestEven

-----------------------------------------------------------------------------
(* Floating-point numbers *)

\* The least number of Precision bits
H == Power(2, Precision - 1)

\* n / q has Precision bits if it is scaled by 2^i
FitsAt(n, q, i) ==
  q * H <= Magnitude(n) * Power(2, i) /\ Magnitude(n) * Power(2, i) < 2 * q * H

\* A fraction that is neither too large nor too small to be one
Normal(n, q) ==
  /\ n \in Int \ {0} /\ q \in Nat \ {0}
  /\ Magnitude(n) < 2 * q * H
  /\ q * H <= Magnitude(n) * Power(2, MaxExponent)

\* f is the number nearest to n / q
Near(f, n, q) ==
  LET M == Magnitude(Numerator(f))
      B == Denominator(f)
  IN /\ B \in Nat \ {0} /\ B <= Power(2, MaxExponent)
     /\ M \in Nat /\ H <= M /\ M <= 2 * H /\ Numerator(f) = IF n < 0 THEN -M ELSE M
     /\ Nearly(M, Magnitude(n) * B, q)
     /\ q * H <= Magnitude(n) * B /\ Magnitude(n) * B < 2 * q * H

LEMMA HNat ==
  ASSUME PowersLaw
  PROVE  H \in Nat \ {0} /\ 2^(Precision - 1) = H /\ 2^Precision = 2 * H
<1>1. Precision - 1 \in Nat /\ (Precision - 1) + 1 = Precision
  BY AmountsAssumption
<1>2. Power(2, (Precision - 1) + 1) = 2 * Power(2, Precision - 1)
  BY <1>1, PowerStep
<1>3. H \in Nat \ {0}
  BY <1>1, PowerNat DEF H
<1> QED BY <1>1, <1>2, <1>3 DEF H, Power

LEMMA CeilIs ==
  ASSUME NEW a \in Nat, NEW b \in Nat \ {0}, NEW n \in Nat
  PROVE  /\ CeilDiv(a, b) <= n <=> a <= n * b
         /\ n < CeilDiv(a, b) <=> n * b < a
<1> DEFINE x == a + b - 1
           m == x \div b
           r == x % b
<1>1. x \in Int
  OBVIOUS
<1>2. m \in Int /\ r \in 0..(b - 1) /\ x - b * m = r
  <2> HIDE DEF x
  <2> QED BY <1>1, Division
<1>3. CeilDiv(a, b) = m
  BY DEF CeilDiv
<1> HIDE DEF m, r
<1>4. a = b * m + r - b + 1
  BY <1>2
<1> HIDE DEF x
<1>5. ASSUME m <= n PROVE a <= n * b
  <2>1. m * b <= n * b
    BY <1>2, <1>5
  <2> QED BY <1>2, <1>4, <2>1
<1>6. ASSUME n < m PROVE n * b < a
  <2>1. n + 1 <= m
    BY <1>2, <1>6
  <2>2. (n + 1) * b <= m * b
    BY <1>2, <2>1
  <2> QED BY <1>2, <1>4, <2>2
<1> QED BY <1>2, <1>3, <1>5, <1>6

LEMMA MagnitudeNat ==
  ASSUME NEW n \in Int
  PROVE  /\ Magnitude(n) \in Nat /\ Magnitude(-n) = Magnitude(n) /\ (Magnitude(n) = 0 <=> n = 0)
         /\ n = IF n < 0 THEN -Magnitude(n) ELSE Magnitude(n)
BY DEF Magnitude

LEMMA FitsOnce ==
  ASSUME PowersLaw, NEW n \in Int, NEW q \in Nat \ {0}, NEW i \in Nat, NEW j \in Nat,
         FitsAt(n, q, i), FitsAt(n, q, j)
  PROVE  i = j
<1>1. ASSUME NEW k \in Nat, NEW l \in Nat, k < l, FitsAt(n, q, k), FitsAt(n, q, l)
      PROVE  FALSE
  <2> DEFINE x == Power(2, k)
             y == Power(2, l)
             z == Magnitude(n)
  <2>1. x \in Nat /\ y \in Nat /\ z \in Nat /\ H \in Nat /\ 2 * x <= y
    BY <1>1, PowerLess, PowerNat, HNat, MagnitudeNat
  <2>2. q * H <= z * x /\ z * y < 2 * q * H
    BY <1>1 DEF FitsAt
  <2> HIDE DEF x, y, z
  <2>3. z * (2 * x) <= z * y
    BY <2>1
  <2> QED BY <2>1, <2>2, <2>3
<1> QED BY <1>1

LEMMA FitsSome ==
  ASSUME PowersLaw, NEW n, NEW q, Normal(n, q)
  PROVE  \E i \in 0..MaxExponent : FitsAt(n, q, i)
<1> DEFINE z == Magnitude(n)
           T == {i \in 0..MaxExponent : q * H <= z * Power(2, i)}
<1>1. /\ MaxExponent \in Nat /\ n \in Int /\ z \in Nat \ {0} /\ H \in Nat /\ q \in Nat \ {0}
      /\ z < 2 * q * H /\ q * H <= z * Power(2, MaxExponent)
  BY AmountsAssumption, MagnitudeNat, HNat DEF Normal
<1>2. T \subseteq Nat /\ T # {}
  <2>1. MaxExponent \in 0..MaxExponent
    BY <1>1
  <2>2. MaxExponent \in T
    BY <1>1, <2>1
  <2> QED BY <1>1, <2>2
<1>3. PICK i \in T : \A j \in T : i <= j
  <2> HIDE DEF T
  <2> QED BY <1>2, Least
<1> HIDE DEF z
<1>4. z * Power(2, i) < 2 * q * H
  <2>1. CASE i = 0
    <3>1. Power(2, i) = 1
      BY <2>1, PowerStep
    <3> QED BY <1>1, <3>1
  <2>2. CASE i # 0
    <3>1. i - 1 \in 0..MaxExponent /\ i - 1 \in Nat /\ (i - 1) + 1 = i /\ i - 1 \notin T
      BY <1>1, <1>3, <2>2
    <3>2. Power(2, i) = 2 * Power(2, i - 1)
      <4>1. Power(2, (i - 1) + 1) = 2 * Power(2, i - 1)
        BY <3>1, PowerStep
      <4> QED BY <3>1, <4>1
    <3>3. Power(2, i - 1) \in Nat
      BY <3>1, PowerNat
    <3>4. z * Power(2, i - 1) < q * H
      BY <1>1, <3>1, <3>3
    <3> QED BY <1>1, <3>2, <3>3, <3>4
  <2> QED BY <2>1, <2>2
<1> QED BY <1>3, <1>4 DEF FitsAt, z

LEMMA FloatIs ==
  ASSUME PowersLaw, NEW n \in Int \ {0}, NEW q \in Nat \ {0}, NEW i \in 0..MaxExponent, FitsAt(n, q, i)
  PROVE  LET M == NearestEven(Magnitude(n) * Power(2, i), q)
         IN Float(n, q) = [m |-> IF n < 0 THEN -M ELSE M, x |-> i]
<1> DEFINE fits(j) == /\ CeilDiv(q * 2^(Precision - 1), 2^j) <= Magnitude(n)
                      /\ Magnitude(n) < CeilDiv(q * 2^Precision, 2^j)
<1>1. ASSUME NEW j \in 0..MaxExponent
      PROVE  fits(j) <=> FitsAt(n, q, j)
  <2> DEFINE z == Magnitude(n)
             y == Power(2, j)
  <2>1. z \in Nat /\ y \in Nat \ {0} /\ H \in Nat
    BY PowerNat, MagnitudeNat, HNat
  <2>2. fits(j) <=> CeilDiv(q * H, y) <= z /\ z < CeilDiv(q * (2 * H), y)
    BY HNat DEF Power
  <2>3. q * H \in Nat /\ q * (2 * H) \in Nat /\ q * (2 * H) = 2 * q * H
    BY <2>1
  <2> HIDE DEF fits
  <2>4. fits(j) <=> q * H <= z * y /\ z * y < 2 * q * H
    <3> HIDE DEF z, y
    <3> QED BY <2>1, <2>2, <2>3, CeilIs
  <2> QED BY <2>4 DEF FitsAt
<1>2. \A j \in 0..MaxExponent : fits(j) <=> j = i
  <2>1. i \in Nat /\ \A j \in 0..MaxExponent : j \in Nat
    BY AmountsAssumption
  <2> HIDE DEF fits
  <2> QED BY <1>1, <2>1, FitsOnce
<1>3. i = CHOOSE j \in 0..MaxExponent : fits(j)
  <2> HIDE DEF fits
  <2> QED BY <1>2
<1> DEFINE k == CHOOSE j \in 0..MaxExponent : fits(j)
           M(j) == NearestEven(Magnitude(n) * 2^j, q)
<1>4. Float(n, q) = [m |-> IF n < 0 THEN -M(k) ELSE M(k), x |-> k]
  BY DEF Float
<1> HIDE DEF k
<1> QED BY <1>3, <1>4, Zenon DEF k, Power

LEMMA FloatNear ==
  ASSUME PowersLaw, NEW n, NEW q, Normal(n, q)
  PROVE  Near(Float(n, q), n, q)
<1> DEFINE z == Magnitude(n)
<1>1. PICK i \in 0..MaxExponent : FitsAt(n, q, i)
  BY FitsSome
<1> DEFINE B == Power(2, i)
           M == NearestEven(z * B, q)
<1>2. /\ n \in Int \ {0} /\ q \in Nat \ {0} /\ z \in Nat /\ H \in Nat /\ B \in Nat \ {0}
      /\ z * B \in Nat /\ i \in Nat /\ MaxExponent \in Nat /\ i <= MaxExponent
  BY AmountsAssumption, MagnitudeNat, HNat, PowerNat DEF Normal
<1>3. Float(n, q) = [m |-> IF n < 0 THEN -M ELSE M, x |-> i]
  BY <1>1, <1>2, FloatIs
<1>4. M \in Nat /\ Nearly(M, z * B, q)
  <2> HIDE DEF B, z
  <2> QED BY <1>2, Rounded
<1>5. q * H <= z * B /\ z * B < 2 * q * H
  BY <1>1 DEF FitsAt
<1>6. B <= Power(2, MaxExponent)
  BY <1>2, PowerLess
<1>7. Denominator(Float(n, q)) = B /\ Numerator(Float(n, q)) = IF n < 0 THEN -M ELSE M
  <2>1. Float(n, q).x = i /\ Float(n, q).m = IF n < 0 THEN -M ELSE M
    <3> HIDE DEF M
    <3> QED BY <1>3
  <2> QED BY <2>1, Zenon DEF Denominator, Numerator, Power
<1> HIDE DEF M, B, z
<1>8. Magnitude(Numerator(Float(n, q))) = M
  BY <1>4, <1>7 DEF Magnitude
<1>9. H <= M
  <2>1. 2 * (z * B) <= 2 * M * q + q
    BY <1>4 DEF Nearly
  <2>2. (2 * H) * q <= (2 * M + 1) * q
    BY <1>2, <1>4, <1>5, <2>1
  <2>3. 2 * H <= 2 * M + 1
    BY <1>2, <1>4, <2>2, Cancel
  <2> QED BY <1>2, <1>4, <2>3
<1>10. M <= 2 * H
  <2>1. 2 * M * q <= 2 * (z * B) + q
    BY <1>4 DEF Nearly
  <2>2. (2 * M) * q < (4 * H + 1) * q
    BY <1>2, <1>4, <1>5, <2>1
  <2>3. 2 * M < 4 * H + 1
    BY <1>2, <1>4, <2>2, Cancel
  <2> QED BY <1>2, <1>4, <2>3
<1> QED BY <1>2, <1>4, <1>5, <1>6, <1>7, <1>8, <1>9, <1>10 DEF Near, z

\* The number depends on the fraction only
LEMMA FloatSame ==
  ASSUME PowersLaw, NEW n, NEW q, Normal(n, q), NEW b \in Nat \ {0}
  PROVE  Float(n * b, q * b) = Float(n, q)
<1> DEFINE z == Magnitude(n)
<1>1. PICK i \in 0..MaxExponent : FitsAt(n, q, i)
  BY FitsSome
<1> DEFINE B == Power(2, i)
<1>2. n \in Int \ {0} /\ q \in Nat \ {0} /\ z \in Nat /\ H \in Nat /\ B \in Nat \ {0}
  BY AmountsAssumption, MagnitudeNat, HNat, PowerNat DEF Normal
<1>3. n * b \in Int \ {0} /\ q * b \in Nat \ {0} /\ (n * b < 0 <=> n < 0)
  BY <1>2
<1>4. Magnitude(n * b) = z * b
  <2>1. n * b < 0 => -(n * b) = (-n) * b
    BY <1>2
  <2> QED BY <1>3, <2>1 DEF Magnitude
<1>5. (z * b) * B = (z * B) * b
  <2> HIDE DEF z, B
  <2> QED BY <1>2
<1>6. FitsAt(n * b, q * b, i)
  <2>1. q * H <= z * B /\ z * B < 2 * q * H
    BY <1>1 DEF FitsAt
  <2> HIDE DEF z, B
  <2>2. (q * H) * b <= (z * B) * b /\ (z * B) * b < (2 * q * H) * b
    BY <1>2, <2>1, Cancel
  <2>3. (q * H) * b = (q * b) * H /\ (2 * q * H) * b = 2 * (q * b) * H
    BY <1>2
  <2>4. (q * b) * H <= (z * b) * B /\ (z * b) * B < 2 * (q * b) * H
    BY <1>5, <2>2, <2>3
  <2> QED BY <1>4, <2>4 DEF FitsAt, B
<1>7. NearestEven((z * b) * B, q * b) = NearestEven(z * B, q)
  <2> HIDE DEF z, B
  <2>1. z * B \in Nat
    BY <1>2
  <2> QED BY <1>2, <1>5, <2>1, NearestSame
<1>8. Float(n, q) = [m |-> IF n < 0 THEN -NearestEven(z * B, q) ELSE NearestEven(z * B, q), x |-> i]
  BY <1>1, <1>2, FloatIs
<1>9. Float(n * b, q * b) = [m |-> IF n * b < 0 THEN -NearestEven((z * b) * B, q * b)
                                  ELSE NearestEven((z * b) * B, q * b), x |-> i]
  <2>1. LET M == NearestEven(Magnitude(n * b) * Power(2, i), q * b)
        IN Float(n * b, q * b) = [m |-> IF n * b < 0 THEN -M ELSE M, x |-> i]
    <3> DEFINE x == n * b
               y == q * b
    <3> HIDE DEF x, y
    <3>1. LET M == NearestEven(Magnitude(x) * Power(2, i), y)
          IN Float(x, y) = [m |-> IF x < 0 THEN -M ELSE M, x |-> i]
      BY <1>3, <1>6, FloatIs DEF x, y
    <3> QED BY <3>1, Zenon DEF x, y
  <2> QED BY <1>4, <2>1, Zenon
<1> DEFINE x == NearestEven(z * B, q)
           y == NearestEven((z * b) * B, q * b)
<1>10. /\ x = y
       /\ Float(n, q) = [m |-> IF n < 0 THEN -x ELSE x, x |-> i]
       /\ Float(n * b, q * b) = [m |-> IF n * b < 0 THEN -y ELSE y, x |-> i]
  BY <1>7, <1>8, <1>9, Zenon
<1> HIDE DEF x, y
<1> QED BY <1>3, <1>10

LEMMA FloatZero == \A q : Float(0, q) = [m |-> 0, x |-> 0]
BY DEF Float

-----------------------------------------------------------------------------
(* Reading an amount *)

LEMMA Times ==
  ASSUME NEW a \in Int, NEW b \in Int, NEW c \in Nat, a <= b
  PROVE  a * c <= b * c
OBVIOUS

LEMMA ErrorSum ==
  ASSUME NEW h \in Nat \ {0}, NEW R \in Nat, NEW Z \in Nat, NEW X \in Nat, NEW S \in Nat \ {0},
         NEW T \in Nat, h * R <= X, 2 * X <= 2 * (T * S) + Z, h * Z <= T * S,
         T * (4 * h + 1) < 2 * h * h
  PROVE  R + Z < S
<1> DEFINE Y == T * S
<1>1. Y \in Nat /\ h * R <= X /\ 2 * X <= 2 * Y + Z /\ h * Z <= Y
  OBVIOUS
<1>2. Y * (4 * h + 1) < (2 * h * h) * S
  <2> DEFINE x == T * (4 * h + 1)
             y == 2 * h * h
  <2>1. x \in Int /\ y \in Int /\ x < y
    OBVIOUS
  <2>2. Y * (4 * h + 1) = x * S
    OBVIOUS
  <2> HIDE DEF x, y, Y
  <2>3. x * S < y * S
    BY <2>1, Cancel
  <2> QED BY <2>2, <2>3 DEF y
<1> HIDE DEF Y
<1>3. (2 * h * h) * R <= 2 * h * Y + h * Z
  <2>1. 2 * (h * R) * h <= 2 * X * h
    <3> DEFINE x == h * R
    <3>1. x \in Int /\ x <= X
      BY <1>1
    <3> HIDE DEF x
    <3>2. x * h <= X * h
      BY <3>1, Times
    <3> QED BY <3>1, <3>2 DEF x
  <2>2. 2 * X * h <= (2 * Y + Z) * h
    BY <1>1
  <2> QED BY <1>1, <2>1, <2>2
<1>4. (2 * h * h) * Z <= 2 * h * Y
  <2> DEFINE z == h * Z
  <2>1. z \in Int /\ z <= Y
    BY <1>1
  <2>2. (2 * h * h) * Z = 2 * (z * h)
    OBVIOUS
  <2> HIDE DEF z
  <2>3. z * h <= Y * h
    BY <1>1, <2>1, Times
  <2> QED BY <1>1, <2>1, <2>2, <2>3
<1>5. (2 * h * h) * (R + Z) <= Y * (4 * h + 1)
  <2>1. (2 * h * h) * (R + Z) = (2 * h * h) * R + (2 * h * h) * Z
    OBVIOUS
  <2>2. Y * (4 * h + 1) = 2 * h * Y + 2 * h * Y + Y
    BY <1>1
  <2> QED BY <1>1, <1>3, <1>4, <2>1, <2>2
<1> DEFINE y == 2 * h * h
<1>6. y \in Nat \ {0} /\ (R + Z) * y < S * y
  <2>1. (R + Z) * y = y * (R + Z) /\ S * y = y * S
    OBVIOUS
  <2>2. y \in Nat \ {0} /\ Y * (4 * h + 1) \in Int /\ y * (R + Z) \in Int /\ y * S \in Int
    BY <1>1
  <2> QED BY <1>2, <1>5, <2>1, <2>2
<1> HIDE DEF y
<1> QED BY <1>6, Cancel

\* Scaling both sides of an approximation
LEMMA NearlyTimes ==
  ASSUME NEW M \in Nat, NEW n \in Nat, NEW q \in Nat \ {0}, NEW c \in Nat, Nearly(M, n, q)
  PROVE  2 * (M * c) * q <= 2 * (n * c) + q * c /\ 2 * (n * c) <= 2 * (M * c) * q + q * c
<1> DEFINE x == 2 * M * q
           y == 2 * n + q
           z == 2 * n
           w == 2 * M * q + q
<1>1. x \in Int /\ y \in Int /\ z \in Int /\ w \in Int /\ x <= y /\ z <= w
  BY DEF Nearly
<1>2. /\ x * c = 2 * (M * c) * q /\ y * c = 2 * (n * c) + q * c
      /\ z * c = 2 * (n * c) /\ w * c = 2 * (M * c) * q + q * c
  OBVIOUS
<1> HIDE DEF x, y, z, w
<1>3. x * c <= y * c /\ z * c <= w * c
  BY <1>1, Times
<1> QED BY <1>2, <1>3

\* The error of two roundings, the second of the first times D, is below half a
\* unit of 1 / F: k / E is rounded to M / B, and M * D / B to N / C
RoundedTwice(k, E, D, F, h, M, B, N, C, T) ==
  /\ k \in Nat /\ E \in Nat \ {0} /\ D \in Nat \ {0} /\ F \in Nat \ {0} /\ h \in Nat \ {0}
  /\ M \in Nat /\ B \in Nat \ {0} /\ N \in Nat /\ C \in Nat \ {0} /\ T \in Nat
  /\ T * E = k * (D * F) /\ T * (4 * h + 1) < 2 * h * h
  /\ Nearly(M, k * B, E) /\ E * h <= k * B
  /\ Nearly(N, M * D * C, B) /\ B * h <= M * D * C

LEMMA TwoRoundings ==
  ASSUME NEW k, NEW E, NEW D, NEW F, NEW h, NEW M, NEW B, NEW N, NEW C, NEW T,
         RoundedTwice(k, E, D, F, h, M, B, N, C, T)
  PROVE  2 * T * C < 2 * (N * F) + C /\ 2 * (N * F) < 2 * T * C + C
<1> SUFFICES ASSUME k \in Nat, E \in Nat \ {0}, D \in Nat \ {0}, F \in Nat \ {0}, h \in Nat \ {0},
                    M \in Nat, B \in Nat \ {0}, N \in Nat, C \in Nat \ {0}, T \in Nat,
                    T * E = k * (D * F), T * (4 * h + 1) < 2 * h * h,
                    Nearly(M, k * B, E), E * h <= k * B,
                    Nearly(N, M * D * C, B), B * h <= M * D * C
             PROVE  2 * T * C < 2 * (N * F) + C /\ 2 * (N * F) < 2 * T * C + C
  BY Zenon DEF RoundedTwice
<1> DEFINE G == D * F
           v == M * G
<1>1. G \in Nat \ {0} /\ v \in Nat /\ T * E = k * G
  OBVIOUS
<1> HIDE DEF G
<1>2. 2 * v <= 2 * (T * B) + G /\ 2 * (T * B) <= 2 * v + G
  <2>1. 2 * (M * G) * E <= 2 * ((k * B) * G) + E * G /\ 2 * ((k * B) * G) <= 2 * (M * G) * E + E * G
    <3> DEFINE n == k * B
    <3>1. n \in Nat /\ Nearly(M, n, E)
      OBVIOUS
    <3> HIDE DEF n
    <3>2. 2 * (M * G) * E <= 2 * (n * G) + E * G /\ 2 * (n * G) <= 2 * (M * G) * E + E * G
      BY <1>1, <3>1, NearlyTimes
    <3> QED BY <3>2 DEF n
  <2>2. (k * B) * G = (T * E) * B
    <3>1. (k * B) * G = (k * G) * B
      BY <1>1
    <3> QED BY <1>1, <3>1
  <2> DEFINE x == 2 * v
             y == 2 * (T * B) + G
             z == 2 * (T * B)
             w == 2 * v + G
  <2>3. x \in Int /\ y \in Int /\ z \in Int /\ w \in Int
    BY <1>1
  <2>4. /\ x * E = 2 * (M * G) * E /\ y * E = 2 * ((T * E) * B) + E * G
        /\ z * E = 2 * ((T * E) * B) /\ w * E = 2 * (M * G) * E + E * G
    BY <1>1
  <2>5. x * E <= y * E /\ z * E <= w * E
    BY <2>1, <2>2, <2>4
  <2> HIDE DEF x, y, z, w
  <2>6. x <= y /\ z <= w
    BY <2>3, <2>5, Cancel
  <2> QED BY <2>6 DEF x, y, z, w
<1>3. h * G <= T * B
  <2> DEFINE x == h * G
             y == T * B
  <2>1. x \in Int /\ y \in Int
    BY <1>1
  <2>2. (E * h) * G <= (k * B) * G
    <3> DEFINE a == E * h
               b == k * B
    <3>1. a \in Int /\ b \in Int /\ a <= b
      OBVIOUS
    <3> HIDE DEF a, b
    <3>2. a * G <= b * G
      BY <1>1, <3>1, Times
    <3> QED BY <3>2 DEF a, b
  <2>3. x * E = (E * h) * G
    BY <1>1
  <2>4. y * E = (k * B) * G
    <3>1. y * E = (T * E) * B /\ (k * B) * G = (k * G) * B
      BY <1>1
    <3> QED BY <1>1, <3>1
  <2>5. x * E <= y * E
    BY <2>2, <2>3, <2>4
  <2> HIDE DEF x, y
  <2>6. x <= y
    BY <2>1, <2>5, Cancel
  <2> QED BY <2>6 DEF x, y
<1>4. /\ 2 * (N * F) * B <= 2 * (v * C) + B * F /\ 2 * (v * C) <= 2 * (N * F) * B + B * F
      /\ (B * h) * F <= v * C
  <2> DEFINE n == M * D * C
  <2>1. n \in Nat /\ Nearly(N, n, B) /\ B * h <= n
    OBVIOUS
  <2>2. n * F = v * C
    BY DEF G
  <2> HIDE DEF n, v
  <2>3. 2 * (N * F) * B <= 2 * (n * F) + B * F /\ 2 * (n * F) <= 2 * (N * F) * B + B * F
    BY <2>1, NearlyTimes
  <2>4. (B * h) * F <= n * F
    <3> DEFINE a == B * h
    <3>1. a \in Int /\ a <= n
      BY <2>1
    <3> HIDE DEF a
    <3>2. a * F <= n * F
      BY <2>1, <3>1, Times
    <3> QED BY <3>2 DEF a
  <2> QED BY <2>2, <2>3, <2>4
<1> HIDE DEF v
<1> DEFINE S == B * C
           R == B * F
           X == v * C
           Z == G * C
<1>5. S \in Nat \ {0} /\ R \in Nat /\ X \in Nat /\ Z \in Nat
  BY <1>1
<1>6. h * R <= X
  <2>1. h * R = (B * h) * F
    OBVIOUS
  <2> QED BY <1>4, <2>1
<1>7. 2 * X <= 2 * (T * S) + Z /\ 2 * (T * S) <= 2 * X + Z
  <2> DEFINE x == 2 * v
             y == 2 * (T * B) + G
             z == 2 * (T * B)
             w == 2 * v + G
  <2>1. x \in Int /\ y \in Int /\ z \in Int /\ w \in Int /\ x <= y /\ z <= w
    BY <1>1, <1>2
  <2>2. x * C = 2 * X /\ y * C = 2 * (T * S) + Z /\ z * C = 2 * (T * S) /\ w * C = 2 * X + Z
    BY <1>1
  <2> HIDE DEF x, y, z, w, X, Z, S
  <2>3. x * C <= y * C /\ z * C <= w * C
    BY <2>1, Times
  <2> QED BY <2>2, <2>3
<1>8. h * Z <= T * S
  <2> DEFINE x == h * G
             y == T * B
  <2>1. x \in Int /\ y \in Int /\ x <= y
    BY <1>1, <1>3
  <2>2. x * C = h * Z /\ y * C = T * S
    BY <1>1
  <2> HIDE DEF x, y, Z, S
  <2>3. x * C <= y * C
    BY <2>1, Times
  <2> QED BY <2>2, <2>3
<1>9. R + Z < S
  <2> HIDE DEF R, X, Z, S
  <2> QED BY <1>5, <1>6, <1>7, <1>8, ErrorSum
<1>10. 2 * (N * F) * B <= 2 * X + R /\ 2 * X <= 2 * (N * F) * B + R
  BY <1>4
<1> DEFINE U == (N * F) * B
           V == T * S
<1>11. /\ U \in Nat /\ V \in Nat /\ 2 * (N * F) * B = 2 * U
       /\ 2 * X <= 2 * V + Z /\ 2 * V <= 2 * X + Z
  BY <1>5, <1>7
<1>12. 2 * V < 2 * U + S /\ 2 * U < 2 * V + S
  <2> HIDE DEF U, V, X, R, S, Z
  <2> QED BY <1>5, <1>9, <1>10, <1>11
<1> DEFINE x == 2 * T * C
           y == 2 * (N * F) + C
           z == 2 * (N * F)
           w == 2 * T * C + C
<1>13. x \in Int /\ y \in Int /\ z \in Int /\ w \in Int
  OBVIOUS
<1>14. x * B = 2 * V /\ y * B = 2 * U + S /\ z * B = 2 * U /\ w * B = 2 * V + S
  OBVIOUS
<1>15. x * B < y * B /\ z * B < w * B
  BY <1>12, <1>14
<1> HIDE DEF x, y, z, w
<1>16. x < y /\ z < w
  BY <1>13, <1>15, Cancel
<1> QED BY <1>16 DEF x, y, z, w

\* What Small and Roomy say, in units T of the last decimal that toFixed keeps
LEMMA SmallIs ==
  ASSUME PowersLaw, NEW s, NEW decimals \in Nat, Small(s, decimals), Roomy(decimals)
  PROVE  LET k == Magnitude(s.k)
             E == Power(10, s.e)
             D == Power(10, decimals)
             F == Power(10, FixedDecimals)
             top == Power(2, MaxExponent)
         IN /\ s.k \in Int /\ s.e \in Nat /\ k \in Nat
            /\ E \in Nat \ {0} /\ D \in Nat \ {0} /\ F \in Nat \ {0} /\ top \in Nat \ {0}
            /\ E * H <= top /\ D * H <= top /\ F * H <= top
            /\ \E T \in Nat : /\ T * E = k * (D * F) /\ 2 * T < H
                              /\ T * (4 * H + 1) < 2 * H * H
<1> DEFINE k == Magnitude(s.k)
           E == Power(10, s.e)
           D == Power(10, decimals)
           F == Power(10, FixedDecimals)
           top == Power(2, MaxExponent)
           all == Power(10, decimals + FixedDecimals)
           rest == Power(10, (decimals + FixedDecimals) - s.e)
<1>1. /\ s.k \in Int /\ s.e \in Nat /\ FixedDecimals \in Nat /\ MaxExponent \in Nat
      /\ decimals + FixedDecimals \in Nat /\ (decimals + FixedDecimals) - s.e \in Nat
      /\ s.e + ((decimals + FixedDecimals) - s.e) = decimals + FixedDecimals
  BY AmountsAssumption DEF Small
<1>2. /\ k \in Nat /\ E \in Nat \ {0} /\ D \in Nat \ {0} /\ F \in Nat \ {0} /\ top \in Nat \ {0}
      /\ rest \in Nat \ {0} /\ H \in Nat \ {0}
  BY <1>1, PowerNat, HNat, MagnitudeNat
<1>3. all = D * F /\ all = E * rest
  <2>1. Power(10, s.e + ((decimals + FixedDecimals) - s.e)) = E * rest
    BY <1>1, PowerSum
  <2> QED BY <1>1, <2>1, PowerSum
<1>4. 4 * k * all < 2 * H * E /\ all * H <= top
  <2>1. 10^(decimals + FixedDecimals) = all /\ 10^s.e = E /\ 2^MaxExponent = top
    BY Zenon DEF Power
  <2>2. 4 * k * 10^(decimals + FixedDecimals) < 2^Precision * 10^s.e
    BY DEF Small
  <2>3. 10^(decimals + FixedDecimals) * 2^(Precision - 1) <= 2^MaxExponent
    BY DEF Roomy
  <2> HIDE DEF all, E, top, k
  <2> QED BY <2>1, <2>2, <2>3, HNat
<1>5. \E g \in Nat \ {0} : H = 2 * g
  <2>1. Precision - 2 \in Nat /\ (Precision - 2) + 1 = Precision - 1
    BY AmountsAssumption
  <2>2. Power(2, (Precision - 2) + 1) = 2 * Power(2, Precision - 2)
    BY <2>1, PowerStep
  <2>3. Power(2, Precision - 2) \in Nat \ {0}
    BY <2>1, PowerNat
  <2> QED BY <2>1, <2>2, <2>3 DEF H
<1> HIDE DEF k, E, D, F, top, all, rest
<1>6. E * H <= top /\ D * H <= top /\ F * H <= top
  <2>1. all \in Nat /\ E <= all /\ D <= all /\ F <= all
    BY <1>2, <1>3
  <2>2. E * H <= all * H /\ D * H <= all * H /\ F * H <= all * H
    BY <1>2, <2>1, Times
  <2> QED BY <1>2, <1>4, <2>1, <2>2
<1> DEFINE T == k * rest
<1>7. T \in Nat /\ T * E = k * (D * F)
  <2>1. T * E = k * (E * rest)
    BY <1>2
  <2> QED BY <1>2, <1>3, <2>1
<1>8. 2 * T < H
  <2>1. (4 * T) * E < (2 * H) * E
    <3>1. 4 * k * all = 4 * (T * E)
      BY <1>2, <1>3, <1>7
    <3> QED BY <1>2, <1>4, <1>7, <3>1
  <2>2. 4 * T < 2 * H
    <3> HIDE DEF T
    <3> QED BY <1>2, <1>7, <2>1, Cancel
  <2> QED BY <1>2, <1>7, <2>2
<1>9. T * (4 * H + 1) < 2 * H * H
  <2> HIDE DEF T
  <2>1. PICK g \in Nat \ {0} : H = 2 * g
    BY <1>5
  <2>2. T <= g - 1
    BY <1>7, <1>8, <2>1
  <2>3. T * (8 * g + 1) <= (g - 1) * (8 * g + 1)
    BY <1>7, <2>2, Times
  <2>4. (g - 1) * (8 * g + 1) = 8 * (g * g) - 7 * g - 1
    OBVIOUS
  <2>5. 2 * H * H = 8 * (g * g) /\ T * (4 * H + 1) = T * (8 * g + 1)
    BY <1>7, <2>1
  <2> QED BY <1>7, <2>3, <2>4, <2>5
<1>10. \E t \in Nat : t * E = k * (D * F) /\ 2 * t < H /\ t * (4 * H + 1) < 2 * H * H
  BY <1>7, <1>8, <1>9
<1> QED BY <1>1, <1>2, <1>6, <1>10 DEF k, E, D, F, top

\* The product is no number that is too large, either
LEMMA ProductSmall ==
  ASSUME NEW k \in Nat, NEW E \in Nat \ {0}, NEW D \in Nat \ {0}, NEW h \in Nat \ {0}, h >= 2,
         NEW M \in Nat, NEW B \in Nat \ {0}, 2 * (k * D) <= h * E, Nearly(M, k * B, E), h <= M
  PROVE  M * D < 2 * B * h
<1>1. 2 * (M * D) * E <= 2 * ((k * B) * D) + E * D
  <2> DEFINE n == k * B
  <2>1. n \in Nat /\ Nearly(M, n, E)
    OBVIOUS
  <2> HIDE DEF n
  <2>2. 2 * (M * D) * E <= 2 * (n * D) + E * D
    BY <2>1, NearlyTimes
  <2> QED BY <2>2 DEF n
<1>2. 2 * ((k * B) * D) <= (h * E) * B
  <2> DEFINE x == 2 * (k * D)
             y == h * E
  <2>1. x \in Int /\ y \in Int /\ x <= y
    OBVIOUS
  <2>2. x * B = 2 * ((k * B) * D)
    OBVIOUS
  <2> HIDE DEF x, y
  <2>3. x * B <= y * B
    BY <2>1, Times
  <2> QED BY <2>2, <2>3 DEF y
<1> DEFINE x == 2 * (M * D)
           y == h * B + D
<1>3. x <= y
  <2>1. x \in Int /\ y \in Int /\ x * E = 2 * (M * D) * E /\ y * E = (h * E) * B + E * D
    OBVIOUS
  <2>2. x * E <= y * E
    <3>1. 2 * (M * D) * E \in Int /\ 2 * ((k * B) * D) \in Int /\ (h * E) * B \in Int /\ E * D \in Int
      OBVIOUS
    <3> QED BY <1>1, <1>2, <2>1, <3>1
  <2> HIDE DEF x, y
  <2> QED BY <2>1, <2>2, Cancel
<1>4. 2 * D <= M * D
  <2>1. 2 <= M
    OBVIOUS
  <2> QED BY <2>1, Times
<1> DEFINE u == M * D
           v == h * B
<1>5. u \in Nat \ {0} /\ v \in Nat /\ 2 * u <= v + D /\ 2 * D <= u /\ 2 * B * h = 2 * v
  <2>1. M \in Nat \ {0}
    OBVIOUS
  <2> QED BY <1>3, <1>4, <2>1
<1> HIDE DEF u, v
<1>6. u < 2 * v
  BY <1>5
<1> QED BY <1>5, <1>6 DEF u

\* An amount is multiplied and rounded without loss
LEMMA ScaledIs ==
  ASSUME PowersLaw, NEW s, NEW decimals \in Nat, s.k \in Int \ {0},
         NEW E \in Nat \ {0}, E = Power(10, s.e), NEW D \in Nat \ {0}, D = Power(10, decimals),
         NEW F \in Nat \ {0}, F = Power(10, FixedDecimals),
         E * H <= Power(2, MaxExponent),
         NEW T \in Nat, T * E = Magnitude(s.k) * (D * F), 2 * T < H, T * (4 * H + 1) < 2 * H * H
  PROVE  ScaledNumber(s, decimals) = Float(IF s.k < 0 THEN -T ELSE T, F)
<1> DEFINE k == Magnitude(s.k)
           top == Power(2, MaxExponent)
           num == Float(s.k, E)
           M == Magnitude(Numerator(num))
           B == Denominator(num)
           product == Float(Numerator(num) * D, B)
           N == Magnitude(Numerator(product))
           C == Denominator(product)
<1>1. /\ k \in Nat \ {0} /\ s.k \in Int /\ H \in Nat \ {0} /\ top \in Nat \ {0} /\ T * E = k * (D * F)
      /\ E * H <= top
  BY MagnitudeNat, HNat, PowerNat, AmountsAssumption
<1>2. 2 * (k * D) <= H * E
  <2> HIDE DEF k
  <2>1. (2 * T) * E <= H * E
    <3> DEFINE x == 2 * T
    <3>1. x \in Int /\ x <= H
      BY <1>1
    <3> HIDE DEF x
    <3>2. x * E <= H * E
      BY <1>1, <3>1, Times
    <3> QED BY <3>2 DEF x
  <2>2. k * D <= k * (D * F)
    <3>1. D <= D * F
      OBVIOUS
    <3> DEFINE y == D * F
    <3>2. y \in Nat /\ D <= y
      BY <3>1
    <3> HIDE DEF y
    <3>3. D * k <= y * k
      BY <1>1, <3>2, Times
    <3>4. D * k = k * D /\ y * k = k * y
      BY <1>1, <3>2
    <3> QED BY <3>3, <3>4 DEF y
  <2>3. (2 * T) * E = 2 * (k * (D * F))
    BY <1>1
  <2>4. k * D \in Int /\ k * (D * F) \in Int /\ H * E \in Int
    BY <1>1
  <2> QED BY <2>1, <2>2, <2>3, <2>4
<1>3. Normal(s.k, E)
  <2> HIDE DEF k, top
  <2>1. k < 2 * E * H
    <3>1. k <= k * D /\ k * D \in Nat /\ H * E \in Nat \ {0}
      BY <1>1
    <3>2. 2 * E * H = 2 * (H * E)
      BY <1>1
    <3> QED BY <1>1, <1>2, <3>1, <3>2
  <2>2. top <= k * top
    BY <1>1
  <2> QED BY <1>1, <2>1, <2>2 DEF Normal, k, top
<1>4. /\ M \in Nat /\ B \in Nat \ {0} /\ B <= top /\ H <= M /\ Numerator(num) = IF s.k < 0 THEN -M ELSE M
      /\ Nearly(M, k * B, E) /\ E * H <= k * B
  BY <1>3, FloatNear DEF Near
<1>5. H >= 2
  BY <1>1
<1> HIDE DEF k, top, num, M, B
<1>6. M * D < 2 * B * H
  BY <1>1, <1>2, <1>4, <1>5, ProductSmall
<1> DEFINE n == Numerator(num) * D
<1>7. n \in Int \ {0} /\ Magnitude(n) = M * D /\ (n < 0 <=> s.k < 0) /\ M * D \in Nat \ {0}
  <2>1. M \in Nat \ {0} /\ M * D \in Nat \ {0}
    BY <1>1, <1>4
  <2>2. n = IF s.k < 0 THEN -(M * D) ELSE M * D
    BY <1>4
  <2> DEFINE u == M * D
  <2> HIDE DEF u, n
  <2>3. u \in Nat \ {0} /\ n = IF s.k < 0 THEN -u ELSE u
    BY <2>1, <2>2 DEF u
  <2>4. n \in Int \ {0} /\ Magnitude(n) = u /\ (n < 0 <=> s.k < 0)
    BY <2>3 DEF Magnitude
  <2> QED BY <2>3, <2>4 DEF u
<1>8. Normal(n, B)
  <2>1. B * H <= M * D * top
    <3>1. B * H <= top * H
      BY <1>1, <1>4, Times
    <3>2. H * top <= (M * D) * top
      <4>1. M <= M * D /\ M * D \in Nat
        BY <1>4
      <4>2. H <= M * D
        BY <1>1, <1>4, <4>1
      <4> DEFINE u == M * D
      <4> HIDE DEF u
      <4>3. u \in Nat /\ H <= u
        BY <4>1, <4>2 DEF u
      <4>4. H * top <= u * top
        BY <1>1, <4>3, Times
      <4> QED BY <4>4 DEF u
    <3>3. B * H \in Int /\ top * H = H * top /\ H * top \in Int /\ (M * D) * top \in Int
      BY <1>1, <1>4
    <3> QED BY <3>1, <3>2, <3>3
  <2> HIDE DEF n
  <2> QED BY <1>4, <1>6, <1>7, <2>1 DEF Normal, top
<1>9. /\ N \in Nat /\ C \in Nat \ {0}
      /\ Nearly(N, M * D * C, B) /\ B * H <= M * D * C
  <2>1. Near(product, n, B)
    BY <1>8, FloatNear
  <2> HIDE DEF product, n
  <2> QED BY <1>7, <2>1 DEF Near
<1> HIDE DEF product, N, C
<1>10. 2 * T * C < 2 * (N * F) + C /\ 2 * (N * F) < 2 * T * C + C
  <2>1. RoundedTwice(k, E, D, F, H, M, B, N, C, T)
    BY <1>1, <1>4, <1>9 DEF RoundedTwice
  <2> QED BY <2>1, TwoRoundings
<1>11. NearestUp(N * F, C) = T
  <2> DEFINE x == N * F
  <2>1. x \in Nat /\ 2 * T * C <= 2 * x + C /\ 2 * x + C < 2 * T * C + 2 * C
    <3>1. 2 * T * C \in Int /\ 2 * (N * F) \in Int
      BY <1>9
    <3> QED BY <1>9, <1>10, <3>1
  <2> HIDE DEF x
  <2>2. NearestUp(x, C) = T
    BY <1>9, <2>1, NearestUpIs
  <2> QED BY <2>2 DEF x
<1>12. /\ 10^s.e = E /\ 10^decimals = D /\ 10^FixedDecimals = F
  BY Zenon DEF Power
<1>13. NearestUp(N * 10^FixedDecimals, C) = T
  BY <1>11, <1>12
<1>14. ScaledNumber(s, decimals) = Float(IF s.k < 0 THEN -NearestUp(N * 10^FixedDecimals, C)
                                         ELSE NearestUp(N * 10^FixedDecimals, C), 10^FixedDecimals)
  BY <1>12 DEF ScaledNumber, N, C, product, num, B
<1> QED BY <1>12, <1>13, <1>14

\* An amount is read as a whole number of units, if it is one
LEMMA ReadNonzero ==
  ASSUME PowersLaw, NEW s, NEW decimals \in Nat, Small(s, decimals), Roomy(decimals), s.k # 0
  PROVE  /\ Converts(s, decimals) <=> (s.k * Power(10, decimals)) % Power(10, s.e) = 0
         /\ (s.k * Power(10, decimals)) % Power(10, s.e) = 0 =>
              stringToBigint(s, decimals) = (s.k * Power(10, decimals)) \div Power(10, s.e)
<1> DEFINE k == Magnitude(s.k)
           E == Power(10, s.e)
           D == Power(10, decimals)
           F == Power(10, FixedDecimals)
           top == Power(2, MaxExponent)
<1>1. /\ s.k \in Int \ {0} /\ s.e \in Nat /\ k \in Nat \ {0}
      /\ E \in Nat \ {0} /\ D \in Nat \ {0} /\ F \in Nat \ {0} /\ top \in Nat \ {0}
      /\ E * H <= top /\ F * H <= top /\ H \in Nat \ {0}
  BY SmallIs, HNat, MagnitudeNat
<1>2. PICK T \in Nat : T * E = k * (D * F) /\ 2 * T < H /\ T * (4 * H + 1) < 2 * H * H
  BY SmallIs
<1> DEFINE n == IF s.k < 0 THEN -T ELSE T
           f == Float(n, F)
           M == Magnitude(Numerator(f))
           B == Denominator(f)
<1> HIDE DEF E, D, F, top
<1>3. ScaledNumber(s, decimals) = f
  <2>1. E = Power(10, s.e) /\ D = Power(10, decimals) /\ F = Power(10, FixedDecimals)
    BY DEF E, D, F
  <2>2. E * H <= Power(2, MaxExponent) /\ T * E = Magnitude(s.k) * (D * F)
    BY <1>1, <1>2 DEF top
  <2> HIDE DEF k, f, n
  <2>3. ScaledNumber(s, decimals) = Float(IF s.k < 0 THEN -T ELSE T, F)
    BY <1>1, <1>2, <2>1, <2>2, ScaledIs
  <2> QED BY <2>3 DEF f, n
<1>4. T # 0
  <2>1. D * F \in Nat \ {0}
    BY <1>1
  <2>2. k * (D * F) # 0
    BY <1>1, <2>1
  <2> QED BY <1>1, <1>2, <2>2
<1>5. n \in Int \ {0} /\ Magnitude(n) = T /\ (n < 0 <=> s.k < 0)
  BY <1>1, <1>4 DEF Magnitude
<1> HIDE DEF k, n
<1>6. Normal(n, F)
  <2>1. T < 2 * F * H
    <3>1. H <= F * H
      BY <1>1
    <3> QED BY <1>1, <1>2, <3>1
  <2>2. top <= T * top
    BY <1>1, <1>4
  <2>3. F * H <= T * top
    <3> DEFINE x == F * H
               y == T * top
    <3>1. x \in Int /\ y \in Int /\ x <= top /\ top <= y
      BY <1>1, <2>2
    <3> HIDE DEF x, y
    <3>2. x <= y
      BY <1>1, <3>1
    <3> QED BY <3>2 DEF x, y
  <2> QED BY <1>1, <1>5, <2>1, <2>3 DEF Normal, top
<1>7. /\ M \in Nat /\ B \in Nat \ {0} /\ Numerator(f) = IF s.k < 0 THEN -M ELSE M
      /\ Nearly(M, T * B, F) /\ F * H <= T * B
  <2>1. Near(f, n, F)
    BY <1>6, FloatNear
  <2> HIDE DEF f
  <2> QED BY <1>5, <2>1 DEF Near
<1>8. /\ Converts(s, decimals) <=> Numerator(f) % B = 0
      /\ stringToBigint(s, decimals) = Numerator(f) \div B
  BY <1>3, Zenon DEF Converts, stringToBigint, IsInteger
<1> HIDE DEF f, M, B
<1>9. s.k = IF s.k < 0 THEN -k ELSE k
  BY <1>1, MagnitudeNat DEF k
<1> DEFINE x == s.k * D
           U == x \div E
<1>10. x \in Int /\ U \in Int /\ x % E \in Int /\ x - E * U = x % E
  <2>1. x \in Int
    BY <1>1
  <2> HIDE DEF x
  <2>2. x \div E \in Int /\ x % E \in 0..(E - 1) /\ x - E * (x \div E) = x % E
    BY <1>1, <2>1, Division
  <2> HIDE DEF U
  <2>3. x % E \in Int /\ U = x \div E
    BY <1>1, <2>2 DEF U
  <2> QED BY <2>1, <2>2, <2>3
<1>11. ASSUME x % E = 0
       PROVE  Numerator(f) = U * B
  <2>1. x = E * U
    BY <1>1, <1>10, <1>11
  <2> HIDE DEF U
  <2> DEFINE V == Magnitude(U)
  <2>2. V \in Nat /\ U = IF s.k < 0 THEN -V ELSE V
    <3>1. V \in Nat /\ U = IF U < 0 THEN -V ELSE V
      BY <1>10, MagnitudeNat
    <3>2. U < 0 <=> s.k < 0
      <4>1. s.k < 0 <=> s.k * D < 0
        BY <1>1
      <4>2. U < 0 <=> E * U < 0
        BY <1>1, <1>10
      <4> QED BY <2>1, <4>1, <4>2
    <3> QED BY <3>1, <3>2
  <2> HIDE DEF V
  <2>3. k * D = E * V
    <3>1. s.k < 0 => (-k) * D = E * (-V)
      BY <1>9, <2>1, <2>2
    <3>2. (-k) * D = -(k * D) /\ E * (-V) = -(E * V)
      BY <1>1, <2>2
    <3>3. ~(s.k < 0) => k * D = E * V
      BY <1>9, <2>1, <2>2
    <3>4. k * D \in Int /\ E * V \in Int
      BY <1>1, <2>2
    <3> QED BY <3>1, <3>2, <3>3, <3>4
  <2>4. T = V * F
    <3>1. k * (D * F) = (k * D) * F /\ (E * V) * F = (V * F) * E
      BY <1>1, <2>2
    <3>2. T * E = (V * F) * E
      BY <1>2, <2>3, <3>1
    <3> DEFINE y == V * F
    <3>3. y \in Int /\ T * E = y * E
      BY <1>1, <2>2, <3>2
    <3> HIDE DEF y
    <3>4. T = y
      BY <1>1, <3>3, Cancel
    <3> QED BY <3>4 DEF y
  <2>5. M = V * B
    <3> DEFINE y == V * B
    <3>1. y \in Nat /\ T * B = y * F
      BY <1>1, <1>7, <2>2, <2>4
    <3> HIDE DEF y
    <3>2. Nearly(M, y * F, F)
      BY <1>7, <3>1
    <3>3. M = y
      BY <1>1, <1>7, <3>1, <3>2, NearlyExact
    <3> QED BY <3>3 DEF y
  <2>6. (-V) * B = -(V * B)
    BY <1>7, <2>2
  <2>7. Numerator(f) = (IF s.k < 0 THEN -V ELSE V) * B
    BY <1>7, <2>5, <2>6
  <2> QED BY <2>2, <2>7
<1>12. ASSUME Numerator(f) % B = 0
       PROVE  x % E = 0
  <2> DEFINE m == Numerator(f)
             z == m \div B
  <2>1. z \in Int /\ m = B * z
    <3>1. m \in Int
      BY <1>7
    <3> HIDE DEF m
    <3>2. z \in Int /\ m - B * z = m % B
      BY <1>7, <3>1, Division
    <3>3. m % B = 0
      BY <1>12 DEF m
    <3> HIDE DEF z
    <3> QED BY <1>7, <3>1, <3>2, <3>3
  <2> HIDE DEF z, m
  <2> DEFINE Z == IF s.k < 0 THEN -z ELSE z
  <2>2. Z \in Int /\ M = B * Z
    <3>1. m = IF s.k < 0 THEN -M ELSE M
      BY <1>7 DEF m
    <3>2. B * (-z) = -(B * z)
      BY <1>7, <2>1
    <3> QED BY <1>7, <2>1, <3>1, <3>2
  <2> HIDE DEF Z
  <2>3. F < B
    <3>1. F * (2 * T) <= F * H
      <4> DEFINE y == 2 * T
      <4>1. y \in Int /\ y <= H
        BY <1>1, <1>2
      <4> HIDE DEF y
      <4>2. y * F <= H * F
        BY <1>1, <4>1, Times
      <4>3. y * F = F * y /\ H * F = F * H
        BY <1>1, <4>1
      <4> QED BY <4>2, <4>3 DEF y
    <3>2. (2 * F) * T <= B * T
      <4>1. F * (2 * T) = (2 * F) * T /\ T * B = B * T
        BY <1>1, <1>7
      <4>2. F * (2 * T) \in Int /\ F * H \in Int /\ T * B \in Int
        BY <1>1, <1>7
      <4> QED BY <1>7, <3>1, <4>1, <4>2
    <3>3. 2 * F <= B
      <4> DEFINE y == 2 * F
      <4>1. y \in Int /\ T \in Nat \ {0} /\ y * T <= B * T
        BY <1>1, <1>4, <3>2
      <4> HIDE DEF y
      <4>2. y <= B
        BY <1>7, <4>1, Cancel
      <4> QED BY <4>2 DEF y
    <3> QED BY <1>1, <1>7, <3>3
  <2>4. T = Z * F
    <3> DEFINE y == Z * F
    <3>1. y \in Int /\ 2 * M * F = (2 * y) * B /\ 2 * (T * B) = (2 * T) * B
      BY <1>1, <1>7, <2>2
    <3> HIDE DEF y
    <3>2. (2 * y) * B < (2 * T + 1) * B /\ (2 * T) * B < (2 * y + 1) * B
      <4>1. (2 * y) * B <= (2 * T) * B + F /\ (2 * T) * B <= (2 * y) * B + F
        BY <1>7, <3>1 DEF Nearly
      <4>2. (2 * T + 1) * B = (2 * T) * B + B /\ (2 * y + 1) * B = (2 * y) * B + B
        BY <1>7, <3>1
      <4>3. (2 * T) * B \in Int /\ (2 * y) * B \in Int
        BY <1>7, <3>1
      <4> QED BY <1>1, <1>7, <2>3, <4>1, <4>2, <4>3
    <3>3. 2 * y < 2 * T + 1 /\ 2 * T < 2 * y + 1
      <4> DEFINE a == 2 * y
                 b == 2 * T + 1
                 c == 2 * T
                 d == 2 * y + 1
      <4>1. a \in Int /\ b \in Int /\ c \in Int /\ d \in Int /\ a * B < b * B /\ c * B < d * B
        BY <3>1, <3>2
      <4> HIDE DEF a, b, c, d
      <4>2. a < b /\ c < d
        BY <1>7, <4>1, Cancel
      <4> QED BY <4>2 DEF a, b, c, d
    <3> QED BY <3>1, <3>3 DEF y
  <2>5. k * D = Z * E
    <3>1. k * (D * F) = (k * D) * F /\ (Z * F) * E = (Z * E) * F
      BY <1>1, <2>2
    <3> DEFINE a == k * D
               b == Z * E
    <3>2. a \in Int /\ b \in Int /\ a * F = b * F
      BY <1>1, <1>2, <2>2, <2>4, <3>1
    <3> HIDE DEF a, b
    <3>3. a = b
      BY <1>1, <3>2, Cancel
    <3> QED BY <3>3 DEF a, b
  <2>6. \E w \in Int : x = w * E
    <3>1. CASE s.k < 0
      <4>1. x = (-Z) * E
        <5>1. (-k) * D = -(k * D) /\ (-Z) * E = -(Z * E)
          BY <1>1, <2>2
        <5> QED BY <1>9, <2>5, <3>1, <5>1
      <4>2. -Z \in Int
        BY <2>2
      <4> QED BY <4>1, <4>2
    <3>2. CASE ~(s.k < 0)
      BY <1>9, <2>2, <2>5, <3>2
    <3> QED BY <3>1, <3>2
  <2> QED BY <1>1, <2>6, Multiple
<1>13. ASSUME x % E = 0
       PROVE  Numerator(f) % B = 0 /\ Numerator(f) \div B = U
  <2> HIDE DEF U
  <2> QED BY <1>7, <1>10, <1>11, <1>13, Multiple
<1>14. /\ Converts(s, decimals) <=> x % E = 0
       /\ x % E = 0 => stringToBigint(s, decimals) = U
  <2> HIDE DEF U, x
  <2> QED BY <1>8, <1>12, <1>13
<1> QED BY <1>14 DEF E, D

LEMMA ReadZero ==
  ASSUME PowersLaw, NEW s, NEW decimals \in Nat, s.k = 0
  PROVE  Converts(s, decimals) /\ stringToBigint(s, decimals) = 0
<1> DEFINE zero == [m |-> 0, x |-> 0]
<1>1. \A q : Float(0, q) = zero
  BY FloatZero
<1>2. Numerator(zero) = 0 /\ Denominator(zero) = 1
  <2>1. Power(2, 0) = 1
    BY PowerStep
  <2>2. zero.m = 0 /\ zero.x = 0
    OBVIOUS
  <2> HIDE DEF zero
  <2> QED BY <2>1, <2>2, Zenon DEF Numerator, Denominator, Power
<1>3. 10^decimals \in Nat /\ 10^FixedDecimals \in Nat
  <2>1. Power(10, decimals) \in Nat /\ Power(10, FixedDecimals) \in Nat
    BY PowerNat, AmountsAssumption
  <2> QED BY <2>1, Zenon DEF Power
<1>4. 0 * 10^decimals = 0 /\ Magnitude(0) * 10^FixedDecimals = 0
  <2> DEFINE x == 10^decimals
             y == 10^FixedDecimals
  <2> HIDE DEF x, y
  <2>1. x \in Nat /\ y \in Nat
    BY <1>3 DEF x, y
  <2>2. 0 * x = 0 /\ Magnitude(0) * y = 0
    BY <2>1 DEF Magnitude
  <2> QED BY <2>2 DEF x, y
<1>5. NearestUp(0, 1) = 0
  BY DEF NearestUp
<1>6. ScaledNumber(s, decimals) = zero
  <2> HIDE DEF zero
  <2>1. s.k < 0 <=> FALSE
    OBVIOUS
  <2>2. Float(s.k, 10^s.e) = zero
    BY <1>1
  <2>3. Float(Numerator(zero) * 10^decimals, Denominator(zero)) = zero
    BY <1>1, <1>2, <1>4
  <2>4. NearestUp(Magnitude(Numerator(zero)) * 10^FixedDecimals, Denominator(zero)) = 0
    BY <1>2, <1>4, <1>5
  <2>5. ScaledNumber(s, decimals) = Float(0, 10^FixedDecimals)
    BY <2>1, <2>2, <2>3, <2>4 DEF ScaledNumber
  <2> QED BY <1>1, <2>5
<1>7. 0 % 1 = 0 /\ 0 \div 1 = 0
  OBVIOUS
<1> HIDE DEF zero
<1> QED BY <1>2, <1>6, <1>7, Zenon DEF Converts, stringToBigint, IsInteger

\* stringToBigint: an amount that the number format has room for converts if and only
\* if it has no more decimals than its currency, and then to its number of units.
THEOREM AmountRead ==
  ASSUME PowersLaw, NEW s, NEW decimals \in Nat, Small(s, decimals), Roomy(decimals)
  PROVE  /\ Converts(s, decimals) <=> Fits(s, decimals)
         /\ Units(s, decimals) \in Int
         /\ Fits(s, decimals) => /\ stringToBigint(s, decimals) = Units(s, decimals)
                                 /\ s.k * Power(10, decimals) = Units(s, decimals) * Power(10, s.e)
<1> DEFINE E == Power(10, s.e)
           D == Power(10, decimals)
           x == s.k * D
           U == x \div E
<1>1. s.k \in Int /\ s.e \in Nat /\ E \in Nat \ {0} /\ D \in Nat \ {0}
  BY SmallIs
<1>2. Units(s, decimals) = U /\ (Fits(s, decimals) <=> x % E = 0)
  BY Zenon DEF Units, Fits, Power
<1> HIDE DEF D, E
<1>3. x \in Int
  BY <1>1
<1> HIDE DEF x
<1>4. x \div E \in Int /\ x - E * (x \div E) = x % E
  BY <1>1, <1>3, Division
<1> HIDE DEF U
<1>5. U \in Int /\ (x % E = 0 => x = U * E)
  BY <1>1, <1>3, <1>4 DEF U
<1>6. CASE s.k = 0
  <2>1. x = 0
    BY <1>1, <1>6 DEF x
  <2>2. x % E = 0 /\ U = 0
    BY <1>1, <2>1 DEF U
  <2>3. Converts(s, decimals) /\ stringToBigint(s, decimals) = 0
    BY <1>6, ReadZero
  <2> QED BY <1>2, <1>5, <2>2, <2>3 DEF x, E, D
<1>7. CASE s.k # 0
  <2>1. /\ Converts(s, decimals) <=> x % E = 0
        /\ x % E = 0 => stringToBigint(s, decimals) = U
    BY <1>7, ReadNonzero DEF U, x, E, D
  <2> QED BY <1>2, <1>5, <2>1 DEF x, E, D
<1> QED BY <1>6, <1>7
-----------------------------------------------------------------------------
(* Writing an amount *)

\* toString ends with the first number of digits that tells the number from the others
LEMMA ShortestIs ==
  ASSUME NEW f, NEW d \in 0..MaxExponent,
         LET n == NearestUp(Magnitude(Numerator(f)) * 10^d, Denominator(f))
         IN SameNumber(Float(IF f.m < 0 THEN -n ELSE n, 10^d), f)
  PROVE  \E e \in 0..d : LET n == NearestUp(Magnitude(Numerator(f)) * 10^e, Denominator(f))
                             k == IF f.m < 0 THEN -n ELSE n
                         IN /\ SameNumber(Float(k, 10^e), f)
                            /\ Shortest(f) = [k |-> k, e |-> e]
<1> DEFINE candidate(e) == LET n == NearestUp(Magnitude(Numerator(f)) * 10^e, Denominator(f))
                           IN [k |-> IF f.m < 0 THEN -n ELSE n, e |-> e]
           k(e) == LET n == NearestUp(Magnitude(Numerator(f)) * 10^e, Denominator(f))
                   IN IF f.m < 0 THEN -n ELSE n
           tells(e) == SameNumber(Float(candidate(e).k, 10^e), f)
           first(e) == tells(e) /\ \A i \in 0..(e - 1) : ~tells(i)
           T == {e \in 0..MaxExponent : tells(e)}
<1>1. \A e : candidate(e) = [k |-> k(e), e |-> e]
  OBVIOUS
<1>2. \A e : candidate(e).k = k(e)
  <2> HIDE DEF candidate, k
  <2> QED BY <1>1
<1>3. \A e : tells(e) <=> SameNumber(Float(k(e), 10^e), f)
  <2> HIDE DEF candidate, k
  <2> QED BY <1>2 DEF tells
<1>4. Shortest(f) = candidate(CHOOSE e \in 0..MaxExponent : first(e))
  BY Zenon DEF Shortest
<1>5. tells(d)
  <2>1. SameNumber(Float(k(d), 10^d), f)
    OBVIOUS
  <2> HIDE DEF tells, k
  <2> QED BY <1>3, <2>1
<1> HIDE DEF tells, candidate, k
<1>6. T \subseteq Nat /\ T # {}
  BY <1>5, AmountsAssumption
<1>7. PICK e \in T : \A i \in T : e <= i
  <2> HIDE DEF T
  <2> QED BY <1>6, Least
<1>8. first(e) /\ e \in 0..MaxExponent
  BY <1>7, AmountsAssumption
<1> DEFINE c == CHOOSE a \in 0..MaxExponent : first(a)
<1>9. c \in 0..MaxExponent /\ first(c)
  <2> HIDE DEF first
  <2> QED BY <1>8
<1> HIDE DEF c, first
<1>10. c \in 0..d
  <2>1. d \in 0..(c - 1) => ~tells(d)
    BY <1>9 DEF first
  <2> QED BY <1>5, <1>9, <2>1, AmountsAssumption
<1>11. SameNumber(Float(k(c), 10^c), f) /\ Shortest(f) = [k |-> k(c), e |-> c]
  BY <1>1, <1>3, <1>4, <1>9, Zenon DEF first, c
<1> QED BY <1>10, <1>11, Zenon DEF k

\* V / D is nearest to m / B, and n / E, whose unit is R times that of V / D, to the
\* same number M / C
NearTheSame(h, V, m, B, D, M, C, E, R, n) ==
  /\ h \in Nat \ {0} /\ V \in Nat \ {0} /\ 2 * V < h
  /\ m \in Nat /\ B \in Nat \ {0} /\ D \in Nat \ {0} /\ m <= 2 * h
  /\ Nearly(m, V * B, D) /\ D * h <= V * B
  /\ M \in Nat /\ C \in Nat \ {0} /\ E \in Nat \ {0} /\ R \in Nat \ {0} /\ h <= M
  /\ D = E * R /\ n \in Nat /\ Nearly(M, n * C, E) /\ M * B = m * C

LEMMA SameUnits ==
  ASSUME NEW h, NEW V, NEW m, NEW B, NEW D, NEW M, NEW C, NEW E, NEW R, NEW n,
         NearTheSame(h, V, m, B, D, M, C, E, R, n)
  PROVE  n * R = V
<1> USE DEF NearTheSame
<1>1. 2 * D < B
  <2> DEFINE x == 2 * D
  <2>1. x * V < D * h
    <3> DEFINE y == 2 * V
    <3>1. y \in Int /\ y < h /\ y * D < h * D
      BY Cancel
    <3>2. x * V = y * D /\ D * h = h * D
      OBVIOUS
    <3> HIDE DEF x, y
    <3> QED BY <3>1, <3>2
  <2>2. x * V < B * V
    <3>1. V * B = B * V /\ x * V \in Int /\ D * h \in Int /\ V * B \in Int
      OBVIOUS
    <3> QED BY <2>1, <3>1
  <2>3. x \in Int
    OBVIOUS
  <2> HIDE DEF x
  <2>4. x < B
    BY <2>2, <2>3, Cancel
  <2> QED BY <2>4 DEF x
<1>2. B <= 2 * C
  <2>1. h * B <= M * B /\ m * C <= (2 * h) * C
    BY Times
  <2>2. B * h <= (2 * C) * h
    <3>1. h * B = B * h /\ (2 * h) * C = (2 * C) * h /\ B * h \in Int /\ M * B \in Int /\ (2 * C) * h \in Int
      OBVIOUS
    <3> QED BY <2>1, <3>1
  <2> DEFINE x == 2 * C
  <2>3. x \in Int /\ B * h <= x * h
    BY <2>2
  <2> HIDE DEF x
  <2>4. B <= x
    BY <2>3, Cancel
  <2> QED BY <2>4 DEF x
<1> DEFINE P == (m * C) * D
           Q == (V * B) * C
           S == ((n * R) * B) * C
<1>3. 2 * P <= 2 * Q + D * C /\ 2 * Q <= 2 * P + D * C
  <2> DEFINE y == V * B
  <2>1. y \in Nat /\ Nearly(m, y, D)
    OBVIOUS
  <2> HIDE DEF y
  <2>2. 2 * (m * C) * D <= 2 * (y * C) + D * C /\ 2 * (y * C) <= 2 * (m * C) * D + D * C
    BY <2>1, NearlyTimes
  <2>3. 2 * P = 2 * (m * C) * D /\ 2 * Q = 2 * (y * C)
    BY DEF y
  <2> QED BY <2>2, <2>3
<1>4. 2 * P <= 2 * S + D * B /\ 2 * S <= 2 * P + D * B
  <2> DEFINE y == n * C
             c == R * B
  <2>1. y \in Nat /\ Nearly(M, y, E) /\ c \in Nat
    OBVIOUS
  <2> HIDE DEF y, c
  <2>2. 2 * (M * c) * E <= 2 * (y * c) + E * c /\ 2 * (y * c) <= 2 * (M * c) * E + E * c
    BY <2>1, NearlyTimes
  <2>3. 2 * (M * c) * E = 2 * P
    <3>1. (M * (R * B)) * E = (M * B) * (E * R)
      OBVIOUS
    <3>2. (M * c) * E = P
      BY <3>1 DEF c
    <3>3. (M * c) * E \in Int /\ M * c \in Int
      BY <2>1
    <3>4. 2 * (M * c) * E = 2 * ((M * c) * E)
      BY <2>1
    <3> QED BY <3>2, <3>4
  <2>4. y * c = S /\ E * c = D * B
    BY DEF y, c
  <2>5. 2 * (y * c) = 2 * S
    BY <2>4
  <2> QED BY <2>2, <2>3, <2>4, <2>5
<1> DEFINE G == D * C
           K == D * B
<1>5. K <= 2 * G
  <2>1. K = B * D /\ 2 * G = (2 * C) * D
    OBVIOUS
  <2> DEFINE x == 2 * C
  <2>2. x \in Int /\ B <= x
    BY <1>2
  <2> HIDE DEF x
  <2>3. B * D <= x * D
    BY <2>2, Times
  <2> QED BY <2>1, <2>3 DEF x
<1>6. P \in Int /\ Q \in Int /\ S \in Int /\ G \in Int /\ K \in Int
  OBVIOUS
<1>7. 2 * G < B * C
  <2> DEFINE x == 2 * D
  <2>1. x \in Int /\ x < B
    BY <1>1
  <2>2. 2 * G = x * C
    OBVIOUS
  <2> HIDE DEF x
  <2>3. x * C < B * C
    BY <2>1, Cancel
  <2> QED BY <2>2, <2>3
<1> DEFINE A == B * C
           u == n * R
<1>8. A \in Nat \ {0} /\ u \in Nat /\ Q = V * A /\ S = u * A
  OBVIOUS
<1>9. 2 * Q - 2 * S < 2 * A /\ 2 * S - 2 * Q < 2 * A
  <2>1. 2 * P <= 2 * Q + G /\ 2 * Q <= 2 * P + G /\ 2 * P <= 2 * S + K /\ 2 * S <= 2 * P + K
    BY <1>3, <1>4
  <2>2. 2 * G < A
    BY <1>7
  <2> HIDE DEF P, Q, S, G, K, A
  <2> QED BY <1>5, <1>6, <1>8, <2>1, <2>2
<1>10. V * A < (u + 1) * A /\ u * A < (V + 1) * A
  <2>1. (u + 1) * A = u * A + A /\ (V + 1) * A = V * A + A
    BY <1>8
  <2>2. u * A \in Int /\ V * A \in Int
    BY <1>8
  <2> HIDE DEF Q, S, A, u
  <2> QED BY <1>8, <1>9, <2>1, <2>2
<1> HIDE DEF A, u
<1>11. V < u + 1 /\ u < V + 1
  <2> DEFINE a == u + 1
             b == V + 1
  <2>1. a \in Int /\ b \in Int /\ V * A < a * A /\ u * A < b * A
    BY <1>8, <1>10
  <2> HIDE DEF a, b
  <2>2. V < a /\ u < b
    BY <1>8, <2>1, Cancel
  <2> QED BY <2>2 DEF a, b
<1>12. u = V
  BY <1>8, <1>11
<1> QED BY <1>12 DEF u

\* A balance is written with the digits that it has
LEMMA WrittenNonzero ==
  ASSUME PowersLaw, NEW v \in Int \ {0}, NEW d \in Nat, Roomy(d), 2 * Magnitude(v) < H
  PROVE  \E e \in 0..d : /\ bigintToString(v, d).k \in Int /\ bigintToString(v, d).e = e
                         /\ bigintToString(v, d).k * Power(10, d) = v * Power(10, e)
<1> DEFINE V == Magnitude(v)
           D == Power(10, d)
           top == Power(2, MaxExponent)
           num == Float(v, 1)
           B == Denominator(num)
           f == Float(v, D)
           m == Magnitude(Numerator(f))
           C == Denominator(f)
<1>1. /\ V \in Nat \ {0} /\ 2 * V < H /\ H \in Nat \ {0} /\ D \in Nat \ {0} /\ top \in Nat \ {0}
      /\ d <= MaxExponent /\ d \in 0..MaxExponent
  BY MagnitudeNat, HNat, PowerNat, AmountsAssumption DEF Roomy
<1>2. D * H <= top
  <2> DEFINE all == Power(10, d + FixedDecimals)
             F == Power(10, FixedDecimals)
  <2>1. all = D * F /\ F \in Nat \ {0}
    BY PowerSum, PowerNat, AmountsAssumption
  <2>2. all * H <= top
    <3>1. 10^(d + FixedDecimals) * 2^(Precision - 1) <= 2^MaxExponent
      BY DEF Roomy
    <3>2. 10^(d + FixedDecimals) = all /\ 2^MaxExponent = top
      BY Zenon DEF Power
    <3> HIDE DEF all, top
    <3> QED BY <3>1, <3>2, HNat
  <2> HIDE DEF all, F, D, top
  <2>3. D <= all /\ all \in Nat
    BY <1>1, <2>1
  <2>4. D * H <= all * H
    BY <1>1, <2>3, Times
  <2> QED BY <1>1, <2>2, <2>3, <2>4
<1> HIDE DEF V, D, top
<1>3. H <= top /\ top <= V * top /\ D * H <= V * top /\ H <= V * top
  <2>1. H <= D * H /\ D * H \in Nat
    BY <1>1
  <2>2. top <= V * top /\ V * top \in Nat
    BY <1>1
  <2> QED BY <1>1, <1>2, <2>1, <2>2
<1>4. Normal(v, 1) /\ Normal(v, D)
  <2>1. V < 2 * 1 * H /\ 1 * H <= V * top
    BY <1>1, <1>3
  <2>2. V < 2 * D * H
    <3>1. H <= D * H
      BY <1>1
    <3> QED BY <1>1, <3>1
  <2> QED BY <1>1, <1>3, <2>1, <2>2 DEF Normal, V, top
<1>5. B \in Nat \ {0} /\ Numerator(num) = v * B
  <2> DEFINE M == Magnitude(Numerator(num))
  <2>1. /\ B \in Nat \ {0} /\ M \in Nat /\ Nearly(M, V * B, 1)
        /\ Numerator(num) = IF v < 0 THEN -M ELSE M
    BY <1>4, FloatNear DEF Near, V
  <2> HIDE DEF M, num, B
  <2>2. M = V * B
    <3> DEFINE y == V * B
    <3>1. y \in Nat /\ Nearly(M, y * 1, 1)
      BY <1>1, <2>1
    <3> HIDE DEF y
    <3>2. 2 * M <= 2 * y + 1 /\ 2 * y <= 2 * M + 1
      BY <2>1, <3>1 DEF Nearly
    <3>3. M = y
      BY <2>1, <3>1, <3>2
    <3> QED BY <3>3 DEF y
  <2>3. v = IF v < 0 THEN -V ELSE V
    BY MagnitudeNat DEF V
  <2>4. (-V) * B = -(V * B)
    BY <1>1, <2>1
  <2> QED BY <2>1, <2>2, <2>3, <2>4
<1>6. bigintToString(v, d) = Shortest(f)
  <2>1. Float(v * B, D * B) = f
    BY <1>4, <1>5, FloatSame
  <2>2. bigintToString(v, d) = Shortest(Float(Numerator(num), D * B))
    BY Zenon DEF bigintToString, D, B, num, Power
  <2> HIDE DEF num, B, f
  <2> QED BY <1>5, <2>1, <2>2
<1>7. /\ m \in Nat \ {0} /\ C \in Nat \ {0} /\ m <= 2 * H /\ H <= m
      /\ Nearly(m, V * C, D) /\ D * H <= V * C
      /\ Numerator(f) = IF v < 0 THEN -m ELSE m
  BY <1>1, <1>4, FloatNear DEF Near, V
<1>8. f.m = Numerator(f) /\ (f.m < 0 <=> v < 0)
  <2>1. f.m = Numerator(f)
    BY DEF Numerator
  <2> HIDE DEF f, m
  <2> QED BY <1>1, <1>7, <2>1
<1> HIDE DEF num, B, f, m, C
<1>9. D < C
  <2> SUFFICES ASSUME C <= D PROVE FALSE
    BY <1>1, <1>7
  <2>1. C * V <= D * V
    BY <1>1, <1>7, Times
  <2>2. V * D < H * D
    BY <1>1, Cancel
  <2>3. C * V = V * C /\ D * V = V * D /\ D * H = H * D /\ V * C \in Int /\ V * D \in Int /\ H * D \in Int
    BY <1>1, <1>7
  <2> QED BY <1>7, <2>1, <2>2, <2>3
<1>10. NearestUp(m * D, C) = V
  <2> DEFINE x == m * D
             y == V * C
  <2>1. x \in Nat /\ y \in Nat /\ 2 * m * D = 2 * x /\ 2 * V * C = 2 * y
    BY <1>1, <1>7
  <2>2. Nearly(m, y, D)
    BY <1>7
  <2> HIDE DEF x, y
  <2>3. 2 * V * C <= 2 * x + C /\ 2 * x + C < 2 * V * C + 2 * C
    BY <1>1, <1>7, <1>9, <2>1, <2>2 DEF Nearly
  <2>4. NearestUp(x, C) = V
    BY <1>1, <1>7, <2>1, <2>3, NearestUpIs
  <2> QED BY <2>4 DEF x
<1>11. v = IF f.m < 0 THEN -V ELSE V
  BY <1>8, MagnitudeNat DEF V
<1>12. LET n == NearestUp(Magnitude(Numerator(f)) * 10^d, Denominator(f))
       IN SameNumber(Float(IF f.m < 0 THEN -n ELSE n, 10^d), f)
  <2>1. SameNumber(Float(v, D), f)
    BY DEF SameNumber, f
  <2>2. NearestUp(Magnitude(Numerator(f)) * Power(10, d), Denominator(f)) = V
    BY <1>10 DEF m, C, D
  <2>3. SameNumber(Float(IF f.m < 0 THEN -V ELSE V, Power(10, d)), f)
    BY <1>11, <2>1 DEF D
  <2> HIDE DEF V
  <2> QED BY <2>2, <2>3, Zenon DEF Power
<1>13. PICK e \in 0..d : LET n == NearestUp(Magnitude(Numerator(f)) * 10^e, Denominator(f))
                             k == IF f.m < 0 THEN -n ELSE n
                         IN /\ SameNumber(Float(k, 10^e), f)
                            /\ Shortest(f) = [k |-> k, e |-> e]
  <2> HIDE DEF V
  <2> QED BY <1>1, <1>12, ShortestIs
<1> DEFINE E == Power(10, e)
           R == Power(10, d - e)
           n == NearestUp(m * E, C)
           k == IF v < 0 THEN -n ELSE n
           g == Float(k, E)
<1>14. /\ SameNumber(g, f) /\ Shortest(f) = [k |-> k, e |-> e]
  <2>1. NearestUp(Magnitude(Numerator(f)) * 10^e, Denominator(f)) = n
    BY Zenon DEF n, m, E, C, Power
  <2>2. 10^e = E
    BY Zenon DEF Power, E
  <2> HIDE DEF n, E
  <2> QED BY <1>8, <1>13, <2>1, <2>2
<1>15. E \in Nat \ {0} /\ R \in Nat \ {0} /\ D = E * R
  <2>1. e \in Nat /\ d - e \in Nat /\ e + (d - e) = d
    OBVIOUS
  <2>2. Power(10, e + (d - e)) = Power(10, e) * Power(10, d - e)
    BY <2>1, PowerSum
  <2> QED BY <2>1, <2>2, PowerNat DEF D
<1> HIDE DEF E, R
<1>16. n \in Nat /\ Nearly(n, m * E, C)
  <2> DEFINE x == m * E
  <2>1. x \in Nat
    BY <1>7, <1>15
  <2> HIDE DEF x
  <2>2. NearestUp(x, C) \in Nat /\ Nearly(NearestUp(x, C), x, C)
    BY <1>7, <2>1, Rounded
  <2> QED BY <2>2 DEF x
<1> HIDE DEF n
<1>17. k \in Int /\ Magnitude(k) = n
  BY <1>16 DEF Magnitude
<1>18. n # 0
  <2> SUFFICES ASSUME n = 0 PROVE FALSE
    OBVIOUS
  <2>1. k = 0
    <3> HIDE DEF k
    <3> QED BY <1>17, MagnitudeNat
  <2>2. g = [m |-> 0, x |-> 0]
    BY <2>1, FloatZero
  <2>3. Numerator(g) = 0 /\ g.x = 0
    BY <2>2 DEF Numerator
  <2>4. Denominator(g) = 1
    <3>1. Power(2, 0) = 1
      BY PowerStep
    <3> HIDE DEF g
    <3> QED BY <2>3, <3>1, Zenon DEF Denominator, Power
  <2> HIDE DEF g
  <2>5. 0 * C = Numerator(f) * 1
    BY <1>14, <2>3, <2>4 DEF SameNumber, C
  <2> QED BY <1>7, <2>5
<1>19. k # 0 /\ (k < 0 <=> v < 0)
  BY <1>16, <1>18
<1> HIDE DEF k
<1>20. Normal(k, E)
  <2>1. n < 2 * E * H
    <3> DEFINE W == E * H
    <3>1. W \in Nat \ {0} /\ 2 * E * H = 2 * W
      BY <1>1, <1>15
    <3>2. m * E <= (2 * H) * E
      <4> DEFINE x == 2 * H
      <4>1. x \in Int /\ m <= x
        BY <1>1, <1>7
      <4> HIDE DEF x
      <4>2. m * E <= x * E
        BY <1>7, <1>15, <4>1, Times
      <4> QED BY <4>2 DEF x
    <3>3. (2 * H) * E = 2 * W
      BY <1>1, <1>15
    <3>4. 2 * n * C <= 2 * (m * E) + C
      BY <1>16 DEF Nearly
    <3> HIDE DEF W
    <3>5. 2 * n * C <= 4 * W + C
      <4>1. m * E \in Int /\ 2 * n * C \in Int
        BY <1>7, <1>15, <1>16
      <4> QED BY <1>7, <3>1, <3>2, <3>3, <3>4, <4>1
    <3>6. C >= 2
      BY <1>1, <1>7, <1>9
    <3> SUFFICES ASSUME n >= 2 * W PROVE FALSE
      BY <1>16, <3>1
    <3>7. (4 * W) * C <= 2 * n * C
      <4> DEFINE x == 4 * W
                 y == 2 * n
      <4>1. x \in Int /\ y \in Int /\ x <= y
        BY <1>16, <3>1
      <4> HIDE DEF x, y
      <4>2. x * C <= y * C
        BY <1>7, <4>1, Times
      <4> QED BY <4>2 DEF x, y
    <3>8. (4 * W - 1) * 2 <= (4 * W - 1) * C
      BY <1>7, <3>1, <3>6
    <3>9. (4 * W - 1) * C = (4 * W) * C - C
      BY <1>7, <3>1
    <3>10. (4 * W) * C \in Int /\ 2 * n * C \in Int
      BY <1>7, <1>16, <3>1
    <3> QED BY <1>7, <3>1, <3>5, <3>7, <3>8, <3>9, <3>10
  <2>2. E * H <= n * top
    <3>1. E * H <= D * H
      <4>1. E <= D
        BY <1>15
      <4> QED BY <1>1, <1>15, <4>1, Times
    <3>2. top <= n * top
      BY <1>1, <1>16, <1>18
    <3>3. E * H \in Int /\ D * H \in Int /\ n * top \in Int
      BY <1>1, <1>15, <1>16
    <3> QED BY <1>1, <1>2, <3>1, <3>2, <3>3
  <2> QED BY <1>15, <1>17, <1>19, <2>1, <2>2 DEF Normal, top
<1> DEFINE M == Magnitude(Numerator(g))
           G == Denominator(g)
<1>21. /\ M \in Nat /\ G \in Nat \ {0} /\ H <= M /\ Nearly(M, n * G, E)
       /\ Numerator(g) = IF v < 0 THEN -M ELSE M
  <2>1. Near(g, k, E)
    BY <1>20, FloatNear
  <2> HIDE DEF g
  <2> QED BY <1>17, <1>19, <2>1 DEF Near
<1>22. M * C = m * G
  <2>1. Numerator(g) * C = Numerator(f) * G
    BY <1>14 DEF SameNumber, C
  <2> HIDE DEF M, G, g
  <2>2. (-M) * C = -(M * C) /\ (-m) * G = -(m * G) /\ M * C \in Int /\ m * G \in Int
    BY <1>7, <1>21
  <2> QED BY <1>7, <1>21, <2>1, <2>2
<1> HIDE DEF M, G
<1>23. n * R = V
  <2> HIDE DEF k, g
  <2>1. NearTheSame(H, V, m, C, D, M, G, E, R, n)
    BY <1>1, <1>7, <1>15, <1>16, <1>21, <1>22 DEF NearTheSame
  <2> QED BY <2>1, SameUnits
<1>24. k * D = v * E
  <2>1. n * D = V * E
    <3>1. n * (E * R) = (n * R) * E
      BY <1>15, <1>16
    <3> QED BY <1>15, <1>23, <3>1
  <2>2. (-n) * D = -(n * D) /\ (-V) * E = -(V * E)
    BY <1>1, <1>15, <1>16
  <2>3. v = IF v < 0 THEN -V ELSE V
    BY MagnitudeNat DEF V
  <2> QED BY <2>1, <2>2, <2>3 DEF k
<1>25. bigintToString(v, d).k = k /\ bigintToString(v, d).e = e
  BY <1>6, <1>14
<1> QED BY <1>17, <1>24, <1>25 DEF D, E

LEMMA WrittenIs ==
  ASSUME PowersLaw, NEW v \in Int, NEW d \in Nat, Roomy(d), 2 * Magnitude(v) < H
  PROVE  /\ bigintToString(v, d).k \in Int /\ bigintToString(v, d).e \in 0..d
         /\ bigintToString(v, d).k * Power(10, d) = v * Power(10, bigintToString(v, d).e)
<1>1. CASE v # 0
  BY <1>1, WrittenNonzero
<1>2. CASE v = 0
  <2> DEFINE zero == [m |-> 0, x |-> 0]
  <2>1. \A q : Float(0, q) = zero
    BY FloatZero
  <2>2. Numerator(zero) = 0 /\ Denominator(zero) = 1 /\ zero.m = 0
    <3>1. Power(2, 0) = 1
      BY PowerStep
    <3>2. zero.m = 0 /\ zero.x = 0
      OBVIOUS
    <3> HIDE DEF zero
    <3> QED BY <3>1, <3>2, Zenon DEF Numerator, Denominator, Power
  <2> HIDE DEF zero
  <2>3. bigintToString(v, d) = Shortest(zero)
    BY <1>2, <2>1, <2>2 DEF bigintToString
  <2>4. \A i \in Nat : NearestUp(Magnitude(Numerator(zero)) * 10^i, Denominator(zero)) = 0
    <3> SUFFICES ASSUME NEW i \in Nat
                 PROVE  NearestUp(Magnitude(0) * 10^i, 1) = 0
      BY <2>2
    <3> DEFINE y == 10^i
    <3>1. y \in Nat
      <4>1. Power(10, i) \in Nat
        BY PowerNat
      <4> QED BY <4>1, Zenon DEF Power
    <3> HIDE DEF y
    <3>2. NearestUp(Magnitude(0) * y, 1) = 0
      BY <3>1 DEF Magnitude, NearestUp
    <3> QED BY <3>2 DEF y
  <2>5. 0 \in 0..MaxExponent
    BY AmountsAssumption
  <2>6. NearestUp(Magnitude(Numerator(zero)) * 10^0, Denominator(zero)) = 0
    BY <2>4
  <2>7. LET n == NearestUp(Magnitude(Numerator(zero)) * 10^0, Denominator(zero))
        IN SameNumber(Float(IF zero.m < 0 THEN -n ELSE n, 10^0), zero)
    <3>1. SameNumber(Float(0, 10^0), zero)
      BY <2>1 DEF SameNumber
    <3> QED BY <2>2, <2>6, <3>1
  <2>8. PICK e \in 0..0 : LET n == NearestUp(Magnitude(Numerator(zero)) * 10^e, Denominator(zero))
                              k == IF zero.m < 0 THEN -n ELSE n
                          IN /\ SameNumber(Float(k, 10^e), zero)
                             /\ Shortest(zero) = [k |-> k, e |-> e]
    BY <2>5, <2>7, ShortestIs
  <2>9. Shortest(zero) = [k |-> 0, e |-> 0]
    <3>1. e = 0 /\ e \in Nat
      OBVIOUS
    <3>2. NearestUp(Magnitude(Numerator(zero)) * 10^e, Denominator(zero)) = 0
      BY <2>4, <3>1
    <3> QED BY <2>2, <2>8, <3>1, <3>2
  <2>10. bigintToString(v, d).k = 0 /\ bigintToString(v, d).e = 0
    BY <2>3, <2>9
  <2>11. Power(10, d) \in Nat /\ Power(10, 0) = 1
    BY PowerNat, PowerStep
  <2> QED BY <1>2, <2>10, <2>11
<1> QED BY <1>1, <1>2

-----------------------------------------------------------------------------
(* There and back: what is written can be read again *)

\* What Small says, with powers that the provers see
LEMMA SmallPower ==
  ASSUME PowersLaw, NEW k, NEW e, NEW s, s = [k |-> k, e |-> e], NEW d \in Nat
  PROVE  Small(s, d) <=>
           /\ k \in Int /\ e \in 0..(d + FixedDecimals)
           /\ 4 * Magnitude(k) * (Power(10, d) * Power(10, FixedDecimals)) < 2 * H * Power(10, e)
<1>1. s.k = k /\ s.e = e
  OBVIOUS
<1>2. 10^(d + FixedDecimals) = Power(10, d) * Power(10, FixedDecimals) /\ 10^e = Power(10, e)
  <2>1. Power(10, d + FixedDecimals) = Power(10, d) * Power(10, FixedDecimals)
    BY PowerSum, AmountsAssumption
  <2> QED BY <2>1, Zenon DEF Power
<1>3. 2^Precision = 2 * H
  BY HNat
<1> QED BY <1>1, <1>2, <1>3 DEF Small

LEMMA MagnitudeTimes ==
  ASSUME NEW a \in Int, NEW b \in Int, NEW p \in Nat \ {0}, NEW q \in Nat \ {0}, a * p = b * q
  PROVE  Magnitude(a) * p = Magnitude(b) * q
<1>1. (a < 0 <=> a * p < 0) /\ (b < 0 <=> b * q < 0)
  OBVIOUS
<1>2. (-a) * p = -(a * p) /\ (-b) * q = -(b * q)
  OBVIOUS
<1> QED BY <1>1, <1>2 DEF Magnitude

\* The same amount, with other digits, is as small
LEMMA SameSmall ==
  ASSUME PowersLaw, NEW k \in Int, NEW v \in Int, NEW e \in Nat, NEW l \in Nat, NEW d \in Nat,
         e <= d + FixedDecimals, k * Power(10, l) = v * Power(10, e),
         Small([k |-> v, e |-> l], d)
  PROVE  Small([k |-> k, e |-> e], d)
<1> DEFINE L == Power(10, l)
           W == Power(10, e)
           A == Power(10, d) * Power(10, FixedDecimals)
           x == Magnitude(k)
           y == Magnitude(v)
<1>1. /\ L \in Nat \ {0} /\ W \in Nat \ {0} /\ A \in Nat /\ x \in Nat /\ y \in Nat /\ H \in Nat
      /\ FixedDecimals \in Nat
  BY PowerNat, MagnitudeNat, HNat, AmountsAssumption
<1>2. x * L = y * W
  <2>1. k * L = v * W
    OBVIOUS
  <2> HIDE DEF L, W
  <2> QED BY <1>1, <2>1, MagnitudeTimes
<1>3. 4 * y * A < 2 * H * L
  BY SmallPower
<1> HIDE DEF L, W, A, x, y
<1>4. (4 * x * A) * L < (2 * H * W) * L
  <2> DEFINE a == 4 * y * A
             b == 2 * H * L
  <2>1. a \in Int /\ b \in Int /\ a < b
    BY <1>1, <1>3
  <2>2. a * W = (4 * x * A) * L
    <3>1. a * W = 4 * A * (y * W) /\ (4 * x * A) * L = 4 * A * (x * L)
      BY <1>1
    <3> QED BY <1>2, <3>1
  <2>3. b * W = (2 * H * W) * L
    BY <1>1
  <2> HIDE DEF a, b
  <2>4. a * W < b * W
    BY <1>1, <2>1, Cancel
  <2> QED BY <2>2, <2>3, <2>4
<1>5. 4 * x * A < 2 * H * W
  <2> DEFINE a == 4 * x * A
             b == 2 * H * W
  <2>1. a \in Int /\ b \in Int /\ a * L < b * L
    BY <1>1, <1>4
  <2> HIDE DEF a, b
  <2>2. a < b
    BY <1>1, <2>1, Cancel
  <2> QED BY <2>2 DEF a, b
<1>6. e \in 0..(d + FixedDecimals)
  BY <1>1
<1> QED BY <1>5, <1>6, SmallPower DEF x, A, W

\* Units of the last decimal are as few as the number format has room for
LEMMA SmallBound ==
  ASSUME PowersLaw, NEW v, NEW d \in Nat, Small([k |-> v, e |-> d], d)
  PROVE  v \in Int /\ 2 * Magnitude(v) < H
<1> DEFINE D == Power(10, d)
           F == Power(10, FixedDecimals)
           x == Magnitude(v)
<1>1. v \in Int /\ 4 * x * (D * F) < 2 * H * D
  BY SmallPower
<1>2. D \in Nat \ {0} /\ F \in Nat \ {0} /\ x \in Nat /\ H \in Nat
  BY <1>1, PowerNat, HNat, MagnitudeNat, AmountsAssumption
<1> HIDE DEF D, F, x
<1>3. (4 * x) * D < (2 * H) * D
  <2>1. x * D <= (x * D) * F /\ x * D \in Nat /\ (x * D) * F \in Nat
    BY <1>2
  <2>2. 4 * x * (D * F) = 4 * ((x * D) * F) /\ 2 * H * D = (2 * H) * D /\ (4 * x) * D = 4 * (x * D)
    BY <1>2
  <2>3. (2 * H) * D \in Int
    BY <1>2
  <2> QED BY <1>1, <2>1, <2>2, <2>3
<1>4. 4 * x < 2 * H
  <2> DEFINE a == 4 * x
             b == 2 * H
  <2>1. a \in Int /\ b \in Int /\ a * D < b * D
    BY <1>2, <1>3
  <2> HIDE DEF a, b
  <2>2. a < b
    BY <1>2, <2>1, Cancel
  <2> QED BY <2>2 DEF a, b
<1> QED BY <1>1, <1>2, <1>4 DEF x

\* A number v of units of 10^-l, written, and read in units of 10^-d
LEMMA WrittenRead ==
  ASSUME PowersLaw, NEW v, NEW l \in Nat, NEW d \in Nat, Roomy(l), Roomy(d),
         Small([k |-> v, e |-> l], l), Small([k |-> v, e |-> l], d),
         NEW w, w = bigintToString(v, l)
  PROVE  /\ v \in Int /\ w.k \in Int /\ w.e \in 0..l /\ w.k * Power(10, l) = v * Power(10, w.e)
         /\ Small(w, d)
         /\ l <= d => Fits(w, d)
         /\ Fits(w, d) => Units(w, d) \in Int /\ Units(w, d) * Power(10, l) = v * Power(10, d)
<1> DEFINE L == Power(10, l)
           W == Power(10, w.e)
           D == Power(10, d)
<1>1. v \in Int /\ 2 * Magnitude(v) < H
  BY SmallBound
<1>2. w.k \in Int /\ w.e \in 0..l /\ w.k * L = v * W
  BY <1>1, WrittenIs
<1>3. w.e \in Nat /\ w.e <= l /\ l <= d + FixedDecimals /\ FixedDecimals \in Nat
  BY <1>2, SmallPower, AmountsAssumption
<1>4. L \in Nat \ {0} /\ W \in Nat \ {0} /\ D \in Nat \ {0}
  BY <1>3, PowerNat
<1>5. Small([k |-> w.k, e |-> w.e], d)
  BY <1>1, <1>2, <1>3, SameSmall
<1>6. Small(w, d)
  <2>1. [k |-> w.k, e |-> w.e].k = w.k /\ [k |-> w.k, e |-> w.e].e = w.e
    OBVIOUS
  <2> QED BY <1>5, <2>1 DEF Small
<1>7. l <= d => Fits(w, d)
  <2> SUFFICES ASSUME l <= d PROVE Fits(w, d)
    OBVIOUS
  <2> DEFINE R == Power(10, d - w.e)
  <2>1. d - w.e \in Nat /\ w.e + (d - w.e) = d
    BY <1>3
  <2>2. D = W * R /\ R \in Nat
    <3>1. Power(10, w.e + (d - w.e)) = W * R
      BY <1>3, <2>1, PowerSum
    <3> QED BY <2>1, <3>1, PowerNat
  <2>3. Fits(w, d) <=> (w.k * D) % W = 0
    BY Zenon DEF Fits, Power
  <2> HIDE DEF D, W, R
  <2> DEFINE x == w.k * R
             y == w.k * D
  <2>4. x \in Int /\ y = x * W
    BY <1>2, <1>4, <2>2
  <2> HIDE DEF x, y
  <2>5. y % W = 0
    BY <1>4, <2>4, Multiple
  <2> QED BY <2>3, <2>5 DEF y
<1>8. Fits(w, d) => Units(w, d) \in Int /\ Units(w, d) * L = v * D
  <2> SUFFICES ASSUME Fits(w, d) PROVE Units(w, d) \in Int /\ Units(w, d) * L = v * D
    OBVIOUS
  <2> DEFINE U == Units(w, d)
  <2>1. U \in Int /\ w.k * D = U * W
    BY <1>6, AmountRead
  <2> HIDE DEF U, D, W, L
  <2> DEFINE x == U * L
             y == v * D
  <2>2. x \in Int /\ y \in Int
    BY <1>1, <1>4, <2>1
  <2>3. x * W = y * W
    <3>1. (U * L) * W = (U * W) * L /\ (v * D) * W = (v * W) * D /\ (w.k * D) * L = (w.k * L) * D
      BY <1>1, <1>2, <1>4, <2>1
    <3> QED BY <1>2, <2>1, <3>1
  <2> HIDE DEF x, y
  <2>4. x = y
    BY <1>4, <2>2, <2>3, Cancel
  <2> QED BY <2>1, <2>4 DEF x, y, U
<1> QED BY <1>1, <1>2, <1>6, <1>7, <1>8

\* What an amount is read as is as small as the amount
LEMMA SmallUnits ==
  ASSUME PowersLaw, NEW s, NEW d \in Nat, Small(s, d), Roomy(d), Fits(s, d)
  PROVE  Small([k |-> Units(s, d), e |-> d], d)
<1> DEFINE U == Units(s, d)
<1>1. U \in Int /\ s.k * Power(10, d) = U * Power(10, s.e)
  BY AmountRead
<1>2. s.k \in Int /\ s.e \in Nat /\ d <= d + FixedDecimals
  BY AmountsAssumption DEF Small
<1>3. Small([k |-> s.k, e |-> s.e], d)
  <2>1. [k |-> s.k, e |-> s.e].k = s.k /\ [k |-> s.k, e |-> s.e].e = s.e
    OBVIOUS
  <2> QED BY <2>1 DEF Small
<1> HIDE DEF U
<1>4. U * Power(10, s.e) = s.k * Power(10, d)
  BY <1>1
<1>5. Small([k |-> U, e |-> d], d)
  BY <1>1, <1>2, <1>3, <1>4, SameSmall
<1> QED BY <1>5 DEF U

LEMMA SamePower ==
  ASSUME NEW s, NEW t
  PROVE  SameAmount(s, t) <=> s.k * Power(10, t.e) = t.k * Power(10, s.e)
BY Zenon DEF SameAmount, Power

\* An amount that converts is, when it is written, and when it is read and written
\* once more, the amount that was asked for
Exact(amount, decimals) ==
  LET units == stringToBigint(amount, decimals)
      written == bigintToString(units, decimals)
  IN /\ units = Units(amount, decimals) /\ units \in Int
     /\ SameAmount(written, amount)
     /\ Converts(written, decimals)
     /\ SameAmount(bigintToString(stringToBigint(written, decimals), decimals), amount)

\* createJournalEntries stores bigintToString of stringToBigint, and getJournalEntries-
\* ByAccountId tells what it makes of that once more: of an amount that converts, both
\* are the amount, and the balances get exactly its units.
THEOREM AmountKept ==
  ASSUME PowersLaw, NEW s, NEW d \in Nat, Small(s, d), Roomy(d), Converts(s, d)
  PROVE  Exact(s, d)
<1> DEFINE U == Units(s, d)
           w == bigintToString(U, d)
<1>1. /\ Fits(s, d) /\ stringToBigint(s, d) = U /\ U \in Int
      /\ s.k * Power(10, d) = U * Power(10, s.e)
  BY AmountRead
<1>2. Small([k |-> U, e |-> d], d)
  BY <1>1, SmallUnits
<1> HIDE DEF U
<1>3. /\ w.k \in Int /\ w.e \in 0..d /\ w.k * Power(10, d) = U * Power(10, w.e)
      /\ Small(w, d) /\ Fits(w, d) /\ Units(w, d) \in Int
      /\ Units(w, d) * Power(10, d) = U * Power(10, d)
  <2>1. d <= d
    OBVIOUS
  <2> QED BY <1>2, <2>1, WrittenRead
<1> HIDE DEF w
<1>4. Converts(w, d) /\ stringToBigint(w, d) = Units(w, d)
  BY <1>3, AmountRead
<1>5. Power(10, d) \in Nat \ {0} /\ Power(10, s.e) \in Nat \ {0} /\ Power(10, w.e) \in Nat \ {0} /\ s.k \in Int
  <2>1. s.k \in Int /\ s.e \in Nat /\ w.e \in Nat
    BY <1>3, AmountsAssumption DEF Small
  <2> QED BY <2>1, PowerNat
<1>6. stringToBigint(w, d) = U
  <2> DEFINE D == Power(10, d)
             x == Units(w, d)
  <2>1. D \in Nat \ {0} /\ x \in Int /\ U \in Int /\ x * D = U * D
    BY <1>1, <1>3, <1>5
  <2> HIDE DEF D, x
  <2>2. x = U
    BY <2>1, Cancel
  <2> QED BY <1>4, <2>2 DEF x
<1>7. SameAmount(w, s)
  <2> DEFINE D == Power(10, d)
             E == Power(10, s.e)
             W == Power(10, w.e)
  <2>1. /\ D \in Nat \ {0} /\ E \in Nat \ {0} /\ W \in Nat \ {0} /\ s.k \in Int /\ w.k \in Int /\ U \in Int
        /\ s.k * D = U * E /\ w.k * D = U * W
    BY <1>1, <1>3, <1>5
  <2> HIDE DEF D, E, W
  <2> DEFINE x == w.k * E
             y == s.k * W
  <2>2. x \in Int /\ y \in Int
    BY <2>1
  <2>3. x * D = y * D
    <3>1. (w.k * E) * D = (w.k * D) * E /\ (s.k * W) * D = (s.k * D) * W /\ (U * W) * E = (U * E) * W
      BY <2>1
    <3> QED BY <2>1, <3>1
  <2> HIDE DEF x, y
  <2>4. x = y
    BY <2>1, <2>2, <2>3, Cancel
  <2> QED BY <2>4, SamePower DEF x, y, E, W
<1>8. U = Units(s, d) /\ w = bigintToString(U, d)
  BY DEF U, w
<1>9. /\ stringToBigint(s, d) = Units(s, d) /\ bigintToString(stringToBigint(s, d), d) = w
      /\ bigintToString(stringToBigint(w, d), d) = w
  BY <1>1, <1>6, <1>8, Zenon
<1> HIDE DEF w, U
<1> QED BY <1>1, <1>4, <1>7, <1>8, <1>9, Zenon DEF Exact

\* _calculateBalanceString: two numbers of units of 10^-l, written by one service, and
\* read, subtracted and written again by the other in decimals d of its own, come to
\* their difference, whichever of the two has more decimals.
THEOREM BalanceSubtracted ==
  ASSUME PowersLaw, NEW l \in Nat, NEW d \in Nat, Roomy(l), Roomy(d), NEW u \in Nat, NEW v \in Nat,
         Small([k |-> u, e |-> l], l), Small([k |-> u, e |-> l], d),
         Small([k |-> v, e |-> l], l), Small([k |-> v, e |-> l], d),
         Converts(bigintToString(u, l), d), Converts(bigintToString(v, l), d)
  PROVE  Says(bigintToString(stringToBigint(bigintToString(u, l), d)
                               - stringToBigint(bigintToString(v, l), d), d), u - v, l)
<1> DEFINE L == Power(10, l)
           D == Power(10, d)
<1>1. L \in Nat \ {0} /\ D \in Nat \ {0}
  BY PowerNat
<1>2. ASSUME NEW n \in Nat, Small([k |-> n, e |-> l], l), Small([k |-> n, e |-> l], d),
             Converts(bigintToString(n, l), d)
      PROVE  LET N == stringToBigint(bigintToString(n, l), d)
             IN N \in Nat /\ N * L = n * D /\ 2 * N < H
  <2> DEFINE w == bigintToString(n, l)
             N == stringToBigint(w, d)
  <2>1. /\ Small(w, d)
        /\ Fits(w, d) => Units(w, d) \in Int /\ Units(w, d) * L = n * D
    BY <1>2, WrittenRead
  <2>2. Fits(w, d) /\ N = Units(w, d)
    BY <1>2, <2>1, AmountRead
  <2>3. 2 * Magnitude(N) < H
    <3>1. Small([k |-> Units(w, d), e |-> d], d)
      BY <2>1, <2>2, SmallUnits
    <3> QED BY <2>2, <3>1, SmallBound
  <2>4. N \in Int /\ N * L = n * D
    BY <2>1, <2>2
  <2> HIDE DEF N, L, D
  <2>5. ASSUME N < 0 PROVE FALSE
    <3>1. N * L < 0 /\ n * D >= 0 /\ n * D \in Int
      BY <1>1, <1>2, <2>4, <2>5
    <3>2. n * D < 0
      BY <2>4, <3>1
    <3> QED BY <3>1, <3>2
  <2>6. N \in Nat /\ 2 * N < H
    BY <2>3, <2>4, <2>5 DEF Magnitude
  <2> QED BY <2>4, <2>6 DEF N
<1> DEFINE M == stringToBigint(bigintToString(u, l), d)
           N == stringToBigint(bigintToString(v, l), d)
           w == bigintToString(M - N, d)
<1>3. M \in Nat /\ M * L = u * D /\ 2 * M < H /\ N \in Nat /\ N * L = v * D /\ 2 * N < H
  <2> HIDE DEF L, D
  <2> QED BY <1>2
<1> HIDE DEF M, N, L, D
<1>4. M - N \in Int /\ 2 * Magnitude(M - N) < H
  BY <1>3, HNat DEF Magnitude
<1>5. w.k \in Int /\ w.e \in 0..d /\ w.k * D = (M - N) * Power(10, w.e)
  BY <1>4, WrittenIs DEF D
<1> HIDE DEF w
<1> DEFINE W == Power(10, w.e)
<1>6. W \in Nat \ {0}
  <2>1. w.e \in Nat
    BY <1>5
  <2> QED BY <2>1, PowerNat
<1> HIDE DEF W
<1> DEFINE x == w.k * L
           y == (u - v) * W
<1>7. x \in Int /\ y \in Int
  BY <1>1, <1>5, <1>6
<1>8. x * D = y * D
  <2>1. (M - N) * L = (u - v) * D
    <3>1. (M - N) * L = M * L - N * L /\ (u - v) * D = u * D - v * D
      BY <1>1, <1>3
    <3> QED BY <1>3, <3>1
  <2>2. (w.k * L) * D = (w.k * D) * L
    BY <1>1, <1>5
  <2>3. ((M - N) * W) * L = ((M - N) * L) * W
    BY <1>1, <1>3, <1>6
  <2>4. ((u - v) * D) * W = ((u - v) * W) * D
    BY <1>1, <1>6
  <2>5. w.k * D = (M - N) * W
    BY <1>5 DEF W
  <2> QED BY <2>1, <2>2, <2>3, <2>4, <2>5
<1> HIDE DEF x, y
<1>9. x = y
  BY <1>1, <1>7, <1>8, Cancel
<1> DEFINE t == [k |-> u - v, e |-> l]
<1>10. t.k = u - v /\ t.e = l
  OBVIOUS
<1> HIDE DEF t
<1>11. SameAmount(w, t)
  BY <1>9, <1>10, SamePower DEF x, y, L, W
<1> QED BY <1>11 DEF Says, t, w, M, N

-----------------------------------------------------------------------------
(* The calls *)

\* An amount that converts is exact
AmountsExact ==
  \A c \in Calls : \A r \in Requests[c] : r.kind = "entries" =>
    \A i \in DOMAIN r.entries : \A f \in Configs :
      LET q == r.entries[i]
      IN q.currency \in DOMAIN f =>
           /\ Converts(q.amount, f[q.currency]) <=> Fits(q.amount, f[q.currency])
           /\ Converts(q.amount, f[q.currency]) => Exact(q.amount, f[q.currency])

LEMMA SmallAmountsExact ==
  ASSUME PowersLaw, AmountsSmall
  PROVE  AmountsExact
<1> SUFFICES ASSUME NEW c \in Calls, NEW r \in Requests[c], r.kind = "entries",
                    NEW i \in DOMAIN r.entries, NEW f \in Configs,
                    r.entries[i].currency \in DOMAIN f
             PROVE  LET s == r.entries[i].amount
                        d == f[r.entries[i].currency]
                    IN (Converts(s, d) <=> Fits(s, d)) /\ (Converts(s, d) => Exact(s, d))
  BY DEF AmountsExact
<1> DEFINE s == r.entries[i].amount
           d == f[r.entries[i].currency]
<1>1. Small(s, d) /\ Roomy(d)
  BY DEF AmountsSmall
<1>2. d \in Nat
  BY CallsAssumption
<1> HIDE DEF s, d
<1>3. (Converts(s, d) <=> Fits(s, d)) /\ (Converts(s, d) => Exact(s, d))
  BY <1>1, <1>2, AmountRead, AmountKept
<1> QED BY <1>3 DEF s, d

Texts == {bigintToString(units, decimals) : units \in Int, decimals \in Nat}
Sides == {"dr", "cr"}
JournalRecord == [by : Calls \X Nat, decimals : Nat, sides : SUBSET Sides, amount : Texts]

CallsTypes ==
  /\ DOMAIN ask = Calls /\ \A c \in Calls : ask[c] \in Requests[c]
  /\ place \in [Calls -> Places] /\ next \in [Calls -> Nat] /\ record \in [Calls -> Nat]
  /\ \A c \in Posters : next[c] \in DOMAIN ask[c].entries /\ record[c] <= Len(journal)
  /\ DOMAIN found = Calls /\ DOMAIN told = Calls /\ DOMAIN read = Calls
  /\ journal \in Seq(JournalRecord)
  /\ balance \in [Accounts -> [Sides -> Nat]]
  /\ config \in [Services -> Configs] /\ troubles \in 0..MaxTroubles

\* What a record adds to the balances
UnitsOf(rec) == stringToBigint(Entry(rec.by).amount, rec.decimals)

\* A record is of an entry that was asked for, between accounts, its string is the
\* amount of the entry, as it is stored and as it will be told, and the balances get
\* as many units as that is
Good(rec) ==
  /\ rec.by[1] \in Posters /\ rec.by[2] \in DOMAIN ask[rec.by[1]].entries
  /\ AsAsked(rec)
  /\ SameAmount(Row(rec).amount, Entry(rec.by).amount)
  /\ Converts(rec.amount, rec.decimals)
  /\ UnitsOf(rec) = Units(Entry(rec.by).amount, rec.decimals) /\ UnitsOf(rec) \in Int
  /\ {Entry(rec.by).dr, Entry(rec.by).cr} \subseteq Accounts

RecordsGood == \A i \in DOMAIN journal : Good(journal[i])

\* The records of a call come in the order of its entries, and a record that has
\* another one behind it is counted by both balances
Ordered(c) ==
  \A i, j \in Posted(c) :
    i < j => journal[i].by[2] < journal[j].by[2] /\ Whole(journal[i])

\* How far the journal is with the entries of a call
Filled(c) ==
  /\ place[c] # "back"
  /\ place[c] \in {"idle", "chart"} => Numbers(c) = {} /\ next[c] = 1
  /\ place[c] = "ledger" => Numbers(c) = 1..(next[c] - 1)
  /\ place[c] \in {"stored", "debited"} => Numbers(c) = 1..next[c]
  /\ \E n \in 0..Len(ask[c].entries) : Numbers(c) = 1..n

\* How far the balances are with the records of a call that goes on
Counted(c) ==
  /\ place[c] = "ledger" => \A i \in Posted(c) : Whole(journal[i])
  /\ place[c] \in {"stored", "debited"} =>
       /\ record[c] \in Posted(c) /\ journal[record[c]].by[2] = next[c]
       /\ journal[record[c]].sides = IF place[c] = "stored" THEN {} ELSE {"dr"}
       /\ \A i \in Posted(c) \ {record[c]} : Whole(journal[i])

\* What a client heard is final
Heard(c) ==
  /\ told[c].code = "OK" =>
       /\ place[c] = "over" /\ Numbers(c) = DOMAIN ask[c].entries
       /\ \A i \in Posted(c) : Whole(journal[i])
  /\ told[c].code = "DENIED" => place[c] = "over" /\ Numbers(c) = {}

PosterInv(c) == Ordered(c) /\ Filled(c) /\ Counted(c) /\ Heard(c)

\* What is on its way to a reader is what the reader hears
ReaderInv(c) ==
  /\ place[c] \in {"stored", "debited"} => ask[c].kind = "entries"
  /\ ask[c].kind = "journal" =>
       /\ place[c] = "back" => Tells(c, found[c])
       /\ told[c].code = "OK" => place[c] = "over" /\ (Known(c) # {} => Tells(c, told[c].what))

CallsInv ==
  /\ CallsTypes /\ RecordsGood
  /\ \A c \in Posters : PosterInv(c)
  /\ \A c \in Calls : ReaderInv(c)

-----------------------------------------------------------------------------
(* The journal grows by a record, or a record gets a side *)

LEMMA Grown ==
  ASSUME NEW s \in Seq(JournalRecord), NEW rec \in JournalRecord
  PROVE  /\ Append(s, rec) \in Seq(JournalRecord)
         /\ DOMAIN Append(s, rec) = DOMAIN s \cup {Len(s) + 1}
         /\ Len(Append(s, rec)) = Len(s) + 1
         /\ \A i \in DOMAIN s : Append(s, rec)[i] = s[i] /\ i < Len(s) + 1
         /\ Append(s, rec)[Len(s) + 1] = rec
  OBVIOUS

LEMMA Replaced ==
  ASSUME NEW s \in Seq(JournalRecord), NEW at \in DOMAIN s, NEW rec \in JournalRecord
  PROVE  LET new == [s EXCEPT ![at] = rec]
         IN /\ new \in Seq(JournalRecord) /\ DOMAIN new = DOMAIN s /\ Len(new) = Len(s)
            /\ new[at] = rec /\ \A i \in DOMAIN s : i # at => new[i] = s[i]
<1> HIDE DEF JournalRecord
<1> QED OBVIOUS

\* What a side changes of a journal
Sided(old, new, at, side) ==
  /\ new \in Seq(JournalRecord) /\ DOMAIN new = DOMAIN old /\ Len(new) = Len(old)
  /\ \A i \in DOMAIN old :
       /\ i # at => new[i] = old[i]
       /\ new[i].by = old[i].by /\ new[i].amount = old[i].amount
       /\ new[i].decimals = old[i].decimals
       /\ new[i].sides = IF i = at THEN old[i].sides \cup {side} ELSE old[i].sides

LEMMA SideAdded ==
  ASSUME NEW s \in Seq(JournalRecord), NEW at \in DOMAIN s, NEW side \in Sides
  PROVE  Sided(s, [s EXCEPT ![at].sides = @ \cup {side}], at, side)
<1> DEFINE new == [s EXCEPT ![at].sides = @ \cup {side}]
<1>1. s[at] \in JournalRecord
  OBVIOUS
<1>2. new = [s EXCEPT ![at] = [s[at] EXCEPT !.sides = @ \cup {side}]]
  OBVIOUS
<1>3. [s[at] EXCEPT !.sides = @ \cup {side}] \in JournalRecord
  BY <1>1 DEF JournalRecord
<1> DEFINE r == [s[at] EXCEPT !.sides = @ \cup {side}]
<1>4. /\ r.by = s[at].by /\ r.amount = s[at].amount /\ r.decimals = s[at].decimals
      /\ r.sides = s[at].sides \cup {side}
  BY <1>1 DEF JournalRecord
<1>5. r \in JournalRecord
  BY <1>3
<1>6. /\ new \in Seq(JournalRecord) /\ DOMAIN new = DOMAIN s /\ Len(new) = Len(s)
      /\ new[at] = r /\ \A i \in DOMAIN s : i # at => new[i] = s[i]
  <2>1. new = [s EXCEPT ![at] = r]
    BY <1>2
  <2> HIDE DEF r, new
  <2> QED BY <1>5, <2>1, Replaced
<1> QED BY <1>4, <1>6 DEF Sided

-----------------------------------------------------------------------------
(* What a call finds of itself in the journal *)

\* The records of a call are as they were
Undisturbed(c) ==
  /\ ask' = ask /\ Posted(c)' = Posted(c)
  /\ \A i \in Posted(c) : journal'[i] = journal[i]

LEMMA NumbersKept ==
  ASSUME NEW c, Undisturbed(c)
  PROVE  Numbers(c)' = Numbers(c)
BY DEF Undisturbed, Numbers

LEMMA SameJournal ==
  ASSUME NEW c, ask' = ask, journal' = journal
  PROVE  Undisturbed(c)
BY DEF Undisturbed, Posted

\* The records of the call, after one of its own is stored
LEMMA PostedMore ==
  ASSUME CallsTypes, NEW c \in Calls, Stored(c) \in JournalRecord, ask' = ask,
         journal' = Append(journal, Stored(c))
  PROVE  /\ Posted(c)' = Posted(c) \cup {Len(journal) + 1}
         /\ Numbers(c)' = Numbers(c) \cup {next[c]}
         /\ journal'[Len(journal) + 1] = Stored(c)
         /\ \A i \in Posted(c) : journal'[i] = journal[i] /\ i < Len(journal) + 1
         /\ \A d \in Calls \ {c} : Undisturbed(d)
<1>1. journal \in Seq(JournalRecord)
  BY DEF CallsTypes
<1>2. /\ DOMAIN journal' = DOMAIN journal \cup {Len(journal) + 1}
      /\ \A i \in DOMAIN journal : journal'[i] = journal[i] /\ i < Len(journal) + 1
      /\ journal'[Len(journal) + 1] = Stored(c)
  BY <1>1, Grown
<1>3. Stored(c).by[1] = c /\ Stored(c).by[2] = next[c]
  BY DEF Stored
<1>4. Posted(c)' = Posted(c) \cup {Len(journal) + 1}
  BY <1>2, <1>3 DEF Posted
<1>5. \A i \in Posted(c) : i \in DOMAIN journal
  BY DEF Posted
<1>6. Numbers(c)' = Numbers(c) \cup {next[c]}
  BY <1>2, <1>3, <1>4, <1>5 DEF Numbers
<1>7. \A d \in Calls \ {c} : Undisturbed(d)
  BY <1>2, <1>3 DEF Posted, Undisturbed
<1> QED BY <1>2, <1>4, <1>5, <1>6, <1>7

\* The records of the call, after one of its own got a side
LEMMA PostedSided ==
  ASSUME NEW c \in Calls, NEW at \in Posted(c), NEW side, ask' = ask,
         Sided(journal, journal', at, side)
  PROVE  /\ Posted(c)' = Posted(c) /\ Numbers(c)' = Numbers(c)
         /\ \A d \in Calls \ {c} : Undisturbed(d)
<1>0. DOMAIN journal' = DOMAIN journal /\ \A i \in DOMAIN journal : journal'[i].by = journal[i].by
  BY DEF Sided
<1>1. Posted(c)' = Posted(c)
  BY <1>0 DEF Posted
<1>2. \A i \in Posted(c) : journal'[i].by = journal[i].by
  BY <1>0 DEF Posted
<1>3. Numbers(c)' = Numbers(c)
  BY <1>1, <1>2 DEF Numbers
<1>4. ASSUME NEW d \in Calls \ {c}
      PROVE  Undisturbed(d)
  <2>1. Posted(d)' = Posted(d)
    BY <1>0 DEF Posted
  <2>2. \A i \in Posted(d) : i \in DOMAIN journal /\ i # at
    BY DEF Posted
  <2> QED BY <2>1, <2>2 DEF Sided, Undisturbed
<1> QED BY <1>1, <1>3, <1>4

-----------------------------------------------------------------------------
(* A step of a call leaves the others alone *)

Only(c) ==
  /\ ask' = ask
  /\ \A d \in Calls \ {c} :
       /\ place'[d] = place[d] /\ next'[d] = next[d] /\ record'[d] = record[d]
       /\ found'[d] = found[d] /\ told'[d] = told[d] /\ read'[d] = read[d]

CallMoves(c) ==
  \/ Send(c) \/ NoToken(c) \/ Lose(c) \/ Denied(c)
  \/ ForwardEntries(c) \/ RefuseEntries(c) \/ ForwardQuery(c) \/ NothingToTell(c)
  \/ AnswerQuery(c) \/ LedgerFails(c) \/ RefuseEntry(c) \/ StoreEntry(c) \/ StoreFails(c)
  \/ Debit(c) \/ Credit(c) \/ RefuseBalance(c) \/ UpdateFails(c)
  \/ ReadAccounts(c) \/ ReadJournal(c)

LEMMA MovesOnly ==
  ASSUME CallsTypes, NEW c \in Calls, CallMoves(c)
  PROVE  Only(c)
<1> USE DEF CallsTypes, Only, Start, Answer, Throw, callVars, ledgerVars, settings
<1>1. CASE Send(c) \/ NoToken(c) \/ Lose(c) \/ Denied(c)
  BY <1>1 DEF Send, NoToken, Lose, Denied
<1>2. CASE ForwardEntries(c) \/ RefuseEntries(c) \/ ForwardQuery(c) \/ NothingToTell(c)
  BY <1>2 DEF ForwardEntries, RefuseEntries, ForwardQuery, NothingToTell
<1>3. CASE AnswerQuery(c) \/ LedgerFails(c) \/ RefuseEntry(c)
  BY <1>3 DEF AnswerQuery, LedgerFails, RefuseEntry
<1>4. CASE StoreEntry(c) \/ StoreFails(c)
  BY <1>4 DEF StoreEntry, StoreFails
<1>5. CASE Debit(c)
  BY <1>5 DEF Debit, SetBalance
<1>6. CASE Credit(c)
  BY <1>6 DEF Credit, SetBalance
<1>7. CASE RefuseBalance(c) \/ UpdateFails(c)
  BY <1>7 DEF RefuseBalance, UpdateFails, SetBalance
<1>8. CASE ReadAccounts(c) \/ ReadJournal(c)
  BY <1>8 DEF ReadAccounts, ReadJournal
<1> QED BY <1>1, <1>2, <1>3, <1>4, <1>5, <1>6, <1>7, <1>8 DEF CallMoves

LEMMA PosterKept ==
  ASSUME NEW c \in Posters, PosterInv(c), Undisturbed(c), place'[c] = place[c],
         next'[c] = next[c], record'[c] = record[c], told'[c] = told[c]
  PROVE  PosterInv(c)'
<1>1. Numbers(c)' = Numbers(c)
  BY NumbersKept
<1>2. Ordered(c)'
  BY DEF PosterInv, Ordered, Undisturbed, Whole
<1>3. Filled(c)'
  BY <1>1 DEF PosterInv, Filled, Undisturbed
<1>4. Counted(c)'
  BY DEF PosterInv, Counted, Undisturbed, Whole
<1>5. Heard(c)'
  BY <1>1 DEF PosterInv, Heard, Undisturbed, Whole
<1> QED BY <1>2, <1>3, <1>4, <1>5 DEF PosterInv

LEMMA ReaderKept ==
  ASSUME NEW c \in Calls, ReaderInv(c), ask' = ask, place'[c] = place[c],
         found'[c] = found[c], told'[c] = told[c], read'[c] = read[c]
  PROVE  ReaderInv(c)'
<1>1. Tells(c, found[c]) => Tells(c, found[c])'
  BY DEF Tells, Found, Concerns, Entry
<1>2. Tells(c, told[c].what) => Tells(c, told[c].what)'
  BY DEF Tells, Found, Concerns, Entry
<1>3. Known(c)' = Known(c)
  BY DEF Known
<1> QED BY <1>1, <1>2, <1>3 DEF ReaderInv

\* What is left to show of a step of c
LEMMA OthersKept ==
  ASSUME CallsInv, NEW c \in Calls, Only(c), \A d \in Calls \ {c} : Undisturbed(d),
         CallsTypes', RecordsGood', c \in Posters => PosterInv(c)', ReaderInv(c)'
  PROVE  CallsInv'
<1>1. Posters' = Posters
  BY DEF Only, Posters
<1>2. ASSUME NEW d \in Posters
      PROVE  PosterInv(d)'
  <2>1. CASE d = c
    BY <2>1
  <2>2. CASE d # c
    <3>1. d \in Calls \ {c}
      BY <2>2 DEF Posters
    <3> QED BY <1>2, <3>1, PosterKept DEF Only, CallsInv
  <2> QED BY <2>1, <2>2
<1>3. ASSUME NEW d \in Calls
      PROVE  ReaderInv(d)'
  <2>1. CASE d = c
    BY <2>1
  <2>2. CASE d # c
    BY <2>2, ReaderKept DEF Only, CallsInv
  <2> QED BY <2>1, <2>2
<1> QED BY <1>1, <1>2, <1>3 DEF CallsInv

-----------------------------------------------------------------------------
(* Records are good: what is stored is what Objection let through *)

LEMMA Unobjected ==
  ASSUME NEW q
  PROVE  /\ Objection(q) # "denied"
         /\ Objection(q) = "none" =>
              /\ q.currency \in DOMAIN config["ledger"]
              /\ Converts(q.amount, config["ledger"][q.currency])
              /\ {q.dr, q.cr} \subseteq Accounts
BY DEF Objection

LEMMA StoredGood ==
  ASSUME AmountsExact, CallsTypes, NEW c \in Posters, Objection(Current(c)) = "none"
  PROVE  Stored(c) \in JournalRecord /\ Good(Stored(c))
<1> DEFINE q == ask[c].entries[next[c]]
           d == config["ledger"][q.currency]
<1>1. c \in Calls /\ ask[c] \in Requests[c] /\ ask[c].kind = "entries" /\ next[c] \in DOMAIN ask[c].entries
  BY DEF CallsTypes, Posters
<1>2. config["ledger"] \in Configs
  BY DEF CallsTypes, Services
<1>3. Current(c) = q
  BY DEF Current, Entry
<1>4. /\ q.currency \in DOMAIN config["ledger"] /\ Converts(q.amount, d)
      /\ {q.dr, q.cr} \subseteq Accounts
  BY <1>3, Unobjected
<1>5. Exact(q.amount, d)
  BY <1>1, <1>2, <1>4 DEF AmountsExact
<1>6. d \in Nat
  BY <1>2, <1>4, CallsAssumption
<1>7. Stored(c) = [by |-> <<c, next[c]>>, decimals |-> d, sides |-> {},
                   amount |-> bigintToString(stringToBigint(q.amount, d), d)]
  BY <1>3 DEF Stored
<1>8. next[c] \in Nat
  BY <1>1 DEF CallsTypes
<1> HIDE DEF q, d
<1>9. Stored(c) \in JournalRecord
  <2>1. stringToBigint(q.amount, d) \in Int
    BY <1>5 DEF Exact
  <2>2. bigintToString(stringToBigint(q.amount, d), d) \in Texts
    BY <1>6, <2>1 DEF Texts
  <2> QED BY <1>1, <1>6, <1>7, <1>8, <2>2 DEF JournalRecord
<1>10. Entry(Stored(c).by) = q
  BY <1>7 DEF Entry, q
<1>11. AsAsked(Stored(c)) /\ SameAmount(Row(Stored(c)).amount, q.amount)
  BY <1>5, <1>7, <1>10 DEF AsAsked, Row, Exact
<1>12. /\ UnitsOf(Stored(c)) = Units(q.amount, Stored(c).decimals) /\ UnitsOf(Stored(c)) \in Int
       /\ Converts(Stored(c).amount, Stored(c).decimals)
  BY <1>5, <1>7, <1>10 DEF Exact, UnitsOf
<1> QED BY <1>1, <1>4, <1>7, <1>9, <1>10, <1>11, <1>12 DEF Good

\* Nothing of a record but its sides is ever written again
LEMMA GoodKept ==
  ASSUME NEW old, NEW new, ask' = ask, Good(old),
         new.by = old.by, new.amount = old.amount, new.decimals = old.decimals
  PROVE  /\ new.by[1] \in Posters' /\ new.by[2] \in DOMAIN ask'[new.by[1]].entries
         /\ SameAmount(new.amount, ask'[new.by[1]].entries[new.by[2]].amount)
         /\ SameAmount(Row(new).amount, ask'[new.by[1]].entries[new.by[2]].amount)
         /\ Converts(new.amount, new.decimals)
         /\ LET units == stringToBigint(ask'[new.by[1]].entries[new.by[2]].amount, new.decimals)
            IN /\ units = Units(ask'[new.by[1]].entries[new.by[2]].amount, new.decimals)
               /\ units \in Int
         /\ {ask'[new.by[1]].entries[new.by[2]].dr, ask'[new.by[1]].entries[new.by[2]].cr}
              \subseteq Accounts
<1>1. Posters' = Posters
  BY DEF Posters
<1>2. Row(new).amount = Row(old).amount
  BY DEF Row
<1> QED BY <1>1, <1>2 DEF Good, AsAsked, Entry, UnitsOf

LEMMA GoodStill ==
  ASSUME RecordsGood, ask' = ask,
         \A i \in DOMAIN journal' :
           \/ i \in DOMAIN journal /\ journal'[i].by = journal[i].by
                /\ journal'[i].amount = journal[i].amount
                /\ journal'[i].decimals = journal[i].decimals
           \/ Good(journal'[i])
  PROVE  RecordsGood'
<1> SUFFICES ASSUME NEW i \in DOMAIN journal'
             PROVE  Good(journal[i])'
  BY DEF RecordsGood
<1>1. PICK old : /\ Good(old) /\ journal'[i].by = old.by
                 /\ journal'[i].amount = old.amount /\ journal'[i].decimals = old.decimals
  BY DEF RecordsGood
<1> QED BY <1>1, GoodKept DEF Good, AsAsked, Row, Entry, UnitsOf

-----------------------------------------------------------------------------
(* The types *)

LEMMA TypesSame ==
  ASSUME CallsTypes, NEW c \in Calls, UNCHANGED <<ask, journal, balance, config>>,
         Only(c),
         place' \in [Calls -> Places], next' = next, record' = record,
         DOMAIN found' = Calls, DOMAIN told' = Calls, DOMAIN read' = Calls,
         troubles' \in 0..MaxTroubles
  PROVE  CallsTypes'
BY DEF CallsTypes, Posters

\* A step that leaves the journal, and the entry a call is at, alone
QuietMoves(c) ==
  \/ Send(c) \/ NoToken(c) \/ Lose(c) \/ Denied(c)
  \/ ForwardEntries(c) \/ RefuseEntries(c) \/ ForwardQuery(c) \/ NothingToTell(c)
  \/ AnswerQuery(c) \/ LedgerFails(c) \/ RefuseEntry(c) \/ RefuseBalance(c)
  \/ ReadAccounts(c) \/ ReadJournal(c)
  \/ StoreFails(c) /\ journal' = journal

LEMMA QuietTypes ==
  ASSUME CallsTypes, NEW c \in Calls, QuietMoves(c)
  PROVE  CallsTypes' /\ UNCHANGED <<ask, journal, balance, next, record>>
<1>1. troubles' \in 0..MaxTroubles /\ UNCHANGED <<ask, journal, balance, config, next, record>>
  <2> USE CallsAssumption DEF CallsTypes, Start, Answer, Throw, Trouble, callVars, ledgerVars, settings
  <2>1. CASE Send(c) \/ NoToken(c) \/ Lose(c) \/ Denied(c)
    BY <2>1 DEF Send, NoToken, Lose, Denied
  <2>2. CASE ForwardEntries(c) \/ RefuseEntries(c) \/ ForwardQuery(c) \/ NothingToTell(c)
    BY <2>2 DEF ForwardEntries, RefuseEntries, ForwardQuery, NothingToTell
  <2>3. CASE AnswerQuery(c) \/ LedgerFails(c) \/ RefuseEntry(c) \/ RefuseBalance(c)
    BY <2>3 DEF AnswerQuery, LedgerFails, RefuseEntry, RefuseBalance
  <2>4. CASE ReadAccounts(c) \/ ReadJournal(c) \/ (StoreFails(c) /\ journal' = journal)
    BY <2>4 DEF ReadAccounts, ReadJournal, StoreFails
  <2> QED BY <2>1, <2>2, <2>3, <2>4 DEF QuietMoves
<1>2. /\ place' \in [Calls -> Places]
      /\ DOMAIN found' = Calls /\ DOMAIN told' = Calls /\ DOMAIN read' = Calls
  <2> USE DEF CallsTypes, Start, Answer, Throw, callVars, Places
  <2>1. CASE Send(c) \/ NoToken(c) \/ Lose(c) \/ Denied(c)
    BY <2>1 DEF Send, NoToken, Lose, Denied
  <2>2. CASE ForwardEntries(c) \/ RefuseEntries(c) \/ ForwardQuery(c) \/ NothingToTell(c)
    BY <2>2 DEF ForwardEntries, RefuseEntries, ForwardQuery, NothingToTell
  <2>3. CASE AnswerQuery(c) \/ LedgerFails(c) \/ RefuseEntry(c) \/ RefuseBalance(c)
    BY <2>3 DEF AnswerQuery, LedgerFails, RefuseEntry, RefuseBalance
  <2>4. CASE ReadAccounts(c) \/ ReadJournal(c) \/ (StoreFails(c) /\ journal' = journal)
    BY <2>4 DEF ReadAccounts, ReadJournal, StoreFails
  <2> QED BY <2>1, <2>2, <2>3, <2>4 DEF QuietMoves
<1>3. Only(c)
  BY MovesOnly DEF QuietMoves, CallMoves
<1> QED BY <1>1, <1>2, <1>3, TypesSame

-----------------------------------------------------------------------------
(* Steps that leave the journal alone *)

\* The call is over, and its client hears of an error unless it gave up before
EndsBadly(c) ==
  /\ place[c] # "over" /\ place'[c] = "over"
  /\ \/ told'[c] = told[c]
     \/ told'[c].code = "UNKNOWN"
     \/ told'[c].code = "DENIED" /\ place[c] \in {"idle", "chart"}

LEMMA BadAnswer ==
  ASSUME CallsTypes, NEW c \in Calls, NEW why, place[c] # "over", Answer(c, Error(why)),
         why = "denied" => place[c] \in {"idle", "chart"}
  PROVE  EndsBadly(c)
BY DEF CallsTypes, Answer, Error, EndsBadly

LEMMA QuietEnds ==
  ASSUME CallsTypes, NEW c \in Calls,
         \/ NoToken(c) \/ Denied(c) \/ RefuseEntries(c)
         \/ LedgerFails(c) \/ RefuseEntry(c) \/ StoreFails(c) \/ RefuseBalance(c)
  PROVE  EndsBadly(c)
<1>1. CASE NoToken(c) \/ Denied(c)
  BY <1>1, BadAnswer DEF NoToken, Denied
<1>2. CASE RefuseEntries(c)
  BY <1>2, BadAnswer DEF RefuseEntries
<1>3. CASE LedgerFails(c)
  BY <1>3, BadAnswer DEF LedgerFails, Throw
<1>4. CASE RefuseEntry(c)
  BY <1>4, BadAnswer, Unobjected DEF RefuseEntry, Throw
<1>5. CASE RefuseBalance(c)
  BY <1>5, BadAnswer DEF RefuseBalance, Updating, Throw
<1>6. CASE StoreFails(c)
  BY <1>6, BadAnswer DEF StoreFails, Throw
<1> QED BY <1>1, <1>2, <1>3, <1>4, <1>5, <1>6

LEMMA QuietPoster ==
  ASSUME CallsInv, NEW c \in Posters, QuietMoves(c)
  PROVE  PosterInv(c)'
<1>1. /\ c \in Calls /\ ask[c].kind = "entries" /\ CallsTypes /\ PosterInv(c)
      /\ next[c] \in DOMAIN ask[c].entries
  BY DEF CallsInv, CallsTypes, Posters
<1>2. UNCHANGED <<ask, journal, next, record>>
  BY <1>1, QuietTypes
<1>3. Undisturbed(c) /\ Numbers(c)' = Numbers(c)
  BY <1>2, SameJournal, NumbersKept
<1>4. Ordered(c)'
  BY <1>1, <1>3 DEF PosterInv, Ordered, Undisturbed, Whole
<1>5. place[c] # "over" => told[c].code \notin {"OK", "DENIED"}
  BY <1>1 DEF PosterInv, Heard
<1>6. CASE EndsBadly(c)
  <2>1. Filled(c)' /\ Counted(c)'
    BY <1>1, <1>2, <1>3, <1>6 DEF EndsBadly, PosterInv, Filled, Counted
  <2>2. told'[c].code = "DENIED" => Numbers(c)' = {}
    BY <1>1, <1>3, <1>5, <1>6 DEF EndsBadly, PosterInv, Filled
  <2>3. told'[c].code # "OK"
    BY <1>5, <1>6 DEF EndsBadly
  <2> QED BY <1>4, <1>6, <2>1, <2>2, <2>3 DEF PosterInv, Heard, EndsBadly
<1>7. CASE Send(c) \/ ForwardEntries(c)
  <2>1. /\ told' = told
        /\ \/ place[c] = "idle" /\ place'[c] = "chart"
           \/ place[c] = "chart" /\ place'[c] = "ledger"
    BY <1>1, <1>7 DEF Send, ForwardEntries, Start, CallsTypes
  <2>2. Posted(c) = {}
    BY <1>1, <2>1 DEF PosterInv, Filled, Numbers
  <2>3. Filled(c)' /\ Counted(c)'
    BY <1>1, <1>2, <1>3, <2>1, <2>2 DEF PosterInv, Filled, Counted, Undisturbed
  <2> QED BY <1>4, <1>5, <2>1, <2>3 DEF PosterInv, Heard
<1>8. CASE Lose(c)
  <2>1. place' = place /\ told'[c].code = "UNKNOWN"
    BY <1>1, <1>8 DEF Lose, CallsTypes, Error
  <2>2. Filled(c)' /\ Counted(c)'
    BY <1>1, <1>2, <1>3, <2>1 DEF PosterInv, Filled, Counted, Undisturbed
  <2> QED BY <1>4, <2>1, <2>2 DEF PosterInv, Heard
<1>9. ~(ForwardQuery(c) \/ NothingToTell(c) \/ AnswerQuery(c) \/ ReadAccounts(c) \/ ReadJournal(c))
  BY <1>1 DEF ForwardQuery, NothingToTell, AnswerQuery, ReadAccounts, ReadJournal, PosterInv, Filled
<1> QED BY <1>1, <1>6, <1>7, <1>8, <1>9, QuietEnds DEF QuietMoves

\* The rows the ledger makes of its journal tell it
LEMMA RowsTell ==
  ASSUME CallsInv, NEW c \in Calls, ReadJournal(c)
  PROVE  Tells(c, found[c])'
<1>1. /\ ask' = ask /\ read'[c] = journal
      /\ found'[c] = [i \in Found(c, journal) |-> Row(journal[i])]
  BY DEF ReadJournal, CallsInv, CallsTypes, settings
<1>2. Found(c, read[c])' = Found(c, journal)
  BY <1>1 DEF Found, Concerns, Entry
<1>3. ASSUME NEW i \in Found(c, journal)
      PROVE  /\ found'[c][i].by = journal[i].by
             /\ SameAmount(found'[c][i].amount, Entry(journal[i].by).amount)
  <2>1. i \in DOMAIN journal
    BY DEF Found
  <2>2. Good(journal[i])
    BY <2>1 DEF CallsInv, RecordsGood
  <2>3. found'[c][i] = Row(journal[i])
    BY <1>1
  <2> QED BY <2>2, <2>3 DEF Good, Row
<1> QED BY <1>1, <1>2, <1>3 DEF Tells, Entry

LEMMA QuietReader ==
  ASSUME CallsInv, NEW c \in Calls, QuietMoves(c)
  PROVE  ReaderInv(c)'
<1>1. CallsTypes /\ ReaderInv(c)
  BY DEF CallsInv
<1>2. ask' = ask /\ Known(c)' = Known(c)
  BY <1>1, QuietTypes DEF Known
<1>3. CASE EndsBadly(c)
  BY <1>1, <1>2, <1>3 DEF EndsBadly, ReaderInv
<1>4. CASE Send(c) \/ ForwardEntries(c) \/ ForwardQuery(c)
  <2>1. told' = told /\ place[c] # "over" /\ place'[c] \in {"chart", "ledger"}
    BY <1>1, <1>4 DEF Send, ForwardEntries, ForwardQuery, Start, CallsTypes
  <2> QED BY <1>1, <1>2, <2>1 DEF ReaderInv
<1>5. CASE Lose(c)
  <2>1. place' = place /\ found' = found /\ read' = read /\ told'[c].code = "UNKNOWN"
    BY <1>1, <1>5 DEF Lose, CallsTypes, Error
  <2>2. Tells(c, found[c]) => Tells(c, found[c])'
    BY <1>2, <2>1 DEF Tells, Found, Concerns, Entry
  <2> QED BY <1>1, <1>2, <2>1, <2>2 DEF ReaderInv
<1>6. CASE NothingToTell(c)
  <2>1. place'[c] = "over" /\ Known(c) = {}
    BY <1>1, <1>6 DEF NothingToTell, Answer, CallsTypes
  <2> QED BY <1>2, <2>1 DEF ReaderInv
<1>7. CASE AnswerQuery(c)
  <2>1. /\ place[c] = "back" /\ place'[c] = "over" /\ read' = read
        /\ ask[c].kind = "journal" => told'[c] = IF told[c] = Untold THEN OK(found[c]) ELSE told[c]
    BY <1>1, <1>7 DEF AnswerQuery, Answer, CallsTypes
  <2>2. ask[c].kind = "journal" /\ told'[c].code = "OK" => told'[c].what = found[c]
    <3>1. OK(found[c]).what = found[c]
      BY DEF OK
    <3>2. ask[c].kind = "journal" => told[c].code # "OK"
      BY <1>1, <2>1 DEF ReaderInv
    <3> QED BY <2>1, <3>1, <3>2
  <2>3. ask[c].kind = "journal" /\ told'[c].code = "OK" => Tells(c, told[c].what)'
    <3>1. ask[c].kind = "journal" => Tells(c, found[c])
      BY <1>1, <2>1 DEF ReaderInv
    <3>2. Found(c, read[c])' = Found(c, read[c])
      BY <1>2, <2>1 DEF Found, Concerns, Entry
    <3> QED BY <1>2, <2>1, <2>2, <3>1, <3>2 DEF Tells, Entry
  <2> QED BY <1>2, <2>1, <2>3 DEF ReaderInv
<1>8. CASE ReadAccounts(c) \/ ReadJournal(c)
  <2>1. place[c] = "ledger" /\ place'[c] = "back" /\ told' = told
    BY <1>1, <1>8 DEF ReadAccounts, ReadJournal, CallsTypes
  <2>2. ask[c].kind = "journal" => Tells(c, found[c])'
    BY <1>8, RowsTell DEF ReadAccounts
  <2> QED BY <1>1, <1>2, <2>1, <2>2 DEF ReaderInv
<1> QED BY <1>1, <1>3, <1>4, <1>5, <1>6, <1>7, <1>8, QuietEnds DEF QuietMoves

LEMMA QuietInv ==
  ASSUME CallsInv, NEW c \in Calls, QuietMoves(c)
  PROVE  CallsInv'
<1>1. CallsTypes' /\ ask' = ask /\ journal' = journal
  BY QuietTypes DEF CallsInv
<1>2. Only(c)
  BY MovesOnly DEF QuietMoves, CallMoves, CallsInv
<1>3. \A d \in Calls : Undisturbed(d)
  BY <1>1, SameJournal
<1>4. RecordsGood'
  BY <1>1, GoodStill DEF CallsInv
<1> QED BY <1>1, <1>2, <1>3, <1>4, QuietPoster, QuietReader, OthersKept

-----------------------------------------------------------------------------
(* An entry is stored *)

Adds(c) == (StoreEntry(c) \/ StoreFails(c)) /\ journal' = Append(journal, Stored(c))

\* Entries are numbered from 1
LEMMA EntriesNumbered ==
  ASSUME CallsTypes, NEW c \in Posters
  PROVE  /\ Len(ask[c].entries) \in Nat \ {0}
         /\ DOMAIN ask[c].entries = 1..Len(ask[c].entries)
<1> DEFINE entries == ask[c].entries
           S == {entries[i] : i \in DOMAIN entries}
<1>1. entries \in Seq(S) /\ entries # <<>>
  BY CallsAssumption DEF CallsTypes, Posters
<1> HIDE DEF S, entries
<1>2. Len(entries) \in Nat \ {0} /\ DOMAIN entries = 1..Len(entries)
  BY <1>1
<1> QED BY <1>2 DEF entries

LEMMA AddsTypes ==
  ASSUME AmountsExact, CallsTypes, NEW c \in Calls, Adds(c)
  PROVE  /\ c \in Posters /\ place[c] = "ledger" /\ next' = next /\ ask' = ask
         /\ Stored(c) \in JournalRecord /\ Good(Stored(c))
         /\ CallsTypes'
<1>1. /\ c \in Posters /\ place[c] = "ledger" /\ Objection(Current(c)) = "none"
      /\ UNCHANGED <<ask, next, balance, config, found, read>>
  BY DEF Adds, StoreEntry, StoreFails, Throw, settings
<1>2. Stored(c) \in JournalRecord /\ Good(Stored(c))
  BY <1>1, StoredGood
<1>3. journal' \in Seq(JournalRecord) /\ Len(journal') = Len(journal) + 1
  BY <1>2, Grown DEF Adds, CallsTypes
<1>4. /\ place' \in [Calls -> Places] /\ DOMAIN told' = Calls /\ troubles' \in 0..MaxTroubles
  <2>1. CASE StoreEntry(c)
    BY <2>1 DEF StoreEntry, CallsTypes, Places
  <2>2. CASE StoreFails(c)
    BY <2>2, CallsAssumption DEF StoreFails, Throw, Answer, Trouble, CallsTypes, Places
  <2> QED BY <2>1, <2>2 DEF Adds
<1>5. record' = record \/ record' = [record EXCEPT ![c] = Len(journal')]
  BY DEF Adds, StoreEntry, StoreFails
<1>6. Len(journal) \in Nat
  BY DEF CallsTypes
<1>7. record' \in [Calls -> Nat] /\ \A d \in Posters : record'[d] <= Len(journal')
  <2> DEFINE l == Len(journal')
  <2>1. l \in Nat /\ Len(journal) <= l
    BY <1>3, <1>6
  <2>2. record \in [Calls -> Nat] /\ \A d \in Posters : d \in Calls /\ record[d] <= Len(journal)
    BY DEF CallsTypes, Posters
  <2> HIDE DEF l
  <2>3. record' = record \/ record' = [record EXCEPT ![c] = l]
    BY <1>5 DEF l
  <2>4. record' \in [Calls -> Nat] /\ \A d \in Posters : record'[d] <= l
    BY <1>6, <2>1, <2>2, <2>3
  <2> QED BY <2>4 DEF l
<1>8. CallsTypes'
  BY <1>1, <1>3, <1>4, <1>7 DEF CallsTypes, Posters
<1> QED BY <1>1, <1>2, <1>8

LEMMA AddsPoster ==
  ASSUME AmountsExact, CallsInv, NEW c \in Calls, Adds(c)
  PROVE  PosterInv(c)'
<1>1. /\ c \in Posters /\ place[c] = "ledger" /\ next' = next /\ ask' = ask
      /\ Stored(c) \in JournalRecord /\ CallsTypes
  BY AddsTypes DEF CallsInv
<1>2. PosterInv(c) /\ next[c] \in DOMAIN ask[c].entries
  BY <1>1 DEF CallsInv, CallsTypes
<1> DEFINE l == Len(journal) + 1
<1>3. /\ Posted(c)' = Posted(c) \cup {l} /\ Numbers(c)' = Numbers(c) \cup {next[c]}
      /\ journal'[l] = Stored(c)
      /\ \A i \in Posted(c) : journal'[i] = journal[i] /\ i < l
  BY <1>1, PostedMore DEF Adds
<1>4. Numbers(c) = 1..(next[c] - 1) /\ \A i \in Posted(c) : Whole(journal[i])
  BY <1>1, <1>2 DEF PosterInv, Filled, Counted
<1>5. /\ next[c] \in 1..Len(ask[c].entries) /\ Len(ask[c].entries) \in Nat
  BY <1>1, <1>2, EntriesNumbered
<1>6. Stored(c).by[2] = next[c] /\ Stored(c).sides = {}
  BY DEF Stored
<1>7. l \in Nat /\ \A i \in Posted(c) : i \in Nat
  BY <1>1 DEF CallsTypes, Posted
<1> HIDE DEF l
<1>8. Ordered(c)'
  <2> SUFFICES ASSUME NEW i \in Posted(c)', NEW j \in Posted(c)', i < j
               PROVE  journal'[i].by[2] < journal'[j].by[2] /\ Whole(journal'[i])
    BY DEF Ordered, Whole
  <2>1. i \in Posted(c)
    BY <1>3, <1>7
  <2>2. CASE j = l
    <3>1. journal[i].by[2] \in Numbers(c)
      BY <2>1 DEF Numbers
    <3> QED BY <1>3, <1>4, <1>5, <1>6, <2>1, <2>2, <3>1
  <2>3. CASE j # l
    BY <1>2, <1>3, <2>1, <2>3 DEF PosterInv, Ordered
  <2> QED BY <2>2, <2>3
<1>9. Numbers(c)' = 1..next[c]
  BY <1>3, <1>4, <1>5
<1>10. told[c].code \notin {"OK", "DENIED"}
  BY <1>1, <1>2 DEF PosterInv, Heard
<1>11. CASE StoreEntry(c)
  <2>1. /\ place'[c] = "stored" /\ record'[c] = l /\ told' = told
    <3>1. Len(journal') = l
      BY <1>1, Grown DEF Adds, CallsTypes, l
    <3> QED BY <1>1, <1>11, <3>1 DEF StoreEntry, CallsTypes
  <2>2. Filled(c)'
    BY <1>1, <1>5, <1>9, <2>1 DEF Filled
  <2>3. Counted(c)'
    BY <1>1, <1>3, <1>4, <1>6, <2>1 DEF Counted, Whole
  <2> QED BY <1>8, <1>10, <2>1, <2>2, <2>3 DEF PosterInv, Heard
<1>12. CASE StoreFails(c)
  <2>1. EndsBadly(c)
    BY <1>1, <1>12, QuietEnds
  <2>2. Filled(c)' /\ Counted(c)'
    BY <1>1, <1>5, <1>9, <2>1 DEF Filled, Counted, EndsBadly
  <2> QED BY <1>1, <1>8, <1>10, <2>1, <2>2 DEF PosterInv, Heard, EndsBadly
<1> QED BY <1>11, <1>12 DEF Adds

\* What moves a poster moves no reader
LEMMA PosterReads ==
  ASSUME NEW c \in Posters, ask' = ask
  PROVE  ReaderInv(c)'
BY DEF Posters, ReaderInv

LEMMA AddsInv ==
  ASSUME AmountsExact, CallsInv, NEW c \in Calls, Adds(c)
  PROVE  CallsInv'
<1>1. /\ c \in Posters /\ ask' = ask /\ CallsTypes /\ CallsTypes'
      /\ Stored(c) \in JournalRecord /\ Good(Stored(c))
  BY AddsTypes DEF CallsInv
<1>2. \A d \in Calls \ {c} : Undisturbed(d)
  BY <1>1, PostedMore DEF Adds
<1>3. RecordsGood'
  <2>1. /\ DOMAIN journal' = DOMAIN journal \cup {Len(journal) + 1}
        /\ \A i \in DOMAIN journal : journal'[i] = journal[i]
        /\ journal'[Len(journal) + 1] = Stored(c)
    BY <1>1, Grown DEF Adds, CallsTypes
  <2> QED BY <1>1, <2>1, GoodStill DEF CallsInv
<1>4. Only(c)
  BY <1>1, MovesOnly DEF Adds, CallMoves
<1> QED BY <1>1, <1>2, <1>3, <1>4, AddsPoster, PosterReads, OthersKept

-----------------------------------------------------------------------------
(* A balance counts an entry *)

LEMMA SideSet ==
  ASSUME CallsInv, NEW c \in Calls, NEW side \in Sides, ask' = ask,
         Updating(c, side), Counts(c, side), SetBalance(c, side)
  PROVE  /\ c \in Posters /\ record[c] \in Posted(c)
         /\ Sided(journal, journal', record[c], side)
         /\ balance' \in [Accounts -> [Sides -> Nat]]
         /\ RecordsGood'
<1>1. /\ CallsTypes /\ c \in Posters /\ place[c] \in {"stored", "debited"}
      /\ place[c] = "stored" <=> side = "dr"
  BY DEF CallsInv, Updating, ReaderInv, Posters, Sides
<1>2. /\ record[c] \in Posted(c) /\ record[c] \in DOMAIN journal
      /\ journal[record[c]].by[1] = c /\ journal[record[c]].by[2] = next[c]
  BY <1>1 DEF CallsInv, PosterInv, Counted, Posted
<1>3. Sided(journal, journal', record[c], side)
  BY <1>1, <1>2, SideAdded DEF SetBalance, CallsTypes
<1>4. RecordsGood'
  BY <1>3, GoodStill DEF CallsInv, Sided
<1>5. Good(journal[record[c]])
  BY <1>2 DEF CallsInv, RecordsGood
<1>6. Entry(journal[record[c]].by) = Current(c)
  BY <1>2 DEF Entry, Current
<1>7. Amount(c) \in Int /\ Subject(c, side) \in Accounts
  BY <1>5, <1>6 DEF Good, UnitsOf, Amount, Subject
<1>8. After(c, side) \in Nat
  <2>1. balance[Subject(c, side)][side] \in Nat
    BY <1>1, <1>7 DEF CallsTypes
  <2> QED BY <1>7, <2>1 DEF Counts, After
<1>9. balance' \in [Accounts -> [Sides -> Nat]]
  BY <1>1, <1>7, <1>8 DEF SetBalance, CallsTypes
<1> QED BY <1>1, <1>2, <1>3, <1>4, <1>9

Moves(c, side) ==
  \/ side = "dr" /\ Debit(c)
  \/ side = "cr" /\ Credit(c)
  \/ /\ Updating(c, side) /\ Counts(c, side) /\ Trouble /\ SetBalance(c, side)
     /\ Throw(c, "repo")
     /\ UNCHANGED <<record, found, read, settings>>

LEMMA MovesSide ==
  ASSUME CallsInv, NEW c \in Calls, NEW side \in Sides, Moves(c, side)
  PROVE  /\ c \in Posters /\ record[c] \in Posted(c) /\ UNCHANGED <<ask, record>>
         /\ Sided(journal, journal', record[c], side)
         /\ balance' \in [Accounts -> [Sides -> Nat]]
         /\ RecordsGood' /\ Only(c) /\ Updating(c, side)
<1>1. /\ UNCHANGED <<ask, record>>
      /\ Updating(c, side) /\ Counts(c, side) /\ SetBalance(c, side)
  BY DEF Moves, Debit, Credit, settings
<1>2. Debit(c) \/ Credit(c) \/ UpdateFails(c)
  BY DEF Moves, UpdateFails, Sides
<1>3. Only(c)
  BY <1>2, MovesOnly DEF CallMoves, CallsInv
<1> QED BY <1>1, <1>3, SideSet

LEMMA MovesTypes ==
  ASSUME CallsInv, NEW c \in Calls, NEW side \in Sides, Moves(c, side)
  PROVE  CallsTypes'
<1>1. /\ CallsTypes /\ c \in Posters /\ UNCHANGED <<ask, record>>
      /\ journal' \in Seq(JournalRecord) /\ Len(journal') = Len(journal)
      /\ balance' \in [Accounts -> [Sides -> Nat]]
  BY MovesSide DEF Sided, CallsInv
<1>2. /\ DOMAIN found' = Calls /\ DOMAIN told' = Calls /\ DOMAIN read' = Calls
      /\ place' \in [Calls -> Places] /\ config' = config
  BY <1>1 DEF Moves, Debit, Credit, Throw, Answer, settings, CallsTypes, Places
<1>3. troubles' \in 0..MaxTroubles
  BY <1>1, CallsAssumption DEF Moves, Debit, Credit, Trouble, CallsTypes
<1>4. \/ next' = next
      \/ next' = [next EXCEPT ![c] = @ + 1] /\ next[c] < Len(ask[c].entries)
  BY DEF Moves, Debit, Credit, Throw
<1>5. /\ next[c] \in 1..Len(ask[c].entries) /\ Len(ask[c].entries) \in Nat
      /\ DOMAIN ask[c].entries = 1..Len(ask[c].entries) /\ next[c] \in DOMAIN ask[c].entries
  BY <1>1, EntriesNumbered DEF CallsTypes
<1>6. next' \in [Calls -> Nat] /\ \A d \in Posters : next'[d] \in DOMAIN ask[d].entries
  <2>1. next \in [Calls -> Nat] /\ \A d \in Posters : d \in Calls /\ next[d] \in DOMAIN ask[d].entries
    BY <1>1 DEF CallsTypes, Posters
  <2>2. next[c] < Len(ask[c].entries) => next[c] + 1 \in DOMAIN ask[c].entries
    BY <1>5
  <2>3. CASE next' = next
    BY <2>1, <2>3
  <2>4. CASE next' = [next EXCEPT ![c] = @ + 1] /\ next[c] < Len(ask[c].entries)
    <3>1. next' \in [Calls -> Nat] /\ next'[c] = next[c] + 1
      BY <2>1, <2>4
    <3>2. \A d \in Calls : d # c => next'[d] = next[d]
      BY <2>1, <2>4
    <3> QED BY <2>1, <2>2, <2>4, <3>1, <3>2
  <2> QED BY <1>4, <2>3, <2>4
<1> QED BY <1>1, <1>2, <1>3, <1>6 DEF CallsTypes, Posters

LEMMA MovesPoster ==
  ASSUME CallsInv, NEW c \in Calls, NEW side \in Sides, Moves(c, side)
  PROVE  PosterInv(c)'
<1>1. /\ CallsTypes /\ c \in Posters /\ PosterInv(c) /\ UNCHANGED <<ask, record>>
      /\ record[c] \in Posted(c) /\ Sided(journal, journal', record[c], side)
      /\ Updating(c, side)
  BY MovesSide DEF CallsInv
<1>2. Posted(c)' = Posted(c) /\ Numbers(c)' = Numbers(c)
  BY <1>1, PostedSided
<1>3. \A i \in Posted(c) :
        /\ journal'[i].by = journal[i].by
        /\ journal'[i].sides = IF i = record[c] THEN journal[i].sides \cup {side}
                               ELSE journal[i].sides
  BY <1>1 DEF Sided, Posted
<1>4. \A i \in Posted(c) : Whole(journal[i]) => Whole(journal'[i])
  BY <1>3 DEF Whole, Sides
<1>5. Ordered(c)'
  BY <1>1, <1>2, <1>3, <1>4 DEF PosterInv, Ordered, Whole
<1>6. /\ place[c] = IF side = "dr" THEN "stored" ELSE "debited"
      /\ Numbers(c) = 1..next[c] /\ told[c].code \notin {"OK", "DENIED"}
      /\ journal[record[c]].by[2] = next[c]
      /\ journal[record[c]].sides = IF side = "dr" THEN {} ELSE {"dr"}
      /\ \A i \in Posted(c) \ {record[c]} : Whole(journal[i])
  BY <1>1 DEF Updating, PosterInv, Filled, Counted, Heard, Sides
<1>7. /\ next[c] \in 1..Len(ask[c].entries) /\ Len(ask[c].entries) \in Nat
      /\ DOMAIN ask[c].entries = 1..Len(ask[c].entries)
  BY <1>1, EntriesNumbered DEF CallsTypes
<1>8. \E n \in 0..Len(ask[c].entries) : Numbers(c)' = 1..n
  BY <1>2, <1>6, <1>7
<1>9. CASE side = "dr" /\ Debit(c)
  <2>1. place'[c] = "debited" /\ next' = next /\ told' = told
    BY <1>1, <1>9 DEF Debit, CallsTypes
  <2>2. Filled(c)'
    BY <1>1, <1>2, <1>6, <1>8, <2>1 DEF Filled
  <2>3. Counted(c)'
    BY <1>1, <1>2, <1>3, <1>4, <1>6, <1>9, <2>1 DEF Counted, Whole
  <2> QED BY <1>5, <1>6, <2>1, <2>2, <2>3 DEF PosterInv, Heard
<1>10. CASE side = "cr" /\ Credit(c)
  <2>1. \A i \in Posted(c)' : Whole(journal'[i])
    BY <1>2, <1>3, <1>4, <1>6, <1>10 DEF Whole
  <2>2. CASE next[c] < Len(ask[c].entries)
    <3>1. place'[c] = "ledger" /\ next'[c] = next[c] + 1 /\ told' = told
      BY <1>1, <1>10, <2>2 DEF Credit, CallsTypes
    <3>2. Numbers(c)' = 1..(next'[c] - 1)
      BY <1>2, <1>6, <1>7, <3>1
    <3>3. Filled(c)' /\ Counted(c)'
      BY <1>1, <1>8, <2>1, <3>1, <3>2 DEF Filled, Counted, Whole
    <3> QED BY <1>5, <1>6, <3>1, <3>3 DEF PosterInv, Heard
  <2>3. CASE ~(next[c] < Len(ask[c].entries))
    <3>1. /\ place'[c] = "over" /\ next' = next
          /\ told'[c] = told[c] \/ told'[c] = OK(<<>>)
      BY <1>1, <1>10, <2>3 DEF Credit, Answer, CallsTypes
    <3>2. Numbers(c)' = DOMAIN ask[c].entries
      BY <1>2, <1>6, <1>7, <2>3
    <3>3. told'[c].code # "DENIED"
      <4>1. OK(<<>>).code = "OK"
        BY DEF OK
      <4> QED BY <1>6, <3>1, <4>1
    <3>4. Filled(c)' /\ Counted(c)'
      BY <1>1, <1>8, <3>1 DEF Filled, Counted
    <3> QED BY <1>1, <1>5, <2>1, <3>1, <3>2, <3>3, <3>4 DEF PosterInv, Heard, Whole
  <2> QED BY <2>2, <2>3
<1>11. CASE Throw(c, "repo")
  <2>1. EndsBadly(c)
    BY <1>1, <1>6, <1>11, BadAnswer DEF Throw
  <2>2. Filled(c)' /\ Counted(c)'
    BY <1>1, <1>8, <2>1 DEF Filled, Counted, EndsBadly
  <2> QED BY <1>5, <1>6, <2>1, <2>2 DEF PosterInv, Heard, EndsBadly
<1> QED BY <1>9, <1>10, <1>11 DEF Moves

LEMMA MovesInv ==
  ASSUME CallsInv, NEW c \in Calls, NEW side \in Sides, Moves(c, side)
  PROVE  CallsInv'
<1>1. /\ c \in Posters /\ record[c] \in Posted(c) /\ ask' = ask
      /\ Sided(journal, journal', record[c], side) /\ RecordsGood' /\ Only(c)
  BY MovesSide
<1>2. \A d \in Calls \ {c} : Undisturbed(d)
  BY <1>1, PostedSided
<1> QED BY <1>1, <1>2, MovesTypes, MovesPoster, PosterReads, OthersKept

-----------------------------------------------------------------------------
(* The invariant *)

LEMMA ReloadInv ==
  ASSUME CallsInv, NEW service \in Services, Reload(service)
  PROVE  CallsInv'
<1>1. /\ UNCHANGED <<ask, place, next, record, found, told, read, journal, balance>>
      /\ config' \in [Services -> Configs] /\ troubles' \in 0..MaxTroubles
  BY CallsAssumption DEF CallsInv, CallsTypes, Reload, Trouble, callVars, ledgerVars
<1>2. CallsTypes' /\ Posters' = Posters
  BY <1>1 DEF CallsInv, CallsTypes, Posters
<1>3. RecordsGood'
  BY <1>1, GoodStill DEF CallsInv
<1>4. ASSUME NEW d \in Posters
      PROVE  PosterInv(d)'
  BY <1>1, PosterKept, SameJournal DEF CallsInv
<1>5. \A d \in Calls : ReaderInv(d)'
  BY <1>1, ReaderKept DEF CallsInv
<1> QED BY <1>2, <1>3, <1>4, <1>5 DEF CallsInv

LEMMA InitInv ==
  ASSUME CallsInit
  PROVE  CallsInv
<1>1. CallsTypes
  <2>1. /\ DOMAIN ask = Calls /\ \A c \in Calls : ask[c] \in Requests[c]
        /\ place \in [Calls -> Places] /\ next \in [Calls -> Nat] /\ record \in [Calls -> Nat]
        /\ DOMAIN found = Calls /\ DOMAIN told = Calls /\ DOMAIN read = Calls
        /\ config \in [Services -> Configs] /\ troubles \in 0..MaxTroubles
    BY CallsAssumption DEF CallsInit, Places
  <2>2. journal \in Seq(JournalRecord) /\ Len(journal) = 0
    BY DEF CallsInit
  <2>3. balance \in [Accounts -> [Sides -> Nat]]
    BY DEF CallsInit, Sides
  <2>4. \A c \in Posters : c \in Calls /\ next[c] = 1 /\ record[c] = 0
    BY DEF CallsInit, Posters
  <2>5. \A c \in Posters : 1 \in DOMAIN ask[c].entries
    <3> SUFFICES ASSUME NEW c \in Posters PROVE 1 \in DOMAIN ask[c].entries
      OBVIOUS
    <3> DEFINE entries == ask[c].entries
               S == {entries[i] : i \in DOMAIN entries}
    <3>1. entries \in Seq(S) /\ entries # <<>>
      BY <2>1, CallsAssumption DEF Posters
    <3> HIDE DEF S, entries
    <3>2. 1 \in DOMAIN entries
      BY <3>1
    <3> QED BY <3>2 DEF entries
  <2> QED BY <2>1, <2>2, <2>3, <2>4, <2>5 DEF CallsTypes
<1>2. /\ DOMAIN journal = {}
      /\ \A c \in Calls :
           /\ place[c] = "idle" /\ next[c] = 1 /\ told[c].code = "none"
           /\ Posted(c) = {} /\ Numbers(c) = {}
  <2>1. DOMAIN journal = {}
    BY DEF CallsInit
  <2>2. Untold.code = "none"
    BY DEF Untold
  <2>3. \A c \in Calls : Posted(c) = {} /\ Numbers(c) = {}
    BY <2>1 DEF Posted, Numbers
  <2> QED BY <2>1, <2>2, <2>3 DEF CallsInit
<1>3. RecordsGood
  BY <1>2 DEF RecordsGood
<1>4. ASSUME NEW c \in Posters
      PROVE  PosterInv(c)
  <2>1. c \in Calls /\ Len(ask[c].entries) \in Nat
    BY <1>1, EntriesNumbered DEF Posters
  <2>2. Filled(c)
    <3>1. 0 \in 0..Len(ask[c].entries) /\ 1..0 = {}
      BY <2>1
    <3> QED BY <1>2, <2>1, <3>1 DEF Filled
  <2> QED BY <1>2, <2>1, <2>2 DEF PosterInv, Ordered, Counted, Heard
<1>5. \A c \in Calls : ReaderInv(c)
  BY <1>2 DEF ReaderInv
<1> QED BY <1>1, <1>3, <1>4, <1>5 DEF CallsInv

LEMMA StepInv ==
  ASSUME AmountsExact, CallsInv, [CallsNext]_vars
  PROVE  CallsInv'
<1>1. ASSUME NEW c \in Calls, CallMoves(c)
      PROVE  CallsInv'
  <2>1. CASE QuietMoves(c)
    BY <2>1, QuietInv
  <2>2. CASE Adds(c)
    BY <2>2, AddsInv
  <2>3. CASE Debit(c) \/ Credit(c) \/ UpdateFails(c)
    <3>1. PICK side \in Sides : Moves(c, side)
      BY <2>3 DEF Moves, UpdateFails, Sides
    <3> QED BY <3>1, MovesInv
  <2>4. CASE StoreEntry(c) \/ StoreFails(c)
    BY <2>1, <2>2, <2>4 DEF StoreEntry, StoreFails, Adds, QuietMoves
  <2> QED BY <1>1, <2>1, <2>3, <2>4 DEF CallMoves, QuietMoves
<1>2. CASE UNCHANGED vars
  <2>1. UNCHANGED <<ask, place, next, record, found, told, read, journal, balance, config, troubles>>
    BY <1>2 DEF vars, callVars, ledgerVars, settings
  <2>2. CallsTypes' /\ Posters' = Posters
    BY <2>1 DEF CallsInv, CallsTypes, Posters
  <2>3. RecordsGood'
    BY <2>1, GoodStill DEF CallsInv
  <2>4. ASSUME NEW d \in Posters
        PROVE  PosterInv(d)'
    BY <2>1, PosterKept, SameJournal DEF CallsInv
  <2>5. \A d \in Calls : ReaderInv(d)'
    BY <2>1, ReaderKept DEF CallsInv
  <2> QED BY <2>2, <2>3, <2>4, <2>5 DEF CallsInv
<1> QED BY <1>1, <1>2, ReloadInv DEF CallsNext, CallMoves

\* The invariant of any number of calls: what the journal has of a call, and what
\* the balances count of it, is what the place of the call and its answer say.
THEOREM CallsInvariant ==
  ASSUME PowersLaw, AmountsSmall
  PROVE  CallsSpec => []CallsInv
<1>1. CallsInit => CallsInv
  BY InitInv
<1>2. CallsInv /\ [CallsNext]_vars => CallsInv'
  BY SmallAmountsExact, StepInv
<1> QED BY <1>1, <1>2, PTL DEF CallsSpec

-----------------------------------------------------------------------------
(* What follows from it *)

LEMMA TypesTold ==
  ASSUME CallsInv
  PROVE  CallsTypeOK
<1>1. CallsTypes
  BY DEF CallsInv
<1>2. ASSUME NEW c \in Posters
      PROVE  next[c] \in 1..Len(ask[c].entries) /\ record[c] \in 0..Len(journal)
  <2>1. next[c] \in 1..Len(ask[c].entries)
    BY <1>1, EntriesNumbered DEF CallsTypes
  <2> QED BY <1>1, <2>1 DEF CallsTypes, Posters
<1>3. \A i \in DOMAIN journal : journal[i].sides \subseteq {"dr", "cr"}
  <2>1. \A i \in DOMAIN journal : journal[i] \in JournalRecord
    BY <1>1 DEF CallsTypes
  <2> QED BY <2>1 DEF JournalRecord, Sides
<1>4. \A a \in Accounts : balance[a].dr \in Nat /\ balance[a].cr \in Nat
  BY <1>1 DEF CallsTypes, Sides
<1> QED BY <1>1, <1>2, <1>3, <1>4 DEF CallsTypes, CallsTypeOK

LEMMA PostedTold ==
  ASSUME CallsInv
  PROVE  PostedAsAnswered
<1> SUFFICES ASSUME NEW c \in Posters
             PROVE  PostedAsAnswered!(c)
  BY DEF PostedAsAnswered
<1>1. PosterInv(c)
  BY DEF CallsInv
<1>2. \A i \in Posted(c) : AsAsked(journal[i])
  BY DEF CallsInv, RecordsGood, Good, Posted
<1>3. Numbers(c) = {} => Posted(c) = {}
  BY DEF Numbers
<1> QED BY <1>1, <1>2, <1>3 DEF PosterInv, Ordered, Filled, Heard

\* The types of the calls, the journal and the balances, which never fall below zero.
THEOREM CallsTypeCorrect ==
  ASSUME PowersLaw, AmountsSmall
  PROVE  CallsSpec => []CallsTypeOK
BY CallsInvariant, TypesTold, PTL

\* What createJournalEntries answers and what the journal has of its entries agree.
THEOREM EntriesPosted ==
  ASSUME PowersLaw, AmountsSmall
  PROVE  CallsSpec => []PostedAsAnswered
BY CallsInvariant, PostedTold, PTL

\* getJournalEntriesByAccountId tells the journal, in the amounts that were asked for.
THEOREM JournalAnswered ==
  ASSUME PowersLaw, AmountsSmall
  PROVE  CallsSpec => []JournalTold
<1>1. CallsInv => JournalTold
  BY DEF CallsInv, ReaderInv, JournalTold
<1> QED BY <1>1, CallsInvariant, PTL

-----------------------------------------------------------------------------
(* Running sums: what SumTo comes to when something is appended, or changed *)

\* f gives the sums of v up to each position
SumsOf(f, v, n) == f = [m \in 0..n |-> IF m = 0 THEN 0 ELSE f[m - 1] + v[m]]

LEMMA SumToIs ==
  ASSUME NEW v, NEW n
  PROVE  SumTo(v, n) = (CHOOSE f : SumsOf(f, v, n))[n]
BY DEF SumTo, SumsOf

LEMMA SumsApply ==
  ASSUME NEW f, NEW v, NEW n \in Nat, SumsOf(f, v, n)
  PROVE  f[0] = 0 /\ \A m \in 1..n : f[m] = f[m - 1] + v[m]
<1> DEFINE g == [m \in 0..n |-> IF m = 0 THEN 0 ELSE f[m - 1] + v[m]]
<1>1. f = g
  BY DEF SumsOf
<1>2. g[0] = 0 /\ \A m \in 1..n : g[m] = f[m - 1] + v[m]
  OBVIOUS
<1> HIDE DEF g
<1> QED BY <1>1, <1>2

LEMMA SumsExist ==
  ASSUME NEW v, NEW n \in Nat
  PROVE  \E f : SumsOf(f, v, n)
<1> DEFINE T == {l \in Nat : ~\E f : SumsOf(f, v, l)}
<1> SUFFICES ASSUME T # {} PROVE FALSE
  OBVIOUS
<1>1. PICK l \in T : \A m \in T : l <= m
  <2> HIDE DEF T
  <2>1. T \subseteq Nat BY DEF T
  <2> QED BY <2>1, Least
<1>2. CASE l = 0
  <2> DEFINE g == [m \in 0..0 |-> 0]
  <2>1. g = [m \in 0..l |-> IF m = 0 THEN 0 ELSE g[m - 1] + v[m]]
    BY <1>2
  <2>2. SumsOf(g, v, l)
    BY <2>1, Zenon DEF SumsOf
  <2> QED BY <1>1, <2>2
<1>3. CASE l # 0
  <2>1. l - 1 \in Nat /\ l - 1 \notin T /\ l \in Nat
    BY <1>1, <1>3
  <2>2. PICK f : SumsOf(f, v, l - 1)
    BY <2>1
  <2> DEFINE g == [m \in 0..l |-> IF m = l THEN f[l - 1] + v[l] ELSE f[m]]
             h == [m \in 0..l |-> IF m = 0 THEN 0 ELSE g[m - 1] + v[m]]
  <2>3. f[0] = 0 /\ \A m \in 1..(l - 1) : f[m] = f[m - 1] + v[m]
    BY <2>1, <2>2, SumsApply
  <2>4. ASSUME NEW m \in 0..l
        PROVE  g[m] = IF m = 0 THEN 0 ELSE g[m - 1] + v[m]
    <3>1. CASE m = 0
      BY <1>3, <2>3, <3>1
    <3>2. CASE m = l
      <4>1. g[m] = f[l - 1] + v[l] /\ g[m - 1] = f[l - 1]
        BY <1>3, <2>1, <3>2
      <4> QED BY <1>3, <3>2, <4>1
    <3>3. CASE m # 0 /\ m # l
      <4>1. m \in 1..(l - 1) /\ m - 1 \in 0..l /\ m - 1 # l
        BY <2>1, <3>3
      <4>2. g[m] = f[m] /\ g[m - 1] = f[m - 1]
        BY <3>3, <4>1
      <4> QED BY <2>3, <3>3, <4>1, <4>2
    <3> QED BY <3>1, <3>2, <3>3
  <2>5. g = h
    <3>1. \A m \in 0..l : g[m] = h[m]
      BY <2>4
    <3>2. DOMAIN g = 0..l /\ DOMAIN h = 0..l /\ g = [m \in DOMAIN g |-> g[m]] /\ h = [m \in DOMAIN h |-> h[m]]
      OBVIOUS
    <3> HIDE DEF g, h
    <3> QED BY <3>1, <3>2
  <2>6. SumsOf(g, v, l)
    BY <2>5, Zenon DEF SumsOf
  <2> QED BY <1>1, <2>6
<1> QED BY <1>2, <1>3

LEMMA SumsTo ==
  ASSUME NEW v, NEW n \in Nat
  PROVE  \E f : SumsOf(f, v, n) /\ SumTo(v, n) = f[n]
BY SumsExist, SumToIs

\* Whole numbers, one of which is x more in w than in v
OneMore(v, w, n, at, x) ==
  /\ x \in Int /\ at \in Nat \ {0}
  /\ \A m \in 1..n : v[m] \in Int /\ w[m] = IF m = at THEN v[m] + x ELSE v[m]

LEMMA SumsMore ==
  ASSUME NEW f, NEW g, NEW v, NEW w, NEW n \in Nat, NEW l \in Nat, n <= l,
         SumsOf(f, v, n), SumsOf(g, w, l), NEW at, NEW x, OneMore(v, w, n, at, x)
  PROVE  f[n] \in Int /\ g[n] = IF at <= n THEN f[n] + x ELSE f[n]
<1> USE DEF OneMore
<1> DEFINE ok(m) == f[m] \in Int /\ g[m] = IF at <= m THEN f[m] + x ELSE f[m]
           T == {m \in 0..n : ~ok(m)}
<1> SUFFICES ASSUME T # {} PROVE FALSE
  OBVIOUS
<1>1. PICK m \in T : \A i \in T : m <= i
  <2>1. T \subseteq Nat
    OBVIOUS
  <2> HIDE DEF T
  <2> QED BY <2>1, Least
<1>2. /\ f[0] = 0 /\ \A i \in 1..n : f[i] = f[i - 1] + v[i]
      /\ g[0] = 0 /\ \A i \in 1..n : g[i] = g[i - 1] + w[i]
  <2>1. \A i \in 1..n : i \in 1..l
    OBVIOUS
  <2> QED BY <2>1, SumsApply
<1>3. m # 0
  <2>1. ok(0)
    BY <1>2
  <2> QED BY <1>1, <2>1
<1>4. m \in 1..n /\ m - 1 \in 0..n /\ m - 1 \notin T
  BY <1>1, <1>3
<1>5. ok(m - 1)
  BY <1>4
<1>6. v[m] \in Int /\ w[m] = IF m = at THEN v[m] + x ELSE v[m]
  BY <1>4
<1>7. f[m] = f[m - 1] + v[m] /\ g[m] = g[m - 1] + w[m]
  BY <1>2, <1>4
<1>8. ok(m)
  <2>1. at <= m <=> (at <= m - 1 \/ m = at)
    BY <1>4
  <2> QED BY <1>4, <1>5, <1>6, <1>7, <2>1
<1> QED BY <1>1, <1>8

LEMMA SumToMore ==
  ASSUME NEW v, NEW w, NEW n \in Nat, NEW at, NEW x, OneMore(v, w, n, at, x)
  PROVE  SumTo(v, n) \in Int /\ SumTo(w, n) = IF at <= n THEN SumTo(v, n) + x ELSE SumTo(v, n)
<1>1. PICK f : SumsOf(f, v, n) /\ SumTo(v, n) = f[n]
  BY SumsTo
<1>2. PICK g : SumsOf(g, w, n) /\ SumTo(w, n) = g[n]
  BY SumsTo
<1>3. n <= n
  OBVIOUS
<1> QED BY <1>1, <1>2, <1>3, SumsMore

LEMMA SumToNext ==
  ASSUME NEW v, NEW w, NEW n \in Nat, \A m \in 1..n : v[m] \in Int /\ w[m] = v[m]
  PROVE  SumTo(w, n + 1) = SumTo(v, n) + w[n + 1]
<1>1. PICK f : SumsOf(f, v, n) /\ SumTo(v, n) = f[n]
  BY SumsTo
<1>2. PICK g : SumsOf(g, w, n + 1) /\ SumTo(w, n + 1) = g[n + 1]
  BY SumsTo
<1>3. g[n + 1] = g[n] + w[n + 1]
  <2>1. n + 1 \in Nat /\ n + 1 \in 1..(n + 1) /\ (n + 1) - 1 = n
    OBVIOUS
  <2> QED BY <1>2, <2>1, SumsApply
<1>4. g[n] = f[n]
  <2>1. OneMore(v, w, n, n + 1, 0)
    BY DEF OneMore
  <2>2. n + 1 \in Nat /\ n <= n + 1 /\ ~(n + 1 <= n)
    OBVIOUS
  <2> QED BY <1>1, <1>2, <2>1, <2>2, SumsMore
<1> QED BY <1>1, <1>2, <1>3, <1>4

LEMMA SumToNone ==
  ASSUME NEW v
  PROVE  SumTo(v, 0) = 0
<1>1. PICK f : SumsOf(f, v, 0) /\ SumTo(v, 0) = f[0]
  BY SumsTo
<1> QED BY <1>1, SumsApply

-----------------------------------------------------------------------------
(* Balances: what the records of the journal come to *)

\* What a record adds to one side of an account
Part(rec, a, side) ==
  IF side \in rec.sides /\ a = Entry(rec.by)[side] THEN UnitsOf(rec) ELSE 0

Parts(records, a, side) == [i \in DOMAIN records |-> Part(records[i], a, side)]
Total(records, a, side) == SumTo(Parts(records, a, side), Len(records))

AllGood(records) ==
  records \in Seq(JournalRecord) /\ \A i \in DOMAIN records : Good(records[i])

LEMMA PartsWhole ==
  ASSUME NEW s, AllGood(s), NEW a, NEW side
  PROVE  /\ Len(s) \in Nat /\ DOMAIN s = 1..Len(s)
         /\ \A i \in 1..Len(s) :
              Parts(s, a, side)[i] = Part(s[i], a, side) /\ Parts(s, a, side)[i] \in Int
<1>1. Len(s) \in Nat /\ DOMAIN s = 1..Len(s)
  BY DEF AllGood
<1>2. \A i \in DOMAIN s : Part(s[i], a, side) \in Int
  BY DEF AllGood, Good, Part
<1>3. \A i \in DOMAIN s : Parts(s, a, side)[i] = Part(s[i], a, side)
  BY DEF Parts
<1> QED BY <1>1, <1>2, <1>3

\* A record that no balance counts adds nothing
LEMMA TotalGrown ==
  ASSUME NEW s, AllGood(s), NEW rec \in JournalRecord, rec.sides = {}, NEW a, NEW side
  PROVE  Total(Append(s, rec), a, side) = Total(s, a, side)
<1> DEFINE t == Append(s, rec)
           v == Parts(s, a, side)
           w == Parts(t, a, side)
           n == Len(s)
<1>1. n \in Nat /\ DOMAIN s = 1..n /\ \A i \in 1..n : v[i] = Part(s[i], a, side) /\ v[i] \in Int
  BY PartsWhole
<1>2. /\ DOMAIN t = DOMAIN s \cup {n + 1} /\ Len(t) = n + 1 /\ t[n + 1] = rec
      /\ \A i \in DOMAIN s : t[i] = s[i]
  BY Grown DEF AllGood
<1> HIDE DEF t
<1>3. \A i \in DOMAIN t : w[i] = Part(t[i], a, side)
  BY DEF Parts
<1>4. Part(rec, a, side) = 0
  BY DEF Part
<1> HIDE DEF v, w, n
<1>5. w[n + 1] = 0 /\ \A i \in 1..n : v[i] \in Int /\ w[i] = v[i]
  BY <1>1, <1>2, <1>3, <1>4
<1>6. SumTo(w, n + 1) = SumTo(v, n) + w[n + 1]
  BY <1>1, <1>5, SumToNext
<1>7. SumTo(v, n) \in Int
  <2>1. OneMore(v, v, n, 1, 0)
    BY <1>5 DEF OneMore
  <2> QED BY <1>1, <2>1, SumToMore
<1>8. SumTo(w, n + 1) = SumTo(v, n)
  BY <1>5, <1>6, <1>7
<1> QED BY <1>2, <1>8 DEF Total, v, w, n, t

\* A side that a record gets adds what the record is of
LEMMA TotalSided ==
  ASSUME NEW s, AllGood(s), NEW t, NEW at \in DOMAIN s, NEW side, Sided(s, t, at, side),
         side \notin s[at].sides, NEW a, NEW which
  PROVE  /\ Total(s, a, which) \in Int
         /\ Total(t, a, which) =
              IF which = side /\ a = Entry(s[at].by)[side]
              THEN Total(s, a, which) + UnitsOf(s[at]) ELSE Total(s, a, which)
<1> DEFINE v == Parts(s, a, which)
           w == Parts(t, a, which)
           n == Len(s)
           x == IF which = side /\ a = Entry(s[at].by)[side] THEN UnitsOf(s[at]) ELSE 0
<1>1. n \in Nat /\ DOMAIN s = 1..n /\ \A i \in 1..n : v[i] = Part(s[i], a, which) /\ v[i] \in Int
  BY PartsWhole
<1>2. /\ DOMAIN t = 1..n /\ Len(t) = n
      /\ \A i \in 1..n :
           /\ t[i].by = s[i].by /\ t[i].decimals = s[i].decimals
           /\ t[i].sides = IF i = at THEN s[i].sides \cup {side} ELSE s[i].sides
  BY <1>1 DEF Sided
<1>3. \A i \in 1..n : w[i] = Part(t[i], a, which)
  BY <1>2 DEF Parts
<1>4. UnitsOf(s[at]) \in Int
  BY DEF AllGood, Good
<1>5. \A i \in 1..n : UnitsOf(t[i]) = UnitsOf(s[i]) /\ Entry(t[i].by) = Entry(s[i].by)
  BY <1>2 DEF UnitsOf
<1>6. OneMore(v, w, n, at, x)
  <2>1. ASSUME NEW i \in 1..n
        PROVE  Part(t[i], a, which) = IF i = at THEN Part(s[i], a, which) + x ELSE Part(s[i], a, which)
    <3>1. Part(s[i], a, which) \in Int
      BY <1>1
    <3>2. CASE i # at
      BY <1>2, <1>5, <3>2 DEF Part
    <3>3. CASE i = at /\ which = side
      <4>1. Part(s[i], a, which) = 0
        BY <3>3 DEF Part
      <4>2. Part(t[i], a, which) = x
        BY <1>2, <1>5, <3>3 DEF Part
      <4>3. x \in Int
        BY <1>4
      <4> HIDE DEF x
      <4> QED BY <3>3, <4>1, <4>2, <4>3
    <3>4. CASE i = at /\ which # side
      <4>1. x = 0
        BY <3>4
      <4>2. which \in t[i].sides <=> which \in s[i].sides
        <5>1. t[i].sides = s[i].sides \cup {side}
          BY <1>2, <3>4
        <5> QED BY <3>4, <5>1
      <4>3. Entry(t[i].by) = Entry(s[i].by) /\ UnitsOf(t[i]) = UnitsOf(s[i])
        BY <1>5
      <4>4. Part(t[i], a, which) = Part(s[i], a, which)
        BY <4>2, <4>3, Zenon DEF Part
      <4> HIDE DEF x
      <4> QED BY <3>1, <3>4, <4>1, <4>4
    <3> QED BY <3>2, <3>3, <3>4
  <2>2. x \in Int /\ at \in Nat \ {0}
    BY <1>1, <1>4
  <2> HIDE DEF v, w, x
  <2> QED BY <1>1, <1>3, <2>1, <2>2 DEF OneMore
<1> HIDE DEF v, w, n, x
<1>7. SumTo(v, n) \in Int /\ SumTo(w, n) = IF at <= n THEN SumTo(v, n) + x ELSE SumTo(v, n)
  BY <1>1, <1>6, SumToMore
<1>8. at <= n
  BY <1>1
<1>9. Total(s, a, which) = SumTo(v, n) /\ Total(t, a, which) = SumTo(w, n)
  BY <1>2 DEF Total, v, w, n
<1> QED BY <1>4, <1>7, <1>8, <1>9 DEF x

\* Nothing but the calls decides what records come to
LEMMA TotalSame ==
  ASSUME ask' = ask, NEW c
  PROVE  \A a, side : /\ Total(journal, a, side)' = Total(journal', a, side)
                      /\ Total(read[c], a, side)' = Total(read'[c], a, side)
BY DEF Total, Parts, Part, UnitsOf, Entry

Balanced == \A a \in Accounts : \A side \in Sides : balance[a][side] = Total(journal, a, side)

\* The strings that are on their way to one who asks for balances, and what he hears
Sent(text, total, a) ==
  /\ text = bigintToString(total, LedgerDecimals[a])
  /\ total \in Nat
  /\ \A decimals \in {LedgerDecimals[a], ChartDecimals[a]} :
       Small([k |-> total, e |-> LedgerDecimals[a]], decimals)

TotalsFound(c) ==
  \A a \in Known(c) : \A side \in Sides : Sent(found[c][a][side], Total(read[c], a, side), a)

TotalsTold(c) ==
  \A a \in Known(c) :
    Says(told[c].what[a], Total(read[c], a, "cr") - Total(read[c], a, "dr"), LedgerDecimals[a])

FewerDecimals(c) == \E a \in Known(c) : ChartDecimals[a] < LedgerDecimals[a]

AsksInv(c) ==
  /\ AllGood(read[c])
  /\ c \notin Posters /\ told[c].why = "amount" => FewerDecimals(c)
  /\ ask[c].kind = "accounts" =>
       /\ place[c] = "back" => TotalsFound(c)
       /\ told[c].code = "OK" => place[c] = "over" /\ TotalsTold(c)

BalanceInv == Balanced /\ \A c \in Calls : AsksInv(c)

\* A record stays good, whoever holds it
LEMMA GoodAgain ==
  ASSUME ask' = ask, NEW rec, Good(rec)
  PROVE  Good(rec)'
<1>1. Posters' = Posters
  BY DEF Posters
<1>2. Entry(rec.by)' = Entry(rec.by)
  BY DEF Entry
<1> QED BY <1>1, <1>2 DEF Good, AsAsked, Row, UnitsOf

LEMMA ReadGood ==
  ASSUME ask' = ask, NEW c, AllGood(read'[c])
  PROVE  AllGood(read[c])'
<1> DEFINE s == read'[c]
<1>1. \A i \in DOMAIN s : Good(s[i])
  BY DEF AllGood
<1> SUFFICES ASSUME NEW i \in DOMAIN s
             PROVE  Good(read[c][i])'
  BY DEF AllGood
<1>2. PICK rec : rec = s[i]
  OBVIOUS
<1>3. Good(rec)'
  BY <1>1, <1>2, GoodAgain
<1> QED BY <1>2, <1>3, Zenon DEF Good, AsAsked, Entry, UnitsOf, Posters

LEMMA AsksKept ==
  ASSUME NEW c \in Calls, AsksInv(c), ask' = ask, read'[c] = read[c],
         place'[c] = "back" => place[c] = "back" /\ found'[c] = found[c],
         \/ told'[c] = told[c] /\ (place[c] = "over" => place'[c] = "over")
         \/ told'[c].code # "OK" /\ (c \in Posters \/ told'[c].why # "amount")
  PROVE  AsksInv(c)'
<1>1. Posters' = Posters /\ Known(c)' = Known(c) /\ FewerDecimals(c)' = FewerDecimals(c)
  BY DEF Posters, Known, FewerDecimals
<1>2. AllGood(read[c])'
  BY ReadGood DEF AsksInv
<1>3. TotalsFound(c) /\ found'[c] = found[c] => TotalsFound(c)'
  <2>1. \A a, side : Total(read[c], a, side)' = Total(read[c], a, side)
    BY TotalSame
  <2> QED BY <1>1, <2>1 DEF TotalsFound
<1>4. TotalsTold(c) /\ told'[c] = told[c] => TotalsTold(c)'
  BY <1>1, TotalSame DEF TotalsTold
<1> QED BY <1>1, <1>2, <1>3, <1>4 DEF AsksInv

LEMMA JournalGood ==
  ASSUME CallsInv
  PROVE  AllGood(journal)
BY DEF CallsInv, CallsTypes, RecordsGood, AllGood

\* What a query reads is the journal, with whose records the balances agree
LEMMA AccountsRead ==
  ASSUME CallsInv, BalanceInv, BalancesSmall, NEW c \in Calls, ReadAccounts(c)
  PROVE  AsksInv(c)'
<1>1. /\ ask' = ask /\ read'[c] = journal /\ told' = told /\ place[c] = "ledger"
      /\ ask[c].kind = "accounts" /\ c \notin Posters
      /\ found'[c] = [a \in Known(c) |-> Shown(a)]
  BY DEF ReadAccounts, CallsInv, CallsTypes, settings, Posters
<1>2. Posters' = Posters /\ Known(c)' = Known(c) /\ FewerDecimals(c)' = FewerDecimals(c)
  BY <1>1 DEF Posters, Known, FewerDecimals
<1>3. AllGood(read[c])'
  BY <1>1, JournalGood, ReadGood
<1>4. ASSUME NEW a \in Known(c), NEW side \in Sides
      PROVE  Sent(found'[c][a][side], Total(journal, a, side), a)
  <2>1. a \in Charted /\ a \in Accounts
    BY CallsAssumption DEF Known
  <2>2. balance[a][side] = Total(journal, a, side) /\ balance[a][side] \in Nat
    BY <2>1 DEF BalanceInv, Balanced, CallsInv, CallsTypes
  <2>3. found'[c][a][side] = bigintToString(balance[a][side], LedgerDecimals[a])
    BY <1>1 DEF Shown, Sides
  <2>4. \A decimals \in {LedgerDecimals[a], ChartDecimals[a]} :
          Small([k |-> balance[a][side], e |-> LedgerDecimals[a]], decimals)
    BY <2>1 DEF BalancesSmall, Sides
  <2> QED BY <2>2, <2>3, <2>4 DEF Sent
<1>5. TotalsFound(c)'
  <2>1. \A a, side : Total(read[c], a, side)' = Total(journal, a, side)
    BY <1>1, TotalSame
  <2> QED BY <1>2, <1>4, <2>1 DEF TotalsFound
<1> QED BY <1>1, <1>2, <1>3, <1>5 DEF AsksInv, BalanceInv

LEMMA NothingAsked ==
  ASSUME CallsInv, BalanceInv, NEW c \in Calls, NothingToTell(c)
  PROVE  AsksInv(c)'
<1>1. /\ ask' = ask /\ read'[c] = journal /\ place'[c] = "over" /\ Known(c) = {} /\ c \notin Posters
      /\ told'[c] = told[c] \/ told'[c] = OK(<<>>)
  BY DEF NothingToTell, Answer, CallsInv, CallsTypes, settings
<1>2. Posters' = Posters /\ Known(c)' = Known(c) /\ FewerDecimals(c)' = FewerDecimals(c)
  BY <1>1 DEF Posters, Known, FewerDecimals
<1>3. AllGood(read[c])'
  BY <1>1, JournalGood, ReadGood
<1>4. TotalsTold(c)'
  BY <1>1, <1>2 DEF TotalsTold
<1>5. OK(<<>>).why # "amount"
  BY Zenon DEF OK
<1>6. told'[c].why = "amount" => FewerDecimals(c)
  BY <1>1, <1>5 DEF AsksInv, BalanceInv
<1> QED BY <1>1, <1>2, <1>3, <1>4, <1>6 DEF AsksInv

\* The chart reads the strings, subtracts and writes; it can if it has the decimals
LEMMA BalancesTold ==
  ASSUME PowersLaw, AmountsSmall, CallsInv, BalanceInv, NEW c \in Calls, AnswerQuery(c)
  PROVE  AsksInv(c)'
<1>1. /\ ask' = ask /\ read' = read /\ place[c] = "back" /\ place'[c] = "over"
      /\ CallsTypes /\ AsksInv(c) /\ c \notin Posters
  <2>1. CallsTypes /\ AsksInv(c) /\ (c \in Posters => place[c] # "back")
    BY DEF CallsInv, BalanceInv, PosterInv, Filled
  <2> QED BY <2>1 DEF AnswerQuery, Answer, CallsTypes, settings
<1>2. Posters' = Posters /\ Known(c)' = Known(c) /\ FewerDecimals(c)' = FewerDecimals(c)
  BY <1>1 DEF Posters, Known, FewerDecimals
<1>3. AllGood(read[c])'
  BY <1>1, ReadGood DEF AsksInv
<1> DEFINE balances == [a \in Known(c) |-> Balance(a, found[c][a])]
           readable == \A a \in Known(c) : Readable(a, found[c][a])
<1>4. \/ told'[c] = told[c]
      \/ told'[c] = OK(found[c]) /\ ask[c].kind = "journal"
      \/ told'[c] = OK(balances) /\ readable /\ ask[c].kind # "journal"
      \/ told'[c] = Error("amount") /\ ~readable /\ ask[c].kind # "journal"
  BY <1>1 DEF AnswerQuery, Answer, CallsTypes
<1>5. /\ OK(found[c]).why # "amount" /\ OK(balances).why # "amount" /\ OK(balances).what = balances
      /\ Error("amount").code # "OK"
  BY Zenon DEF OK, Error
<1>6. ask[c].kind # "journal" => ask[c].kind = "accounts"
  BY <1>1, CallsAssumption DEF CallsTypes, Posters
<1>7. ASSUME NEW a \in Known(c)
      PROVE  /\ LedgerDecimals[a] \in Nat /\ ChartDecimals[a] \in Nat
             /\ Roomy(LedgerDecimals[a]) /\ Roomy(ChartDecimals[a])
  BY CallsAssumption DEF Known, AmountsSmall
<1>8. ASSUME ask[c].kind = "accounts", readable, NEW a \in Known(c)
      PROVE  Says(balances[a], Total(read[c], a, "cr") - Total(read[c], a, "dr"), LedgerDecimals[a])
  <2> DEFINE u == Total(read[c], a, "cr")
             v == Total(read[c], a, "dr")
             l == LedgerDecimals[a]
             d == ChartDecimals[a]
  <2>1. /\ found[c][a].cr = bigintToString(u, l) /\ found[c][a].dr = bigintToString(v, l)
        /\ u \in Nat /\ v \in Nat
        /\ Small([k |-> u, e |-> l], l) /\ Small([k |-> u, e |-> l], d)
        /\ Small([k |-> v, e |-> l], l) /\ Small([k |-> v, e |-> l], d)
    BY <1>1, <1>8 DEF AsksInv, TotalsFound, Sent, Sides
  <2>2. Converts(found[c][a].cr, d) /\ Converts(found[c][a].dr, d)
    BY <1>8 DEF Readable
  <2>3. balances[a] = bigintToString(stringToBigint(found[c][a].cr, d) - stringToBigint(found[c][a].dr, d), d)
    BY DEF Balance
  <2> HIDE DEF u, v, l, d, balances
  <2>4. l \in Nat /\ d \in Nat /\ Roomy(l) /\ Roomy(d)
    BY <1>7 DEF l, d
  <2>5. Says(bigintToString(stringToBigint(bigintToString(u, l), d)
                              - stringToBigint(bigintToString(v, l), d), d), u - v, l)
    BY <2>1, <2>2, <2>4, BalanceSubtracted
  <2>6. Says(balances[a], u - v, l)
    BY <2>1, <2>3, <2>5
  <2> QED BY <2>6 DEF u, v, l
<1>9. ASSUME ask[c].kind = "accounts", ~readable
      PROVE  FewerDecimals(c)
  <2>1. PICK a \in Known(c) : ~Readable(a, found[c][a])
    BY <1>9
  <2> DEFINE l == LedgerDecimals[a]
             d == ChartDecimals[a]
  <2>2. \A side \in Sides : \E v :
          /\ found[c][a][side] = bigintToString(v, l)
          /\ Small([k |-> v, e |-> l], l) /\ Small([k |-> v, e |-> l], d)
    BY <1>1, <1>9, <2>1 DEF AsksInv, TotalsFound, Sent
  <2>3. ~(Converts(found[c][a]["dr"], d) /\ Converts(found[c][a]["cr"], d))
    BY <2>1 DEF Readable
  <2>4. PICK side \in Sides : ~Converts(found[c][a][side], d)
    BY <2>3 DEF Sides
  <2>5. l \in Nat /\ d \in Nat /\ Roomy(l) /\ Roomy(d)
    BY <1>7, <2>1
  <2> HIDE DEF l, d
  <2>6. PICK v : /\ found[c][a][side] = bigintToString(v, l)
                 /\ Small([k |-> v, e |-> l], l) /\ Small([k |-> v, e |-> l], d)
    BY <2>2
  <2>7. Small(found[c][a][side], d) /\ (l <= d => Fits(found[c][a][side], d))
    BY <2>5, <2>6, WrittenRead
  <2>8. ~(l <= d)
    BY <2>4, <2>5, <2>7, AmountRead
  <2>9. d < l
    BY <2>5, <2>8
  <2> QED BY <2>1, <2>9 DEF FewerDecimals, l, d
<1> HIDE DEF balances, readable
<1>10. told'[c].why = "amount" => FewerDecimals(c)
  BY <1>1, <1>4, <1>5, <1>6, <1>9 DEF AsksInv
<1>11. ask[c].kind = "accounts" /\ told'[c].code = "OK" => TotalsTold(c)'
  <2> SUFFICES ASSUME ask[c].kind = "accounts", told'[c].code = "OK"
               PROVE  TotalsTold(c)'
    OBVIOUS
  <2>1. told[c].code # "OK"
    BY <1>1 DEF AsksInv
  <2>2. told'[c] = OK(balances) /\ readable
    BY <1>4, <1>5, <2>1
  <2>3. told'[c].what = balances
    BY <1>5, <2>2
  <2>4. \A a \in Known(c) :
          Says(told'[c].what[a], Total(read[c], a, "cr") - Total(read[c], a, "dr"), LedgerDecimals[a])
    BY <1>8, <2>2, <2>3
  <2>5. \A a, side : Total(read[c], a, side)' = Total(read[c], a, side)
    BY <1>1, TotalSame
  <2> QED BY <1>2, <2>4, <2>5 DEF TotalsTold
<1> QED BY <1>1, <1>2, <1>3, <1>10, <1>11 DEF AsksInv

\* Entries that are read in the meantime are nobody's amounts to tell
LEMMA EntriesRead ==
  ASSUME CallsInv, BalanceInv, NEW c \in Calls, ReadJournal(c)
  PROVE  AsksInv(c)'
<1>1. /\ ask' = ask /\ read'[c] = journal /\ told' = told /\ ask[c].kind = "journal" /\ c \notin Posters
  BY DEF ReadJournal, CallsInv, CallsTypes, settings, Posters
<1>2. Posters' = Posters /\ FewerDecimals(c)' = FewerDecimals(c)
  BY <1>1 DEF Posters, Known, FewerDecimals
<1>3. AllGood(read[c])'
  BY <1>1, JournalGood, ReadGood
<1> QED BY <1>1, <1>2, <1>3 DEF AsksInv, BalanceInv

\* A call that posts entries tells of no balances
LEMMA PosterAsks ==
  ASSUME NEW c \in Posters, AsksInv(c), ask' = ask, read'[c] = read[c]
  PROVE  AsksInv(c)'
<1>1. c \in Posters' /\ ask'[c].kind = "entries"
  BY DEF Posters
<1>2. AllGood(read[c])'
  BY ReadGood DEF AsksInv
<1> QED BY <1>1, <1>2 DEF AsksInv

LEMMA QuietAsks ==
  ASSUME PowersLaw, AmountsSmall, CallsInv, BalanceInv, BalancesSmall, NEW c \in Calls, QuietMoves(c)
  PROVE  AsksInv(c)'
<1>1. CallsTypes /\ ask' = ask /\ AsksInv(c)
  BY QuietTypes DEF CallsInv, BalanceInv
<1>2. CASE NothingToTell(c) \/ AnswerQuery(c) \/ ReadAccounts(c) \/ ReadJournal(c)
  BY <1>2, NothingAsked, BalancesTold, AccountsRead, EntriesRead
<1>3. CASE Send(c) \/ ForwardEntries(c) \/ ForwardQuery(c)
  <2>1. /\ told' = told /\ read' = read /\ place[c] # "over" /\ place'[c] \in {"chart", "ledger"}
    BY <1>1, <1>3 DEF Send, ForwardEntries, ForwardQuery, Start, CallsTypes
  <2> QED BY <1>1, <2>1, AsksKept
<1>4. CASE Lose(c)
  <2>1. place' = place /\ found' = found /\ read' = read /\ told'[c] = Error("link")
    BY <1>1, <1>4 DEF Lose, CallsTypes
  <2>2. Error("link").code # "OK" /\ Error("link").why # "amount"
    BY Zenon DEF Error
  <2> QED BY <1>1, <2>1, <2>2, AsksKept
<1>5. CASE c \notin Posters /\ (NoToken(c) \/ Denied(c) \/ LedgerFails(c))
  <2>1. /\ place'[c] = "over" /\ read' = read
        /\ told'[c] \in {told[c], Error("denied"), Error("ledger")}
    BY <1>1, <1>5 DEF NoToken, Denied, LedgerFails, Throw, Answer, CallsTypes
  <2>2. /\ Error("denied").code # "OK" /\ Error("denied").why # "amount"
        /\ Error("ledger").code # "OK" /\ Error("ledger").why # "amount"
    BY Zenon DEF Error
  <2> QED BY <1>1, <2>1, <2>2, AsksKept
<1>6. CASE c \in Posters /\ ( \/ NoToken(c) \/ Denied(c) \/ LedgerFails(c) \/ RefuseEntries(c)
                              \/ RefuseEntry(c) \/ RefuseBalance(c) \/ StoreFails(c))
  <2>1. read' = read
    BY <1>6 DEF NoToken, Denied, LedgerFails, RefuseEntries, RefuseEntry, RefuseBalance, StoreFails
  <2> QED BY <1>1, <1>6, <2>1, PosterAsks
<1>7. (RefuseEntries(c) \/ RefuseEntry(c) \/ RefuseBalance(c) \/ StoreFails(c)) => c \in Posters
  BY DEF RefuseEntries, RefuseEntry, RefuseBalance, StoreFails, Updating, CallsInv, ReaderInv, Posters
<1> QED BY <1>2, <1>3, <1>4, <1>5, <1>6, <1>7 DEF QuietMoves

-----------------------------------------------------------------------------
(* Every step keeps the balances at what the journal comes to *)

LEMMA SameBalanced ==
  ASSUME Balanced, ask' = ask, journal' = journal, balance' = balance
  PROVE  Balanced'
<1>1. \A a, side : Total(journal, a, side)' = Total(journal, a, side)
  BY TotalSame
<1> QED BY <1>1 DEF Balanced

LEMMA AddsBalanced ==
  ASSUME AmountsExact, CallsInv, Balanced, NEW c \in Calls, Adds(c)
  PROVE  Balanced'
<1>1. /\ ask' = ask /\ balance' = balance /\ journal' = Append(journal, Stored(c))
      /\ Stored(c) \in JournalRecord
  BY AddsTypes DEF CallsInv, Adds, StoreEntry, StoreFails
<1>2. Stored(c).sides = {}
  BY DEF Stored
<1>3. AllGood(journal)
  BY JournalGood
<1>4. \A a, side : Total(journal', a, side) = Total(journal, a, side)
  BY <1>1, <1>2, <1>3, TotalGrown
<1>5. \A a, side : Total(journal, a, side)' = Total(journal', a, side)
  BY <1>1, TotalSame
<1> QED BY <1>1, <1>4, <1>5 DEF Balanced

\* The side that the record gets is the one that the balance is raised on, by as much
LEMMA MovesBalanced ==
  ASSUME CallsInv, Balanced, NEW c \in Calls, NEW side \in Sides, Moves(c, side)
  PROVE  Balanced'
<1> DEFINE at == record[c]
           rec == journal[at]
<1>1. /\ c \in Posters /\ at \in Posted(c) /\ ask' = ask
      /\ Sided(journal, journal', at, side) /\ Updating(c, side) /\ CallsTypes
  BY MovesSide DEF CallsInv
<1>2. SetBalance(c, side)
  BY DEF Moves, Debit, Credit
<1>3. /\ at \in DOMAIN journal /\ rec.by[1] = c /\ rec.by[2] = next[c] /\ side \notin rec.sides
  BY <1>1 DEF CallsInv, PosterInv, Counted, Posted, Updating, Sides
<1>4. AllGood(journal)
  BY JournalGood
<1>5. Good(rec)
  BY <1>3, <1>4 DEF AllGood
<1>6. Entry(rec.by) = Current(c)
  BY <1>3 DEF Entry, Current
<1>7. /\ Subject(c, side) = Entry(rec.by)[side] /\ Subject(c, side) \in Accounts
      /\ Amount(c) = UnitsOf(rec)
  BY <1>5, <1>6 DEF Subject, Amount, UnitsOf, Good, Sides
<1> DEFINE x == UnitsOf(rec)
           s == Entry(rec.by)[side]
<1>8. /\ balance' = [balance EXCEPT ![s][side] = balance[s][side] + x]
      /\ s \in Accounts /\ balance \in [Accounts -> [Sides -> Nat]]
  BY <1>1, <1>2, <1>7 DEF SetBalance, After, CallsTypes
<1>9. ASSUME NEW a, NEW which
      PROVE  /\ Total(journal, a, which) \in Int
             /\ Total(journal', a, which) =
                  IF which = side /\ a = s THEN Total(journal, a, which) + x
                  ELSE Total(journal, a, which)
  BY <1>1, <1>3, <1>4, TotalSided
<1> HIDE DEF at, x, s
<1>10. ASSUME NEW a \in Accounts, NEW which \in Sides
       PROVE  balance'[a][which] = IF which = side /\ a = s THEN balance[a][which] + x
                                   ELSE balance[a][which]
  BY <1>8
<1>11. \A a, which : Total(journal, a, which)' = Total(journal', a, which)
  BY <1>1, TotalSame
<1> QED BY <1>9, <1>10, <1>11 DEF Balanced

LEMMA CallBalances ==
  ASSUME PowersLaw, AmountsSmall, CallsInv, BalanceInv, BalancesSmall, NEW c \in Calls, CallMoves(c)
  PROVE  BalanceInv'
<1>1. Only(c)
  BY MovesOnly DEF CallsInv
<1>2. ASSUME NEW d \in Calls, d # c
      PROVE  AsksInv(d)'
  <2>1. /\ ask' = ask /\ read'[d] = read[d] /\ place'[d] = place[d] /\ found'[d] = found[d]
        /\ told'[d] = told[d]
    BY <1>1, <1>2 DEF Only
  <2> QED BY <2>1, AsksKept DEF BalanceInv
<1>3. CASE QuietMoves(c)
  <2>1. Balanced'
    BY <1>3, QuietTypes, SameBalanced DEF CallsInv, BalanceInv
  <2> QED BY <1>2, <1>3, <2>1, QuietAsks DEF BalanceInv
<1>4. CASE Adds(c)
  <2>1. c \in Posters /\ ask' = ask
    BY <1>4, SmallAmountsExact, AddsTypes DEF CallsInv
  <2>2. read' = read
    BY <1>4 DEF Adds, StoreEntry, StoreFails
  <2>3. AsksInv(c)'
    BY <2>1, <2>2, PosterAsks DEF BalanceInv
  <2>4. Balanced'
    BY <1>4, SmallAmountsExact, AddsBalanced DEF BalanceInv
  <2> QED BY <1>2, <2>3, <2>4 DEF BalanceInv
<1>5. CASE Debit(c) \/ Credit(c) \/ UpdateFails(c)
  <2>1. PICK side \in Sides : Moves(c, side)
    BY <1>5 DEF Moves, UpdateFails, Sides
  <2>2. c \in Posters /\ ask' = ask
    BY <2>1, MovesSide
  <2>3. read' = read
    BY <2>1 DEF Moves, Debit, Credit
  <2>4. AsksInv(c)'
    BY <2>2, <2>3, PosterAsks DEF BalanceInv
  <2>5. Balanced'
    BY <2>1, MovesBalanced DEF BalanceInv
  <2> QED BY <1>2, <2>4, <2>5 DEF BalanceInv
<1>6. StoreEntry(c) \/ StoreFails(c) => Adds(c) \/ QuietMoves(c)
  BY DEF StoreEntry, StoreFails, Adds, QuietMoves
<1> QED BY <1>3, <1>4, <1>5, <1>6 DEF CallMoves, QuietMoves

LEMMA StillBalances ==
  ASSUME BalanceInv, UNCHANGED <<ask, place, found, told, read, journal, balance>>
  PROVE  BalanceInv'
<1>1. Balanced'
  BY SameBalanced DEF BalanceInv
<1>2. ASSUME NEW d \in Calls
      PROVE  AsksInv(d)'
  BY AsksKept DEF BalanceInv
<1> QED BY <1>1, <1>2 DEF BalanceInv

LEMMA InitBalances ==
  ASSUME CallsInit
  PROVE  BalanceInv
<1>1. ASSUME NEW a, NEW side
      PROVE  Total(journal, a, side) = 0
  <2>1. Len(journal) = 0
    BY DEF CallsInit
  <2> QED BY <2>1, SumToNone DEF Total
<1>2. \A a \in Accounts : \A side \in Sides : balance[a][side] = 0
  BY DEF CallsInit, Sides
<1>3. ASSUME NEW c \in Calls
      PROVE  AllGood(read[c]) /\ place[c] = "idle" /\ told[c] = Untold
  BY DEF CallsInit, AllGood
<1>4. Untold.code # "OK" /\ Untold.why # "amount"
  BY Zenon DEF Untold
<1> QED BY <1>1, <1>2, <1>3, <1>4 DEF BalanceInv, Balanced, AsksInv

\* The invariant of balances: each is what the records of the journal come to, as long
\* as none has outgrown the number format, and a query tells what the journal came to
\* when it was read.
THEOREM BalancesInvariant ==
  ASSUME PowersLaw, AmountsSmall
  PROVE  CallsSpec /\ []BalancesSmall => []BalanceInv
<1>1. CallsInit => BalanceInv
  BY InitBalances
<1>2. CallsInv /\ BalancesSmall /\ BalanceInv /\ [CallsNext]_vars => BalanceInv'
  <2> SUFFICES ASSUME CallsInv, BalancesSmall, BalanceInv, [CallsNext]_vars
               PROVE  BalanceInv'
    OBVIOUS
  <2>1. CASE \E c \in Calls : CallMoves(c)
    BY <2>1, CallBalances
  <2>2. CASE \E service \in Services : Reload(service)
    BY <2>2, StillBalances DEF Reload, callVars, ledgerVars
  <2>3. CASE UNCHANGED vars
    BY <2>3, StillBalances DEF vars, callVars, ledgerVars, settings
  <2> QED BY <2>1, <2>2, <2>3 DEF CallsNext, CallMoves
<1> QED BY <1>1, <1>2, CallsInvariant, PTL DEF CallsSpec

-----------------------------------------------------------------------------
(* What the balances that are told come to *)

LEMMA MovedTold ==
  ASSUME NEW c, NEW a, NEW side \in Sides, AllGood(read[c]), OwnDecimals(c, a)
  PROVE  Total(read[c], a, side) = Moved(c, a, side)
<1> DEFINE s == read[c]
<1>1. ASSUME NEW i \in DOMAIN s
      PROVE  Part(s[i], a, side) = UnitsOn(s[i], a, side)
  <2>1. UnitsOf(s[i]) = Units(Entry(s[i].by).amount, s[i].decimals)
    BY DEF AllGood, Good
  <2>2. a = Entry(s[i].by)[side] => s[i].decimals = LedgerDecimals[a]
    BY DEF OwnDecimals, Sides
  <2> QED BY <2>1, <2>2 DEF Part, UnitsOn
<1>2. Parts(s, a, side) = [i \in DOMAIN s |-> UnitsOn(s[i], a, side)]
  BY <1>1 DEF Parts
<1> QED BY <1>2 DEF Total, Moved

LEMMA BalanceHeard ==
  ASSUME BalanceInv
  PROVE  BalanceTold
<1> SUFFICES ASSUME NEW c \in Calls, ask[c].kind = "accounts", told[c].code = "OK",
                    NEW a \in Known(c), OwnDecimals(c, a)
             PROVE  Says(told[c].what[a], Moved(c, a, "cr") - Moved(c, a, "dr"), LedgerDecimals[a])
  BY DEF BalanceTold
<1>1. AllGood(read[c]) /\ TotalsTold(c)
  BY DEF BalanceInv, AsksInv
<1>2. Total(read[c], a, "dr") = Moved(c, a, "dr") /\ Total(read[c], a, "cr") = Moved(c, a, "cr")
  BY <1>1, MovedTold DEF Sides
<1> QED BY <1>1, <1>2 DEF TotalsTold

LEMMA AmountsHeard ==
  ASSUME PowersLaw, AmountsSmall, CallsInv, BalanceInv
  PROVE  AmountsServed
<1>1. ASSUME NEW c \in Posters, Objection(Current(c)) = "amount"
      PROVE  TooFine(Current(c))
  <2>1. /\ c \in Calls /\ ask[c] \in Requests[c] /\ ask[c].kind = "entries"
        /\ next[c] \in DOMAIN ask[c].entries /\ config["ledger"] \in Configs
    BY DEF CallsInv, CallsTypes, Posters, Services
  <2>2. Current(c) = ask[c].entries[next[c]]
    BY DEF Current, Entry
  <2>3. /\ Current(c).currency \in DOMAIN config["ledger"]
        /\ ~Converts(Current(c).amount, config["ledger"][Current(c).currency])
    BY <1>1 DEF Objection
  <2> QED BY <2>1, <2>2, <2>3, SmallAmountsExact DEF AmountsExact, TooFine
<1>2. \A i \in DOMAIN journal : Converts(journal[i].amount, journal[i].decimals)
  BY DEF CallsInv, RecordsGood, Good
<1>3. ASSUME NEW c \in Calls \ Posters, told[c].why = "amount"
      PROVE  \E a \in Known(c) : ChartDecimals[a] < LedgerDecimals[a]
  BY <1>3 DEF BalanceInv, AsksInv, FewerDecimals
<1> QED BY <1>1, <1>2, <1>3 DEF AmountsServed

\* getAccountsByIds and getAccountsByOwnerId tell balances that are what the entries
\* of the accounts come to.
THEOREM BalanceAnswered ==
  ASSUME PowersLaw, AmountsSmall
  PROVE  CallsSpec /\ []BalancesSmall => []BalanceTold
BY BalancesInvariant, BalanceHeard, PTL

\* Only amounts that their currency has not the decimals for are refused for it, and
\* what was stored can be read.
THEOREM AmountsAnswered ==
  ASSUME PowersLaw, AmountsSmall
  PROVE  CallsSpec /\ []BalancesSmall => []AmountsServed
BY CallsInvariant, BalancesInvariant, AmountsHeard, PTL
=============================================================================
