---------------------------- MODULE ExchangeProofs ----------------------------
(***************************************************************************)
(* Proofs about the exchange of lines and answers, for every set of lines, *)
(* every size of the frontend's buffer and every width of the numbers.     *)
(* They need induction, which is put as a fact about sets of naturals, and *)
(* the numbers of module Procedures: what wrapping, rounding and the loop  *)
(* of factorial() keep.                                                    *)
(***************************************************************************)
EXTENDS Exchange, FiniteSetTheorems, SequenceTheorems, WellFoundedInduction, TLAPS

(* A nonempty set of naturals has a least element.                         *)
LEMMA LeastNatural ==
  ASSUME NEW S, S \subseteq Nat, S # {}
  PROVE  \E x \in S : \A y \in S : x <= y
<1> DEFINE R == OpToRel(<, Nat)
<1>1. \A m, n \in Nat : <<m, n>> \in R <=> m < n
  BY DEF OpToRel
<1>2. IsWellFoundedOn(R, Nat)
  BY NatLessThanWellFounded
<1> HIDE DEF R
<1>3. PICK x \in S : \A y \in S : ~(<<y, x>> \in R)
  BY <1>2, WFMin
<1>4. ASSUME NEW y \in S PROVE x <= y
  <2>1. x \in Nat /\ y \in Nat
    OBVIOUS
  <2>2. ~(y < x)
    BY <1>1, <1>3, <2>1, Zenon
  <2> QED BY <2>1, <2>2
<1> QED BY <1>4

(* Induction over the natural numbers, for a set of them.                  *)
LEMMA Induction ==
  ASSUME NEW S, 0 \in S, \A n \in Nat : n \in S => n + 1 \in S
  PROVE  Nat \subseteq S
<1>1. SUFFICES ASSUME Nat \ S # {} PROVE FALSE
  OBVIOUS
<1>2. PICK x \in Nat \ S : \A y \in Nat \ S : x <= y
  BY <1>1, LeastNatural
<1>3. x - 1 \in Nat /\ x - 1 \in S
  BY <1>2
<1> QED BY <1>2, <1>3

(* A function b on 0 .. n that starts with c and goes on by step.          *)
Begins(V, c, step, n) ==
  {b \in [0 .. n -> V] : b[0] = c /\ \A j \in 1 .. n : b[j] = step[<<j, b[j - 1]>>]}

(* There is such a function on all naturals.                               *)
Exists(V, c, step) ==
  \E f \in [Nat -> V] : /\ f[0] = c
                        /\ \A n \in Nat \ {0} : f[n] = step[<<n, f[n - 1]>>]

(* Every step function defines a function by recursion.                    *)
LEMMA Recursion ==
  ASSUME NEW V, NEW c \in V, NEW step \in [(Nat \ {0}) \X V -> V]
  PROVE  Exists(V, c, step)
<1> DEFINE B(n) == Begins(V, c, step, n)
<1>1. \A n \in Nat : B(n) # {}
  <2> DEFINE S == {n \in Nat : B(n) # {}}
  <2>1. 0 \in S
    <3>1. [i \in 0 .. 0 |-> c] \in B(0)
      BY DEF Begins
    <3> QED BY <3>1
  <2>2. ASSUME NEW n \in Nat, n \in S PROVE n + 1 \in S
    <3>1. PICK b : b \in B(n)
      BY <2>2
    <3>2. /\ b \in [0 .. n -> V] /\ b[0] = c
          /\ \A j \in 1 .. n : b[j] = step[<<j, b[j - 1]>>]
      BY <3>1 DEF Begins
    <3>3. PICK v : v = step[<<n + 1, b[n]>>]
      OBVIOUS
    <3>4. v \in V
      BY <3>2, <3>3
    <3>5. PICK d : d = [i \in 0 .. n + 1 |-> IF i = n + 1 THEN v ELSE b[i]]
      OBVIOUS
    <3>6. d \in [0 .. n + 1 -> V] /\ d[0] = c
      BY <3>2, <3>4, <3>5
    <3>7. ASSUME NEW j \in 1 .. n + 1 PROVE d[j] = step[<<j, d[j - 1]>>]
      <4>2. CASE j = n + 1
        <5>1. j - 1 = n /\ d[n] = b[n] /\ d[j] = v
          BY <3>5, <4>2
        <5> QED BY <3>3, <4>2, <5>1
      <4>3. CASE j # n + 1
        <5>1. j \in 1 .. n /\ d[j] = b[j] /\ d[j - 1] = b[j - 1]
          BY <3>5, <4>3
        <5> QED BY <3>2, <5>1
      <4> QED BY <4>2, <4>3
    <3>8. d \in B(n + 1)
      BY <3>6, <3>7 DEF Begins
    <3> QED BY <3>8
  <2> HIDE DEF S
  <2>3. Nat \subseteq S
    BY <2>1, <2>2, Induction
  <2> QED BY <2>3 DEF S
<1>2. ASSUME NEW n \in Nat \ {0}, NEW b \in B(n), NEW d \in B(n - 1)
      PROVE  b[n - 1] = d[n - 1]
  <2> DEFINE S == {i \in Nat : i <= n - 1 => b[i] = d[i]}
  <2>1. /\ b[0] = c /\ \A j \in 1 .. n : b[j] = step[<<j, b[j - 1]>>]
        /\ d[0] = c /\ \A j \in 1 .. n - 1 : d[j] = step[<<j, d[j - 1]>>]
    BY DEF Begins
  <2>2. 0 \in S
    BY <2>1
  <2>3. ASSUME NEW i \in Nat, i \in S PROVE i + 1 \in S
    <3>1. CASE i + 1 <= n - 1
      <4>1. i + 1 \in 1 .. n - 1 /\ i + 1 \in 1 .. n /\ (i + 1) - 1 = i /\ b[i] = d[i]
        BY <2>3, <3>1
      <4>2. b[i + 1] = step[<<i + 1, b[i]>>] /\ d[i + 1] = step[<<i + 1, d[i]>>]
        BY <2>1, <4>1
      <4> QED BY <4>1, <4>2
    <3>2. CASE ~(i + 1 <= n - 1)
      BY <3>2
    <3> QED BY <3>1, <3>2
  <2>4. n - 1 \in S
    <3> HIDE DEF S
    <3> QED BY <2>2, <2>3, Induction
  <2> QED BY <2>4
<1> DEFINE Own(n) == CHOOSE b : b \in B(n)
           f == [n \in Nat |-> Own(n)[n]]
<1>3. \A n \in Nat : Own(n) \in B(n)
  <2> HIDE DEF B
  <2> QED BY <1>1
<1>4. \A n \in Nat : f[n] = Own(n)[n]
  OBVIOUS
<1>5. ASSUME NEW n \in Nat PROVE f[n] \in V
  <2>1. Own(n) \in [0 .. n -> V]
    BY <1>3 DEF Begins
  <2> HIDE DEF Own
  <2> QED BY <1>4, <2>1
<1>6. f[0] = c
  <2>1. Own(0)[0] = c
    BY <1>3 DEF Begins
  <2> HIDE DEF Own
  <2> QED BY <1>4, <2>1
<1>7. ASSUME NEW n \in Nat \ {0} PROVE f[n] = step[<<n, f[n - 1]>>]
  <2>1. Own(n)[n] = step[<<n, Own(n)[n - 1]>>]
    <3>1. Own(n) \in B(n) /\ n \in 1 .. n
      BY <1>3
    <3> HIDE DEF Own
    <3> QED BY <3>1 DEF Begins
  <2>2. Own(n)[n - 1] = Own(n - 1)[n - 1]
    <3>1. Own(n) \in B(n) /\ Own(n - 1) \in B(n - 1)
      BY <1>3
    <3> HIDE DEF Own, B
    <3> QED BY <1>2, <3>1
  <2> HIDE DEF Own
  <2> QED BY <1>4, <2>1, <2>2
<1>8. f \in [Nat -> V]
  BY <1>5
<1> HIDE DEF f
<1> QED BY <1>6, <1>7, <1>8 DEF Exists

(* Powers of two are positive and grow.                                    *)
LEMMA Powers ==
  /\ 2^0 = 1
  /\ \A n \in 0 .. 2 * Mantissa + LongWidth : 2^n \in Nat \ {0} /\ 2^(n + 1) = 2 * 2^n
<1> DEFINE S == {n \in Nat : n <= 2 * Mantissa + LongWidth => 2^n \in Nat \ {0}}
<1>1. 2^0 = 1
  OBVIOUS
<1>2. 0 \in S
  BY <1>1
<1>3. ASSUME NEW n \in Nat, n \in S PROVE n + 1 \in S
  <2>1. CASE n + 1 <= 2 * Mantissa + LongWidth
    <3>1. 2^n \in Nat \ {0} /\ 2^(n + 1) = 2 * 2^n
      BY <1>3, <2>1, PowersAssumption, NumbersAssumption
    <3> QED BY <3>1
  <2>2. CASE ~(n + 1 <= 2 * Mantissa + LongWidth)
    BY <2>2
  <2> QED BY <2>1, <2>2
<1> HIDE DEF S
<1>4. Nat \subseteq S
  BY <1>2, <1>3, Induction
<1> QED BY <1>1, <1>4, PowersAssumption, NumbersAssumption DEF S

(* The greater the exponent, the greater the power.                        *)
LEMMA PowersGrow ==
  ASSUME NEW m \in Nat, NEW n \in Nat, m <= n, n <= 2 * Mantissa + LongWidth
  PROVE  2^m <= 2^n
<1> DEFINE S == {k \in Nat : m + k <= 2 * Mantissa + LongWidth => 2^m <= 2^(m + k)}
<1>1. 2^m \in Nat
  BY Powers, NumbersAssumption
<1>2. 0 \in S
  <2>1. m + 0 = m
    OBVIOUS
  <2> QED BY <1>1, <2>1
<1>3. ASSUME NEW k \in Nat, k \in S PROVE k + 1 \in S
  <2>1. CASE m + (k + 1) <= 2 * Mantissa + LongWidth
    <3>1. PICK j \in Nat : j = m + k
      OBVIOUS
    <3>2. 2^j \in Nat \ {0} /\ 2^(j + 1) = 2 * 2^j /\ 2^m <= 2^j
      BY <1>3, <2>1, <3>1, Powers, NumbersAssumption
    <3>3. 2^m <= 2^(j + 1)
      BY <1>1, <3>2
    <3>4. m + (k + 1) = j + 1
      BY <3>1
    <3> QED BY <3>3, <3>4
  <2>2. CASE ~(m + (k + 1) <= 2 * Mantissa + LongWidth)
    BY <2>2
  <2> QED BY <2>1, <2>2
<1>4. n - m \in S
  <2> HIDE DEF S
  <2> QED BY <1>2, <1>3, Induction
<1>5. m + (n - m) = n
  OBVIOUS
<1> QED BY <1>4, <1>5

(* The power of a sum of exponents.                                        *)
LEMMA PowersAdd ==
  ASSUME NEW m \in Nat, NEW n \in Nat, m + n <= 2 * Mantissa + LongWidth
  PROVE  2^(m + n) = 2^m * 2^n
<1> DEFINE S == {k \in Nat : m + k <= 2 * Mantissa + LongWidth => 2^(m + k) = 2^m * 2^k}
<1>1. PICK a \in Nat : a = 2^m
  BY Powers, NumbersAssumption
<1>2. 0 \in S
  <2>1. m + 0 = m /\ a * 1 = a
    OBVIOUS
  <2> QED BY <1>1, <2>1, Powers
<1>3. ASSUME NEW k \in Nat, k \in S PROVE k + 1 \in S
  <2>1. CASE m + (k + 1) <= 2 * Mantissa + LongWidth
    <3>1. PICK j \in Nat : j = m + k
      OBVIOUS
    <3>2. PICK b \in Nat : b = 2^k
      BY <2>1, Powers, NumbersAssumption
    <3>3. 2^j = a * b
      BY <1>1, <1>3, <2>1, <3>1, <3>2, NumbersAssumption
    <3>4. 2^(j + 1) = 2 * 2^j /\ 2^(k + 1) = 2 * b
      BY <2>1, <3>1, <3>2, Powers, NumbersAssumption
    <3>5. 2 * (a * b) = a * (2 * b)
      OBVIOUS
    <3>6. m + (k + 1) = j + 1
      BY <3>1
    <3> QED BY <1>1, <3>3, <3>4, <3>5, <3>6
  <2>2. CASE ~(m + (k + 1) <= 2 * Mantissa + LongWidth)
    BY <2>2
  <2> QED BY <2>1, <2>2
<1>4. n \in S
  <2> HIDE DEF S
  <2> QED BY <1>2, <1>3, Induction
<1> QED BY <1>4

(* Division with a remainder.                                              *)
LEMMA Remainder ==
  ASSUME NEW a \in Int, NEW b \in Nat \ {0}
  PROVE  a % b \in 0 .. b - 1
OBVIOUS

(* A quotient is an integer.                                               *)
LEMMA Quotient ==
  ASSUME NEW a \in Int, NEW b \in Nat \ {0}
  PROVE  a \div b \in Int
OBVIOUS

(* What is less than the divisor is its own remainder.                     *)
LEMMA SmallRemainder ==
  ASSUME NEW b \in Nat \ {0}, NEW a \in 0 .. b - 1
  PROVE  a % b = a
OBVIOUS

(* Division and remainder together give the dividend.                      *)
LEMMA Division ==
  ASSUME NEW a \in Nat, NEW b \in Nat \ {0}
  PROVE  a = b * (a \div b) + (a % b) /\ a \div b \in Nat
OBVIOUS

(* A positive factor may be dropped from both sides of an inequality.      *)
LEMMA Cancel ==
  ASSUME NEW e \in Nat \ {0}, NEW x \in Int, NEW y \in Int, e * x <= e * y
  PROVE  x <= y
<1> SUFFICES ASSUME ~(x <= y) PROVE FALSE
  OBVIOUS
<1>1. PICK k \in Nat \ {0} : x = y + k
  <2>1. x - y \in Nat \ {0} /\ x = y + (x - y)
    OBVIOUS
  <2> QED BY <2>1
<1>2. e * x = e * y + e * k
  BY <1>1
<1>3. e * k \in Nat \ {0} /\ e * y \in Int
  OBVIOUS
<1> QED BY <1>2, <1>3

(* A factor of zero or more may be put on both sides.                      *)
LEMMA Scale ==
  ASSUME NEW e \in Nat, NEW x \in Int, NEW y \in Int, x <= y
  PROVE  e * x <= e * y
<1>1. PICK k \in Nat : y = x + k
  <2>1. y - x \in Nat /\ y = x + (y - x)
    OBVIOUS
  <2> QED BY <2>1
<1>2. e * y = e * x + e * k
  BY <1>1
<1>3. e * k \in Nat /\ e * x \in Int
  OBVIOUS
<1> QED BY <1>2, <1>3

(* Rounding is off by half the divisor at most, and exact for multiples.   *)
LEMMA Rounds ==
  ASSUME NEW n \in Nat, NEW d \in Nat \ {0}
  PROVE  /\ RoundDiv(n, d) \in Nat
         /\ 2 * (d * RoundDiv(n, d) - n) <= d /\ 2 * (n - d * RoundDiv(n, d)) <= d
         /\ \A c \in Nat : n = d * c => RoundDiv(n, d) = c
<1>1. PICK q \in Nat : q = n \div d
  BY Division
<1>2. PICK r \in 0 .. d - 1 : r = n % d
  BY Remainder
<1>3. n = d * q + r
  BY <1>1, <1>2, Division
<1>4. PICK t \in Nat : t = RoundDiv(n, d)
  BY <1>1 DEF RoundDiv
<1>5. (t = q /\ 2 * r <= d) \/ (t = q + 1 /\ 2 * r >= d)
  BY <1>1, <1>2, <1>4 DEF RoundDiv
<1>6. PICK m \in Int : m = d * q
  OBVIOUS
<1>7. d * (q + 1) = m + d
  BY <1>6
<1>8. 2 * (d * t - n) <= d /\ 2 * (n - d * t) <= d
  BY <1>2, <1>3, <1>5, <1>6, <1>7
<1>9. ASSUME NEW c \in Nat, n = d * c PROVE t = c
  <2>1. CASE t > c
    <3>1. PICK k \in Nat \ {0} : t = c + k
      <4>1. t - c \in Nat \ {0} /\ t = c + (t - c)
        BY <2>1
      <4> QED BY <4>1
    <3>2. d * t = d * c + d * k /\ d * k >= d
      BY <3>1
    <3>3. PICK u \in Int, w \in Int : u = d * c /\ w = d * k
      OBVIOUS
    <3> QED BY <1>8, <1>9, <3>2, <3>3
  <2>2. CASE t < c
    <3>1. PICK k \in Nat \ {0} : c = t + k
      <4>1. c - t \in Nat \ {0} /\ c = t + (c - t)
        BY <2>2
      <4> QED BY <4>1
    <3>2. d * c = d * t + d * k /\ d * k >= d
      BY <3>1
    <3>3. PICK u \in Int, w \in Int : u = d * t /\ w = d * k
      OBVIOUS
    <3> QED BY <1>8, <1>9, <3>2, <3>3
  <2> QED BY <2>1, <2>2
<1> QED BY <1>4, <1>8, <1>9
-----------------------------------------------------------------------------
(* Wrap gives a number of w bits, and keeps one.                           *)
LEMMA Wrapped ==
  ASSUME NEW n \in Int, NEW w \in 1 .. LongWidth
  PROVE  /\ Wrap(n, w) \in Lim(w)
         /\ n \in Lim(w) => Wrap(n, w) = n
<1>1. PICK h : h = 2^(w - 1)
  OBVIOUS
<1>2. w - 1 \in 0 .. 2 * Mantissa + LongWidth /\ (w - 1) + 1 = w
  BY NumbersAssumption
<1>3. h \in Nat \ {0} /\ 2^w = 2 * h
  BY <1>1, <1>2, Powers
<1>4. PICK r : r = (n + h) % (2 * h)
  OBVIOUS
<1>5. r \in 0 .. 2 * h - 1
  BY <1>3, <1>4, Remainder
<1>6. Wrap(n, w) = r - h
  BY <1>1, <1>3, <1>4 DEF Wrap
<1>7. Lim(w) = -h .. (h - 1)
  BY <1>1 DEF Lim
<1>8. r - h \in -h .. (h - 1)
  BY <1>3, <1>5
<1>9. ASSUME n \in Lim(w) PROVE r = n + h
  <2>1. n + h \in 0 .. 2 * h - 1
    BY <1>3, <1>7, <1>9
  <2> QED BY <1>3, <1>4, <2>1, SmallRemainder
<1> QED BY <1>3, <1>6, <1>7, <1>8, <1>9

(* A float conversion gives an integral number of halves ...               *)
LEMMA FloatType ==
  ASSUME NEW v \in Int, Abs(v) < 2^(Mantissa + LongWidth)
  PROVE  Float(v) \in Int
<1>1. Abs(v) \in Nat
  BY DEF Abs
<1>2. Place(v) \in Nat \ {0}
  <2> DEFINE S == {k \in Nat : k <= LongWidth /\ 2^(Mantissa + k) > Abs(v)}
             W(k) == 2^(Mantissa + k) > Abs(v)
             Own(k) == W(k) /\ \A j \in 0 .. (k - 1) : ~W(j)
  <2>1. LongWidth \in S
    BY <1>1, Powers, NumbersAssumption
  <2>2. PICK m \in S : \A k \in S : m <= k
    <3> HIDE DEF S
    <3>1. S \subseteq Nat
      BY DEF S
    <3> QED BY <2>1, <3>1, LeastNatural
  <2>3. m \in 0 .. LongWidth /\ Own(m)
    BY <2>2, NumbersAssumption
  <2>4. PICK k : k = CHOOSE i \in 0 .. LongWidth : Own(i)
    OBVIOUS
  <2>5. k \in 0 .. LongWidth
    <3> HIDE DEF Own
    <3> QED BY <2>3, <2>4
  <2>6. Place(v) = 2^k
    BY <2>4, Zenon DEF Place
  <2>7. 2^k \in Nat \ {0}
    BY <2>5, Powers, NumbersAssumption
  <2> QED BY <2>6, <2>7
<1>3. PICK p \in Nat \ {0} : p = Place(v)
  BY <1>2
<1>4. PICK near \in Nat : near = RoundDiv(Abs(v), p)
  BY <1>1, <1>3, Rounds
<1>5. Float(v) = Sign(v) * p * near
  BY <1>3, <1>4 DEF Float
<1>6. Sign(v) \in {1, -1}
  BY DEF Sign
<1>7. Sign(v) * p \in Int
  BY <1>3, <1>6
<1> QED BY <1>4, <1>5, <1>7

(* The last place is 2^k for the least k that makes room.                  *)
LEMMA PlaceIs ==
  ASSUME NEW v \in Int, NEW k \in 0 .. LongWidth, Abs(v) < 2^(Mantissa + k),
         \A j \in 0 .. (k - 1) : 2^(Mantissa + j) <= Abs(v)
  PROVE  Place(v) = 2^k
<1> DEFINE Wide(i) == 2^(Mantissa + i) > Abs(v)
           Own(i) == Wide(i) /\ \A j \in 0 .. (i - 1) : ~Wide(j)
<1>1. Abs(v) \in Nat
  BY DEF Abs
<1>2. \A i \in 0 .. LongWidth : 2^(Mantissa + i) \in Nat
  BY Powers, NumbersAssumption
<1>3. Own(k)
  <2>1. ASSUME NEW j \in 0 .. (k - 1) PROVE ~Wide(j)
    <3>1. 2^(Mantissa + j) <= Abs(v)
      OBVIOUS
    <3>2. j \in 0 .. LongWidth
      BY NumbersAssumption
    <3>3. PICK e \in Nat : e = 2^(Mantissa + j)
      BY <1>2, <3>2
    <3> QED BY <1>1, <3>1, <3>3
  <2> QED BY <1>1, <1>2, <2>1
<1>4. ASSUME NEW i \in 0 .. LongWidth, Own(i) PROVE i = k
  <2>1. CASE i < k
    <3>1. i \in 0 .. (k - 1)
      BY <2>1
    <3> QED BY <1>1, <1>2, <1>4, <3>1
  <2>2. CASE k < i
    <3>1. k \in 0 .. (i - 1)
      BY <2>2
    <3> QED BY <1>3, <1>4, <3>1
  <2> QED BY <2>1, <2>2
<1>5. k = CHOOSE i \in 0 .. LongWidth : Own(i)
  <2> HIDE DEF Own
  <2> QED BY <1>3, <1>4
<1> QED BY <1>5, Zenon DEF Place

(* ... and keeps whole numbers of at most Mantissa bits.                   *)
LEMMA FloatExact ==
  ASSUME NEW v \in Int, v % 2 = 0, Abs(v) <= 2^(Mantissa + 1)
  PROVE  Float(v) = v
<1>1. Abs(v) \in Nat /\ v = Sign(v) * Abs(v) /\ Sign(v) \in {1, -1}
  BY DEF Abs, Sign
<1>2. PICK a \in Nat : a = Abs(v)
  BY <1>1
<1>3. a % 2 = 0
  BY <1>2 DEF Abs
<1>4. PICK h \in Nat \ {0} : 2^(Mantissa - 1) = h
  BY Powers, NumbersAssumption
<1>5. 2^Mantissa = 2 * h /\ 2^(Mantissa + 1) = 4 * h /\ 2^(Mantissa + 2) = 8 * h
  <2>1. Mantissa - 1 \in 0 .. 2 * Mantissa + LongWidth /\ (Mantissa - 1) + 1 = Mantissa
        /\ Mantissa \in 0 .. 2 * Mantissa + LongWidth
        /\ Mantissa + 1 \in 0 .. 2 * Mantissa + LongWidth
        /\ (Mantissa + 1) + 1 = Mantissa + 2
    BY NumbersAssumption
  <2>2. /\ 2^((Mantissa - 1) + 1) = 2 * 2^(Mantissa - 1)
        /\ 2^(Mantissa + 1) = 2 * 2^Mantissa
        /\ 2^((Mantissa + 1) + 1) = 2 * 2^(Mantissa + 1)
    BY <2>1, Powers
  <2> QED BY <1>4, <2>1, <2>2
<1>6. \E p \in {1, 2, 4} : Place(v) = p /\ a % p = 0
  <2>0. /\ 2^(Mantissa + 0) = 2 * h /\ 2^(Mantissa + 1) = 4 * h
        /\ 2^(Mantissa + 2) = 8 * h
        /\ 0 \in 0 .. LongWidth /\ 1 \in 0 .. LongWidth /\ 2 \in 0 .. LongWidth
    <3>1. Mantissa + 0 = Mantissa
      BY NumbersAssumption
    <3> QED BY <1>5, <3>1, NumbersAssumption
  <2>1. CASE a < 2 * h
    <3>1. Abs(v) < 2^(Mantissa + 0)
      BY <1>2, <2>0, <2>1
    <3>2. \A j \in 0 .. (0 - 1) : 2^(Mantissa + j) <= Abs(v)
      OBVIOUS
    <3>3. Place(v) = 2^0
      BY <2>0, <3>1, <3>2, PlaceIs
    <3> QED BY <3>3
  <2>2. CASE 2 * h <= a /\ a < 4 * h
    <3>1. \A j \in 0 .. (1 - 1) : 2^(Mantissa + j) <= Abs(v)
      BY <1>2, <2>0, <2>2
    <3>2. Abs(v) < 2^(Mantissa + 1)
      BY <1>2, <2>0, <2>2
    <3>3. Place(v) = 2^1
      BY <2>0, <3>1, <3>2, PlaceIs
    <3> QED BY <1>3, <3>3
  <2>3. CASE a = 4 * h
    <3>1. \A j \in 0 .. (2 - 1) : 2^(Mantissa + j) <= Abs(v)
      <4>1. ASSUME NEW j \in 0 .. (2 - 1) PROVE 2^(Mantissa + j) <= Abs(v)
        <5>1. j = 0 \/ j = 1
          OBVIOUS
        <5> QED BY <1>2, <2>0, <2>3, <5>1
      <4> QED BY <4>1
    <3>2. Abs(v) < 2^(Mantissa + 2)
      BY <1>2, <2>0, <2>3
    <3>3. Place(v) = 2^2
      BY <2>0, <3>1, <3>2, PlaceIs
    <3>4. a % 4 = 0
      BY <2>3
    <3> QED BY <3>3, <3>4
  <2> QED BY <1>2, <1>5, <2>1, <2>2, <2>3
<1>7. PICK p \in {1, 2, 4} : Place(v) = p /\ a % p = 0
  BY <1>6
<1>8. p * (a \div p) = a
  <2>1. CASE p = 1
    BY <2>1
  <2>2. CASE p = 2
    BY <1>7, <2>2
  <2>3. CASE p = 4
    BY <1>7, <2>3
  <2> QED BY <2>1, <2>2, <2>3
<1>9. PICK q \in Int : q = a \div p
  BY <1>7, Quotient
<1>10. RoundDiv(a, p) = q
  <2>1. p \in Nat \ {0} /\ q \in Nat /\ a = p * q
    BY <1>7, <1>8, <1>9, Division
  <2> QED BY <2>1, Rounds
<1>11. Float(v) = Sign(v) * p * q
  BY <1>2, <1>7, <1>10 DEF Float
<1>12. CASE Sign(v) = 1
  BY <1>1, <1>2, <1>8, <1>9, <1>11, <1>12
<1>13. CASE Sign(v) = -1
  <2>1. Float(v) = -1 * p * q
    BY <1>11, <1>13
  <2>2. p * q = a
    BY <1>8, <1>9
  <2>3. -1 * p * q = -(p * q)
    BY <1>7
  <2> QED BY <1>1, <1>2, <1>13, <2>1, <2>2, <2>3
<1> QED BY <1>1, <1>12, <1>13

(* float to int gives an int, and the number itself if it is one.          *)
LEMMA IntTypes ==
  ASSUME NEW v \in Int
  PROVE  /\ Int_(v) \in Lim(Width)
         /\ \A a \in Lim(Width) : v = 2 * a => Int_(v) = a
<1>1. Width \in 1 .. LongWidth
  BY NumbersAssumption
<1>2. PICK n \in Int : n = Sign(v) * (Abs(v) \div 2)
  <2>1. Sign(v) \in {1, -1} /\ Abs(v) \div 2 \in Int
    BY DEF Sign, Abs
  <2> QED BY <2>1
<1>3. Wrap(n, Width) \in Lim(Width) /\ (n \in Lim(Width) => Wrap(n, Width) = n)
  BY <1>1, Wrapped
<1>4. Int_(v) = IF n = Wrap(n, Width) THEN n ELSE -(2^(Width - 1))
  BY <1>2 DEF Int_
<1>5. 2^(Width - 1) \in Nat \ {0}
  BY Powers, NumbersAssumption
<1>6. -(2^(Width - 1)) \in Lim(Width)
  BY <1>5 DEF Lim
<1>7. ASSUME NEW a \in Lim(Width), v = 2 * a PROVE Int_(v) = a
  <2>1. a \in Int
    BY <1>5 DEF Lim
  <2>2. n = a
    BY <1>2, <1>7, <2>1 DEF Sign, Abs
  <2> QED BY <1>3, <1>4, <2>2
<1> QED BY <1>3, <1>4, <1>6, <1>7

(* The two functions that compute factorials, with and without overflow.   *)
LEMMA FactorialIs ==
  /\ factorial \in [Nat -> Nat \ {0}] /\ factorial[0] = 1
  /\ \A n \in Nat \ {0} : factorial[n] = n * factorial[n - 1]
<1> DEFINE V == Nat \ {0}
           step == [p \in (Nat \ {0}) \X V |-> p[1] * p[2]]
           F(b) == [n \in Nat |-> IF n = 0 THEN 1 ELSE n * b[n - 1]]
<1>1. \A n \in Nat \ {0}, v \in V : n * v \in V
  OBVIOUS
<1>2. step \in [(Nat \ {0}) \X V -> V]
  BY <1>1
<1>3. \A n \in Nat \ {0}, v \in V : step[<<n, v>>] = n * v
  OBVIOUS
<1>4. \E f : f \in [Nat -> V] /\ f = F(f)
  <2> HIDE DEF step, V
  <2>1. PICK f \in [Nat -> V] :
            f[0] = 1 /\ \A n \in Nat \ {0} : f[n] = step[<<n, f[n - 1]>>]
    <3>1. 1 \in V
      BY DEF V
    <3>2. Exists(V, 1, step)
      BY <1>2, <3>1, Recursion
    <3> QED BY <3>2 DEF Exists
  <2>2. ASSUME NEW n \in Nat \ {0} PROVE f[n] = n * f[n - 1]
    <3>1. f[n - 1] \in V
      BY <2>1
    <3> QED BY <1>3, <2>1, <3>1
  <2>3. \A n \in Nat : f[n] = IF n = 0 THEN 1 ELSE n * f[n - 1]
    BY <2>1, <2>2
  <2>4. f = [n \in Nat |-> f[n]]
    BY <2>1
  <2> QED BY <2>1, <2>3, <2>4
<1>5. factorial = F(factorial)
  <2>1. factorial = CHOOSE b : b = F(b)
    BY Zenon DEF factorial
  <2> HIDE DEF F
  <2> QED BY <1>4, <2>1
<1>6. factorial[0] = 1 /\ \A n \in Nat \ {0} : factorial[n] = n * factorial[n - 1]
  <2>1. PICK f : f = F(factorial)
    OBVIOUS
  <2>2. f[0] = 1 /\ \A n \in Nat \ {0} : f[n] = n * factorial[n - 1]
    BY <2>1
  <2>3. f = factorial
    BY <1>5, <2>1
  <2> QED BY <2>2, <2>3
<1>7. Nat \subseteq {n \in Nat : factorial[n] \in V}
  <2> DEFINE S == {n \in Nat : factorial[n] \in V}
  <2>1. 0 \in S
    BY <1>6
  <2>2. ASSUME NEW n \in Nat, n \in S PROVE n + 1 \in S
    <3>1. (n + 1) - 1 = n /\ n + 1 \in Nat \ {0}
      OBVIOUS
    <3>2. factorial[n + 1] = (n + 1) * factorial[n]
      BY <1>6, <3>1
    <3>3. PICK v \in V : v = factorial[n]
      BY <2>2
    <3>4. (n + 1) * v \in V
      BY <1>1, <3>1
    <3> QED BY <3>1, <3>2, <3>3, <3>4
  <2>3. Nat \subseteq S
    <3> HIDE DEF S
    <3> QED BY <2>1, <2>2, Induction
  <2> QED BY <2>3
<1>8. factorial = [n \in Nat |-> factorial[n]]
  <2>1. \A f : F(f) = [n \in Nat |-> F(f)[n]]
    OBVIOUS
  <2> HIDE DEF F
  <2> QED BY <1>5, <2>1
<1> QED BY <1>6, <1>7, <1>8

(* The loop of factorial() multiplies modulo 2^LongWidth.                  *)
LEMMA FactorialWraps ==
  /\ Factorial[0] = 1
  /\ \A n \in Nat \ {0} : Factorial[n] = (Factorial[n - 1] * n) % 2^LongWidth
  /\ \A n \in Nat : Factorial[n] \in Nat
<1>1. PICK m \in Nat \ {0} : m = 2^LongWidth
  BY Powers, NumbersAssumption
<1> DEFINE step == [p \in (Nat \ {0}) \X Nat |-> (p[2] * p[1]) % m]
           F(b) == [x \in Nat |-> IF x = 0 THEN 1 ELSE (b[x - 1] * x) % 2^LongWidth]
<1>2. ASSUME NEW n \in Nat \ {0}, NEW v \in Nat PROVE (v * n) % m \in Nat
  <2>1. v * n \in Int
    OBVIOUS
  <2> QED BY <2>1, Remainder
<1>3. step \in [(Nat \ {0}) \X Nat -> Nat]
  BY <1>2
<1>4. \A n \in Nat \ {0}, v \in Nat : step[<<n, v>>] = (v * n) % m
  OBVIOUS
<1>5. \E f : f \in [Nat -> Nat] /\ f = F(f)
  <2> HIDE DEF step
  <2>1. PICK f \in [Nat -> Nat] :
            f[0] = 1 /\ \A n \in Nat \ {0} : f[n] = step[<<n, f[n - 1]>>]
    <3>1. 1 \in Nat
      OBVIOUS
    <3>2. Exists(Nat, 1, step)
      BY <1>3, <3>1, Recursion
    <3> QED BY <3>2 DEF Exists
  <2>2. ASSUME NEW n \in Nat \ {0} PROVE f[n] = (f[n - 1] * n) % 2^LongWidth
    <3>1. f[n - 1] \in Nat
      BY <2>1
    <3> QED BY <1>1, <1>4, <2>1, <3>1
  <2>3. \A n \in Nat : f[n] = IF n = 0 THEN 1 ELSE (f[n - 1] * n) % 2^LongWidth
    BY <2>1, <2>2
  <2>4. f = [n \in Nat |-> f[n]]
    BY <2>1
  <2> QED BY <2>1, <2>3, <2>4
<1>6. Factorial = F(Factorial)
  <2>1. Factorial = CHOOSE b : b = F(b)
    BY Zenon DEF Factorial
  <2> HIDE DEF F
  <2> QED BY <1>5, <2>1
<1>7. /\ Factorial[0] = 1
      /\ \A n \in Nat \ {0} : Factorial[n] = (Factorial[n - 1] * n) % 2^LongWidth
  <2>1. PICK f : f = F(Factorial)
    OBVIOUS
  <2>2. f[0] = 1 /\ \A n \in Nat \ {0} : f[n] = (Factorial[n - 1] * n) % 2^LongWidth
    BY <2>1
  <2>3. f = Factorial
    BY <1>6, <2>1
  <2> QED BY <2>2, <2>3
<1>8. Nat \subseteq {n \in Nat : Factorial[n] \in Nat}
  <2> DEFINE S == {n \in Nat : Factorial[n] \in Nat}
  <2>1. 0 \in S
    BY <1>7
  <2>2. ASSUME NEW n \in Nat, n \in S PROVE n + 1 \in S
    <3>1. (n + 1) - 1 = n /\ n + 1 \in Nat \ {0}
      OBVIOUS
    <3>2. Factorial[n + 1] = (Factorial[n] * (n + 1)) % m
      BY <1>1, <1>7, <3>1
    <3>3. PICK v \in Nat : v = Factorial[n]
      BY <2>2
    <3>4. (v * (n + 1)) % m \in Nat
      BY <1>2, <3>1
    <3> QED BY <3>1, <3>2, <3>3, <3>4
  <2>3. Nat \subseteq S
    <3> HIDE DEF S
    <3> QED BY <2>1, <2>2, Induction
  <2> QED BY <2>3
<1> QED BY <1>7, <1>8

(* A factorial that is computed is exact.                                  *)
LEMMA FactorialExact ==
  ASSUME NEW a \in 0 .. Limit
  PROVE  Factorial[a] = factorial[a] /\ factorial[a] \in Lim(LongWidth)
<1> DEFINE M == 2^(LongWidth - 1)
           Low == {n \in Nat : n <= Limit => factorial[Limit - n] <= factorial[Limit]}
           S == {n \in Nat : n <= Limit => Factorial[n] = factorial[n]}
<1>1. M \in Nat \ {0} /\ 2^LongWidth = 2 * M
  <2>1. LongWidth - 1 \in 0 .. 2 * Mantissa + LongWidth /\ (LongWidth - 1) + 1 = LongWidth
    BY NumbersAssumption
  <2> QED BY <2>1, Powers
<1>2. Nat \subseteq Low
  <2>1. 0 \in Low
    BY FactorialIs, NumbersAssumption
  <2>2. ASSUME NEW n \in Nat, n \in Low PROVE n + 1 \in Low
    <3>1. CASE n + 1 <= Limit
      <4>1. PICK k \in Nat \ {0} : k = Limit - n
        BY <3>1, NumbersAssumption
      <4>2. Limit - (n + 1) = k - 1
        BY <4>1, NumbersAssumption
      <4>3. factorial[k] = k * factorial[k - 1] /\ factorial[k - 1] \in Nat \ {0}
            /\ factorial[Limit] \in Nat
        BY FactorialIs, NumbersAssumption
      <4>4. PICK f \in Nat : f = factorial[k - 1]
        BY <4>3
      <4>5. f <= k * f
        BY <4>1
      <4>6. k * f <= factorial[Limit]
        BY <2>2, <3>1, <4>1, <4>3, <4>4, NumbersAssumption
      <4> QED BY <4>2, <4>3, <4>4, <4>5, <4>6
    <3>2. CASE ~(n + 1 <= Limit)
      BY <3>2
    <3> QED BY <3>1, <3>2
  <2> HIDE DEF Low
  <2> QED BY <2>1, <2>2, Induction
<1>3. \A n \in 0 .. Limit : factorial[n] \in 0 .. (M - 1)
  <2>1. TAKE n \in 0 .. Limit
  <2>2. Limit - n \in Nat /\ Limit - (Limit - n) = n /\ Limit - n <= Limit
    BY NumbersAssumption
  <2>3. factorial[n] <= factorial[Limit]
    BY <1>2, <2>2
  <2>4. factorial[n] \in Nat /\ factorial[Limit] \in Nat
    BY FactorialIs, NumbersAssumption
  <2> QED BY <1>1, <2>3, <2>4, LimitAssumption
<1>4. Nat \subseteq S
  <2>1. 0 \in S
    BY FactorialIs, FactorialWraps
  <2>2. ASSUME NEW n \in Nat, n \in S PROVE n + 1 \in S
    <3>1. CASE n + 1 <= Limit
      <4>1. (n + 1) - 1 = n /\ n + 1 \in Nat \ {0} /\ n + 1 \in 0 .. Limit
        BY <3>1
      <4>2. Factorial[n + 1] = (factorial[n] * (n + 1)) % 2^LongWidth
        <5>1. Factorial[n] = factorial[n]
          BY <2>2, <3>1, NumbersAssumption
        <5>2. Factorial[n + 1] = (Factorial[n] * (n + 1)) % 2^LongWidth
          BY <4>1, FactorialWraps
        <5> QED BY <5>1, <5>2
      <4>3. factorial[n] \in Nat /\ factorial[n + 1] = (n + 1) * factorial[n]
        BY <4>1, FactorialIs
      <4>4. factorial[n] * (n + 1) = factorial[n + 1]
        BY <4>3
      <4>5. factorial[n + 1] \in 0 .. (2 * M - 1)
        BY <1>1, <1>3, <4>1
      <4>6. factorial[n + 1] % (2 * M) = factorial[n + 1]
        <5>1. PICK f : f = factorial[n + 1]
          OBVIOUS
        <5>2. PICK m \in Nat \ {0} : m = 2 * M
          BY <1>1
        <5>3. f \in 0 .. m - 1
          BY <4>5, <5>1, <5>2
        <5> QED BY <5>1, <5>2, <5>3, SmallRemainder
      <4> QED BY <1>1, <4>2, <4>4, <4>6
    <3>2. CASE ~(n + 1 <= Limit)
      BY <3>2
    <3> QED BY <3>1, <3>2
  <2> HIDE DEF S
  <2> QED BY <2>1, <2>2, Induction
<1>5. factorial[a] \in -M .. (M - 1)
  BY <1>1, <1>3
<1> QED BY <1>4, <1>5 DEF Lim
-----------------------------------------------------------------------------
Word == [junk : Nat, name : DOMAIN Letters]

(* Words have a length, and so have the words left in the buffer.          *)
LEMMA LettersType ==
  /\ Letters \in [DOMAIN Letters -> Nat]
  /\ \A n \in DOMAIN Letters : n # "" => Letters[n] # 0
<1> DEFINE names == {"add", "multiply", "divide", "factorial", "sleep", "quit",
                     "shutdown", "exit", ""}
           Length(n) == CASE n = "add" -> 3  [] n = "multiply" -> 8  [] n = "divide" -> 6
                [] n = "factorial" -> 9  [] n = "sleep" -> 5
                [] n = "shutdown" -> 8  [] n \in {"quit", "exit"} -> 4
                [] n = "" -> 0
<1>1. Letters = [n \in names |-> Length(n)]
  BY DEF Letters
<1>2. ASSUME NEW n \in names PROVE Length(n) \in {3, 8, 6, 9, 5, 4, 0}
  BY <1>2, Zenon
<1>3. ASSUME NEW n \in names, n # "" PROVE Length(n) \in {3, 8, 6, 9, 5, 4}
  BY <1>3, Zenon
<1> HIDE DEF Length, names
<1>4. \A n \in names : Length(n) \in Nat /\ (n # "" => Length(n) # 0)
  <2>1. ASSUME NEW n \in names PROVE Length(n) \in Nat /\ (n # "" => Length(n) # 0)
    <3>1. PICK v : v = Length(n)
      OBVIOUS
    <3>2. v \in {3, 8, 6, 9, 5, 4, 0}
      BY <1>2, <2>1, <3>1
    <3>3. v \in Nat
      BY <3>2
    <3>4. ASSUME n # "" PROVE v # 0
      <4>1. v \in {3, 8, 6, 9, 5, 4}
        BY <1>3, <2>1, <3>1, <3>4
      <4> QED BY <4>1
    <3> QED BY <3>1, <3>3, <3>4
  <2> QED BY <2>1
<1> QED BY <1>1, <1>4

(* The words of lines and buffers are words, and have a length.            *)
LEMMA WordTypes ==
  /\ EmptyCommand \in Word
  /\ \A w \in Word : LettersOf(w) \in Nat /\ Behind(w) \in Word
<1>1. "" \in DOMAIN Letters
  BY DEF Letters
<1>2. EmptyCommand \in Word
  BY <1>1 DEF EmptyCommand, Unknown, Word
<1>3. ASSUME NEW w \in Word PROVE LettersOf(w) \in Nat
  <2>1. w.junk \in Nat /\ w.name \in DOMAIN Letters
    BY <1>3 DEF Word
  <2>2. Letters[w.name] \in Nat
    BY <2>1, LettersType
  <2> QED BY <2>1, <2>2 DEF LettersOf
<1>4. ASSUME NEW w \in Word PROVE Behind(w) \in Word
  <2>1. w = [junk |-> w.junk, name |-> w.name] /\ w.junk \in Nat /\ w.name \in DOMAIN Letters
    BY <1>4 DEF Word
  <2>2. Letters[w.name] \in Nat
    BY <2>1, LettersType
  <2>3. CASE w.junk > 0
    <3>1. Behind(w) = [junk |-> w.junk - 1, name |-> w.name]
      BY <2>1, <2>3 DEF Behind
    <3> QED BY <2>1, <2>3, <3>1 DEF Word
  <2>4. CASE ~(w.junk > 0) /\ w.name = ""
    BY <2>4 DEF Behind
  <2>5. CASE ~(w.junk > 0) /\ w.name # ""
    <3>1. Behind(w) = Unknown(Letters[w.name] - 1)
      BY <2>5 DEF Behind
    <3>2. Letters[w.name] # 0
      BY <2>1, <2>5, LettersType
    <3>3. Letters[w.name] - 1 \in Nat
      BY <2>2, <3>2
    <3>4. \A k \in Nat : Unknown(k) \in Word
      BY <1>1 DEF Unknown, Word
    <3> QED BY <3>1, <3>3, <3>4
  <2> QED BY <2>3, <2>4, <2>5
<1> QED BY <1>2, <1>3, <1>4

(* Whatever a child answers has a length.                                  *)
LEMMA SizesOf ==
  ASSUME NEW a,
         \/ a.text \in {"number", "quotient"}
         \/ a.text = "notFound" /\ a.value[1] \in Nat
         \/ a \in {BadCount, DivByZero, OutOfRange, Negative, Bye, Slept, Unavailable}
  PROVE  Size(a) \in Nat \ {0}
<1> DEFINE lengths == {20, 47, 40, 26, 39, 33, 6, 1, 32}
<1>1. CASE a.text = "number"
  <2>1. a.text # "notFound"
    BY <1>1
  <2>2. Size(a) \in lengths
    BY <1>1, <2>1, Zenon DEF Size
  <2> QED BY <2>2
<1>2. CASE a.text = "quotient"
  <2>1. a.text # "notFound"
    BY <1>2
  <2>2. Size(a) \in lengths
    BY <1>2, <2>1, Zenon DEF Size
  <2> QED BY <2>2
<1>3. CASE a = BadCount
  <2>1. a.text # "notFound"
    BY <1>3 DEF BadCount, Says
  <2>2. Size(a) \in lengths
    BY <1>3, <2>1, Zenon DEF Size
  <2> QED BY <2>2
<1>4. CASE a = DivByZero
  <2>1. a.text # "notFound"
    BY <1>4 DEF DivByZero, Says
  <2>2. Size(a) \in lengths
    BY <1>4, <2>1, Zenon DEF Size
  <2> QED BY <2>2
<1>5. CASE a = OutOfRange
  <2>1. a.text # "notFound"
    BY <1>5 DEF OutOfRange, Says
  <2>2. Size(a) \in lengths
    BY <1>5, <2>1, Zenon DEF Size
  <2> QED BY <2>2
<1>6. CASE a = Negative
  <2>1. a.text # "notFound"
    BY <1>6 DEF Negative, Says
  <2>2. Size(a) \in lengths
    BY <1>6, <2>1, Zenon DEF Size
  <2> QED BY <2>2
<1>7. CASE a = Bye
  <2>1. a.text # "notFound"
    BY <1>7 DEF Bye, Says
  <2>2. Size(a) \in lengths
    BY <1>7, <2>1, Zenon DEF Size
  <2> QED BY <2>2
<1>8. CASE a = Slept
  <2>1. a.text # "notFound"
    BY <1>8 DEF Slept, Says
  <2>2. Size(a) \in lengths
    BY <1>8, <2>1, Zenon DEF Size
  <2> QED BY <2>2
<1>9. CASE a = Unavailable
  <2>1. a.text # "notFound"
    BY <1>9 DEF Unavailable, Says
  <2>2. Size(a) \in lengths
    BY <1>9, <2>1, Zenon DEF Size
  <2> QED BY <2>2
<1>10. CASE a.text = "notFound" /\ a.value[1] \in Nat
  <2>1. Size(a) \in lengths \cup {27 + a.value[1]}
    BY <1>10, Zenon DEF Size
  <2> QED BY <1>10, <2>1
<1> QED BY <1>1, <1>2, <1>3, <1>4, <1>5, <1>6, <1>7, <1>8, <1>9, <1>10

(* What is answered to a word that is a command of one or the other name.  *)
LEMMA CommandIs ==
  ASSUME NEW word, NEW a, NEW name, name = IF word.junk = 0 THEN word.name ELSE ""
  PROVE
    /\ name = "add" => FindCommand(word, a) =
         IF Len(a) # 2 THEN BadCount ELSE Shows(AddInts(Int_(a[1]), Int_(a[2])))
    /\ name = "multiply" => FindCommand(word, a) =
         IF Len(a) # 2 THEN BadCount ELSE Shows(MultiplyInts(Int_(a[1]), Int_(a[2])))
    /\ name = "divide" => FindCommand(word, a) =
         IF Len(a) # 2 THEN BadCount
         ELSE IF a[2] = 0 THEN DivByZero
         ELSE [text |-> "quotient", value |-> <<DivideFloats(a[1], a[2])>>]
    /\ name = "factorial" => FindCommand(word, a) =
         IF Len(a) # 1 THEN BadCount
         ELSE IF FactorialTakes(a[1]) THEN Shows(Wrap(Factorial[Int_(a[1])], LongWidth))
         ELSE OutOfRange
    /\ name = "sleep" => FindCommand(word, a) =
         IF Len(a) # 1 THEN BadCount ELSE IF a[1] < 0 THEN Negative ELSE Slept
    /\ name \in Leaving => FindCommand(word, a) = Bye
    /\ name = "" => FindCommand(word, a) = NotFound(word)
<1>1. CASE name = "add"
  <2>1. name # "multiply" /\ name # "divide" /\ name # "factorial" /\ name # "sleep"
        /\ name \notin Leaving /\ name # ""
    BY <1>1 DEF Leaving
  <2> QED BY <1>1, <2>1, Zenon DEF FindCommand
<1>2. CASE name = "multiply"
  <2>1. name # "add" /\ name # "divide" /\ name # "factorial" /\ name # "sleep"
        /\ name \notin Leaving /\ name # ""
    BY <1>2 DEF Leaving
  <2> QED BY <1>2, <2>1, Zenon DEF FindCommand
<1>3. CASE name = "divide"
  <2>1. name # "add" /\ name # "multiply" /\ name # "factorial" /\ name # "sleep"
        /\ name \notin Leaving /\ name # ""
    BY <1>3 DEF Leaving
  <2> QED BY <1>3, <2>1, Zenon DEF FindCommand
<1>4. CASE name = "factorial"
  <2>1. name # "add" /\ name # "multiply" /\ name # "divide" /\ name # "sleep"
        /\ name \notin Leaving /\ name # ""
    BY <1>4 DEF Leaving
  <2> QED BY <1>4, <2>1, Zenon DEF FindCommand
<1>5. CASE name = "sleep"
  <2>1. name # "add" /\ name # "multiply" /\ name # "divide" /\ name # "factorial"
        /\ name \notin Leaving /\ name # ""
    BY <1>5 DEF Leaving
  <2> QED BY <1>5, <2>1, Zenon DEF FindCommand
<1>6. CASE name \in Leaving
  <2>1. name # "add" /\ name # "multiply" /\ name # "divide" /\ name # "factorial"
        /\ name # "sleep" /\ name # ""
    BY <1>6 DEF Leaving
  <2> QED BY <1>6, <2>1, Zenon DEF FindCommand
<1>7. CASE name = ""
  <2>1. name # "add" /\ name # "multiply" /\ name # "divide" /\ name # "factorial"
        /\ name # "sleep" /\ name \notin Leaving
    BY <1>7 DEF Leaving
  <2> QED BY <1>7, <2>1, Zenon DEF FindCommand
<1> QED BY <1>1, <1>2, <1>3, <1>4, <1>5, <1>6, <1>7, Zenon
-----------------------------------------------------------------------------
(* The parameters kept are whole numbers of halves.                        *)
LEMMA ArgumentsType ==
  ASSUME NEW tokens \in Seq(Token)
  PROVE  /\ Arguments(tokens) \in Seq(Int)
         /\ Len(tokens) < 2 => Len(Arguments(tokens)) = Len(tokens)
         /\ Len(tokens) >= 2 => Len(Arguments(tokens)) = 2
         /\ \A i \in 1 .. Len(Arguments(tokens)) :
               i \in 1 .. Len(tokens) /\ Arguments(tokens)[i] = Argument(tokens[i])
<1>1. PICK kept : kept = IF Len(tokens) < 2 THEN Len(tokens) ELSE 2
  OBVIOUS
<1>2. kept \in Nat /\ kept <= Len(tokens) /\ Len(tokens) \in Nat
  BY <1>1
<1>3. Arguments(tokens) = [i \in 1 .. kept |-> Argument(tokens[i])]
  BY <1>1, Zenon DEF Arguments
<1>4. ASSUME NEW i \in 1 .. kept PROVE Argument(tokens[i]) \in Int
  <2>1. PICK t \in Token : t = tokens[i]
    BY <1>2
  <2>2. t.halves \in Int /\ Abs(t.halves) < 2^(Mantissa + LongWidth)
    BY DEF Token
  <2>3. Float(t.halves) \in Int
    BY <2>2, FloatType
  <2> QED BY <2>1, <2>3 DEF Argument
<1>5. Arguments(tokens) \in Seq(Int) /\ Len(Arguments(tokens)) = kept
  BY <1>2, <1>3, <1>4
<1> QED BY <1>1, <1>2, <1>3, <1>5

(* A number a child answers fits the type it is printed as.                *)
LEMMA NumbersFit ==
  ASSUME NEW word \in Word, NEW a \in Seq(Int), FindCommand(word, a).text = "number"
  PROVE  FindCommand(word, a).value[1] \in
           Lim(IF word = Name("factorial") THEN LongWidth ELSE Width)
<1>1. PICK name : name = IF word.junk = 0 THEN word.name ELSE ""
  OBVIOUS
<1>2. PICK f : f = FindCommand(word, a)
  OBVIOUS
<1>3. /\ BadCount.text # "number" /\ DivByZero.text # "number"
      /\ OutOfRange.text # "number" /\ Negative.text # "number"
      /\ Slept.text # "number" /\ Bye.text # "number"
      /\ NotFound(word).text # "number"
  BY DEF BadCount, DivByZero, OutOfRange, Negative, Slept, Bye, NotFound, Says
<1>4. \A n : Shows(n).value[1] = n
  BY DEF Shows
<1>5. Width \in 1 .. LongWidth /\ LongWidth \in 1 .. LongWidth
  BY NumbersAssumption
<1>6. name = "factorial" <=> word = Name("factorial")
  <2>1. word = [junk |-> word.junk, name |-> word.name]
    BY DEF Word
  <2>2. ASSUME word = Name("factorial") PROVE name = "factorial"
    <3>1. word.junk = 0 /\ word.name = "factorial"
      BY <2>2 DEF Name
    <3> QED BY <1>1, <3>1
  <2>3. ASSUME name = "factorial" PROVE word = Name("factorial")
    <3>1. name # ""
      BY <2>3
    <3>2. word.junk = 0 /\ word.name = name
      BY <1>1, <3>1
    <3> QED BY <2>1, <2>3, <3>2 DEF Name
  <2> QED BY <2>2, <2>3
<1>7. \A i \in 1 .. Len(a) : a[i] \in Int /\ Int_(a[i]) \in Int
  <2>1. 2^(Width - 1) \in Nat
    BY Powers, NumbersAssumption
  <2>2. Lim(Width) \subseteq Int
    BY <2>1 DEF Lim
  <2> QED BY <2>2, IntTypes
<1>8. CASE name \in {"add", "multiply"}
  <2>1. Len(a) = 2
    BY <1>1, <1>2, <1>3, <1>8, CommandIs
  <2>2. PICK x \in Int : x = Int_(a[1])
    BY <1>7, <2>1
  <2>3. PICK y \in Int : y = Int_(a[2])
    BY <1>7, <2>1
  <2>4. f \in {Shows(AddInts(x, y)), Shows(MultiplyInts(x, y))}
    BY <1>1, <1>2, <1>8, <2>1, <2>2, <2>3, CommandIs
  <2>5. AddInts(x, y) \in Lim(Width)
    <3>1. x + y \in Int
      OBVIOUS
    <3> QED BY <1>5, <3>1, Wrapped DEF AddInts
  <2>6. MultiplyInts(x, y) \in Lim(Width)
    <3>1. x * y \in Int
      OBVIOUS
    <3> QED BY <1>5, <3>1, Wrapped DEF MultiplyInts
  <2>7. f.value[1] \in Lim(Width)
    BY <1>4, <2>4, <2>5, <2>6
  <2>8. word # Name("factorial")
    BY <1>6, <1>8
  <2> QED BY <1>2, <2>7, <2>8
<1>9. CASE name = "factorial"
  <2>0. f = IF Len(a) # 1 THEN BadCount
            ELSE IF FactorialTakes(a[1]) THEN Shows(Wrap(Factorial[Int_(a[1])], LongWidth))
            ELSE OutOfRange
    BY <1>1, <1>2, <1>9, CommandIs, Zenon
  <2>1. Len(a) = 1 /\ FactorialTakes(a[1])
    BY <1>2, <1>3, <2>0
  <2>2. PICK v \in Int : v = a[1]
    <3>1. Len(a) = 1
      BY <2>1
    <3> QED BY <1>7, <3>1
  <2>3. v >= 0 /\ v <= 2 * Limit
    BY <2>1, <2>2 DEF FactorialTakes
  <2>4. PICK n \in Int : n = v \div 2
    OBVIOUS
  <2>5. n >= 0 /\ n <= Limit
    BY <2>3, <2>4, NumbersAssumption
  <2>6. Int_(v) = n
    <3>1. Sign(v) * (Abs(v) \div 2) = n
      BY <2>3, <2>4 DEF Sign, Abs
    <3>2. 2^(Width - 1) \in Nat
      BY Powers, NumbersAssumption
    <3>3. n \in Lim(Width)
      BY <2>5, <3>2, NumbersAssumption DEF Lim
    <3>4. Wrap(n, Width) = n
      BY <1>5, <3>3, Wrapped
    <3> QED BY <3>1, <3>4 DEF Int_
  <2>7. f = Shows(Wrap(Factorial[n], LongWidth))
    BY <2>0, <2>1, <2>2, <2>6
  <2>8. Factorial[n] \in Int
    <3>1. n \in Nat
      BY <2>5
    <3>2. Factorial[n] \in Nat
      BY <3>1, FactorialWraps, Zenon
    <3> QED BY <3>2
  <2>9. Wrap(Factorial[n], LongWidth) \in Lim(LongWidth)
    BY <1>5, <2>8, Wrapped
  <2> QED BY <1>2, <1>4, <1>6, <1>9, <2>7, <2>9
<1>10. CASE name = "divide"
  <2>0. f = IF Len(a) # 2 THEN BadCount
            ELSE IF a[2] = 0 THEN DivByZero
            ELSE [text |-> "quotient", value |-> <<DivideFloats(a[1], a[2])>>]
    BY <1>1, <1>2, <1>10, CommandIs, Zenon
  <2>1. f \in {BadCount, DivByZero} \/ f.text = "quotient"
    BY <2>0
  <2> QED BY <1>2, <1>3, <2>1
<1>11. CASE name = "sleep"
  <2>1. f = IF Len(a) # 1 THEN BadCount ELSE IF a[1] < 0 THEN Negative ELSE Slept
    BY <1>1, <1>2, <1>11, CommandIs, Zenon
  <2> QED BY <1>2, <1>3, <2>1
<1>12. CASE name \in Leaving \cup {""}
  BY <1>1, <1>3, <1>12, CommandIs
<1>13. name \in {"add", "multiply", "divide", "factorial", "sleep", "quit",
                 "shutdown", "exit", ""}
  <2>1. word.name \in DOMAIN Letters
    BY DEF Word
  <2> QED BY <1>1, <2>1 DEF Letters
<1> QED BY <1>8, <1>9, <1>10, <1>11, <1>12, <1>13 DEF Leaving

(* A whole number of at most Mantissa bits reaches a procedure as it is.   *)
LEMMA SmallArgument ==
  ASSUME NEW t \in Token, t.numeric, t.halves % 2 = 0, Abs(t.halves) <= 2^(Mantissa + 1),
         NEW v, v = t.halves \div 2
  PROVE  Argument(t) = 2 * v /\ v \in Lim(Width) /\ v \in Int /\ Int_(2 * v) = v
<1>1. PICK h \in Int : h = t.halves
  BY DEF Token
<1>2. v \in Int /\ 2 * v = h
  BY <1>1
<1>3. Argument(t) = h
  BY <1>1, FloatExact DEF Argument
<1>4. v \in Lim(Width)
  <2>1. PICK m \in Nat \ {0} : m = 2^(Width - 1)
    BY Powers, NumbersAssumption
  <2>2. 2^(Mantissa + 1) <= 2^(Width - 1)
    BY PowersGrow, NumbersAssumption
  <2>3. PICK e \in Nat : e = 2^(Mantissa + 1)
    BY Powers, NumbersAssumption
  <2>4. Abs(h) <= m
    BY <1>1, <2>1, <2>2, <2>3 DEF Abs
  <2>5. v \in -m .. (m - 1)
    BY <1>2, <2>1, <2>4 DEF Abs
  <2> QED BY <2>1, <2>5 DEF Lim
<1> QED BY <1>1, <1>2, <1>3, <1>4, IntTypes

-----------------------------------------------------------------------------
(* Two roundings, of n * e / d to m and of m * u / e to p, leave p as near *)
(* to u * n / d as this.                                                   *)
LEMMA TwoRoundings ==
  ASSUME NEW n \in Nat, NEW d \in Nat \ {0}, NEW e \in Nat \ {0}, NEW h \in Nat,
         NEW m \in Nat, NEW p \in Nat, NEW u \in Nat,
         2 * (d * m - n * e) <= d, 2 * (n * e - d * m) <= d,
         2 * (e * p - u * m) <= e, 2 * (u * m - e * p) <= e,
         d * h <= 2 * (n * e)
  PROVE  /\ 2 * (h * (d * p - u * n)) <= h * d + 2 * (u * n)
         /\ 2 * (h * (u * n - d * p)) <= h * d + 2 * (u * n)
<1>1. PICK a \in Int : a = d * m - n * e
  OBVIOUS
<1>2. PICK b \in Int : b = e * p - u * m
  OBVIOUS
<1>3. PICK o \in Int : o = d * p - u * n
  OBVIOUS
<1>4. e * o = d * b + u * a
  <2>1. e * o = e * (d * p) - e * (u * n)
    BY <1>3
  <2>2. d * b = d * (e * p) - d * (u * m)
    BY <1>2
  <2>3. u * a = u * (d * m) - u * (n * e)
    BY <1>1
  <2>4. e * (d * p) = d * (e * p) /\ d * (u * m) = u * (d * m)
        /\ e * (u * n) = u * (n * e)
    OBVIOUS
  <2> QED BY <2>1, <2>2, <2>3, <2>4
<1>5. -e <= 2 * b /\ 2 * b <= e /\ -d <= 2 * a /\ 2 * a <= d
  BY <1>1, <1>2
<1>6. d * (-e) <= d * (2 * b) /\ d * (2 * b) <= d * e
  BY <1>5, Scale
<1>7. u * (-d) <= u * (2 * a) /\ u * (2 * a) <= u * d
  BY <1>5, Scale
<1>8. PICK x \in Int : x = d * e + u * d
  OBVIOUS
<1>9. -x <= 2 * (e * o) /\ 2 * (e * o) <= x
  <2>1. PICK v \in Int, w \in Int : v = d * b /\ w = u * a
    OBVIOUS
  <2>2. PICK s \in Int, t \in Int : s = d * e /\ t = u * d
    OBVIOUS
  <2>3. d * (2 * b) = 2 * v /\ u * (2 * a) = 2 * w /\ d * (-e) = -s /\ u * (-d) = -t
    BY <2>1, <2>2
  <2> QED BY <1>4, <1>6, <1>7, <1>8, <2>1, <2>2, <2>3
<1>10. PICK y \in Int : y = h * d + 2 * (u * n)
  OBVIOUS
<1>11. h * x <= e * y
  <2>1. u * (d * h) <= u * (2 * (n * e))
    BY Scale
  <2>2. h * x = h * (d * e) + u * (d * h)
    BY <1>8
  <2>3. e * y = h * (d * e) + u * (2 * (n * e))
    BY <1>10
  <2> QED BY <2>1, <2>2, <2>3
<1>12. h * (-x) <= h * (2 * (e * o)) /\ h * (2 * (e * o)) <= h * x
  BY <1>9, Scale
<1>13. PICK g \in Int : g = 2 * (h * o)
  OBVIOUS
<1>14. h * (2 * (e * o)) = e * g
  BY <1>13
<1>15. e * g <= e * y /\ e * (-g) <= e * y
  <2>1. h * (-x) = -(h * x) /\ e * (-g) = -(e * g)
    OBVIOUS
  <2> QED BY <1>11, <1>12, <1>14, <2>1
<1>16. g <= y /\ -g <= y
  BY <1>15, Cancel
<1>17. 2 * (h * (u * n - d * p)) = -g
  <2>1. u * n - d * p = -o
    BY <1>3
  <2> QED BY <1>13, <2>1
<1> QED BY <1>3, <1>10, <1>13, <1>16, <1>17

(* The scale of a float below 2^Mantissa: it leaves room, and the next     *)
(* finer one does not.                                                     *)
LEMMA BelowIs ==
  ASSUME NEW n \in Nat, NEW d \in Nat \ {0}, NEW h \in Nat, h = 2^Mantissa, n < d * h
  PROVE  \E k \in 0 .. 2 * Mantissa + LongWidth :
           /\ Below(n, d) = k /\ n * 2^k < d * h
           /\ k # 2 * Mantissa + LongWidth => ~(n * 2^(k + 1) < d * h)
<1> DEFINE Finest == 2 * Mantissa + LongWidth
           Wide(i) == n * 2^i < d * 2^Mantissa
           Own(i) == Wide(i) /\ \A j \in (i + 1) .. Finest : ~Wide(j)
           S == {j \in Nat : j <= Finest /\ Wide(Finest - j)}
<1>1. Finest \in Nat
  BY NumbersAssumption
<1>2. Wide(0)
  BY Powers
<1>3. PICK m \in S : \A j \in S : m <= j
  <2>1. Finest \in S
    <3>1. Finest - Finest = 0
      BY <1>1
    <3> HIDE DEF Wide
    <3> QED BY <1>1, <1>2, <3>1
  <2>2. S \subseteq Nat
    OBVIOUS
  <2> HIDE DEF S
  <2> QED BY <2>1, <2>2, LeastNatural
<1>4. PICK i \in 0 .. Finest : i = Finest - m
  BY <1>1
<1>5. Own(i)
  <2>1. Wide(i)
    <3> HIDE DEF Wide
    <3> QED BY <1>4
  <2>2. ASSUME NEW j \in (i + 1) .. Finest, Wide(j) PROVE FALSE
    <3>1. PICK g \in Nat : g = Finest - j
      BY <1>1, <1>4, <2>2
    <3>2. Finest - g = j /\ g <= Finest /\ g < m
      BY <1>1, <1>4, <2>2, <3>1
    <3>3. g \in S
      <4> HIDE DEF Wide
      <4> QED BY <2>2, <3>1, <3>2
    <3>4. m <= g
      BY <1>3, <3>3
    <3> QED BY <3>2, <3>4
  <2> HIDE DEF Wide
  <2> QED BY <2>1, <2>2
<1>6. PICK k : k = CHOOSE j \in 0 .. Finest : Own(j)
  OBVIOUS
<1>7. k \in 0 .. Finest /\ Own(k)
  <2> HIDE DEF Own
  <2> QED BY <1>5, <1>6
<1>8. Below(n, d) = k
  BY <1>6, Zenon DEF Below
<1>9. ASSUME k # Finest PROVE ~Wide(k + 1)
  <2>1. k + 1 \in (k + 1) .. Finest
    BY <1>1, <1>7, <1>9
  <2> HIDE DEF Wide
  <2> QED BY <1>7, <2>1
<1> QED BY <1>7, <1>8, <1>9

(* v is as near to u * n / d, and exactly that if there is no remainder.   *)
NearTo(v, u, n, d, h) ==
  /\ v \in Nat
  /\ 2 * (h * (d * v - u * n)) <= h * d + 2 * (u * n)
  /\ 2 * (h * (u * n - d * v)) <= h * d + 2 * (u * n)
  /\ \A c \in Nat : n = d * c => v = u * c

(* A quotient of numbers of at most Mantissa bits is printed as nearly as  *)
(* a float and six decimals allow.                                         *)
LEMMA PrintedNear ==
  ASSUME NEW h \in Nat, h = 2^Mantissa, NEW u \in Nat, u = Units,
         NEW n \in Nat, n <= 2 * h, NEW d \in Nat, 2 <= d, d <= 2 * h
  PROVE  NearTo(Printed6(n, d), u, n, d, h)
<1>0. PICK v : v = Printed6(n, d)
  OBVIOUS
<1> SUFFICES /\ v \in Nat
             /\ 2 * (h * (d * v - u * n)) <= h * d + 2 * (u * n)
             /\ 2 * (h * (u * n - d * v)) <= h * d + 2 * (u * n)
             /\ \A c \in Nat : n = d * c => v = u * c
  BY <1>0, Zenon DEF NearTo
<1>1. d \in Nat \ {0}
  OBVIOUS
<1>2. PICK g \in Nat \ {0} : h = 2 * g
  <2>1. Mantissa - 1 \in 0 .. 2 * Mantissa + LongWidth /\ (Mantissa - 1) + 1 = Mantissa
    BY NumbersAssumption
  <2> QED BY <2>1, Powers
<1>3. CASE h * d <= n
  <2>1. h * d = d * h /\ h * d <= h * 2 /\ h * 2 <= h * d
    <3>1. h * 2 <= h * d
      BY Scale
    <3> QED BY <1>3, <3>1
  <2>2. d = 2 /\ n = 2 * h
    <3>1. d <= 2
      BY <1>2, <2>1, Cancel
    <3> QED BY <1>3, <3>1
  <2>3. Above(n, d) = 1
    <3> DEFINE Wide(i) == n < d * 2^(Mantissa + i)
               Own(i) == Wide(i) /\ \A j \in 1 .. (i - 1) : ~Wide(j)
    <3>1. Wide(1)
      <4>1. 2^(Mantissa + 1) = 2 * h
        BY Powers, NumbersAssumption
      <4> QED BY <1>2, <2>2, <4>1
    <3>2. Own(1)
      BY <3>1
    <3>3. ASSUME NEW i \in 1 .. (LongWidth + 1), Own(i) PROVE i = 1
      <4>1. i # 1 => 1 \in 1 .. (i - 1)
        BY NumbersAssumption
      <4> HIDE DEF Wide
      <4> QED BY <3>1, <3>3, <4>1
    <3>4. 1 \in 1 .. (LongWidth + 1)
      BY NumbersAssumption
    <3>5. 1 = CHOOSE i \in 1 .. (LongWidth + 1) : Own(i)
      <4> HIDE DEF Own
      <4> QED BY <3>2, <3>3, <3>4
    <3> QED BY <3>5, Zenon DEF Above
  <2>4. 2^Above(n, d) = 2
    <3>1. 2^(0 + 1) = 2 * 2^0
      BY Powers, NumbersAssumption
    <3> QED BY <2>3, <3>1, Powers
  <2>5. RoundDiv(n, d * 2) = g
    <3>1. n = 4 * g /\ d * 2 = 4
      BY <1>2, <2>2
    <3> QED BY <3>1, Rounds
  <2>6. Large(n, d)
    BY <1>3 DEF Large
  <2>7. v = u * 2 * g
    BY <1>0, <2>4, <2>5, <2>6 DEF Printed6
  <2>8. v = u * h
    BY <1>2, <2>7
  <2>9. d * v = u * n
    BY <2>2, <2>8
  <2>10. \A c \in Nat : n = d * c => c = h
    BY <2>2
  <2>11. v \in Nat /\ d * v - u * n = 0 /\ u * n - d * v = 0
    BY <2>8, <2>9
  <2>12. 2 * (h * 0) <= h * d + 2 * (u * n)
    <3>1. h * d \in Nat /\ u * n \in Nat /\ h * 0 = 0
      OBVIOUS
    <3> QED BY <3>1
  <2>13. /\ 2 * (h * (d * v - u * n)) <= h * d + 2 * (u * n)
         /\ 2 * (h * (u * n - d * v)) <= h * d + 2 * (u * n)
    BY <2>11, <2>12, Zenon
  <2>14. \A c \in Nat : n = d * c => v = u * c
    BY <2>8, <2>10, Zenon
  <2> QED BY <2>11, <2>13, <2>14
<1>4. CASE ~(h * d <= n)
  <2>1. n < d * h
    BY <1>4
  <2>2. PICK k \in 0 .. 2 * Mantissa + LongWidth :
           /\ Below(n, d) = k /\ n * 2^k < d * h
           /\ k # 2 * Mantissa + LongWidth => ~(n * 2^(k + 1) < d * h)
    BY <1>1, <2>1, BelowIs
  <2>3. PICK e \in Nat \ {0} : e = 2^k /\ 2^(k + 1) = 2 * e
    BY Powers
  <2>4. PICK m \in Nat : m = RoundDiv(n * e, d)
    BY Rounds
  <2>5. v = RoundDiv(u * m, e)
    <3>1. ~Large(n, d)
      BY <1>4 DEF Large
    <3> QED BY <1>0, <2>2, <2>3, <2>4, <3>1 DEF Printed6
  <2>6. n * e \in Nat /\ u * m \in Nat /\ d \in Nat \ {0}
    BY <1>1
  <2>7. 2 * (d * m - n * e) <= d /\ 2 * (n * e - d * m) <= d
    BY <2>4, <2>6, Rounds
  <2>8. v \in Nat /\ 2 * (e * v - u * m) <= e /\ 2 * (u * m - e * v) <= e
    BY <2>5, <2>6, Rounds
  <2>9. ASSUME NEW c \in Nat, n = d * c PROVE v = u * c
    <3>1. n * e = d * (c * e) /\ c * e \in Nat
      BY <2>9
    <3>2. m = c * e
      BY <2>4, <2>6, <3>1, Rounds
    <3>3. u * m = e * (u * c) /\ u * c \in Nat
      BY <3>2
    <3> QED BY <2>5, <2>6, <3>3, Rounds
  <2>10. CASE n = 0
    <3>1. v = 0
      <4>1. n = d * 0
        BY <2>10
      <4> QED BY <2>9, <4>1
    <3>2. d * v - u * n = 0 /\ u * n - d * v = 0
      BY <2>10, <3>1
    <3>3. 2 * (h * 0) <= h * d + 2 * (u * n)
      <4>1. h * d \in Nat /\ u * n \in Nat /\ h * 0 = 0
        OBVIOUS
      <4> QED BY <4>1
    <3>4. /\ 2 * (h * (d * v - u * n)) <= h * d + 2 * (u * n)
          /\ 2 * (h * (u * n - d * v)) <= h * d + 2 * (u * n)
      BY <3>2, <3>3, Zenon
    <3> QED BY <2>8, <2>9, <3>4
  <2>11. CASE n # 0
    <3>1. k # 2 * Mantissa + LongWidth
      <4>1. PICK f \in Nat : f = 2^(2 * Mantissa + LongWidth)
        BY Powers, NumbersAssumption
      <4>2. 2 * (h * h) <= f
        <5>1. 2^(Mantissa + (Mantissa + 1)) = h * (2 * h)
          <6>1. 2^(Mantissa + 1) = 2 * h
            BY Powers, NumbersAssumption
          <6> QED BY <6>1, PowersAdd, NumbersAssumption
        <5>2. 2^(Mantissa + (Mantissa + 1)) <= f
          BY <4>1, PowersGrow, NumbersAssumption
        <5>3. h * (2 * h) = 2 * (h * h)
          OBVIOUS
        <5> QED BY <5>1, <5>2, <5>3
      <4>3. d * h <= 2 * (h * h)
        <5>1. h * d <= h * (2 * h)
          BY Scale
        <5>2. h * d = d * h /\ h * (2 * h) = 2 * (h * h)
          OBVIOUS
        <5> QED BY <5>1, <5>2
      <4>4. f <= n * f
        <5>1. f * 1 <= f * n
          BY <2>11, Scale
        <5>2. f * 1 = f /\ f * n = n * f
          OBVIOUS
        <5> QED BY <5>1, <5>2
      <4>5. PICK x \in Int, y \in Int, z \in Int : x = d * h /\ y = h * h /\ z = n * f
        OBVIOUS
      <4>6. ~(n * f < d * h)
        BY <4>2, <4>3, <4>4, <4>5
      <4> QED BY <2>2, <4>1, <4>6
    <3>2. d * h <= 2 * (n * e)
      <4>1. n * (2 * e) = 2 * (n * e) /\ n * e \in Nat /\ d * h \in Nat
        OBVIOUS
      <4> QED BY <2>2, <2>3, <3>1, <4>1
    <3>3. /\ 2 * (h * (d * v - u * n)) <= h * d + 2 * (u * n)
          /\ 2 * (h * (u * n - d * v)) <= h * d + 2 * (u * n)
      BY <1>1, <2>7, <2>8, <3>2, TwoRoundings
    <3> QED BY <2>8, <2>9, <3>3
  <2> QED BY <2>10, <2>11
<1> QED BY <1>3, <1>4

(* Dividing two small whole numbers, of either sign.                       *)
LEMMA DividesNearly ==
  ASSUME NEW x \in Int, NEW y \in Int, y # 0,
         Abs(2 * x) <= 2^(Mantissa + 1), Abs(2 * y) <= 2^(Mantissa + 1)
  PROVE  IsQuotient(DivideFloats(2 * x, 2 * y), x, y)
<1>1. PICK h \in Nat : h = 2^Mantissa /\ 2^(Mantissa + 1) = 2 * h
  BY Powers, NumbersAssumption
<1>2. PICK a \in Nat : a = Abs(x) /\ Abs(2 * x) = 2 * a /\ x = Sign(2 * x) * a
  BY DEF Abs, Sign
<1>3. PICK b \in Nat \ {0} : b = Abs(y) /\ Abs(2 * y) = 2 * b /\ y = Sign(2 * y) * b
  BY DEF Abs, Sign
<1>4. PICK u \in Nat : u = Units
  BY DEF Units
<1>5. PICK p : p = Printed6(2 * a, 2 * b)
  OBVIOUS
<1>6. /\ p \in Nat
      /\ 2 * (h * ((2 * b) * p - u * (2 * a))) <= h * (2 * b) + 2 * (u * (2 * a))
      /\ 2 * (h * (u * (2 * a) - (2 * b) * p)) <= h * (2 * b) + 2 * (u * (2 * a))
      /\ \A c \in Nat : 2 * a = (2 * b) * c => p = u * c
  <2>1. 2 * a <= 2 * h /\ 2 * b <= 2 * h /\ 2 <= 2 * b
    BY <1>1, <1>2, <1>3
  <2>2. PICK n \in Nat, d \in Nat : n = 2 * a /\ d = 2 * b
    OBVIOUS
  <2>3. p = Printed6(n, d) /\ n <= 2 * h /\ 2 <= d /\ d <= 2 * h
    BY <1>5, <2>1, <2>2
  <2>4. NearTo(p, u, n, d, h)
    BY <1>1, <1>4, <2>3, PrintedNear
  <2> QED BY <2>2, <2>4, Zenon DEF NearTo
<1>7. PICK s \in {1, -1} : s = Sign(2 * x)
  BY DEF Sign
<1>8. PICK t \in {1, -1} : t = Sign(2 * y)
  BY DEF Sign
<1>9. DivideFloats(2 * x, 2 * y) = s * t * p
  BY <1>2, <1>3, <1>5, <1>7, <1>8 DEF DivideFloats
<1>10. PICK o \in Int : o = 2 * (b * p - u * a)
  BY <1>6
<1>11. 2 * ((s * t * p) * y - u * x) \in {o, -o}
  <2>1. (s * t * p) * y = s * (b * p)
    <3>1. y = t * b
      BY <1>3, <1>8
    <3>2. CASE t = 1 /\ s = 1
      BY <1>6, <3>1, <3>2
    <3>3. CASE t = 1 /\ s = -1
      BY <1>6, <3>1, <3>3
    <3>4. CASE t = -1 /\ s = 1
      BY <1>6, <3>1, <3>4
    <3>5. CASE t = -1 /\ s = -1
      BY <1>6, <3>1, <3>5
    <3> QED BY <3>2, <3>3, <3>4, <3>5
  <2>2. u * x = s * (u * a)
    <3>1. x = s * a
      BY <1>2, <1>7
    <3> QED BY <3>1
  <2>3. PICK z \in Int, w \in Int : z = b * p /\ w = u * a
    BY <1>6
  <2>4. 2 * ((s * t * p) * y - u * x) = 2 * (s * z - s * w) /\ o = 2 * (z - w)
    BY <1>10, <2>1, <2>2, <2>3
  <2>5. s * z - s * w = z - w \/ s * z - s * w = w - z
    <3>1. CASE s = 1
      BY <3>1
    <3>2. CASE s = -1
      BY <3>2
    <3> QED BY <3>1, <3>2
  <2>6. 2 * (w - z) = -o /\ 2 * (z - w) = o
    BY <2>4
  <2> QED BY <2>4, <2>5, <2>6, Zenon
<1>12. Abs(2 * (DivideFloats(2 * x, 2 * y) * y - Units * x)) \in {o, -o}
  BY <1>4, <1>9, <1>11 DEF Abs
<1>13. h * o <= h * b + 2 * u * a /\ h * (-o) <= h * b + 2 * u * a
  <2>1. (2 * b) * p - u * (2 * a) = o /\ u * (2 * a) - (2 * b) * p = -o
    BY <1>6, <1>10
  <2>2. h * (2 * b) + 2 * (u * (2 * a)) = 2 * (h * b + 2 * u * a)
    OBVIOUS
  <2>3. PICK z \in Int, w \in Int, r \in Int :
           z = h * o /\ w = h * (-o) /\ r = h * b + 2 * u * a
    OBVIOUS
  <2> QED BY <1>6, <2>1, <2>2, <2>3
<1>14. ASSUME a % b = 0 PROVE o = 0
  <2>1. PICK c \in Nat : a = b * c
    <3>1. PICK c \in Nat : c = a \div b /\ a = b * c + (a % b)
      BY Division
    <3>2. b * c \in Int
      BY <3>1
    <3>3. a = b * c
      BY <1>14, <3>1, <3>2
    <3> QED BY <3>3
  <2>2. 2 * a = (2 * b) * c
    BY <2>1
  <2>3. p = u * c
    BY <1>6, <2>2
  <2>4. b * p = u * a
    BY <2>1, <2>3
  <2> QED BY <1>10, <2>4
<1>15. PICK q \in Int : q = 2 * (DivideFloats(2 * x, 2 * y) * y - Units * x)
  BY <1>4, <1>6, <1>9, <1>11
<1>16. h * Abs(q) <= h * b + 2 * Units * a
  <2>1. CASE Abs(q) = o
    BY <1>4, <1>13, <2>1
  <2>2. CASE Abs(q) = -o
    BY <1>4, <1>13, <2>2
  <2> QED BY <1>12, <1>15, <2>1, <2>2
<1>17. a % b = 0 => q = 0
  <2>1. o = 0 => Abs(q) = 0
    BY <1>12, <1>15
  <2> QED BY <1>14, <2>1 DEF Abs
<1> QED BY <1>1, <1>2, <1>3, <1>15, <1>16, <1>17, Zenon DEF IsQuotient

(* The answer to a line with small parameters is the one promised.         *)
LEMMA AnswerExact ==
  ASSUME NEW l \in Lines, l.word.junk = 0, Small(l.args),
         NEW n, n = Len(l.args), NEW name, name = l.word.name,
         \/ n = 2 /\ name \in {"add", "multiply", "divide"}
         \/ n = 1 /\ name \in {"factorial", "sleep"},
         NEW x, x = l.args[1].halves \div 2, NEW y, y = l.args[n].halves \div 2,
         NEW f, f = FindCommand(l.word, Arguments(l.args))
  PROVE  Promised(name, x, y, f)
<1>1. l.args \in Seq(Token) /\ n \in {1, 2}
  BY LinesAssumption
<1>2. PICK a : a = Arguments(l.args)
  OBVIOUS
<1>3. Len(a) = n
  BY <1>1, <1>2, ArgumentsType
<1>4. ASSUME NEW i \in 1 .. n, NEW v, v = l.args[i].halves \div 2
      PROVE  /\ a[i] = 2 * v /\ v \in Lim(Width) /\ v \in Int /\ Int_(a[i]) = v
             /\ Abs(2 * v) <= 2^(Mantissa + 1)
  <2>1. PICK t \in Token : t = l.args[i]
    BY <1>1
  <2>2. t.numeric /\ t.halves % 2 = 0 /\ Abs(t.halves) <= 2^(Mantissa + 1)
    BY <2>1 DEF Small
  <2>3. a[i] = Argument(t)
    BY <1>1, <1>2, <1>3, <2>1, ArgumentsType
  <2>4. a[i] = 2 * v /\ v \in Lim(Width) /\ v \in Int /\ Int_(a[i]) = v
    BY <1>4, <2>1, <2>2, <2>3, SmallArgument
  <2>5. 2 * v = t.halves
    <3>1. t.halves \in Int
      BY DEF Token
    <3> QED BY <1>4, <2>1, <2>2, <3>1
  <2> QED BY <2>2, <2>4, <2>5
<1>5. a[1] = 2 * x /\ x \in Int /\ Int_(a[1]) = x /\ Abs(2 * x) <= 2^(Mantissa + 1)
  <2>1. 1 \in 1 .. n
    BY <1>1
  <2> QED BY <1>4, <2>1, Zenon
<1>6. a[n] = 2 * y /\ y \in Int /\ Int_(a[n]) = y /\ Abs(2 * y) <= 2^(Mantissa + 1)
  <2>1. n \in 1 .. n
    BY <1>1
  <2> QED BY <1>4, <2>1, Zenon
<1>7. name = IF l.word.junk = 0 THEN l.word.name ELSE ""
  OBVIOUS
<1>8. Width \in 1 .. LongWidth
  BY NumbersAssumption
<1>10. CASE name = "add"
  <2>0. n = 2 /\ name # "multiply" /\ name # "divide" /\ name # "factorial" /\ name # "sleep"
    BY <1>10
  <2>1. f = IF Len(a) # 2 THEN BadCount ELSE Shows(AddInts(Int_(a[1]), Int_(a[2])))
    BY <1>2, <1>7, <1>10, CommandIs, Zenon
  <2>2. f = Shows(AddInts(x, y))
    BY <1>3, <1>5, <1>6, <2>0, <2>1
  <2>3. Promised(name, x, y, f) <=> (x + y \in Lim(Width) => f = Shows(x + y))
    BY <1>10, <2>0, Zenon DEF Promised
  <2>4. x + y \in Lim(Width) => AddInts(x, y) = x + y
    BY <1>5, <1>6, <1>8, Wrapped DEF AddInts
  <2> QED BY <2>2, <2>3, <2>4
<1>11. CASE name = "multiply"
  <2>0. n = 2 /\ name # "add" /\ name # "divide" /\ name # "factorial" /\ name # "sleep"
    BY <1>11
  <2>1. f = IF Len(a) # 2 THEN BadCount ELSE Shows(MultiplyInts(Int_(a[1]), Int_(a[2])))
    BY <1>2, <1>7, <1>11, CommandIs, Zenon
  <2>2. f = Shows(MultiplyInts(x, y))
    BY <1>3, <1>5, <1>6, <2>0, <2>1
  <2>3. Promised(name, x, y, f) <=> (x * y \in Lim(Width) => f = Shows(x * y))
    BY <1>11, <2>0, Zenon DEF Promised
  <2>4. x * y \in Int
    BY <1>5, <1>6
  <2>5. x * y \in Lim(Width) => MultiplyInts(x, y) = x * y
    BY <1>8, <2>4, Wrapped DEF MultiplyInts
  <2> QED BY <2>2, <2>3, <2>5
<1>12. CASE name = "divide"
  <2>0. n = 2 /\ name # "add" /\ name # "multiply" /\ name # "factorial" /\ name # "sleep"
    BY <1>12
  <2>1. f = IF Len(a) # 2 THEN BadCount
            ELSE IF a[2] = 0 THEN DivByZero
            ELSE [text |-> "quotient", value |-> <<DivideFloats(a[1], a[2])>>]
    BY <1>2, <1>7, <1>12, CommandIs, Zenon
  <2>2. Promised(name, x, y, f) <=>
           IF y = 0 THEN f = DivByZero
           ELSE f.text = "quotient" /\ IsQuotient(f.value[1], x, y)
    BY <1>12, <2>0, Zenon DEF Promised
  <2>3. a[1] = 2 * x /\ a[2] = 2 * y /\ (a[2] = 0 <=> y = 0)
    BY <1>5, <1>6, <2>0
  <2>4. CASE y = 0
    BY <1>3, <2>0, <2>1, <2>2, <2>3, <2>4
  <2>5. CASE y # 0
    <3>1. PICK v : v = DivideFloats(2 * x, 2 * y)
      OBVIOUS
    <3>2. f = [text |-> "quotient", value |-> <<v>>]
      BY <1>3, <2>0, <2>1, <2>3, <2>5, <3>1
    <3>3. f.text = "quotient" /\ f.value[1] = v
      BY <3>2
    <3>4. IsQuotient(v, x, y)
      BY <1>5, <1>6, <2>5, <3>1, DividesNearly
    <3> QED BY <2>2, <2>5, <3>3, <3>4
  <2> QED BY <2>4, <2>5
<1>13. CASE name = "factorial"
  <2>0. n = 1 /\ name # "add" /\ name # "multiply" /\ name # "divide" /\ name # "sleep"
    BY <1>13
  <2>1. f = IF Len(a) # 1 THEN BadCount
            ELSE IF FactorialTakes(a[1]) THEN Shows(Wrap(Factorial[Int_(a[1])], LongWidth))
            ELSE OutOfRange
    BY <1>2, <1>7, <1>13, CommandIs, Zenon
  <2>2. Promised(name, x, y, f) <=>
           IF x \in 0 .. Limit THEN f = Shows(factorial[x]) ELSE f = OutOfRange
    BY <1>13, <2>0, Zenon DEF Promised
  <2>3. FactorialTakes(a[1]) <=> x \in 0 .. Limit
    BY <1>5, NumbersAssumption DEF FactorialTakes
  <2>4. ASSUME x \in 0 .. Limit PROVE Wrap(Factorial[x], LongWidth) = factorial[x]
    <3>1. Factorial[x] = factorial[x] /\ factorial[x] \in Lim(LongWidth)
      BY <2>4, FactorialExact
    <3>2. x \in Nat
      BY <2>4, NumbersAssumption
    <3>3. factorial[x] \in Int
      BY <3>2, FactorialIs
    <3>4. LongWidth \in 1 .. LongWidth
      BY NumbersAssumption
    <3> QED BY <3>1, <3>3, <3>4, Wrapped
  <2> QED BY <1>3, <1>5, <2>0, <2>1, <2>2, <2>3, <2>4
<1>14. CASE name = "sleep"
  <2>0. n = 1 /\ name # "add" /\ name # "multiply" /\ name # "divide" /\ name # "factorial"
    BY <1>14
  <2>1. f = IF Len(a) # 1 THEN BadCount ELSE IF a[1] < 0 THEN Negative ELSE Slept
    BY <1>2, <1>7, <1>14, CommandIs, Zenon
  <2>2. Promised(name, x, y, f) <=> f = (IF x < 0 THEN Negative ELSE Slept)
    BY <1>14, <2>0, Zenon DEF Promised
  <2>3. a[1] < 0 <=> x < 0
    BY <1>5
  <2> QED BY <1>3, <2>0, <2>1, <2>2, <2>3
<1> QED BY <1>10, <1>11, <1>12, <1>13, <1>14
-----------------------------------------------------------------------------
(* The answers there are, and what a record of one is like: as long as the *)
(* answer at most, and the answer to its line or a refusal.                *)
Answers == {Unavailable} \cup
             {FindCommand(w, Arguments(l.args)) : w \in Word, l \in Lines}

Honest(d) == d.line.form = "words" =>
               d.answer \in {Unavailable, FindCommand(d.line.word, Arguments(d.line.args))}

Replies == {d \in [no : Nat, line : Lines, answer : Answers, bytes : Nat] :
              d.bytes \in 1 .. Size(d.answer) /\ Honest(d)}

(* Every answer to a line has at least one byte.                           *)
LEMMA AnswerSize ==
  ASSUME NEW word \in Word, NEW a
  PROVE  Size(FindCommand(word, a)) \in Nat \ {0}
<1>1. PICK f : f = FindCommand(word, a)
  OBVIOUS
<1>2. PICK name : name = IF word.junk = 0 THEN word.name ELSE ""
  OBVIOUS
<1>3. name \in {"add", "multiply", "divide", "factorial", "sleep", "quit",
               "shutdown", "exit", ""}
  <2>1. word.name \in DOMAIN Letters
    BY DEF Word
  <2> QED BY <1>2, <2>1 DEF Letters
<1>4. \/ f.text \in {"number", "quotient"}
      \/ f = NotFound(word)
      \/ f \in {BadCount, DivByZero, OutOfRange, Negative, Bye, Slept, Unavailable}
  <2>1. \A n : Shows(n).text = "number"
    BY DEF Shows
  <2> QED BY <1>1, <1>2, <1>3, <2>1, Zenon DEF FindCommand, Leaving
<1>5. NotFound(word).text = "notFound" /\ NotFound(word).value[1] \in Nat
  <2>1. NotFound(word).value[1] = LettersOf(word) /\ NotFound(word).text = "notFound"
    BY DEF NotFound
  <2> QED BY <2>1, WordTypes
<1> QED BY <1>1, <1>4, <1>5, SizesOf

(* So has every text a child may send.                                     *)
LEMMA AnswersSized ==
  ASSUME NEW a \in Answers
  PROVE  Size(a) \in Nat \ {0}
<1>1. CASE a = Unavailable
  BY <1>1, SizesOf
<1>2. CASE a # Unavailable
  BY <1>2, AnswerSize DEF Answers
<1> QED BY <1>1, <1>2

(* A record of a part of an answer is one.                                 *)
LEMMA Part ==
  ASSUME NEW d \in Replies, NEW k \in 1 .. d.bytes
  PROVE  [d EXCEPT !.bytes = k] \in Replies
<1>1. PICK e : e = [d EXCEPT !.bytes = k]
  OBVIOUS
<1>2. d \in [no : Nat, line : Lines, answer : Answers, bytes : Nat]
  BY DEF Replies
<1>3. /\ e \in [no : Nat, line : Lines, answer : Answers, bytes : Nat]
      /\ e.line = d.line /\ e.answer = d.answer /\ e.bytes = k
  BY <1>1, <1>2
<1>4. PICK m \in Nat : m = Size(d.answer)
  BY <1>2, AnswersSized
<1>5. d.bytes \in 1 .. m /\ Honest(d)
  BY <1>4 DEF Replies
<1>6. k \in 1 .. m
  BY <1>5
<1> QED BY <1>1, <1>3, <1>4, <1>5, <1>6 DEF Replies, Honest

(* Where the bytes of an answer in transit begin.                          *)
LEMMA BeforeIs ==
  ASSUME NEW q \in Seq(Replies)
  PROVE  /\ Before(q, 1) = 0
         /\ \A i \in 1 .. Len(q) : /\ Before(q, i) \in Nat
                                  /\ Before(q, i + 1) = Before(q, i) + q[i].bytes
<1>1. PICK m \in Nat : m = Len(q)
  OBVIOUS
<1>2. \A i \in 1 .. m : q[i].bytes \in Nat
  BY <1>1 DEF Replies
<1>3. PICK w \in [Nat -> Nat] : \A i \in 1 .. m : w[i] = q[i].bytes
  <2>1. [i \in Nat |-> IF i \in 1 .. m THEN q[i].bytes ELSE 0] \in [Nat -> Nat]
    BY <1>2
  <2>2. \A i \in 1 .. m : [j \in Nat |-> IF j \in 1 .. m THEN q[j].bytes ELSE 0][i]
                          = q[i].bytes
    OBVIOUS
  <2> QED BY <2>1, <2>2
<1> DEFINE step == [p \in (Nat \ {0}) \X Nat |-> p[2] + w[p[1]]]
           F(b) == [j \in 0 .. Len(q) |-> IF j = 0 THEN 0 ELSE b[j - 1] + q[j].bytes]
           b0 == CHOOSE b : b = F(b)
<1>4. PICK f \in [Nat -> Nat] : f[0] = 0 /\ \A n \in Nat \ {0} : f[n] = f[n - 1] + w[n]
  <2>1. step \in [(Nat \ {0}) \X Nat -> Nat]
    <3>1. \A n \in Nat \ {0}, v \in Nat : v + w[n] \in Nat
      OBVIOUS
    <3> QED BY <3>1
  <2>2. \A n \in Nat \ {0}, v \in Nat : step[<<n, v>>] = v + w[n]
    OBVIOUS
  <2> HIDE DEF step
  <2>3. Exists(Nat, 0, step)
    BY <2>1, Recursion
  <2>4. PICK f \in [Nat -> Nat] :
            f[0] = 0 /\ \A n \in Nat \ {0} : f[n] = step[<<n, f[n - 1]>>]
    BY <2>3 DEF Exists
  <2>5. ASSUME NEW n \in Nat \ {0} PROVE f[n] = f[n - 1] + w[n]
    <3>1. n - 1 \in Nat
      OBVIOUS
    <3>2. f[n - 1] \in Nat
      BY <3>1, Zenon
    <3> QED BY <2>2, <2>4, <3>2
  <2> QED BY <2>4, <2>5
<1>5. PICK g : g = [j \in 0 .. m |-> f[j]]
  OBVIOUS
<1>6. g = F(g)
  <2>1. ASSUME NEW j \in 0 .. m
        PROVE  f[j] = IF j = 0 THEN 0 ELSE g[j - 1] + q[j].bytes
    <3>1. CASE j = 0
      BY <1>4, <3>1
    <3>2. CASE j # 0
      <4>1. j \in 1 .. m /\ j \in Nat \ {0} /\ j - 1 \in 0 .. m
        BY <3>2
      <4> QED BY <1>3, <1>4, <1>5, <3>2, <4>1
    <3> QED BY <3>1, <3>2
  <2> QED BY <1>1, <1>5, <2>1
<1>7. b0 = F(b0)
  <2> HIDE DEF F
  <2> QED BY <1>6
<1>8. b0[0] = 0 /\ \A j \in 1 .. m : b0[j] = b0[j - 1] + q[j].bytes
  <2>1. \A b : F(b)[0] = 0 /\ \A j \in 1 .. m : F(b)[j] = b[j - 1] + q[j].bytes
    BY <1>1
  <2> HIDE DEF F, b0
  <2>2. F(b0)[0] = 0 /\ \A j \in 1 .. m : F(b0)[j] = b0[j - 1] + q[j].bytes
    BY <2>1
  <2> QED BY <1>7, <2>2
<1>9. \A i : Before(q, i) = b0[i - 1]
  BY Zenon DEF Before
<1> HIDE DEF b0
<1>10. \A j \in 0 .. m : b0[j] \in Nat
  <2> DEFINE S == {j \in Nat : j <= m => b0[j] \in Nat}
  <2>1. 0 \in S
    BY <1>8
  <2>2. ASSUME NEW j \in Nat, j \in S PROVE j + 1 \in S
    <3>1. CASE j + 1 <= m
      <4>1. j + 1 \in 1 .. m /\ (j + 1) - 1 = j /\ b0[j] \in Nat
        BY <2>2, <3>1
      <4>2. b0[j + 1] = b0[j] + q[j + 1].bytes
        <5>1. PICK k \in 1 .. m : k = j + 1 /\ k - 1 = j
          BY <4>1
        <5> QED BY <1>8, <5>1
      <4>3. q[j + 1].bytes \in Nat
        BY <1>2, <4>1
      <4>4. PICK u \in Nat, v \in Nat : u = b0[j] /\ v = q[j + 1].bytes
        BY <4>1, <4>3
      <4>5. b0[j + 1] = u + v
        BY <4>2, <4>4, Zenon
      <4>6. u + v \in Nat
        OBVIOUS
      <4>7. b0[j + 1] \in Nat
        BY <4>5, <4>6, Zenon
      <4>8. j + 1 \in Nat
        OBVIOUS
      <4> QED BY <4>7, <4>8, Zenon
    <3>2. CASE ~(j + 1 <= m)
      BY <3>2
    <3> QED BY <3>1, <3>2
  <2>3. Nat \subseteq S
    <3> HIDE DEF S
    <3> QED BY <2>1, <2>2, Induction
  <2> QED BY <2>3
<1>11. 1 - 1 = 0
  OBVIOUS
<1>12. Before(q, 1) = 0
  BY <1>8, <1>9, <1>11
<1>13. ASSUME NEW i \in 1 .. Len(q)
       PROVE  Before(q, i) \in Nat /\ Before(q, i + 1) = Before(q, i) + q[i].bytes
  <2>1. i \in 1 .. m /\ i - 1 \in 0 .. m /\ (i + 1) - 1 = i
    BY <1>1
  <2> QED BY <1>8, <1>9, <1>10, <2>1
<1> QED BY <1>12, <1>13

(* recv touches the first k of the answers in transit, and of the last it  *)
(* touches at least one byte.                                              *)
LEMMA TouchedIs ==
  ASSUME NEW q \in Seq(Replies), q # <<>>, NEW n \in Nat \ {0}
  PROVE  /\ Touched(q, n) \in 1 .. Len(q)
         /\ \A i \in 1 .. Touched(q, n) : Before(q, i) \in Nat /\ Before(q, i) < n
<1> DEFINE m == Len(q)
           U == {i \in Nat : i # 0 /\ (i > m \/ Before(q, i) >= n)}
           T == {i \in 1 .. m : Before(q, i) < n}
<1>1. m \in Nat \ {0}
  OBVIOUS
<1>2. Before(q, 1) = 0 /\ \A i \in 1 .. m : Before(q, i) \in Nat
  BY BeforeIs
<1>3. \A i \in 1 .. m : Before(q, i) <= Before(q, i + 1)
  <2>1. ASSUME NEW i \in 1 .. m PROVE Before(q, i) <= Before(q, i + 1)
    <3>1. q[i].bytes \in Nat
      BY <2>1 DEF Replies
    <3>2. Before(q, i) \in Nat /\ Before(q, i + 1) = Before(q, i) + q[i].bytes
      BY <2>1, BeforeIs
    <3> QED BY <3>1, <3>2
  <2> QED BY <2>1
<1> HIDE DEF m
<1>4. PICK u \in U : \A i \in U : u <= i
  <2>1. U \subseteq Nat /\ m + 1 \in U
    BY <1>1
  <2> HIDE DEF U
  <2> QED BY <2>1, LeastNatural
<1>5. u \in Nat /\ u # 0 /\ u # 1 /\ u <= m + 1
  <2>1. m + 1 \in U
    BY <1>1
  <2> QED BY <1>1, <1>2, <1>4, <2>1
<1>6. PICK k : k = u - 1
  OBVIOUS
<1>7. k \in 1 .. m
  BY <1>1, <1>5, <1>6
<1>8. \A i \in 1 .. k : i \in T
  <2>1. ASSUME NEW i \in 1 .. k PROVE i \in T
    <3>1. i \notin U /\ i \in 1 .. m
      BY <1>1, <1>4, <1>5, <1>6, <1>7
    <3>2. Before(q, i) \in Nat
      BY <1>2, <3>1
    <3> QED BY <3>1, <3>2
  <2> QED BY <2>1
<1>9. ASSUME NEW i \in T PROVE i \in 1 .. k
  <2> DEFINE S == {j \in Nat : u + j <= m => Before(q, u + j) >= n}
  <2>1. 0 \in S
    <3>1. u + 0 = u
      BY <1>5
    <3> QED BY <1>1, <1>4, <1>5, <3>1
  <2>2. ASSUME NEW j \in Nat, j \in S PROVE j + 1 \in S
    <3>1. CASE u + (j + 1) <= m
      <4>1. PICK e \in 1 .. m : e = u + j /\ e + 1 = u + (j + 1) /\ e + 1 \in 1 .. m
        BY <1>1, <1>5, <3>1
      <4>2. Before(q, e) >= n
        BY <2>2, <4>1, <1>1
      <4>3. Before(q, e) <= Before(q, e + 1)
        BY <1>3, <4>1
      <4>4. Before(q, e) \in Nat /\ Before(q, e + 1) \in Nat
        BY <1>2, <4>1
      <4>5. Before(q, e + 1) >= n
        BY <4>2, <4>3, <4>4
      <4> QED BY <4>1, <4>5
    <3>2. CASE ~(u + (j + 1) <= m)
      BY <3>2
    <3> QED BY <3>1, <3>2
  <2>3. Nat \subseteq S
    <3> HIDE DEF S
    <3> QED BY <2>1, <2>2, Induction
  <2>4. SUFFICES ASSUME i >= u PROVE FALSE
    BY <1>1, <1>5, <1>6
  <2>5. i - u \in Nat /\ u + (i - u) = i /\ i \in 1 .. m /\ i <= m
    BY <1>1, <1>5, <2>4
  <2>6. Before(q, i) >= n
    BY <2>3, <2>5
  <2>7. Before(q, i) \in Nat /\ Before(q, i) < n
    BY <1>2, <2>5
  <2> QED BY <2>6, <2>7
<1>10. T = 1 .. k
  <2> HIDE DEF T
  <2>1. T \subseteq 1 .. k
    BY <1>9, Zenon
  <2>2. 1 .. k \subseteq T
    BY <1>8, Zenon
  <2> QED BY <2>1, <2>2, Zenon
<1>11. Cardinality(1 .. k) = k
  BY <1>7, FS_Interval
<1>12. Touched(q, n) = k
  BY <1>10, <1>11 DEF Touched, m
<1>13. ASSUME NEW i \in 1 .. k PROVE Before(q, i) \in Nat /\ Before(q, i) < n
  <2>1. i \in T
    BY <1>8
  <2> QED BY <1>2, <2>1
<1> QED BY <1>7, <1>12, <1>13 DEF m

(* What recv takes and what it leaves are parts of the answers in transit. *)
LEMMA TakenLeft ==
  ASSUME NEW q \in Seq(Replies), q # <<>>, NEW n \in Nat \ {0}
  PROVE  Taken(q, n) \in Seq(Replies) /\ Left(q, n) \in Seq(Replies)
<1>1. PICK k : k = Touched(q, n)
  OBVIOUS
<1>2. k \in 1 .. Len(q) /\ \A i \in 1 .. k : Before(q, i) \in Nat /\ Before(q, i) < n
  BY <1>1, TouchedIs
<1>3. ASSUME NEW i \in 1 .. k
      PROVE  /\ q[i] \in Replies /\ q[i].bytes \in Nat
             /\ Least(q[i].bytes, n - Before(q, i)) \in 1 .. q[i].bytes
  <2>1. q[i] \in Replies
    BY <1>2
  <2>2. PICK b \in Nat : b = q[i].bytes
    BY <2>1 DEF Replies
  <2>3. PICK s \in Nat : s = Size(q[i].answer)
    <3>1. q[i].answer \in Answers
      BY <2>1 DEF Replies
    <3> QED BY <3>1, AnswersSized
  <2>4. b \in 1 .. s
    BY <2>1, <2>2, <2>3 DEF Replies
  <2>5. PICK p \in Nat : p = Before(q, i) /\ p < n
    BY <1>2
  <2>6. Least(b, n - p) \in 1 .. b
    BY <2>3, <2>4, <2>5 DEF Least
  <2> QED BY <2>1, <2>2, <2>5, <2>6
<1>4. ASSUME NEW i \in 1 .. k
      PROVE  [q[i] EXCEPT !.bytes = Least(@, n - Before(q, i))] \in Replies
  <2>1. PICK d \in Replies : d = q[i]
    BY <1>3
  <2>2. PICK b \in 1 .. d.bytes : b = Least(d.bytes, n - Before(q, i))
    BY <1>3, <2>1
  <2> QED BY <2>1, <2>2, Part
<1>5. PICK t : t = Taken(q, n)
  OBVIOUS
<1>6. t = [i \in 1 .. k |-> [q[i] EXCEPT !.bytes = Least(@, n - Before(q, i))]]
  BY <1>1, <1>5, Zenon DEF Taken
<1>7. t \in Seq(Replies)
  <2>1. k \in Nat
    BY <1>2
  <2>2. ASSUME NEW i \in 1 .. k PROVE t[i] \in Replies
    <3>1. t[i] = [q[i] EXCEPT !.bytes = Least(@, n - Before(q, i))]
      BY <1>6
    <3> QED BY <1>4, <3>1
  <2>3. t = [i \in 1 .. k |-> t[i]]
    BY <1>6
  <2> QED BY <2>1, <2>2, <2>3
<1>8. PICK rest : rest = q[k].bytes - t[k].bytes
  OBVIOUS
<1>9. PICK behind : behind = SubSeq(q, k + 1, Len(q))
  OBVIOUS
<1>10. behind \in Seq(Replies)
  BY <1>2, <1>9, SubSeqProperties
<1>11. Left(q, n) = IF rest = 0 THEN behind
                    ELSE <<[q[k] EXCEPT !.bytes = rest]>> \o behind
  BY <1>1, <1>5, <1>8, <1>9, Zenon DEF Left
<1>12. ASSUME rest # 0 PROVE [q[k] EXCEPT !.bytes = rest] \in Replies
  <2>1. k \in 1 .. k
    BY <1>2
  <2>2. t[k].bytes = Least(q[k].bytes, n - Before(q, k))
    BY <1>3, <1>6, <2>1 DEF Replies
  <2>3. PICK b \in Nat : b = q[k].bytes
    BY <1>3, <2>1
  <2>4. t[k].bytes \in 1 .. b
    BY <1>3, <2>1, <2>2, <2>3
  <2>5. rest \in 1 .. b
    BY <1>8, <1>12, <2>3, <2>4
  <2> QED BY <1>3, <2>1, <2>3, <2>5, Part
<1>13. Left(q, n) \in Seq(Replies)
  <2>1. CASE rest = 0
    BY <1>10, <1>11, <2>1
  <2>2. CASE rest # 0
    <3>1. PICK d \in Replies : d = [q[k] EXCEPT !.bytes = rest]
      BY <1>12, <2>2
    <3>2. Left(q, n) = <<d>> \o behind
      BY <1>11, <2>2, <3>1
    <3> QED BY <1>10, <3>1, <3>2
  <2> QED BY <2>1, <2>2
<1> QED BY <1>5, <1>7, <1>13

(* One answer in transit that fits into the buffer is taken whole.         *)
LEMMA WholeTaken ==
  ASSUME NEW d \in Replies, d.bytes <= BufSize
  PROVE  Taken(<<d>>, BufSize) = <<d>> /\ Left(<<d>>, BufSize) = <<>>
<1>0. BufSize \in Nat \ {0}
  BY LinesAssumption
<1>1. PICK q : q = <<d>> /\ q \in Seq(Replies) /\ Len(q) = 1 /\ q # <<>>
  <2>1. <<d>> \in Seq(Replies) /\ Len(<<d>>) = 1 /\ <<d>> # <<>>
    OBVIOUS
  <2> QED BY <2>1, Zenon
<1>2. Before(<<d>>, 1) = 0 /\ Touched(<<d>>, BufSize) = 1
  <2>1. Before(q, 1) = 0 /\ Touched(q, BufSize) \in 1 .. Len(q)
    BY <1>0, <1>1, BeforeIs, TouchedIs
  <2> QED BY <1>1, <2>1
<1>3. Least(d.bytes, BufSize - Before(<<d>>, 1)) = d.bytes
  BY <1>0, <1>2 DEF Least, Replies
<1>4. [d EXCEPT !.bytes = Least(@, BufSize - Before(<<d>>, 1))] = d
  BY <1>3 DEF Replies
<1>5. Taken(<<d>>, BufSize) = [i \in 1 .. 1 |-> d]
  BY <1>2, <1>4 DEF Taken
<1>6. Taken(<<d>>, BufSize) = <<d>>
  BY <1>5
<1>7. Left(<<d>>, BufSize) = <<>>
  <2>1. <<d>>[1].bytes - Taken(<<d>>, BufSize)[1].bytes = 0
    BY <1>6 DEF Replies
  <2>2. Left(<<d>>, BufSize) = SubSeq(<<d>>, 2, Len(<<d>>))
    BY <1>2, <2>1 DEF Left
  <2> QED BY <2>2
<1> QED BY <1>6, <1>7

(* What printf prints of an answer that came alone.                        *)
LEMMA PrintedOne ==
  ASSUME NEW d \in Replies, d.bytes <= BufSize, NEW t \in Printed(<<d>>)
  PROVE  \/ t = <<d>>
         \/ t = <<d, Beyond>> /\ d.bytes = BufSize
<1>1. PICK q : q = <<d>> /\ q \in Seq(Replies) /\ Len(q) = 1 /\ q[1] = d
  <2>1. <<d>> \in Seq(Replies) /\ Len(<<d>>) = 1 /\ <<d>>[1] = d
    OBVIOUS
  <2> QED BY <2>1, Zenon
<1>2. d.bytes \in Nat /\ BufSize \in Nat
  BY LinesAssumption DEF Replies
<1>3. Before(q, 1 + 1) = d.bytes
  <2>1. 1 \in 1 .. Len(q)
    BY <1>1
  <2>2. Before(q, 1) = 0 /\ Before(q, 1 + 1) = Before(q, 1) + q[1].bytes
    BY <1>1, <2>1, BeforeIs
  <2> QED BY <1>1, <1>2, <2>2
<1>4. t \in IF d.bytes < BufSize THEN {q} ELSE {q, Append(q, Beyond)}
  <2>1. Before(q, Len(q) + 1) = d.bytes
    BY <1>1, <1>3
  <2>2. t \in Printed(q)
    BY <1>1
  <2> QED BY <2>1, <2>2 DEF Printed
<1>5. Append(<<d>>, Beyond) = <<d, Beyond>>
  <2>1. PICK e, b : e = d /\ b = Beyond
    OBVIOUS
  <2>2. Append(<<e>>, b) = <<e, b>>
    <3>1. PICK S : S = {e, b}
      OBVIOUS
    <3>2. <<e>> \in Seq(S) /\ Len(<<e>>) = 1 /\ <<e>>[1] = e /\ b \in S
      BY <3>1
    <3>3. PICK a : a = Append(<<e>>, b)
      OBVIOUS
    <3>4. a \in Seq(S) /\ Len(a) = 2 /\ a[1] = e /\ a[2] = b
      BY <3>2, <3>3, AppendProperties
    <3>5. a = <<e, b>>
      BY <3>4
    <3> QED BY <3>3, <3>5
  <2> QED BY <2>1, <2>2, Zenon
<1>6. CASE t = q
  BY <1>1, <1>6
<1>7. CASE t # q
  <2>1. ~(d.bytes < BufSize) /\ t = Append(q, Beyond)
    BY <1>4, <1>7
  <2>2. d.bytes = BufSize
    BY <1>2, <2>1
  <2> QED BY <1>1, <1>5, <2>1, <2>2
<1> QED BY <1>6, <1>7
-----------------------------------------------------------------------------
(* What the variables hold: the child has a line with its answer whenever  *)
(* it is not receiving, whatever is on its way to the frontend is part of  *)
(* an answer, and so is what it displays, but for what lies behind.        *)
Told ==
  IF child \in {"answering", "deciding"}
  THEN /\ message.no \in Nat /\ message.line \in Lines /\ message.word \in Word
       /\ message.answer = FindCommand(message.word, Arguments(message.line.args))
       /\ message.line.form = "words" => message.word = message.line.word
  ELSE message = NoMessage

Sending ==
  /\ up \in Seq([no : Nat, line : Lines])
  /\ \A i \in 1 .. Len(up) : up[i].no = count - Len(up) + i

Typed ==
  /\ client \in {"typing", "waiting", "left"} /\ count \in 0 .. MaxLines
  /\ child \in {"receiving", "answering", "deciding", "gone"}
  /\ line \in Lines \cup {Blank} /\ quitFlag \in BOOLEAN /\ longs \in BOOLEAN
  /\ buffer \in Word /\ Told /\ Sending
  /\ down \in Seq(Replies) /\ shown \in Seq(Replies \cup {Beyond})

(* Where the line typed last is, as long as no answer was too long: with   *)
(* the user no more, on its way to the child, with the child, or answered. *)
Quiet    == up = <<>> /\ down = <<>> /\ child # "answering"
Sent     == /\ up = <<[no |-> count, line |-> line]>> /\ down = <<>>
            /\ child # "answering"
Served   == /\ up = <<>> /\ down = <<>> /\ child = "answering"
            /\ message.no = count /\ message.line = line
Answered == /\ up = <<>> /\ child # "answering"
            /\ \E a : /\ Size(a) \in Nat \ {0} /\ Size(a) <= BufSize
                      /\ down = <<[no |-> count, line |-> line, answer |-> a,
                                   bytes |-> Size(a)]>>
Displayed == /\ shown # <<>> /\ IsWhole(<<shown[1]>>)
             /\ shown[1].no = count /\ shown[1].line = line
             /\ Len(shown) > 1 => /\ shown[1].bytes = BufSize
                                  /\ shown = <<shown[1], Beyond>>

InStep ==
  /\ client = "waiting" => Sent \/ Served \/ Answered
  /\ client # "waiting" => Quiet /\ (count > 0 => Displayed)

XInv == Typed /\ (~longs => InStep)

(* At the start nobody has sent anything.                                  *)
LEMMA InitInStep == Init => XInv
<1> SUFFICES ASSUME Init PROVE XInv
  OBVIOUS
<1>1. Typed
  <2>1. up = <<>> /\ down = <<>> /\ shown = <<>>
    BY DEF Init
  <2>2. Sending
    BY <2>1 DEF Sending
  <2>3. Told
    BY DEF Init, Told
  <2>4. 0 \in 0 .. MaxLines
    BY LinesAssumption
  <2>5. down \in Seq(Replies) /\ shown \in Seq(Replies \cup {Beyond})
    BY <2>1
  <2>6. count \in 0 .. MaxLines
    BY <2>4 DEF Init
  <2>7. buffer \in Word
    BY WordTypes DEF Init
  <2>8. /\ client \in {"typing", "waiting", "left"} /\ line \in Lines \cup {Blank}
        /\ child \in {"receiving", "answering", "deciding", "gone"}
        /\ quitFlag \in BOOLEAN /\ longs \in BOOLEAN
    BY DEF Init
  <2> QED BY <2>2, <2>3, <2>5, <2>6, <2>7, <2>8 DEF Typed
<1>2. InStep
  BY DEF Init, InStep, Quiet
<1> QED BY <1>1, <1>2 DEF XInv

(* The values keep their types.                                            *)
LEMMA TypedStep == Typed /\ [Next]_vars => Typed'
<1> SUFFICES ASSUME Typed, [Next]_vars PROVE Typed'
  OBVIOUS
<1>0. MaxLines \in Nat /\ BufSize \in Nat \ {0} /\ count \in Nat
  BY LinesAssumption DEF Typed
<1>1. ASSUME NEW typed \in Lines, CType(typed) PROVE Typed'
  <2>1. PICK l : l = [no |-> count + 1, line |-> typed]
    OBVIOUS
  <2>2. l \in [no : Nat, line : Lines] /\ l.no = count + 1
    BY <1>0, <2>1
  <2>3. up' = Append(up, l) /\ count' = count + 1
    BY <1>1, <2>1 DEF CType
  <2>4. Sending'
    <3>1. up \in Seq([no : Nat, line : Lines])
      BY DEF Typed, Sending
    <3>2. /\ up' \in Seq([no : Nat, line : Lines]) /\ Len(up') = Len(up) + 1
          /\ \A i \in 1 .. Len(up) : up'[i] = up[i]
          /\ up'[Len(up) + 1] = l
      BY <2>2, <2>3, <3>1, AppendProperties
    <3>3. ASSUME NEW i \in 1 .. Len(up') PROVE up'[i].no = count' - Len(up') + i
      <4>1. CASE i = Len(up) + 1
        BY <1>0, <2>2, <2>3, <3>1, <3>2, <4>1
      <4>2. CASE i # Len(up) + 1
        <5>1. i \in 1 .. Len(up)
          BY <3>1, <3>2, <4>2
        <5>2. up'[i].no = count - Len(up) + i
          BY <3>2, <5>1 DEF Typed, Sending
        <5> QED BY <1>0, <2>3, <3>1, <3>2, <5>1, <5>2
      <4> QED BY <4>1, <4>2
    <3> QED BY <3>2, <3>3 DEF Sending
  <2>5. count' \in 0 .. MaxLines /\ client' = "waiting" /\ line' = typed /\ shown' = <<>>
    BY <1>0, <1>1, <2>3 DEF CType
  <2>6. UNCHANGED <<child, message, buffer, longs, down, quitFlag>>
    BY <1>1 DEF CType, childVars
  <2>7. Told'
    BY <2>6 DEF Typed, Told
  <2> QED BY <2>4, <2>5, <2>6, <2>7 DEF Typed
<1>2. CASE CShow
  <2>1. /\ shown' \in Printed(Taken(down, BufSize)) /\ down' = Left(down, BufSize)
        /\ down # <<>> /\ client' \in {"left", "typing"}
    BY <1>2, Zenon DEF CShow
  <2>2. shown' \in Seq(Replies \cup {Beyond}) /\ down' \in Seq(Replies)
    <3>1. down \in Seq(Replies)
      BY DEF Typed
    <3>2. PICK t : t = Taken(down, BufSize) /\ t \in Seq(Replies)
      BY <1>0, <2>1, <3>1, TakenLeft
    <3>3. shown' \in {t, Append(t, Beyond)}
      BY <2>1, <3>2, Zenon DEF Printed
    <3>4. t \in Seq(Replies \cup {Beyond})
      BY <3>2
    <3>5. Append(t, Beyond) \in Seq(Replies \cup {Beyond})
      BY <3>4, AppendProperties
    <3> QED BY <1>0, <2>1, <3>1, <3>3, <3>4, <3>5, TakenLeft
  <2>3. UNCHANGED <<count, line, child, message, buffer, longs, up, quitFlag>>
    BY <1>2 DEF CShow, childVars
  <2>4. Told' /\ Sending'
    BY <2>3 DEF Typed, Told, Sending
  <2> QED BY <2>1, <2>2, <2>3, <2>4 DEF Typed
<1>3. CASE KRecv
  <2>1. PICK l : l = Head(up).line
    OBVIOUS
  <2>2. PICK word \in Found(l) :
          message' = [no |-> Head(up).no, line |-> l, word |-> word,
                      answer |-> FindCommand(word, Arguments(l.args))]
    BY <1>3, <2>1 DEF KRecv
  <2>3. Head(up).no \in Nat /\ l \in Lines /\ l.form \in Form /\ l.word \in Word
    <3>1. Head(up) \in [no : Nat, line : Lines]
      BY <1>3, HeadTailProperties DEF KRecv, Typed, Sending
    <3> QED BY <2>1, <3>1, LinesAssumption DEF Word
  <2>4. word \in Word
    BY <2>2, <2>3, WordTypes, Zenon DEF Found, Typed, Form
  <2>5. l.form = "words" => word = l.word
    <3>1. ASSUME l.form = "words" PROVE Found(l) = {l.word}
      <4>1. l.form # "spaces" /\ l.form # "blank"
        BY <3>1
      <4> QED BY <3>1, <4>1, Zenon DEF Found
    <3> QED BY <2>2, <3>1
  <2>6. child' = "answering"
    BY <1>3 DEF KRecv
  <2>7. Told'
    BY <2>2, <2>3, <2>4, <2>5, <2>6 DEF Told
  <2>8. buffer' \in {l.word, EmptyCommand, buffer}
    BY <1>3, <2>1, <2>3, Zenon DEF KRecv, Form
  <2>9. up' = <<>> /\ UNCHANGED <<client, count, line, shown, longs, down, quitFlag>>
    BY <1>3 DEF KRecv, clientVars
  <2>10. Sending'
    BY <2>9 DEF Sending
  <2> QED BY <2>3, <2>6, <2>7, <2>8, <2>9, <2>10, WordTypes DEF Typed
<1>4. CASE KSend
  <2>1. PICK a : a = IF quitFlag THEN Unavailable ELSE message.answer
    OBVIOUS
  <2>2. /\ down' = Append(down, Reply(a)) /\ child' = "deciding"
        /\ longs' = (longs \/ Size(a) > BufSize)
        /\ UNCHANGED <<message, buffer, client, count, line, shown, up, quitFlag>>
    BY <1>4, <2>1 DEF KSend, clientVars
  <2>3. /\ message.no \in Nat /\ message.line \in Lines /\ message.word \in Word
        /\ message.answer = FindCommand(message.word, Arguments(message.line.args))
        /\ message.line.form = "words" => message.word = message.line.word
    BY <1>4 DEF KSend, Typed, Told
  <2>4. a \in Answers
    BY <2>1, <2>3 DEF Answers
  <2>5. PICK s \in Nat \ {0} : s = Size(a)
    BY <2>4, AnswersSized
  <2>6. PICK d : d = Reply(a)
    OBVIOUS
  <2>7. d = [no |-> message.no, line |-> message.line, answer |-> a, bytes |-> s]
    BY <2>5, <2>6 DEF Reply
  <2>8. Honest(d)
    BY <2>1, <2>3, <2>7 DEF Honest
  <2>9. d.bytes \in 1 .. Size(d.answer)
    BY <2>5, <2>7
  <2>10. d \in [no : Nat, line : Lines, answer : Answers, bytes : Nat]
    BY <2>3, <2>4, <2>7
  <2>11. d \in Replies
    BY <2>8, <2>9, <2>10 DEF Replies
  <2>12. down' \in Seq(Replies)
    BY <2>2, <2>6, <2>11, AppendProperties DEF Typed
  <2>13. longs' \in BOOLEAN
    BY <2>2
  <2>14. Told' /\ Sending'
    <3>1. Sending'
      BY <2>2 DEF Typed, Sending
    <3> QED BY <2>2, <2>3, <3>1 DEF Told
  <2> QED BY <2>2, <2>12, <2>13, <2>14 DEF Typed
<1>5. CASE KDecide \/ KAborts
  <2>1. /\ child' \in {"gone", "receiving"} /\ message' = NoMessage
        /\ UNCHANGED <<buffer, longs, client, count, line, shown, up, down, quitFlag>>
    BY <1>5 DEF KDecide, KAborts, clientVars
  <2>2. Told' /\ Sending'
    BY <2>1 DEF Typed, Told, Sending
  <2> QED BY <2>1, <2>2 DEF Typed
<1>6. CASE RaiseFlag \/ UNCHANGED vars
  <2>1. quitFlag' \in BOOLEAN
        /\ UNCHANGED <<client, count, line, shown, child, message, buffer, longs, up, down>>
    BY <1>6 DEF RaiseFlag, vars, clientVars, childVars, Typed
  <2>2. Told' /\ Sending'
    BY <2>1 DEF Typed, Told, Sending
  <2> QED BY <2>1, <2>2 DEF Typed
<1> QED BY <1>1, <1>2, <1>3, <1>4, <1>5, <1>6 DEF Next, Client, Child

(* The frontend and its child stay in step.                                *)
LEMMA InStepKept ==
  ASSUME Typed, ~longs => InStep, [Next]_vars, ~longs'
  PROVE  InStep'
<1>0. ~longs /\ InStep
  <2>1. CASE KSend
    BY <2>1 DEF KSend
  <2>2. CASE KRecv \/ KDecide \/ KAborts
    BY <2>2 DEF KRecv, KDecide, KAborts
  <2>3. CASE Client \/ RaiseFlag \/ UNCHANGED vars
    <3>1. UNCHANGED childVars
      BY <2>3, Zenon DEF Client, CType, CShow, RaiseFlag, vars
    <3> QED BY <3>1 DEF childVars
  <2> QED BY <2>1, <2>2, <2>3 DEF Next, Child
<1>1. ASSUME NEW typed \in Lines, CType(typed) PROVE InStep'
  <2>1. Quiet
    BY <1>0, <1>1 DEF InStep, CType
  <2>2. Sent'
    BY <1>1, <2>1 DEF CType, Quiet, Sent, childVars
  <2> QED BY <1>1, <2>2 DEF InStep, CType
<1>2. CASE CShow
  <2>1. client = "waiting" /\ Answered
    BY <1>0, <1>2 DEF CShow, InStep, Sent, Served
  <2>2. PICK a : /\ Size(a) \in Nat \ {0} /\ Size(a) <= BufSize
                 /\ down = <<[no |-> count, line |-> line, answer |-> a,
                              bytes |-> Size(a)]>>
    BY <2>1 DEF Answered
  <2>3. PICK d : d = [no |-> count, line |-> line, answer |-> a, bytes |-> Size(a)]
    OBVIOUS
  <2>4. /\ d.bytes = Size(d.answer) /\ d.no = count /\ d.line = line /\ down' = <<>>
        /\ shown' = <<d>> \/ (shown' = <<d, Beyond>> /\ d.bytes = BufSize)
    <3>1. down = <<d>> /\ d.bytes <= BufSize /\ d \in Replies
      BY <2>2, <2>3 DEF Typed
    <3>2. shown' \in Printed(Taken(down, BufSize)) /\ down' = Left(down, BufSize)
      BY <1>2 DEF CShow
    <3>3. shown' \in Printed(<<d>>) /\ down' = <<>>
      BY <3>1, <3>2, WholeTaken
    <3>4. d.bytes = Size(d.answer) /\ d.no = count /\ d.line = line
      BY <2>3
    <3> QED BY <3>1, <3>3, <3>4, PrintedOne
  <2>5. client' # "waiting" /\ UNCHANGED <<up, child, count, line>>
    BY <1>2, <2>1 DEF CShow, childVars, Answered
  <2>6. Quiet'
    BY <2>1, <2>4, <2>5 DEF Answered, Quiet
  <2>7. Displayed'
    <3>1. shown'[1] = d /\ shown' # <<>>
      BY <2>4
    <3>2. IsWhole(<<d>>)
      BY <2>4 DEF IsWhole
    <3>3. Len(shown') > 1 => d.bytes = BufSize /\ shown' = <<d, Beyond>>
      <4>1. CASE shown' = <<d>>
        <5>1. Len(<<d>>) = 1
          OBVIOUS
        <5> QED BY <4>1, <5>1
      <4>2. CASE shown' # <<d>>
        BY <2>4, <4>2, Zenon
      <4> QED BY <4>1, <4>2
    <3> QED BY <2>4, <2>5, <3>1, <3>2, <3>3 DEF Displayed, IsWhole
  <2> QED BY <2>5, <2>6, <2>7 DEF InStep
<1>3. CASE KRecv
  <2>1. child = "receiving" /\ up # <<>>
    BY <1>3 DEF KRecv
  <2>2. client = "waiting" /\ Sent
    BY <1>0, <2>1 DEF InStep, Served, Answered, Quiet
  <2>3. Head(up) = [no |-> count, line |-> line]
    BY <2>2 DEF Sent
  <2>4. message'.no = count /\ message'.line = line
    BY <1>3, <2>3 DEF KRecv
  <2>5. up' = <<>> /\ child' = "answering" /\ UNCHANGED <<client, count, line, down>>
    BY <1>3 DEF KRecv, clientVars
  <2>6. Served'
    BY <2>2, <2>4, <2>5 DEF Served, Sent
  <2> QED BY <2>2, <2>5, <2>6 DEF InStep
<1>4. CASE KSend
  <2>1. client = "waiting" /\ Served
    BY <1>0, <1>4 DEF KSend, InStep, Sent, Answered, Quiet
  <2>2. PICK a : a = IF quitFlag THEN Unavailable ELSE message.answer
    OBVIOUS
  <2>3. /\ down' = Append(down, [no |-> message.no, line |-> message.line,
                                 answer |-> a, bytes |-> Size(a)])
        /\ ~(Size(a) > BufSize) /\ child' = "deciding"
        /\ UNCHANGED <<client, count, line, up>>
    BY <1>4, <2>2 DEF KSend, Reply, clientVars
  <2>4. Size(a) \in Nat \ {0}
    <3>1. a \in Answers
      BY <1>4, <2>2 DEF Answers, KSend, Typed, Told
    <3> QED BY <3>1, AnswersSized
  <2>5. Size(a) <= BufSize
    BY <2>3, <2>4, LinesAssumption
  <2>6. down' = <<[no |-> count, line |-> line, answer |-> a, bytes |-> Size(a)]>>
    BY <2>1, <2>3 DEF Served
  <2>7. Answered'
    BY <2>1, <2>3, <2>4, <2>5, <2>6 DEF Answered, Served
  <2> QED BY <2>1, <2>3, <2>7 DEF InStep
<1>5. CASE KDecide \/ KAborts
  <2>1. /\ child = "deciding" /\ child' # "answering"
        /\ UNCHANGED <<client, count, line, shown, up, down>>
    BY <1>5 DEF KDecide, KAborts, clientVars
  <2>2. CASE client = "waiting"
    <3>1. Sent \/ Answered
      BY <1>0, <2>1, <2>2 DEF InStep, Served
    <3>2. Sent' \/ Answered'
      BY <2>1, <3>1 DEF Sent, Answered
    <3> QED BY <2>1, <2>2, <3>2 DEF InStep
  <2>3. CASE client # "waiting"
    BY <1>0, <2>1, <2>3 DEF InStep, Quiet, Displayed
  <2> QED BY <2>2, <2>3
<1>6. CASE RaiseFlag \/ UNCHANGED vars
  <2>1. UNCHANGED <<clientVars, childVars, up, down>>
    BY <1>6 DEF RaiseFlag, vars
  <2> QED
    BY <1>0, <2>1 DEF clientVars, childVars, InStep, Sent, Served, Answered, Quiet,
                      Displayed
<1> QED BY <1>1, <1>2, <1>3, <1>4, <1>5, <1>6 DEF Next, Client, Child

(* The frontend and its child are in step until an answer is too long.     *)
THEOREM Invariance == Spec => []XInv
<1>1. XInv /\ [Next]_vars => XInv'
  BY TypedStep, InStepKept DEF XInv
<1> QED
  BY InitInStep, <1>1, PTL DEF Spec

(* What the frontend prints begins with the whole answer to the line the   *)
(* user has just typed, and nothing follows unless that answer fills the   *)
(* buffer to its last byte, as long as no answer was longer than the       *)
(* buffer (frontend.c:31-40, backend.c:60-75).                             *)
THEOREM RightAnswerShown == Spec => []AnswersTheLine
<1>1. XInv => AnswersTheLine
  BY DEF XInv, InStep, Displayed, AnswersTheLine
<1> QED
  BY <1>1, Invariance, PTL

(* Types, the order of the lines in transit, and numbers that fit the type *)
(* they are printed as (backend.c:62-67, 178-225).                         *)
THEOREM Types == Spec => []TypeOK
<1>1. Typed => TypeOK
  <2> SUFFICES ASSUME Typed PROVE TypeOK
    OBVIOUS
  <2>1. \A i \in 1 .. Len(down) : down[i].bytes \in 1 .. Size(down[i].answer)
    BY DEF Typed, Replies
  <2>2. message.answer.text = "number" =>
          message.answer.value[1] \in
            Lim(IF message.word = Name("factorial") THEN LongWidth ELSE Width)
    <3>1. CASE child \in {"answering", "deciding"}
      <4>1. message.line \in Lines /\ message.word \in Word
            /\ message.answer = FindCommand(message.word, Arguments(message.line.args))
        BY <3>1 DEF Typed, Told
      <4>2. Arguments(message.line.args) \in Seq(Int)
        BY <4>1, LinesAssumption, ArgumentsType
      <4> QED BY <4>1, <4>2, NumbersFit
    <3>2. CASE child \notin {"answering", "deciding"}
      <4>1. message = NoMessage
        BY <3>2 DEF Typed, Told
      <4> QED BY <4>1 DEF NoMessage, Says
    <3> QED BY <3>1, <3>2
  <2> QED BY <2>1, <2>2 DEF Typed, Sending, TypeOK
<1> QED
  BY <1>1, Invariance, PTL DEF XInv

(* An answer printed for a line with parameters a float can hold is the    *)
(* exact result, or the error that applies, unless the result overflows an *)
(* int; a quotient is the nearest a float with six decimals can show       *)
(* (backend.c:144, 178-225, against the comments of backend.h).            *)
THEOREM ExactResults == Spec => []ResultsExact
<1>1. Typed => ResultsExact
  <2> SUFFICES ASSUME Typed, NEW i \in 1 .. Len(shown),
                      shown[i].line.form = "words", shown[i].line.word.junk = 0,
                      Small(shown[i].line.args), shown[i].answer # Unavailable,
                      NEW n, n = Len(shown[i].line.args),
                      \/ n = 2 /\ shown[i].line.word.name \in {"add", "multiply", "divide"}
                      \/ n = 1 /\ shown[i].line.word.name \in {"factorial", "sleep"}
               PROVE  LET l == shown[i].line
                          Value(k) == l.args[k].halves \div 2
                      IN  Promised(l.word.name, Value(1), Value(n), shown[i].answer)
    BY Zenon DEF ResultsExact
  <2>1. PICK l : l = shown[i].line
    OBVIOUS
  <2>2. shown[i] \in Replies
    <3>1. shown[i] \in Replies \cup {Beyond}
      BY DEF Typed
    <3>2. Beyond.line.form = "blank"
      BY DEF Beyond, Blank
    <3> QED BY <3>1, <3>2
  <2>3. l \in Lines /\ Honest(shown[i])
    BY <2>1, <2>2 DEF Replies
  <2>4. shown[i].answer = FindCommand(l.word, Arguments(l.args))
    BY <2>1, <2>3 DEF Honest
  <2> QED BY <2>1, <2>3, <2>4, AnswerExact
<1> QED
  BY <1>1, Invariance, PTL DEF XInv
===============================================================================
