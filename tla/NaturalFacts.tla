---------------------------- MODULE NaturalFacts ----------------------------
(***************************************************************************)
(* What the proofs need of natural numbers and the library does not state  *)
(* without induction over an operator.                                     *)
(***************************************************************************)
EXTENDS Integers, FiniteSets, FiniteSetTheorems, FunctionTheorems, WellFoundedInduction, TLAPS

Below == {ss \in Nat \X Nat : ss[1] < ss[2]}

Least(S) == CHOOSE x \in S : \A y \in S : x <= y

\* A set of natural numbers that is not empty has a least element.
LEMMA LeastElement ==
  ASSUME NEW S \in SUBSET Nat, S # {}
  PROVE  Least(S) \in S /\ \A y \in S : Least(S) <= y
<1>1. IsWellFoundedOn(Below, Nat)
  BY NatLessThanWellFounded DEF OpToRel, Below
<1>2. PICK m \in S : \A y \in S : ~(<<y, m>> \in Below)
  BY <1>1, WFMin
<1>3. \A y \in S : m <= y
  <2> SUFFICES ASSUME NEW y \in S, ~(m <= y) PROVE FALSE
    OBVIOUS
  <2>1. y \in Nat /\ m \in Nat /\ y < m
    OBVIOUS
  <2>2. <<y, m>> \in Nat \X Nat /\ <<y, m>>[1] < <<y, m>>[2]
    BY <2>1
  <2>3. <<y, m>> \in Below
    BY <2>2 DEF Below
  <2> QED BY <1>2, <2>3
<1> QED BY <1>3 DEF Least

\* Induction, for the set of the numbers a fact holds of.
LEMMA SetInduction ==
  ASSUME NEW S \in SUBSET Nat, 0 \in S, \A i \in S : i + 1 \in S
  PROVE  S = Nat
<1> SUFFICES ASSUME Nat \ S # {} PROVE FALSE
  OBVIOUS
<1> DEFINE m == Least(Nat \ S)
<1>1. m \in Nat \ S /\ \A i \in Nat \ S : m <= i
  BY LeastElement
<1> HIDE DEF m
<1>2. m # 0 /\ m - 1 \in Nat /\ ~(m <= m - 1)
  BY <1>1
<1>3. m - 1 \in S
  BY <1>1, <1>2
<1>4. (m - 1) + 1 \in S
  BY <1>3
<1> QED BY <1>1, <1>2, <1>4

\* Induction up to n.
LEMMA BoundedInduction ==
  ASSUME NEW n \in Nat, NEW S \in SUBSET (0 .. n), 0 \in S, \A i \in S : i < n => i + 1 \in S
  PROVE  S = 0 .. n
<1> DEFINE T == S \cup {i \in Nat : i > n}
<1>0. \A i \in S : i \in Nat /\ i <= n
  OBVIOUS
<1>1. T \in SUBSET Nat /\ 0 \in T
  <2>1. \A i \in T : i \in Nat
    BY <1>0
  <2> QED BY <2>1
<1>2. ASSUME NEW i \in T PROVE i + 1 \in T
  <2>1. i \in Nat /\ ((i \in S /\ i < n) \/ i >= n)
    OBVIOUS
  <2> QED BY <2>1
<1> HIDE DEF T
<1>3. T = Nat
  BY <1>1, <1>2, SetInduction
<1>4. ASSUME NEW i \in 0 .. n PROVE i \in S
  <2>1. i \in Nat /\ ~(i > n)
    OBVIOUS
  <2> QED BY <1>3, <2>1 DEF T
<1> QED BY <1>4

\* Finitely many integers have a first least one.
LEMMA FirstLeast ==
  ASSUME NEW n \in Nat \ {0}, NEW g \in [1 .. n -> Int]
  PROVE  \E i \in 1 .. n : /\ \A j \in 1 .. n : g[i] <= g[j]
                           /\ \A j \in 1 .. i - 1 : g[i] < g[j]
<1> DEFINE First(i, k) == (\A j \in 1 .. k : g[i] <= g[j]) /\ \A j \in 1 .. i - 1 : g[i] < g[j]
           S == {k \in 0 .. n : k > 0 => \E i \in 1 .. k : First(i, k)}
<1>1. n \in Nat /\ S \in SUBSET (0 .. n) /\ 0 \in S
  OBVIOUS
<1>2. ASSUME NEW k \in S, k < n PROVE k + 1 \in S
  <2>0. k \in 0 .. n /\ k + 1 \in 1 .. n /\ g[k + 1] \in Int
    BY <1>2
  <2>1. CASE k = 0
    <3>1. First(1, 1)
      BY <2>0, <2>1
    <3> QED BY <2>0, <2>1, <3>1
  <2>2. CASE k > 0
    <3>1. PICK i \in 1 .. k : First(i, k)
      BY <2>2
    <3>2. \A j \in 1 .. k + 1 : g[j] \in Int /\ (j = k + 1 \/ j \in 1 .. k)
      BY <2>0
    <3>3. CASE g[k + 1] < g[i]
      <4>1. First(k + 1, k + 1)
        <5>1. ASSUME NEW j \in 1 .. k PROVE g[k + 1] < g[j]
          <6>1. g[i] <= g[j] /\ g[i] \in Int /\ g[j] \in Int
            BY <3>1, <3>2
          <6> QED BY <2>0, <3>3, <6>1
        <5>2. (k + 1) - 1 = k
          BY <2>0
        <5> QED BY <2>0, <3>2, <5>1, <5>2
      <4> QED BY <2>0, <4>1
    <3>4. CASE ~(g[k + 1] < g[i])
      <4>1. g[i] <= g[k + 1]
        BY <2>0, <3>2, <3>4
      <4>2. First(i, k + 1)
        BY <3>1, <3>2, <4>1
      <4>3. i \in 1 .. k + 1
        BY <2>0
      <4> QED BY <2>0, <4>2, <4>3
    <3> QED BY <3>3, <3>4
  <2> QED BY <2>0, <2>1, <2>2
<1> HIDE DEF S
<1>3. S = 0 .. n
  BY <1>1, <1>2, BoundedInduction
<1>4. n \in S
  BY <1>1, <1>3
<1> QED BY <1>4 DEF S

\* What holds at 0 and passes from each place of a function to the next one.
LEMMA StepByStep ==
  ASSUME NEW n \in Nat, NEW V, NEW g, g[0] \in V,
         \A i \in 1 .. n : g[i - 1] \in V => g[i] \in V
  PROVE  \A i \in 0 .. n : g[i] \in V
<1> DEFINE S == {i \in 0 .. n : g[i] \in V}
<1>1. S \in SUBSET (0 .. n) /\ 0 \in S
  OBVIOUS
<1>2. ASSUME NEW i \in S, i < n PROVE i + 1 \in S
  <2>1. i + 1 \in 1 .. n /\ (i + 1) - 1 = i /\ i + 1 \in 0 .. n
    BY <1>2
  <2>2. g[i] \in V
    OBVIOUS
  <2>3. g[i + 1] \in V
    BY <2>1, <2>2
  <2> QED BY <2>1, <2>3
<1> HIDE DEF S
<1>3. S = 0 .. n
  BY <1>1, <1>2, BoundedInduction
<1> QED BY <1>3 DEF S

\* There is a function whose values follow from one another by the rule step.
LEMMA RecursiveFunction ==
  ASSUME NEW n \in Nat, NEW a \in Nat, NEW step \in [1 .. n -> [Nat -> Nat]]
  PROVE  \E f \in [0 .. n -> Nat] : f[0] = a /\ \A i \in 1 .. n : f[i] = step[i][f[i - 1]]
<1> DEFINE V == Nat
<1>0. a \in V /\ step \in [1 .. n -> [V -> V]]
  OBVIOUS
<1> HIDE DEF V
<1> DEFINE Upto(f, k) == f[0] = a /\ \A i \in 1 .. k : f[i] = step[i][f[i - 1]]
           S == {k \in 0 .. n : \E f \in [0 .. k -> V] : Upto(f, k)}
<1>1. 0 \in S
  <2>1. [i \in 0 .. 0 |-> a] \in [0 .. 0 -> V] /\ Upto([i \in 0 .. 0 |-> a], 0)
    BY <1>0
  <2> HIDE DEF Upto
  <2> QED BY <2>1
<1>2. ASSUME NEW k \in S, k < n PROVE k + 1 \in S
  <2>1. PICK f \in [0 .. k -> V] : Upto(f, k)
    OBVIOUS
  <2> DEFINE g == [i \in 0 .. k + 1 |-> IF i = k + 1 THEN step[k + 1][f[k]] ELSE f[i]]
  <2>2. g \in [0 .. k + 1 -> V]
    <3>1. k \in 0 .. n /\ k + 1 \in 1 .. n /\ k \in 0 .. k
      BY <1>2
    <3>2. step[k + 1] \in [V -> V] /\ f[k] \in V
      BY <1>0, <3>1
    <3>3. step[k + 1][f[k]] \in V
      BY <3>2
    <3>4. \A i \in 0 .. k + 1 : i # k + 1 => i \in 0 .. k
      BY <3>1
    <3> QED BY <3>3, <3>4
  <2>3. g[0] = a
    BY <2>1
  <2>4. ASSUME NEW i \in 1 .. k + 1 PROVE g[i] = step[i][g[i - 1]]
    <3>1. CASE i = k + 1
      BY <3>1
    <3>2. CASE i # k + 1
      <4>1. i \in 1 .. k /\ i - 1 \in 0 .. k /\ i \in 0 .. k + 1 /\ i - 1 \in 0 .. k + 1 /\ i - 1 # k + 1
        BY <3>2
      <4>2. g[i] = f[i] /\ g[i - 1] = f[i - 1]
        BY <3>2, <4>1
      <4> HIDE DEF g
      <4> QED BY <2>1, <4>1, <4>2
    <3> QED BY <3>1, <3>2
  <2> HIDE DEF g
  <2>5. Upto(g, k + 1)
    BY <2>3, <2>4
  <2> HIDE DEF Upto
  <2>6. k + 1 \in 0 .. n
    BY <1>2
  <2> QED BY <2>2, <2>5, <2>6
<1> HIDE DEF Upto
<1>3. S = 0 .. n
  <2>1. S \in SUBSET (0 .. n)
    OBVIOUS
  <2> HIDE DEF S
  <2> QED BY <1>1, <1>2, <2>1, BoundedInduction
<1>4. n \in S
  <2> HIDE DEF S
  <2> QED BY <1>3
<1> QED BY <1>4 DEF Upto, V

-----------------------------------------------------------------------------
\* A power of two, by way of the number of subsets.
LEMMA PowersOfTwo ==
  ASSUME NEW n \in Nat
  PROVE  2 ^ 0 = 1 /\ 2 ^ n \in Nat \ {0} /\ 2 ^ (n + 1) = 2 * 2 ^ n
<1> DEFINE S == SUBSET (1 .. n)
           T == {s \cup {n + 1} : s \in S}
<1>1. \A k \in Nat : IsFiniteSet(SUBSET (1 .. k)) /\ Cardinality(SUBSET (1 .. k)) = 2 ^ k
  <2> SUFFICES ASSUME NEW k \in Nat
               PROVE  IsFiniteSet(SUBSET (1 .. k)) /\ Cardinality(SUBSET (1 .. k)) = 2 ^ k
    OBVIOUS
  <2>1. IsFiniteSet(1 .. k) /\ Cardinality(1 .. k) = k
    BY FS_Interval
  <2> QED BY <2>1, FS_SUBSET
<1>2. SUBSET (1 .. n + 1) = S \cup T
  <2>1. ASSUME NEW s \in SUBSET (1 .. n + 1) PROVE s \in S \cup T
    <3>1. CASE n + 1 \in s
      <4>1. s \ {n + 1} \in S /\ s = (s \ {n + 1}) \cup {n + 1}
        BY <3>1
      <4> QED BY <4>1
    <3>2. CASE n + 1 \notin s
      <4>1. s \in S
        BY <3>2
      <4> QED BY <4>1
    <3> QED BY <3>1, <3>2
  <2>2. ASSUME NEW s \in S \cup T PROVE s \in SUBSET (1 .. n + 1)
    OBVIOUS
  <2> QED BY <2>1, <2>2
<1>3. S \cap T = {}
  OBVIOUS
<1>4. ExistsBijection(S, T)
  <2> DEFINE f == [s \in S |-> s \cup {n + 1}]
  <2>1. f \in [S -> T] /\ \A t \in T : \E s \in S : f[s] = t
    OBVIOUS
  <2>2. ASSUME NEW s \in S, NEW t \in S, f[s] = f[t] PROVE s = t
    <3>1. n + 1 \notin s /\ n + 1 \notin t
      OBVIOUS
    <3> QED BY <2>2, <3>1
  <2>3. f \in Bijection(S, T)
    BY <2>1, <2>2 DEF Bijection, Injection, IsInjective, Surjection
  <2> QED BY <2>3 DEF ExistsBijection
<1>5. IsFiniteSet(T) /\ Cardinality(T) = Cardinality(S)
  BY <1>1, <1>4, FS_Bijection
<1> HIDE DEF T
<1>6. Cardinality(SUBSET (1 .. n + 1)) = Cardinality(S) + Cardinality(T) - Cardinality({})
  <2>1. IsFiniteSet(S)
    BY <1>1
  <2> QED BY <1>2, <1>3, <1>5, <2>1, FS_Union
<1>7. Cardinality({}) = 0 /\ Cardinality(S) \in Nat \ {0}
  <2>1. S # {} /\ IsFiniteSet(S)
    BY <1>1
  <2> QED BY <2>1, FS_EmptySet, FS_CardinalityType
<1>8. Cardinality(S) = 2 ^ n /\ Cardinality(SUBSET (1 .. n + 1)) = 2 ^ (n + 1)
  <2>1. n + 1 \in Nat
    OBVIOUS
  <2> QED BY <1>1, <2>1
<1>9. 2 ^ 0 = 1
  <2>1. SUBSET (1 .. 0) = {{}}
    OBVIOUS
  <2>2. Cardinality({{}}) = 1
    <3>1. ExistsBijection(1 .. 1, {{}})
      <4>1. [i \in 1 .. 1 |-> {}] \in Bijection(1 .. 1, {{}})
        BY DEF Bijection, Injection, IsInjective, Surjection
      <4> QED BY <4>1 DEF ExistsBijection
    <3>2. IsFiniteSet(1 .. 1) /\ Cardinality(1 .. 1) = 1
      BY FS_Interval
    <3> QED BY <3>1, <3>2, FS_Bijection
  <2> QED BY <1>1, <2>1, <2>2
<1> QED BY <1>5, <1>6, <1>7, <1>8, <1>9

-----------------------------------------------------------------------------
(* Division, by a divisor that is not a numeral.                           *)

\* Quotient and remainder are what they are.
LEMMA Division ==
  ASSUME NEW q \in Nat, NEW r \in Nat, NEW d \in Nat \ {0}, r < d
  PROVE  (q * d + r) \div d = q /\ (q * d + r) % d = r
OBVIOUS

\* A number below the divisor is its own remainder.
LEMMA SmallMod ==
  ASSUME NEW x \in Nat, NEW d \in Nat \ {0}, x < d
  PROVE  x % d = x
OBVIOUS

\* A number is its quotient times the divisor, and the remainder.
LEMMA DivMod ==
  ASSUME NEW x \in Nat, NEW d \in Nat \ {0}
  PROVE  /\ x \div d \in Nat /\ x % d \in Nat /\ x % d < d
         /\ x = (x \div d) * d + (x % d)
OBVIOUS

\* Whole multiples of the divisor pass through a division.
LEMMA DivShift ==
  ASSUME NEW x \in Nat, NEW c \in Nat, NEW d \in Nat \ {0}
  PROVE  (x + c * d) \div d = x \div d + c
<1> DEFINE q == x \div d  r == x % d
<1>1. q \in Nat /\ r \in Nat /\ r < d /\ x = q * d + r
  BY DivMod
<1> HIDE DEF q, r
<1>2. x + c * d = (q + c) * d + r
  BY <1>1
<1>3. q + c \in Nat
  BY <1>1
<1>4. ((q + c) * d + r) \div d = q + c
  BY <1>1, <1>3, Division
<1> QED BY <1>2, <1>4 DEF q

\* The quotient of a sum is the sum of the quotients, or one more.
LEMMA DivSum ==
  ASSUME NEW x \in Nat, NEW y \in Nat, NEW d \in Nat \ {0}
  PROVE  x \div d + y \div d <= (x + y) \div d /\ (x + y) \div d <= x \div d + y \div d + 1
<1> DEFINE q == x \div d  r == x % d  p == y \div d  s == y % d
<1>1. /\ q \in Nat /\ r \in Nat /\ r < d /\ x = q * d + r
      /\ p \in Nat /\ s \in Nat /\ s < d /\ y = p * d + s
  BY DivMod
<1> HIDE DEF q, r, p, s
<1>2. CASE r + s < d
  <2>1. x + y = (q + p) * d + (r + s) /\ q + p \in Nat /\ r + s \in Nat
    BY <1>1
  <2>2. ((q + p) * d + (r + s)) \div d = q + p
    BY <1>2, <2>1, Division
  <2> QED BY <1>1, <2>1, <2>2 DEF q, p
<1>3. CASE ~(r + s < d)
  <2>1. x + y = (q + p + 1) * d + (r + s - d) /\ q + p + 1 \in Nat /\ r + s - d \in Nat /\ r + s - d < d
    BY <1>1, <1>3
  <2>2. ((q + p + 1) * d + (r + s - d)) \div d = q + p + 1
    BY <2>1, Division
  <2> QED BY <1>1, <2>1, <2>2 DEF q, p
<1> QED BY <1>2, <1>3

\* Multiples grow with their factor.
LEMMA Multiples ==
  ASSUME NEW x \in Nat, NEW y \in Nat, NEW k \in Nat, x <= y
  PROVE  x * k \in Nat /\ x * k <= y * k
<1>1. (y - x) * k \in Nat /\ x * k \in Nat /\ y * k \in Nat
  OBVIOUS
<1>2. (y - x) * k = y * k - x * k
  OBVIOUS
<1> QED BY <1>1, <1>2

\* One binary digit more of a number: its remainder modulo twice the power of two.
LEMMA NextDigit ==
  ASSUME NEW v \in Nat, NEW p \in Nat \ {0}
  PROVE  v % (2 * p) = (v % p) + (IF (v \div p) % 2 = 1 THEN p ELSE 0)
<1> DEFINE q == v \div p  r == v % p  a == q \div 2  b == q % 2
<1>1. q \in Nat /\ r \in Nat /\ r < p /\ v = q * p + r
  BY DivMod
<1> HIDE DEF q, r
<1>2. a \in Nat /\ b \in {0, 1} /\ q = a * 2 + b
  BY <1>1
<1> HIDE DEF a, b
<1>3. v = a * (2 * p) + (b * p + r)
  BY <1>1, <1>2
<1>4. b * p + r \in Nat /\ b * p + r < 2 * p /\ 2 * p \in Nat \ {0}
  BY <1>1, <1>2
<1>5. v % (2 * p) = b * p + r
  <2> DEFINE d == 2 * p  e == b * p + r
  <2>1. v = a * d + e /\ a \in Nat /\ d \in Nat \ {0} /\ e \in Nat /\ e < d
    BY <1>2, <1>3, <1>4
  <2> HIDE DEF d, e
  <2>2. v % d = e
    BY <2>1, Division
  <2> QED BY <2>2 DEF d, e
<1>6. b * p = IF b = 1 THEN p ELSE 0
  BY <1>1, <1>2
<1> QED BY <1>1, <1>5, <1>6 DEF q, r, b

\* The sum of the digits of w places, taken one place after the other.
LEMMA DigitsUpTo ==
  ASSUME NEW v \in Nat, NEW w \in Nat, NEW t \in [0 .. w -> Nat], t[0] = 0,
         \A d \in 0 .. w - 1 : t[d + 1] = t[d] + (IF (v \div 2 ^ d) % 2 = 1 THEN 2 ^ d ELSE 0)
  PROVE  t[w] = v % 2 ^ w
<1> DEFINE S == {d \in 0 .. w : t[d] = v % 2 ^ d}
<1>1. S \in SUBSET (0 .. w)
  OBVIOUS
<1>2. 0 \in S
  <2>1. 2 ^ 0 = 1 /\ v % 1 = 0 /\ 0 \in 0 .. w
    BY PowersOfTwo
  <2> QED BY <2>1
<1>3. ASSUME NEW d \in S, d < w PROVE d + 1 \in S
  <2>1. d \in 0 .. w - 1 /\ d \in Nat /\ d + 1 \in 0 .. w /\ t[d] = v % 2 ^ d
    BY <1>3
  <2>2. 2 ^ d \in Nat \ {0} /\ 2 ^ (d + 1) = 2 * 2 ^ d
    BY <2>1, PowersOfTwo
  <2>3. v % (2 * 2 ^ d) = (v % 2 ^ d) + (IF (v \div 2 ^ d) % 2 = 1 THEN 2 ^ d ELSE 0)
    BY <2>2, NextDigit
  <2>4. t[d + 1] = v % 2 ^ (d + 1)
    BY <2>1, <2>2, <2>3
  <2> QED BY <2>1, <2>4
<1> HIDE DEF S
<1>4. S = 0 .. w
  BY <1>1, <1>2, <1>3, BoundedInduction
<1>5. w \in S
  BY <1>4
<1> QED BY <1>5 DEF S

\* The same in a byte, of which the w places from lsb on are the number's: g sums
\* up the digits.
SumsDigits(g, v, lsb, w) ==
  \A i \in 0 .. 7 :
    g[i + 1] = g[i] + (IF lsb <= i /\ i < lsb + w /\ (v \div 2 ^ (i - lsb)) % 2 = 1
                       THEN 2 ^ (i - lsb) ELSE 0)

LEMMA DigitsInByte ==
  ASSUME NEW v \in Nat, NEW lsb \in Nat, NEW w \in Nat, lsb + w <= 8,
         NEW g \in [0 .. 8 -> Nat], g[0] = 0, SumsDigits(g, v, lsb, w)
  PROVE  g[8] = v % 2 ^ w
<1> USE DEF SumsDigits
<1>1. \A i \in 0 .. 8 : g[i] \in Nat
  OBVIOUS
<1>2. g[lsb] = 0
  <2> DEFINE S == {i \in 0 .. lsb : g[i] = 0}
  <2>1. S \in SUBSET (0 .. lsb) /\ 0 \in S
    OBVIOUS
  <2>2. ASSUME NEW i \in S, i < lsb PROVE i + 1 \in S
    <3>1. i \in 0 .. 7 /\ i + 1 \in 0 .. lsb /\ g[i] = 0 /\ ~(lsb <= i)
      BY <2>2
    <3>2. g[i + 1] = 0
      BY <3>1
    <3> QED BY <3>1, <3>2
  <2> HIDE DEF S
  <2>3. S = 0 .. lsb
    BY <2>1, <2>2, BoundedInduction
  <2>4. lsb \in S
    BY <2>3
  <2> QED BY <2>4 DEF S
<1>3. g[lsb + w] = v % 2 ^ w
  <2> DEFINE t == [d \in 0 .. w |-> g[lsb + d]]
  <2>1. t \in [0 .. w -> Nat]
    <3> SUFFICES ASSUME NEW d \in 0 .. w PROVE g[lsb + d] \in Nat
      OBVIOUS
    <3>1. lsb + d \in 0 .. 8
      OBVIOUS
    <3> QED BY <1>1, <3>1
  <2>2. t[0] = 0
    BY <1>2
  <2>3. ASSUME NEW d \in 0 .. w - 1
        PROVE  t[d + 1] = t[d] + (IF (v \div 2 ^ d) % 2 = 1 THEN 2 ^ d ELSE 0)
    <3> DEFINE i == lsb + d
    <3>1. i \in 0 .. 7 /\ lsb <= i /\ i < lsb + w /\ i - lsb = d /\ lsb + (d + 1) = i + 1
      OBVIOUS
    <3>2. t[d + 1] = g[i + 1] /\ t[d] = g[i]
      BY <3>1
    <3> HIDE DEF t, i
    <3>3. g[i + 1] = g[i] + (IF (v \div 2 ^ (i - lsb)) % 2 = 1 THEN 2 ^ (i - lsb) ELSE 0)
      BY <3>1
    <3> QED BY <3>1, <3>2, <3>3
  <2>4. t[w] = g[lsb + w]
    OBVIOUS
  <2> HIDE DEF t
  <2>5. t[w] = v % 2 ^ w
    BY <2>1, <2>2, <2>3, DigitsUpTo
  <2> QED BY <2>4, <2>5
<1>4. g[8] = g[lsb + w]
  <2> DEFINE r == 8 - (lsb + w)
             S == {d \in 0 .. r : g[lsb + w + d] = g[lsb + w]}
  <2>0. r \in Nat
    OBVIOUS
  <2>1. S \in SUBSET (0 .. r) /\ 0 \in S
    OBVIOUS
  <2>2. ASSUME NEW d \in S, d < r PROVE d + 1 \in S
    <3> DEFINE i == lsb + w + d
    <3>1. i \in 0 .. 7 /\ ~(i < lsb + w) /\ d + 1 \in 0 .. r /\ lsb + w + (d + 1) = i + 1
      BY <2>2
    <3>2. g[i] = g[lsb + w]
      BY <2>2
    <3> HIDE DEF i
    <3>3. g[i + 1] = g[i] + (IF /\ lsb <= i /\ i < lsb + w /\ (v \div 2 ^ (i - lsb)) % 2 = 1
                             THEN 2 ^ (i - lsb) ELSE 0)
      BY <3>1
    <3>4. g[i + 1] = g[i] + 0 /\ g[i] \in Nat
      BY <1>1, <3>1, <3>3
    <3> QED BY <3>1, <3>2, <3>4
  <2> HIDE DEF S, r
  <2>3. S = 0 .. r
    BY <2>0, <2>1, <2>2, BoundedInduction
  <2>4. r \in S
    BY <2>0, <2>3
  <2>5. lsb + w + r = 8
    BY DEF r
  <2> QED BY <2>4, <2>5 DEF S
<1> QED BY <1>3, <1>4
=============================================================================
