------------------------------ MODULE RxProofs ------------------------------
(***************************************************************************)
(* Theorems about modules Dispatch and Rx, for blocks, transfers, buffers  *)
(* and chains of decimation stages of any size.                            *)
(***************************************************************************)
EXTENDS Rx, NaturalFacts, TLAPS

-----------------------------------------------------------------------------
(* The chain of decimation stages.                                         *)

\* What the states of the stages in h amount to, in samples entering the chain.
HeldIn(h) ==
  LET sum[i \in 0 .. Stages] ==
        IF i = 0 THEN 0 ELSE sum[i - 1] + h[i] * 2 ^ (i - 1)
  IN sum

\* The recursive definition of HeldBack defines what it says.
LEMMA HeldInRule ==
  ASSUME NEW h \in [1 .. Stages -> 0 .. 1]
  PROVE  /\ HeldIn(h) \in [0 .. Stages -> Nat]
         /\ HeldIn(h)[0] = 0
         /\ \A i \in 1 .. Stages : HeldIn(h)[i] = HeldIn(h)[i - 1] + h[i] * 2 ^ (i - 1)
<1> DEFINE step == [i \in 1 .. Stages |-> [x \in Nat |-> x + h[i] * 2 ^ (i - 1)]]
           Rule(f) == f = [i \in 0 .. Stages |-> IF i = 0 THEN 0 ELSE f[i - 1] + h[i] * 2 ^ (i - 1)]
<1>1. step \in [1 .. Stages -> [Nat -> Nat]]
  <2>1. ASSUME NEW i \in 1 .. Stages, NEW x \in Nat PROVE x + h[i] * 2 ^ (i - 1) \in Nat
    <3>1. i - 1 \in Nat /\ h[i] \in 0 .. 1
      BY DispatchAssumption
    <3>2. 2 ^ (i - 1) \in Nat
      BY <3>1, PowersOfTwo
    <3>3. h[i] = 0 \/ h[i] = 1
      BY <3>1
    <3> HIDE DEF step
    <3> QED BY <3>2, <3>3
  <2> QED BY <2>1
<1>2. PICK f \in [0 .. Stages -> Nat] :
        f[0] = 0 /\ \A i \in 1 .. Stages : f[i] = step[i][f[i - 1]]
  <2>1. Stages \in Nat
    BY DispatchAssumption
  <2> HIDE DEF step
  <2>2. \E f \in [0 .. Stages -> Nat] :
          f[0] = 0 /\ \A i \in 1 .. Stages : f[i] = step[i][f[i - 1]]
    BY ONLY <1>1, <2>1, 0 \in Nat, RecursiveFunction
  <2> QED BY <2>2
<1>3. ASSUME NEW i \in 1 .. Stages PROVE f[i] = f[i - 1] + h[i] * 2 ^ (i - 1)
  <2>1. i - 1 \in 0 .. Stages
    BY DispatchAssumption
  <2> QED BY <1>2, <2>1
<1>4. Rule(f)
  BY <1>2, <1>3
<1>5. Rule(HeldIn(h))
  BY <1>4 DEF HeldIn
<1> DEFINE g == HeldIn(h)
<1>6. g[0] = 0 /\ \A i \in 1 .. Stages : g[i] = g[i - 1] + h[i] * 2 ^ (i - 1)
  <2>1. 0 \in 0 .. Stages /\ \A i \in 1 .. Stages : i \in 0 .. Stages /\ i # 0
    BY DispatchAssumption
  <2> HIDE DEF HeldIn
  <2> QED BY <1>5, <2>1
<1> HIDE DEF g
<1>7. \A i \in 1 .. Stages : g[i - 1] \in Nat => g[i] \in Nat
  <2> SUFFICES ASSUME NEW i \in 1 .. Stages, g[i - 1] \in Nat PROVE g[i] \in Nat
    OBVIOUS
  <2>1. g[i] = step[i][g[i - 1]]
    BY <1>6
  <2> HIDE DEF step
  <2> QED BY <1>1, <2>1
<1>8. \A i \in 0 .. Stages : g[i] \in Nat
  <2> DEFINE V == Nat
  <2>1. Stages \in Nat /\ g[0] \in V /\ \A i \in 1 .. Stages : g[i - 1] \in V => g[i] \in V
    BY <1>6, <1>7, DispatchAssumption
  <2> HIDE DEF V
  <2>2. \A i \in 0 .. Stages : g[i] \in V
    BY <2>1, StepByStep
  <2> QED BY <2>2 DEF V
<1>9. g = [i \in 0 .. Stages |-> g[i]]
  <2> HIDE DEF HeldIn
  <2> QED BY <1>5 DEF g
<1> HIDE DEF HeldIn
<1> QED BY <1>6, <1>8, <1>9 DEF g

\* So does Leaving.
LEMMA LeavingRule ==
  ASSUME NEW n \in Nat, held \in [1 .. Stages -> 0 .. 1]
  PROVE  /\ Leaving(n) \in [0 .. Stages -> Nat]
         /\ Leaving(n)[0] = n
         /\ \A i \in 1 .. Stages : Leaving(n)[i] = (held[i] + Leaving(n)[i - 1]) \div 2
<1> DEFINE step == [i \in 1 .. Stages |-> [x \in Nat |-> (held[i] + x) \div 2]]
           Rule(f) == f = [i \in 0 .. Stages |-> IF i = 0 THEN n ELSE (held[i] + f[i - 1]) \div 2]
<1>1. step \in [1 .. Stages -> [Nat -> Nat]]
  <2>1. ASSUME NEW i \in 1 .. Stages, NEW x \in Nat PROVE (held[i] + x) \div 2 \in Nat
    <3>1. held[i] \in 0 .. 1
      OBVIOUS
    <3> QED BY <3>1
  <2> QED BY <2>1
<1>2. PICK f \in [0 .. Stages -> Nat] :
        f[0] = n /\ \A i \in 1 .. Stages : f[i] = step[i][f[i - 1]]
  <2>1. Stages \in Nat
    BY DispatchAssumption
  <2> HIDE DEF step
  <2> QED BY <1>1, <2>1, RecursiveFunction
<1>3. ASSUME NEW i \in 1 .. Stages PROVE f[i] = (held[i] + f[i - 1]) \div 2
  <2>1. i - 1 \in 0 .. Stages
    BY DispatchAssumption
  <2> QED BY <1>2, <2>1
<1>4. Rule(f)
  BY <1>2, <1>3
<1>5. Rule(Leaving(n))
  BY <1>4 DEF Leaving
<1> HIDE DEF Leaving
<1> DEFINE g == Leaving(n)
<1>6. g[0] = n /\ \A i \in 1 .. Stages : g[i] = (held[i] + g[i - 1]) \div 2
  <2>1. 0 \in 0 .. Stages /\ \A i \in 1 .. Stages : i \in 0 .. Stages /\ i # 0
    BY DispatchAssumption
  <2> QED BY <1>5, <2>1
<1> HIDE DEF g
<1>7. \A i \in 1 .. Stages : g[i - 1] \in Nat => g[i] \in Nat
  <2> SUFFICES ASSUME NEW i \in 1 .. Stages, g[i - 1] \in Nat PROVE g[i] \in Nat
    OBVIOUS
  <2>1. g[i] = step[i][g[i - 1]]
    BY <1>6
  <2> HIDE DEF step
  <2> QED BY <1>1, <2>1
<1>8. \A i \in 0 .. Stages : g[i] \in Nat
  <2> DEFINE V == Nat
  <2>1. Stages \in Nat /\ g[0] \in V /\ \A i \in 1 .. Stages : g[i - 1] \in V => g[i] \in V
    BY <1>6, <1>7, DispatchAssumption
  <2> HIDE DEF V
  <2>2. \A i \in 0 .. Stages : g[i] \in V
    BY <2>1, StepByStep
  <2> QED BY <2>2 DEF V
<1>9. g = [i \in 0 .. Stages |-> g[i]]
  BY <1>5 DEF g
<1> QED BY <1>6, <1>8, <1>9 DEF g

\* The samples and what the first i stages hold are conserved up to stage i.
LEMMA StagesConserve ==
  ASSUME NEW n \in Nat, held \in [1 .. Stages -> 0 .. 1],
         NEW h \in [1 .. Stages -> 0 .. 1],
         \A i \in 1 .. Stages : h[i] = (held[i] + Leaving(n)[i - 1]) % 2
  PROVE  \A i \in 0 .. Stages : n + HeldIn(held)[i] = Leaving(n)[i] * 2 ^ i + HeldIn(h)[i]
<1> DEFINE S == {i \in 0 .. Stages : n + HeldIn(held)[i] = Leaving(n)[i] * 2 ^ i + HeldIn(h)[i]}
<1>1. 0 \in S /\ S \in SUBSET (0 .. Stages)
  <2>1. 0 \in 0 .. Stages /\ 2 ^ 0 = 1
    BY DispatchAssumption, PowersOfTwo
  <2>2. HeldIn(held)[0] = 0 /\ HeldIn(h)[0] = 0 /\ Leaving(n)[0] = n
    BY HeldInRule, LeavingRule
  <2> QED BY <2>1, <2>2
<1>2. ASSUME NEW i \in S, i < Stages PROVE i + 1 \in S
  <2>1. i \in Nat /\ i + 1 \in 1 .. Stages /\ (i + 1) - 1 = i /\ i \in 0 .. Stages /\ i + 1 \in 0 .. Stages
    BY <1>2, DispatchAssumption
  <2>2. n + HeldIn(held)[i] = Leaving(n)[i] * 2 ^ i + HeldIn(h)[i]
    OBVIOUS
  <2>3. /\ HeldIn(held)[i + 1] = HeldIn(held)[i] + held[i + 1] * 2 ^ i
        /\ HeldIn(h)[i + 1] = HeldIn(h)[i] + h[i + 1] * 2 ^ i
        /\ HeldIn(held)[i] \in Nat /\ HeldIn(h)[i] \in Nat
    BY <2>1, HeldInRule
  <2>4. /\ Leaving(n)[i + 1] = (held[i + 1] + Leaving(n)[i]) \div 2
        /\ Leaving(n)[i] \in Nat /\ Leaving(n)[i + 1] \in Nat
    <3>1. /\ Leaving(n) \in [0 .. Stages -> Nat]
          /\ \A j \in 1 .. Stages : Leaving(n)[j] = (held[j] + Leaving(n)[j - 1]) \div 2
      BY LeavingRule
    <3>2. Leaving(n)[i + 1] = (held[i + 1] + Leaving(n)[(i + 1) - 1]) \div 2
      BY <2>1, <3>1
    <3>3. Leaving(n)[i] \in Nat /\ Leaving(n)[i + 1] \in Nat
      BY <2>1, <3>1
    <3> QED BY <2>1, <3>2, <3>3
  <2>5. h[i + 1] = (held[i + 1] + Leaving(n)[i]) % 2
    BY <2>1
  <2>6. 2 ^ i \in Nat /\ 2 ^ (i + 1) = 2 * 2 ^ i
    BY <2>1, PowersOfTwo
  <2>7. held[i + 1] \in 0 .. 1 /\ h[i + 1] \in 0 .. 1
    BY <2>1
  <2> DEFINE p == 2 ^ i  a == HeldIn(held)[i]  b == HeldIn(h)[i]  x == Leaving(n)[i]
             y == Leaving(n)[i + 1]  c == held[i + 1]  d == h[i + 1]
  <2>8. p \in Nat /\ a \in Nat /\ b \in Nat /\ x \in Nat /\ y \in Nat /\ c \in 0 .. 1 /\ d \in 0 .. 1
    BY <2>3, <2>4, <2>6, <2>7
  <2>9. y = (c + x) \div 2 /\ d = (c + x) % 2 /\ n + a = x * p + b
    BY <2>2, <2>4, <2>5
  <2>10. n + (a + c * p) = y * (2 * p) + (b + d * p)
    <3> HIDE DEF p, a, b, x, y, c, d
    <3>1. c + x = 2 * y + d
      BY <2>8, <2>9
    <3>2. (c + x) * p = (2 * y + d) * p
      BY <3>1
    <3>3. c * p + x * p = y * (2 * p) + d * p
      BY <2>8, <3>2
    <3>4. c * p \in Nat /\ x * p \in Nat /\ y * (2 * p) \in Nat /\ d * p \in Nat
      BY <2>8
    <3> QED BY <2>8, <2>9, <3>3, <3>4
  <2> QED BY <2>1, <2>3, <2>6, <2>10
<1> HIDE DEF S
<1>3. S = 0 .. Stages
  <2>1. Stages \in Nat
    BY DispatchAssumption
  <2> QED BY <1>1, <1>2, <2>1, BoundedInduction
<1> QED BY <1>3 DEF S

\* What is held back is less than what makes one user sample.
LEMMA HeldBelow ==
  ASSUME NEW h \in [1 .. Stages -> 0 .. 1]
  PROVE  \A i \in 0 .. Stages : HeldIn(h)[i] < 2 ^ i
<1> DEFINE S == {i \in 0 .. Stages : HeldIn(h)[i] < 2 ^ i}
<1>1. 0 \in S /\ S \in SUBSET (0 .. Stages)
  <2>1. 0 \in 0 .. Stages /\ 2 ^ 0 = 1
    BY DispatchAssumption, PowersOfTwo
  <2>2. HeldIn(h)[0] = 0
    BY HeldInRule
  <2> QED BY <2>1, <2>2
<1>2. ASSUME NEW i \in S, i < Stages PROVE i + 1 \in S
  <2>1. i \in Nat /\ i + 1 \in 1 .. Stages /\ (i + 1) - 1 = i /\ i \in 0 .. Stages /\ i + 1 \in 0 .. Stages
    BY <1>2, DispatchAssumption
  <2>2. HeldIn(h)[i + 1] = HeldIn(h)[i] + h[i + 1] * 2 ^ i /\ HeldIn(h)[i] \in Nat
    BY <2>1, HeldInRule
  <2>3. 2 ^ i \in Nat /\ 2 ^ (i + 1) = 2 * 2 ^ i
    BY <2>1, PowersOfTwo
  <2>4. h[i + 1] = 0 \/ h[i + 1] = 1
    BY <2>1
  <2>5. HeldIn(h)[i] < 2 ^ i
    OBVIOUS
  <2>6. HeldIn(h)[i + 1] < 2 ^ (i + 1)
    BY <2>2, <2>3, <2>4, <2>5
  <2> QED BY <2>1, <2>6
<1> HIDE DEF S
<1>3. S = 0 .. Stages
  <2>1. Stages \in Nat
    BY DispatchAssumption
  <2> QED BY <1>1, <1>2, <2>1, BoundedInduction
<1> QED BY <1>3 DEF S

LEMMA Positive == AdcPerUser \in Nat \ {0} /\ Word \in Nat \ {0}
BY PowersOfTwo, DispatchAssumption DEF AdcPerUser, Word

\* What a range of n samples leaves in the stages and sends on, as quotient and
\* remainder of what was held and what has come.
LEMMA RangeDivides ==
  ASSUME NEW n \in Nat, held \in [1 .. Stages -> 0 .. 1],
         NEW h, h = [i \in 1 .. Stages |-> (held[i] + Leaving(n)[i - 1]) % 2]
  PROVE  /\ h \in [1 .. Stages -> 0 .. 1]
         /\ HeldIn(held)[Stages] \in 0 .. AdcPerUser - 1
         /\ HeldIn(h)[Stages] \in 0 .. AdcPerUser - 1
         /\ Leaving(n)[Stages] \in Nat
         /\ (HeldIn(held)[Stages] + n) % AdcPerUser = HeldIn(h)[Stages]
         /\ HeldIn(held)[Stages] + n = Leaving(n)[Stages] * AdcPerUser + HeldIn(h)[Stages]
<1>0. Stages \in Nat /\ Stages \in 0 .. Stages
  BY DispatchAssumption
<1>1. h \in [1 .. Stages -> 0 .. 1]
  <2>1. ASSUME NEW i \in 1 .. Stages PROVE (held[i] + Leaving(n)[i - 1]) % 2 \in 0 .. 1
    <3>1. i - 1 \in 0 .. Stages
      BY <1>0
    <3>2. held[i] \in 0 .. 1 /\ Leaving(n)[i - 1] \in Nat
      BY <3>1, LeavingRule
    <3> QED BY <3>2
  <2> QED BY <2>1
<1>2. \A i \in 1 .. Stages : h[i] = (held[i] + Leaving(n)[i - 1]) % 2
  OBVIOUS
<1>3. n + HeldIn(held)[Stages] = Leaving(n)[Stages] * 2 ^ Stages + HeldIn(h)[Stages]
  BY <1>0, <1>1, <1>2, StagesConserve
<1>4. /\ HeldIn(held)[Stages] \in Nat /\ HeldIn(h)[Stages] \in Nat
      /\ HeldIn(held)[Stages] < 2 ^ Stages /\ HeldIn(h)[Stages] < 2 ^ Stages
      /\ Leaving(n)[Stages] \in Nat
  BY <1>0, <1>1, HeldInRule, HeldBelow, LeavingRule
<1> DEFINE a == HeldIn(held)[Stages]  b == HeldIn(h)[Stages]  q == Leaving(n)[Stages]
<1>5. /\ a \in Nat /\ b \in Nat /\ q \in Nat /\ a < AdcPerUser /\ b < AdcPerUser
      /\ a + n = q * AdcPerUser + b
  BY <1>3, <1>4 DEF AdcPerUser
<1> HIDE DEF a, b, q
<1>6. (a + n) % AdcPerUser = b
  BY <1>5, Positive, Division
<1>7. a \in 0 .. AdcPerUser - 1 /\ b \in 0 .. AdcPerUser - 1
  BY <1>5, Positive
<1> QED BY <1>1, <1>5, <1>6, <1>7 DEF a, b, q

-----------------------------------------------------------------------------
(* The blocks of a transfer.                                               *)

\* The block numbers Receive chooses.
Numbers(gaps) ==
  LET number[i \in 1 .. Blocks] ==
        gaps[i] + IF i = 1 THEN next ELSE number[i - 1] + 1
  IN number

LEMMA NumbersRule ==
  ASSUME NEW gaps \in [1 .. Blocks -> 0 .. MaxGap], next \in Nat
  PROVE  /\ Numbers(gaps) \in [1 .. Blocks -> Nat]
         /\ Numbers(gaps)[1] = gaps[1] + next
         /\ \A i \in 1 .. Blocks - 1 :
              Numbers(gaps)[i + 1] = gaps[i + 1] + Numbers(gaps)[i] + 1
<1> DEFINE step == [i \in 1 .. Blocks |-> [x \in Nat |-> gaps[i] + IF i = 1 THEN x ELSE x + 1]]
           Rule(f) == f = [i \in 1 .. Blocks |-> gaps[i] + IF i = 1 THEN next ELSE f[i - 1] + 1]
<1>0. Blocks \in Nat \ {0} /\ MaxGap \in Nat
  BY DispatchAssumption
<1>1. step \in [1 .. Blocks -> [Nat -> Nat]]
  <2>1. ASSUME NEW i \in 1 .. Blocks, NEW x \in Nat
        PROVE  gaps[i] + (IF i = 1 THEN x ELSE x + 1) \in Nat
    <3>1. gaps[i] \in Nat
      BY <1>0
    <3> QED BY <3>1
  <2> QED BY <2>1
<1>2. PICK f \in [0 .. Blocks -> Nat] :
        f[0] = next /\ \A i \in 1 .. Blocks : f[i] = step[i][f[i - 1]]
  <2>1. Blocks \in Nat
    BY <1>0
  <2> HIDE DEF step
  <2> QED BY <1>1, <2>1, RecursiveFunction
<1> DEFINE g == [i \in 1 .. Blocks |-> f[i]]
<1>3. ASSUME NEW i \in 1 .. Blocks
      PROVE  g[i] = gaps[i] + IF i = 1 THEN next ELSE g[i - 1] + 1
  <2>1. i - 1 \in 0 .. Blocks /\ (i # 1 => i - 1 \in 1 .. Blocks)
    BY <1>0
  <2>2. f[i - 1] \in Nat
    BY <2>1
  <2>3. f[i] = gaps[i] + IF i = 1 THEN f[i - 1] ELSE f[i - 1] + 1
    BY <1>2, <2>2
  <2>4. i = 1 => f[i - 1] = next
    BY <1>2
  <2> QED BY <2>1, <2>3, <2>4
<1>4. Rule(g)
  <2> HIDE DEF step
  <2> QED BY <1>3
<1> HIDE DEF g
<1>5. Rule(Numbers(gaps))
  BY <1>4 DEF Numbers
<1> HIDE DEF Numbers
<1> DEFINE m == Numbers(gaps)
<1>6. \A i \in 1 .. Blocks : m[i] = gaps[i] + IF i = 1 THEN next ELSE m[i - 1] + 1
  BY <1>5
<1>7. m = [i \in 1 .. Blocks |-> m[i]]
  BY <1>5 DEF m
<1> HIDE DEF m
<1>8. \A i \in 1 .. Blocks : gaps[i] \in Nat
  BY <1>0
<1>9. m[1] = gaps[1] + next /\ m[1] \in Nat
  <2>1. 1 \in 1 .. Blocks
    BY <1>0
  <2> QED BY <1>6, <1>8, <2>1
<1>10. ASSUME NEW i \in 1 .. Blocks - 1 PROVE m[i + 1] = gaps[i + 1] + (m[i] + 1)
  <2>1. i + 1 \in 1 .. Blocks /\ i + 1 # 1 /\ (i + 1) - 1 = i
    BY <1>0
  <2> QED BY <1>6, <2>1
<1> DEFINE k == [i \in 0 .. Blocks - 1 |-> m[i + 1]]
           V == Nat
<1>11. k[0] \in V /\ \A i \in 1 .. Blocks - 1 : k[i - 1] \in V => k[i] \in V
  <2>1. k[0] = m[1]
    BY <1>0
  <2>2. ASSUME NEW i \in 1 .. Blocks - 1, k[i - 1] \in Nat PROVE k[i] \in Nat
    <3>1. /\ i - 1 \in 0 .. Blocks - 1 /\ i \in 0 .. Blocks - 1 /\ (i - 1) + 1 = i
          /\ i + 1 \in 1 .. Blocks
      BY <1>0
    <3>2. k[i - 1] = m[i] /\ k[i] = m[i + 1] /\ gaps[i + 1] \in Nat
      BY <1>8, <3>1
    <3> HIDE DEF k
    <3> QED BY <1>10, <2>2, <3>2
  <2> HIDE DEF k
  <2> QED BY <1>9, <2>1, <2>2
<1>12. \A i \in 1 .. Blocks : m[i] \in Nat
  <2>1. Blocks - 1 \in Nat
    BY <1>0
  <2>2. \A i \in 0 .. Blocks - 1 : k[i] \in V
    <3> HIDE DEF k, V
    <3> QED BY <1>11, <2>1, StepByStep
  <2> SUFFICES ASSUME NEW i \in 1 .. Blocks PROVE m[i] \in Nat
    OBVIOUS
  <2>3. i - 1 \in 0 .. Blocks - 1 /\ (i - 1) + 1 = i
    BY <1>0
  <2> QED BY <2>2, <2>3
<1>13. \A i \in 1 .. Blocks - 1 : m[i + 1] = gaps[i + 1] + m[i] + 1
  <2> SUFFICES ASSUME NEW i \in 1 .. Blocks - 1 PROVE m[i + 1] = gaps[i + 1] + m[i] + 1
    OBVIOUS
  <2>1. i \in 1 .. Blocks /\ i + 1 \in 1 .. Blocks
    BY <1>0
  <2>2. gaps[i + 1] \in Nat /\ m[i] \in Nat
    BY <1>8, <1>12, <2>1
  <2> QED BY <1>10, <2>2
<1> QED BY <1>7, <1>9, <1>12, <1>13 DEF m

\* Each block has a number of its own, greater than the one before.
Apart(b) == \A i, j \in 1 .. Blocks : i <= j => b[j] >= b[i] + (j - i)

LEMMA IncreasingApart ==
  ASSUME NEW b \in [1 .. Blocks -> Nat], \A i \in 1 .. Blocks - 1 : b[i + 1] >= b[i] + 1
  PROVE  Apart(b)
<1> SUFFICES ASSUME NEW i \in 1 .. Blocks, NEW j \in 1 .. Blocks, i <= j
             PROVE  b[j] >= b[i] + (j - i)
  BY DEF Apart
<1>0. Blocks \in Nat /\ i \in Nat /\ Blocks - i \in Nat
  BY DispatchAssumption
<1> DEFINE S == {k \in 0 .. Blocks - i : b[i + k] >= b[i] + k}
<1>1. S \in SUBSET (0 .. Blocks - i) /\ 0 \in S
  <2>1. i + 0 = i /\ b[i] \in Nat
    OBVIOUS
  <2> QED BY <1>0, <2>1
<1>2. ASSUME NEW k \in S, k < Blocks - i PROVE k + 1 \in S
  <2>1. i + k \in 1 .. Blocks - 1 /\ i + k + 1 \in 1 .. Blocks /\ i + (k + 1) = i + k + 1 /\ k \in Nat
    BY <1>0, <1>2
  <2>2. b[i + k + 1] >= b[i + k] + 1 /\ b[i + k] >= b[i] + k
    BY <2>1
  <2>3. b[i] \in Nat /\ b[i + k] \in Nat /\ b[i + k + 1] \in Nat
    BY <1>0, <2>1
  <2>4. b[i + (k + 1)] >= b[i] + (k + 1)
    BY <2>1, <2>2, <2>3
  <2> QED BY <1>0, <1>2, <2>1, <2>4
<1> HIDE DEF S
<1>3. S = 0 .. Blocks - i
  BY <1>0, <1>1, <1>2, BoundedInduction
<1>4. j - i \in S /\ i + (j - i) = j
  BY <1>0, <1>3
<1> QED BY <1>4 DEF S

-----------------------------------------------------------------------------
(* The invariant of module Dispatch.                                       *)

\* The transfer is whole, and its blocks are numbered upwards.
Numbered ==
  blocks # <<>> =>
    /\ blocks \in [1 .. Blocks -> Nat] /\ Len(blocks) = Blocks
    /\ Apart(blocks)
    /\ next = blocks[Blocks] + 1
    /\ next <= MaxBlock + 1

\* The current range is not empty once a block has been looked at.
RangeStarted == offset > 1 => start < offset

Chain ==
  /\ partial = HeldBack
  /\ received = delivered * AdcPerUser + partial
  /\ buffer.count <= BufferSize

IInv == TypeOK /\ Numbered /\ (offset = 1 => start = 1) /\ RangeStarted /\ Chain

LEMMA HeldBackIs == HeldBack = HeldIn(held)[Stages]
BY DEF HeldBack, HeldIn

\* Dispatching the blocks first to last.
LEMMA RangeStep ==
  ASSUME IInv, NEW f \in 1 .. Blocks, NEW l \in 1 .. Blocks, f <= l,
         blocks # <<>>, DispatchRange(f, l)
  PROVE  /\ held' \in [1 .. Stages -> 0 .. 1] /\ partial' \in 0 .. AdcPerUser - 1
         /\ buffer' \in Buffer /\ received' \in Nat /\ delivered' \in Nat
         /\ Chain'
         /\ received' = received + (l - f + 1) * SPB
         /\ received' > 0
         /\ buffer'.from = blocks[f] * SPB /\ buffer'.to = (blocks[l] + 1) * SPB
         /\ buffer'.count * AdcPerUser + partial' = partial + (l - f + 1) * SPB
         /\ buffer'.timestamp =
              ((Sequence(blocks[f]) * SPB + Word - partial) % Word) \div AdcPerUser
<1> DEFINE n == (l - f + 1) * SPB
           out == Leaving(n)[Stages]
           t == (Sequence(blocks[f]) * SPB + Word - partial) % Word
           h == [i \in 1 .. Stages |-> (held[i] + Leaving(n)[i - 1]) % 2]
<1>1. Stages \in Nat /\ SPB \in Nat \ {0} /\ Blocks \in Nat \ {0} /\ BufferSize \in Nat
  BY DispatchAssumption
<1>2. n \in Nat /\ n <= Blocks * SPB /\ n > 0
  <2> DEFINE k == l - f + 1
  <2>1. k \in Nat /\ k <= Blocks /\ k > 0 /\ Blocks - k \in Nat
    BY <1>1
  <2> HIDE DEF k
  <2>2. k * SPB \in Nat /\ (Blocks - k) * SPB \in Nat /\ k * SPB > 0
    BY <1>1, <2>1
  <2>3. (Blocks - k) * SPB = Blocks * SPB - k * SPB
    BY <1>1, <2>1
  <2>4. Blocks * SPB \in Nat
    BY <1>1
  <2>5. k * SPB <= Blocks * SPB
    BY <2>2, <2>3, <2>4
  <2> QED BY <2>2, <2>5 DEF k
<1>3. /\ buffer' = [timestamp |-> t \div AdcPerUser, count |-> out,
                    from |-> blocks[f] * SPB, to |-> (blocks[l] + 1) * SPB]
      /\ held' = h
      /\ partial' = (partial + n) % AdcPerUser
      /\ received' = received + n
      /\ delivered' = delivered + out
  BY DEF DispatchRange, DispatchWith
<1>4. /\ held \in [1 .. Stages -> 0 .. 1] /\ partial = HeldIn(held)[Stages]
      /\ received \in Nat /\ delivered \in Nat /\ received = delivered * AdcPerUser + partial
      /\ blocks \in [1 .. Blocks -> Nat]
  BY HeldBackIs DEF IInv, TypeOK, Chain, Numbered
<1> HIDE DEF n
<1>5. /\ h \in [1 .. Stages -> 0 .. 1]
      /\ HeldIn(held)[Stages] \in 0 .. AdcPerUser - 1
      /\ HeldIn(h)[Stages] \in 0 .. AdcPerUser - 1
      /\ out \in Nat
      /\ (HeldIn(held)[Stages] + n) % AdcPerUser = HeldIn(h)[Stages]
      /\ HeldIn(held)[Stages] + n = out * AdcPerUser + HeldIn(h)[Stages]
  BY <1>2, <1>4, RangeDivides
<1>6. partial' = HeldIn(held')[Stages]
  BY <1>3, <1>4, <1>5
<1>7. HeldBack' = HeldIn(held')[Stages]
  BY DEF HeldBack, HeldIn
<1> HIDE DEF out, h
<1>8. partial \in 0 .. AdcPerUser - 1 /\ partial' \in 0 .. AdcPerUser - 1
  <2>1. partial' = HeldIn(h)[Stages]
    BY <1>3, <1>6
  <2> QED BY <1>4, <1>5, <2>1
<1>9. /\ partial + n = out * AdcPerUser + partial'
      /\ partial \in Nat /\ partial < AdcPerUser /\ partial' \in Nat
  <2>1. partial' = HeldIn(h)[Stages]
    BY <1>3, <1>6
  <2>2. partial = HeldIn(held)[Stages]
    BY <1>4
  <2>3. partial + n = out * AdcPerUser + partial'
    BY <1>5, <2>1, <2>2
  <2> QED BY <1>8, <2>3, Positive
<1>10. received + n = (delivered + out) * AdcPerUser + partial'
  <2>1. (delivered + out) * AdcPerUser = delivered * AdcPerUser + out * AdcPerUser
    BY <1>4, <1>5, Positive
  <2>2. delivered * AdcPerUser \in Nat /\ out * AdcPerUser \in Nat
    BY <1>4, <1>5, Positive
  <2>3. received = delivered * AdcPerUser + partial
    BY <1>4
  <2>4. out * AdcPerUser = partial + n - partial' /\ partial \in Nat /\ partial' \in Nat
    BY <1>2, <1>9, <2>2
  <2> QED BY ONLY <1>2, <2>1, <2>2, <2>3, <2>4
<1>11. out <= BufferSize
  <2> SUFFICES ASSUME out >= BufferSize + 1 PROVE FALSE
    BY <1>1, <1>5
  <2>1. out - (BufferSize + 1) \in Nat
    BY <1>1, <1>5
  <2>2. (out - (BufferSize + 1)) * AdcPerUser \in Nat
    BY <2>1, Positive
  <2>3. (out - (BufferSize + 1)) * AdcPerUser
          = out * AdcPerUser - BufferSize * AdcPerUser - AdcPerUser
    <3>1. \A a, b, c \in Int : (a - (b + 1)) * c = a * c - b * c - c
      OBVIOUS
    <3> QED BY <1>1, <1>5, <3>1, Positive
  <2>4. BufferSize * AdcPerUser \in Nat /\ out * AdcPerUser \in Nat /\ Blocks * SPB \in Nat
    BY <1>1, <1>5, Positive
  <2>5. n <= BufferSize * AdcPerUser
    BY <1>2, <2>4, TransferFitsBuffer
  <2> QED BY <1>2, <1>9, <2>2, <2>3, <2>4, <2>5, Positive
<1>12. t \in 0 .. Word - 1 /\ t \div AdcPerUser \in 0 .. Word - 1
  <2> DEFINE x == Sequence(blocks[f]) * SPB + Word - partial
  <2>1. Sequence(blocks[f]) \in Nat
    BY <1>4, Positive DEF Sequence
  <2>2. Sequence(blocks[f]) * SPB \in Nat
    BY <1>1, <2>1
  <2>3. x \in Int
    BY <1>9, <2>2, Positive
  <2> HIDE DEF x
  <2>4. x % Word \in 0 .. Word - 1
    BY <2>3, Positive
  <2>5. t \in 0 .. Word - 1
    BY <2>4 DEF x
  <2> HIDE DEF t
  <2>6. t \div AdcPerUser \in 0 .. t
    BY <2>5, Positive
  <2> QED BY <2>5, <2>6, Positive
<1>13. blocks[f] * SPB \in Nat /\ (blocks[l] + 1) * SPB \in Nat
  BY <1>1, <1>4
<1>14. buffer' \in Buffer
  BY <1>3, <1>5, <1>12, <1>13 DEF Buffer
<1>15. Chain'
  BY <1>3, <1>6, <1>7, <1>10, <1>11 DEF Chain
<1> QED
  <2>1. held' \in [1 .. Stages -> 0 .. 1] /\ delivered' \in Nat
    BY <1>3, <1>4, <1>5
  <2>2. received' = received + n /\ received' \in Nat /\ received' > 0
    BY <1>2, <1>3, <1>4
  <2>3. /\ buffer'.from = blocks[f] * SPB /\ buffer'.to = (blocks[l] + 1) * SPB
        /\ buffer'.timestamp = t \div AdcPerUser /\ buffer'.count = out
    BY <1>3
  <2>4. buffer'.count * AdcPerUser + partial' = partial + n
    BY <1>9, <2>3
  <2> QED BY <1>8, <1>14, <1>15, <2>1, <2>2, <2>3, <2>4 DEF n, t

\* Stages that hold nothing.
LEMMA HeldNothing ==
  ASSUME NEW h \in [1 .. Stages -> 0 .. 1], \A i \in 1 .. Stages : h[i] = 0
  PROVE  HeldIn(h)[Stages] = 0
<1> DEFINE V == {0}
           g == HeldIn(h)
<1>1. Stages \in Nat /\ Stages \in 0 .. Stages
  BY DispatchAssumption
<1>2. g[0] \in V /\ \A i \in 1 .. Stages : g[i - 1] \in V => g[i] \in V
  <2>1. ASSUME NEW i \in 1 .. Stages, g[i - 1] = 0 PROVE g[i] = 0
    <3>1. g[i] = g[i - 1] + h[i] * 2 ^ (i - 1)
      BY HeldInRule
    <3>2. i - 1 \in Nat
      BY <1>1
    <3>3. 2 ^ (i - 1) \in Nat
      BY <3>2, PowersOfTwo
    <3> QED BY <2>1, <3>1, <3>3
  <2>2. g[0] = 0
    BY HeldInRule
  <2> QED BY <2>1, <2>2
<1>3. \A i \in 0 .. Stages : g[i] \in V
  <2> HIDE DEF g, V
  <2> QED BY <1>1, <1>2, StepByStep
<1> QED BY <1>1, <1>3

LEMMA Initially == Init => IInv
<1> SUFFICES ASSUME Init PROVE IInv
  OBVIOUS
<1>1. held \in [1 .. Stages -> 0 .. 1] /\ \A i \in 1 .. Stages : held[i] = 0
  BY DEF Init
<1>2. HeldBack = 0
  BY <1>1, HeldNothing, HeldBackIs
<1>3. Blocks \in Nat \ {0} /\ BufferSize \in Nat /\ MaxGap \in Nat
  BY DispatchAssumption
<1>4. next \in Nat /\ partial \in 0 .. AdcPerUser - 1
  BY <1>3, Positive DEF Init
<1>5. buffer \in Buffer /\ buffer.count = 0
  BY Positive DEF Init, Buffer
<1>6. TypeOK
  <2>1. offset \in 1 .. Blocks + 1 /\ start \in 1 .. Blocks /\ bad \in 0 .. Blocks
    BY <1>3 DEF Init
  <2>2. blocks = <<>> /\ received = 0 /\ delivered = 0 /\ failed = FALSE
    BY DEF Init
  <2>3. <<>> \in Seq(Nat)
    OBVIOUS
  <2>4. blocks \in Seq(Nat) /\ received \in Nat /\ delivered \in Nat /\ failed \in BOOLEAN
    BY <2>2, <2>3
  <2> QED BY <1>1, <1>4, <1>5, <2>1, <2>4 DEF TypeOK
<1>7. 0 * AdcPerUser = 0
  BY Positive
<1>8. Chain
  BY <1>2, <1>3, <1>5, <1>7 DEF Init, Chain
<1> QED BY <1>6, <1>8 DEF Init, IInv, Numbered, RangeStarted

LEMMA ReceiveStep ==
  ASSUME IInv, Receive
  PROVE  IInv' /\ blocks' # <<>> /\ next <= blocks'[1]
<1>1. PICK gaps \in [1 .. Blocks -> 0 .. MaxGap], b \in 0 .. Blocks :
        /\ Numbers(gaps)[Blocks] <= MaxBlock
        /\ blocks' = Numbers(gaps)
        /\ next' = Numbers(gaps)[Blocks] + 1
        /\ bad' = b
  BY DEF Receive, Numbers
<1>2. Blocks \in Nat \ {0} /\ MaxGap \in Nat /\ MaxBlock \in Nat
  BY DispatchAssumption
<1>3. /\ next \in Nat /\ partial \in 0 .. AdcPerUser - 1 /\ held \in [1 .. Stages -> 0 .. 1]
      /\ buffer \in Buffer /\ received \in Nat /\ delivered \in Nat /\ failed \in BOOLEAN
  BY DEF IInv, TypeOK
<1>4. /\ Numbers(gaps) \in [1 .. Blocks -> Nat]
      /\ Numbers(gaps)[1] = gaps[1] + next
      /\ \A i \in 1 .. Blocks - 1 : Numbers(gaps)[i + 1] = gaps[i + 1] + Numbers(gaps)[i] + 1
  BY <1>3, NumbersRule
<1> DEFINE m == Numbers(gaps)
<1> HIDE DEF m
<1>5. /\ m \in [1 .. Blocks -> Nat] /\ m[1] = gaps[1] + next
      /\ \A i \in 1 .. Blocks - 1 : m[i + 1] = gaps[i + 1] + m[i] + 1
      /\ m[Blocks] <= MaxBlock /\ blocks' = m /\ next' = m[Blocks] + 1
  BY <1>1, <1>4 DEF m
<1>6. gaps[1] \in Nat /\ \A i \in 1 .. Blocks - 1 : gaps[i + 1] \in Nat /\ m[i] \in Nat
  <2>1. 1 \in 1 .. Blocks /\ \A i \in 1 .. Blocks - 1 : i + 1 \in 1 .. Blocks /\ i \in 1 .. Blocks
    BY <1>2
  <2> QED BY <1>2, <1>5, <2>1
<1>7. Apart(m)
  <2>1. \A i \in 1 .. Blocks - 1 : m[i + 1] >= m[i] + 1
    BY <1>5, <1>6
  <2> QED BY <1>5, <2>1, IncreasingApart
<1>8. m \in Seq(Nat) /\ Len(m) = Blocks /\ m # <<>> /\ m[Blocks] \in Nat /\ next <= m[1]
  BY <1>2, <1>3, <1>5, <1>6
<1>9. /\ offset' = 1 /\ start' = 1
      /\ UNCHANGED <<partial, held, buffer, received, delivered, failed>>
  BY DEF Receive
<1>10. TypeOK'
  <2>1. next' \in Nat /\ bad' \in 0 .. Blocks /\ blocks' \in Seq(Nat)
    BY <1>1, <1>5, <1>8
  <2>2. offset' \in 1 .. Blocks + 1 /\ start' \in 1 .. Blocks
    BY <1>2, <1>9
  <2>3. /\ partial' \in 0 .. AdcPerUser - 1 /\ held' \in [1 .. Stages -> 0 .. 1]
        /\ received' \in Nat /\ delivered' \in Nat /\ failed' \in BOOLEAN /\ buffer' \in Buffer
    BY <1>3, <1>9
  <2> QED BY <2>1, <2>2, <2>3 DEF TypeOK, Buffer, AdcPerUser, Word
<1>11. Numbered'
  BY <1>2, <1>5, <1>7, <1>8 DEF Numbered, Apart
<1>12. Chain'
  BY <1>9 DEF IInv, Chain, HeldBack
<1> QED
  BY <1>5, <1>8, <1>9, <1>10, <1>11, <1>12 DEF IInv, RangeStarted

\* The blocks the two steps that dispatch a range dispatch.
LEMMA NewRangeBlocks ==
  ASSUME IInv, NewRange
  PROVE  /\ start \in 1 .. Blocks /\ offset - 1 \in 1 .. Blocks /\ start <= offset - 1
         /\ offset \in 1 .. Blocks /\ blocks # <<>> /\ DispatchRange(start, offset - 1)
<1>1. /\ blocks # <<>> /\ offset <= Len(blocks) /\ ~Continues
      /\ DispatchRange(start, offset - 1)
  BY DEF NewRange, GoodHeader
<1>2. offset > 1 /\ offset \in 1 .. Blocks + 1 /\ start \in 1 .. Blocks /\ start < offset
  BY <1>1 DEF Continues, IInv, TypeOK, RangeStarted
<1>3. Blocks \in Nat /\ Len(blocks) = Blocks
  BY <1>1, DispatchAssumption DEF IInv, Numbered
<1> QED BY <1>1, <1>2, <1>3

LEMMA LastRangeBlocks ==
  ASSUME IInv, LastRange
  PROVE  /\ start \in 1 .. Blocks /\ Blocks \in 1 .. Blocks /\ start <= Blocks
         /\ offset = Blocks + 1 /\ blocks # <<>> /\ DispatchRange(start, Blocks)
<1>1. blocks # <<>> /\ offset = Len(blocks) + 1 /\ DispatchRange(start, Len(blocks))
  BY DEF LastRange
<1>2. Len(blocks) = Blocks /\ start \in 1 .. Blocks
  BY <1>1 DEF IInv, TypeOK, Numbered
<1>3. Blocks \in Nat \ {0}
  BY DispatchAssumption
<1> QED BY <1>1, <1>2, <1>3

LEMMA Preserved ==
  ASSUME IInv, [Next]_vars
  PROVE  IInv'
<1> USE DEF IInv
<1>0. Blocks \in Nat \ {0}
  BY DispatchAssumption
<1>1. CASE Receive
  BY <1>1, ReceiveStep
<1>2. CASE BadHeader
  <2>1. TypeOK'
    BY <1>2 DEF BadHeader, TypeOK, Buffer, AdcPerUser, Word
  <2>2. Chain'
    BY <1>2 DEF BadHeader, Chain, HeldBack
  <2> QED BY <1>2, <2>1, <2>2 DEF BadHeader, Numbered, RangeStarted
<1>3. CASE SameRange
  <2>1. Len(blocks) = Blocks
    BY <1>3 DEF SameRange, GoodHeader, Numbered
  <2>2. TypeOK'
    BY <1>0, <1>3, <2>1 DEF SameRange, GoodHeader, TypeOK, Buffer, AdcPerUser, Word
  <2>3. Chain'
    BY <1>3 DEF SameRange, Chain, HeldBack
  <2>4. Numbered'
    BY <1>3 DEF SameRange, GoodHeader, Numbered, Apart
  <2>5. offset \in Nat /\ offset >= 1 /\ offset' = offset + 1 /\ start' = start
    BY <1>0, <1>3 DEF SameRange, GoodHeader, TypeOK
  <2>6. start <= offset /\ start \in Nat
    BY <1>0, <2>5 DEF TypeOK, RangeStarted
  <2> QED BY <2>2, <2>3, <2>4, <2>5, <2>6 DEF RangeStarted
<1>4. CASE NewRange
  <2>1. /\ start \in 1 .. Blocks /\ offset - 1 \in 1 .. Blocks /\ start <= offset - 1
        /\ offset \in 1 .. Blocks /\ blocks # <<>> /\ DispatchRange(start, offset - 1)
    BY <1>4, NewRangeBlocks
  <2>2. /\ held' \in [1 .. Stages -> 0 .. 1] /\ partial' \in 0 .. AdcPerUser - 1
        /\ buffer' \in Buffer /\ received' \in Nat /\ delivered' \in Nat
        /\ Chain'
    BY <2>1, RangeStep
  <2>3. offset' = offset + 1 /\ start' = offset /\ UNCHANGED <<next, blocks, bad, failed>>
    BY <1>4 DEF NewRange, GoodHeader
  <2>4. TypeOK'
    BY <1>0, <2>1, <2>2, <2>3 DEF TypeOK, Buffer, AdcPerUser, Word
  <2>5. Numbered'
    BY <2>3 DEF Numbered, Apart
  <2> QED BY <1>0, <2>1, <2>2, <2>3, <2>4, <2>5 DEF RangeStarted
<1>5. CASE LastRange
  <2>1. /\ start \in 1 .. Blocks /\ Blocks \in 1 .. Blocks /\ start <= Blocks
        /\ offset = Blocks + 1 /\ blocks # <<>> /\ DispatchRange(start, Blocks)
    BY <1>5, LastRangeBlocks
  <2>2. /\ held' \in [1 .. Stages -> 0 .. 1] /\ partial' \in 0 .. AdcPerUser - 1
        /\ buffer' \in Buffer /\ received' \in Nat /\ delivered' \in Nat
        /\ Chain'
    BY <2>1, RangeStep
  <2>3. blocks' = <<>> /\ UNCHANGED <<next, offset, start, bad, failed>>
    BY <1>5 DEF LastRange
  <2>4. TypeOK'
    BY <1>0, <2>2, <2>3 DEF TypeOK, Buffer, AdcPerUser, Word
  <2> QED BY <2>2, <2>3, <2>4 DEF Numbered, RangeStarted
<1>6. CASE UNCHANGED vars
  <2>1. TypeOK'
    BY <1>6 DEF vars, TypeOK, Buffer, AdcPerUser, Word
  <2>2. Chain'
    BY <1>6 DEF vars, Chain, HeldBack
  <2> QED BY <1>6, <2>1, <2>2 DEF vars, Numbered, Apart, RangeStarted
<1> QED BY <1>1, <1>2, <1>3, <1>4, <1>5, <1>6 DEF Next

LEMMA Invariance == Spec => []IInv
BY Initially, Preserved, PTL DEF Spec

\* Type correctness.
THEOREM TypeCorrect == Spec => []TypeOK
<1>1. IInv => TypeOK
  BY DEF IInv
<1> QED BY <1>1, Invariance, PTL

\* Whatever the size of blocks and transfers and the length of the chain, the
\* count of samples dispatch_contiguous_blocks keeps for the timestamps is what
\* the decimation stages hold back.
THEOREM PartialMirrorsDSPHolds == Spec => []PartialMirrorsDSP
<1>1. IInv => PartialMirrorsDSP
  BY DEF IInv, Chain, PartialMirrorsDSP
<1> QED BY <1>1, Invariance, PTL

\* No sample is lost or made up between the ADC and the user's buffers.
THEOREM SamplesConservedHolds == Spec => []SamplesConserved
<1>1. IInv => SamplesConserved
  BY DEF IInv, Chain, SamplesConserved
<1> QED BY <1>1, Invariance, PTL

\* A converted range fits the buffer that was allocated for it, by the sizing
\* of apply_rate_change alone.
THEOREM CountFitsBufferHolds == Spec => []CountFitsBuffer
<1>1. IInv => CountFitsBuffer
  BY DEF IInv, Chain, CountFitsBuffer
<1> QED BY <1>1, Invariance, PTL

-----------------------------------------------------------------------------
(* Timestamps, as long as the 32 bits of their arithmetic have not wrapped.  *)

NoWrap == MaxBlock * SPB < Word

\* How the last buffer lies between what was received and the next blocks.
Timing ==
  /\ received <= buffer.to
  /\ received > 0 =>
       (buffer.to - partial) \div AdcPerUser = buffer.timestamp + buffer.count
  /\ buffer.to <= (IF blocks = <<>> THEN next ELSE blocks[start]) * SPB
  /\ blocks # <<>> /\ offset > 1 => blocks[offset - 1] - blocks[start] = offset - 1 - start

\* What TimestampsFollow says of a step that passes a buffer on.
Follows ==
  received > 0 =>
    LET end == buffer.timestamp + buffer.count
        dropped == buffer'.from - buffer.to
    IN /\ dropped = 0 => buffer'.timestamp = end
       /\ dropped > 0 => /\ buffer'.timestamp >= end + dropped \div AdcPerUser
                         /\ buffer'.timestamp <= end + dropped \div AdcPerUser + 1
       /\ buffer'.timestamp >= end

LEMMA BlockAfter ==
  ASSUME IInv, blocks # <<>>, NEW i \in 1 .. Blocks, i - 1 \in 1 .. Blocks
  PROVE  blocks[i - 1] \in Nat /\ blocks[i] \in Nat /\ blocks[i] >= blocks[i - 1] + 1
<1>1. blocks \in [1 .. Blocks -> Nat] /\ Apart(blocks)
  BY DEF IInv, Numbered
<1>2. i - 1 <= i /\ i - (i - 1) = 1
  OBVIOUS
<1>3. blocks[i] >= blocks[i - 1] + (i - (i - 1))
  BY <1>1, <1>2 DEF Apart
<1> QED BY <1>1, <1>2, <1>3

\* The last block bounds the others, and no number has wrapped.
LEMMA BlocksBound ==
  ASSUME IInv, NoWrap, blocks # <<>>, NEW i \in 1 .. Blocks
  PROVE  /\ blocks[i] \in Nat /\ blocks[i] * SPB \in Nat /\ blocks[i] * SPB < Word
         /\ Sequence(blocks[i]) = blocks[i] /\ blocks[i] < Word
         /\ blocks[i] <= blocks[Blocks] /\ blocks[i] < next
<1>1. Blocks \in Nat \ {0} /\ SPB \in Nat \ {0} /\ MaxBlock \in Nat /\ Word \in Nat \ {0}
  BY DispatchAssumption, Positive
<1>2. /\ blocks \in [1 .. Blocks -> Nat] /\ Apart(blocks)
      /\ next = blocks[Blocks] + 1 /\ next <= MaxBlock + 1
  BY DEF IInv, Numbered
<1>3. Blocks \in 1 .. Blocks /\ i \in Nat /\ i <= Blocks
  BY <1>1
<1>4. blocks[Blocks] >= blocks[i] + (Blocks - i)
  BY <1>2, <1>3 DEF Apart
<1>5. blocks[i] \in Nat /\ blocks[Blocks] \in Nat
  BY <1>2, <1>3
<1>6. blocks[i] <= blocks[Blocks] /\ blocks[i] <= MaxBlock /\ blocks[i] < next
  BY <1>1, <1>2, <1>3, <1>4, <1>5
<1>7. blocks[i] * SPB \in Nat /\ blocks[i] * SPB <= MaxBlock * SPB
  BY <1>1, <1>5, <1>6, Multiples
<1>8. blocks[i] * SPB < Word
  <2>1. MaxBlock * SPB \in Nat
    BY <1>1
  <2> QED BY <1>1, <1>7, <2>1 DEF NoWrap
<1>9. blocks[i] <= blocks[i] * SPB
  <2>1. 1 * blocks[i] <= SPB * blocks[i]
    BY <1>1, <1>5, Multiples
  <2> QED BY <1>1, <1>5, <2>1
<1>10. blocks[i] < Word
  BY <1>1, <1>5, <1>7, <1>8, <1>9
<1>11. blocks[i] % Word = blocks[i]
  BY <1>1, <1>5, <1>10, SmallMod
<1>12. Sequence(blocks[i]) = blocks[i]
  BY <1>1, <1>5, <1>11 DEF Sequence
<1> QED BY <1>5, <1>6, <1>7, <1>8, <1>10, <1>12

\* Passing on the range from start to l.
LEMMA TimedStep ==
  ASSUME IInv, Timing, NoWrap, blocks # <<>>, start \in 1 .. Blocks,
         NEW l \in 1 .. Blocks, start <= l, blocks[l] - blocks[start] = l - start,
         DispatchRange(start, l)
  PROVE  /\ Follows
         /\ received' <= buffer'.to
         /\ (buffer'.to - partial') \div AdcPerUser = buffer'.timestamp + buffer'.count
<1> DEFINE n == (l - start + 1) * SPB
           from == blocks[start] * SPB
           A == AdcPerUser
<1>1. SPB \in Nat \ {0} /\ A \in Nat \ {0} /\ Word \in Nat \ {0}
  BY DispatchAssumption, Positive
<1>2. /\ partial' \in 0 .. A - 1 /\ buffer' \in Buffer
      /\ received' = received + n
      /\ buffer'.from = from /\ buffer'.to = (blocks[l] + 1) * SPB
      /\ buffer'.count * A + partial' = partial + n
      /\ buffer'.timestamp = ((Sequence(blocks[start]) * SPB + Word - partial) % Word) \div A
  BY RangeStep
<1>3. /\ blocks[start] \in Nat /\ blocks[l] \in Nat /\ from \in Nat /\ from < Word
      /\ Sequence(blocks[start]) = blocks[start]
  BY BlocksBound
<1>4. /\ partial \in 0 .. A - 1 /\ received \in Nat /\ delivered \in Nat
      /\ received = delivered * A + partial /\ buffer \in Buffer
  BY DEF IInv, TypeOK, Chain
<1>5. n \in Nat
  <2>1. l - start + 1 \in Nat
    BY DispatchAssumption
  <2> QED BY <1>1, <2>1
<1>6. buffer'.to = from + n
  <2>1. blocks[l] + 1 = blocks[start] + (l - start + 1) /\ l - start + 1 \in Nat
    BY <1>3, DispatchAssumption
  <2>2. (blocks[start] + (l - start + 1)) * SPB = blocks[start] * SPB + (l - start + 1) * SPB
    BY <1>1, <1>3, <2>1
  <2> QED BY <1>2, <2>1, <2>2
<1> HIDE DEF n, A, from
<1>7. received <= buffer.to /\ buffer.to <= from /\ buffer.to \in Nat
  BY <1>4 DEF Timing, Buffer, from
<1>8. partial \in Nat /\ partial <= received
  <2>1. delivered * A \in Nat
    BY <1>1, <1>4
  <2> QED BY <1>1, <1>4, <2>1
<1>9. from - partial \in Nat /\ buffer.to - partial \in Nat /\ from - buffer.to \in Nat
  BY <1>3, <1>4, <1>7, <1>8
<1>10. buffer'.timestamp = (from - partial) \div A
  <2>1. from - partial < Word
    BY <1>1, <1>3, <1>8
  <2>2. (1 * Word + (from - partial)) % Word = from - partial
    BY <1>1, <1>9, <2>1, Division
  <2>3. 1 * Word + (from - partial) = from + Word - partial
    BY <1>1, <1>3, <1>8
  <2> QED BY <1>2, <1>3, <2>2, <2>3 DEF from
<1>11. buffer'.count \in Nat /\ partial' \in Nat
  BY <1>1, <1>2 DEF Buffer
<1>12. (buffer'.to - partial') \div A = buffer'.timestamp + buffer'.count
  <2>1. buffer'.count * A \in Nat
    BY <1>1, <1>11
  <2>2. buffer'.to - partial' = (from - partial) + buffer'.count * A
    <3>1. buffer'.count * A + partial' = partial + n
      BY <1>2
    <3>2. from \in Nat /\ n \in Nat /\ partial \in Nat /\ partial' \in Nat
      BY <1>3, <1>5, <1>8, <1>11
    <3>3. \A a, b, p, q, e \in Nat : e + q = p + b => (a + b) - q = (a - p) + e
      OBVIOUS
    <3>4. (from + n) - partial' = (from - partial) + buffer'.count * A
      BY <2>1, <3>1, <3>2, <3>3
    <3> QED BY <1>6, <3>4
  <2>3. ((from - partial) + buffer'.count * A) \div A = (from - partial) \div A + buffer'.count
    BY <1>1, <1>9, <1>11, DivShift
  <2> QED BY <1>10, <2>2, <2>3
<1>13. received' <= buffer'.to
  BY <1>2, <1>3, <1>4, <1>5, <1>6, <1>7
<1>14. Follows
  <2> SUFFICES ASSUME received > 0 PROVE Follows
    BY DEF Follows
  <2> DEFINE x == buffer.to - partial  d == from - buffer.to
             end == buffer.timestamp + buffer.count
  <2>1. x \div A = end /\ x \in Nat /\ d \in Nat /\ x + d = from - partial
    BY <1>3, <1>7, <1>8, <1>9 DEF Timing, A
  <2>2. buffer'.from - buffer.to = d
    BY <1>2
  <2> HIDE DEF x, d
  <2>3. x \div A + d \div A <= (x + d) \div A /\ (x + d) \div A <= x \div A + d \div A + 1
    BY <1>1, <2>1, DivSum
  <2>4. buffer'.timestamp = (x + d) \div A
    BY <1>10, <2>1
  <2>5. d = 0 => buffer'.timestamp = end
    BY <2>1, <2>4
  <2>6. x \div A \in Nat /\ d \div A \in Nat /\ (x + d) \div A \in Nat
    <3>1. x + d \in Nat
      BY <2>1
    <3> QED BY <1>1, <2>1, <3>1, DivMod
  <2>7. /\ buffer'.timestamp >= end + d \div A
        /\ buffer'.timestamp <= end + d \div A + 1
        /\ buffer'.timestamp >= end
    BY <2>1, <2>3, <2>4, <2>6
  <2> HIDE DEF end
  <2> QED BY <2>2, <2>5, <2>7 DEF Follows, end, A
<1> QED BY <1>12, <1>13, <1>14 DEF A

LEMMA TimedInit == Init => Timing
<1> SUFFICES ASSUME Init PROVE Timing
  OBVIOUS
<1>1. next \in Nat /\ SPB \in Nat
  BY DispatchAssumption DEF Init
<1>2. next * SPB \in Nat
  BY <1>1
<1> QED BY <1>2 DEF Init, Timing

\* The ranges NewRange and LastRange pass on are without a gap.
LEMMA TimedNewRange ==
  ASSUME IInv, Timing, NoWrap, NewRange
  PROVE  Timing' /\ Follows
<1>1. /\ start \in 1 .. Blocks /\ offset - 1 \in 1 .. Blocks /\ start <= offset - 1
      /\ offset \in 1 .. Blocks /\ blocks # <<>> /\ DispatchRange(start, offset - 1)
  BY NewRangeBlocks
<1>2. Blocks \in Nat /\ SPB \in Nat
  BY DispatchAssumption
<1>3. blocks[offset - 1] - blocks[start] = offset - 1 - start
  BY <1>1, <1>2 DEF Timing
<1>4. /\ Follows
      /\ received' <= buffer'.to
      /\ (buffer'.to - partial') \div AdcPerUser = buffer'.timestamp + buffer'.count
  <2>1. offset - 1 - start = (offset - 1) - start
    OBVIOUS
  <2> DEFINE l == offset - 1
  <2>2. l \in 1 .. Blocks /\ start <= l /\ blocks[l] - blocks[start] = l - start /\ DispatchRange(start, l)
    BY <1>1, <1>3
  <2> HIDE DEF l
  <2> QED BY <1>1, <2>2, TimedStep
<1>5. offset' = offset + 1 /\ start' = offset /\ blocks' = blocks
  BY DEF NewRange, GoodHeader
<1>6. buffer'.to <= blocks[offset] * SPB
  <2>1. buffer'.to = (blocks[offset - 1] + 1) * SPB
    BY <1>1, RangeStep
  <2>2. blocks[offset] >= blocks[offset - 1] + 1 /\ blocks[offset] \in Nat /\ blocks[offset - 1] \in Nat
    BY <1>1, BlockAfter
  <2>3. (blocks[offset - 1] + 1) * SPB <= blocks[offset] * SPB
    BY <1>2, <2>2, Multiples
  <2> QED BY <2>1, <2>3
<1>7. blocks'[offset' - 1] - blocks'[start'] = offset' - 1 - start'
  <2>1. offset' - 1 = offset /\ blocks[offset] \in Nat
    BY <1>1, <1>5, BlocksBound
  <2> QED BY <1>1, <1>5, <2>1
<1> QED BY <1>1, <1>4, <1>5, <1>6, <1>7 DEF Timing

LEMMA TimedLastRange ==
  ASSUME IInv, Timing, NoWrap, LastRange
  PROVE  Timing' /\ Follows
<1>1. /\ start \in 1 .. Blocks /\ Blocks \in 1 .. Blocks /\ start <= Blocks
      /\ offset = Blocks + 1 /\ blocks # <<>> /\ DispatchRange(start, Blocks)
  BY LastRangeBlocks
<1>2. Blocks \in Nat \ {0} /\ (Blocks + 1) - 1 = Blocks
  BY DispatchAssumption
<1>3. blocks[Blocks] - blocks[start] = Blocks - start
  BY <1>1, <1>2 DEF Timing
<1>4. /\ Follows
      /\ received' <= buffer'.to
      /\ (buffer'.to - partial') \div AdcPerUser = buffer'.timestamp + buffer'.count
  BY <1>1, <1>3, TimedStep
<1>5. blocks' = <<>> /\ next' = next
  BY DEF LastRange
<1>6. buffer'.to = next * SPB /\ next * SPB \in Int
  <2>1. buffer'.to = (blocks[Blocks] + 1) * SPB /\ next = blocks[Blocks] + 1 /\ next \in Nat
    BY <1>1, RangeStep DEF IInv, TypeOK, Numbered
  <2> QED BY <2>1, DispatchAssumption
<1> QED BY <1>4, <1>5, <1>6 DEF Timing

\* A block that continues the range has the next number.
LEMMA TimedSameRange ==
  ASSUME IInv, Timing, NoWrap, SameRange
  PROVE  Timing'
<1>1. /\ blocks # <<>> /\ offset <= Len(blocks) /\ offset' = offset + 1 /\ Continues
      /\ UNCHANGED <<next, blocks, start, partial, held, buffer, received, delivered>>
  BY DEF SameRange, GoodHeader
<1>2. Blocks \in Nat /\ offset \in 1 .. Blocks /\ start \in 1 .. Blocks
  BY <1>1, DispatchAssumption DEF IInv, TypeOK, Numbered
<1>3. blocks[offset] \in Nat /\ Sequence(blocks[offset]) = blocks[offset]
  BY <1>1, <1>2, BlocksBound
<1>4. blocks[offset] - blocks[start] = offset - start
  <2>1. CASE offset = 1
    BY <1>2, <1>3, <2>1 DEF IInv
  <2>2. CASE offset > 1
    <3>1. offset - 1 \in 1 .. Blocks
      BY <1>2, <2>2
    <3> DEFINE a == blocks[offset - 1]  b == blocks[offset]
    <3>2. /\ a \in Nat /\ a < Word /\ Sequence(a) = a
          /\ b \in Nat /\ b < Word /\ Sequence(b) = b
          /\ blocks[start] \in Nat
      BY <1>1, <1>2, <3>1, BlocksBound
    <3>3. b >= a + 1
      BY <1>1, <1>2, <3>1, BlockAfter
    <3>4. b = (a + 1) % Word
      BY <1>1, <2>2, <3>2 DEF Continues
    <3>5. a - blocks[start] = offset - 1 - start
      BY <1>1, <2>2 DEF Timing
    <3> HIDE DEF a, b
    <3>6. a + 1 < Word
      BY <3>2, <3>3, Positive
    <3>7. a + 1 \in Nat
      BY <3>2
    <3>8. b = a + 1
      BY <3>4, <3>6, <3>7, Positive, SmallMod
    <3>9. b - blocks[start] = offset - start
      BY <1>2, <3>2, <3>5, <3>8
    <3> QED BY <3>9 DEF b
  <2> QED BY <1>2, <2>1, <2>2
<1>5. offset' - 1 = offset
  BY <1>1, <1>2
<1> QED BY <1>1, <1>4, <1>5 DEF Timing

LEMMA Timed ==
  ASSUME IInv, Timing, NoWrap, [Next]_vars
  PROVE  Timing' /\ (buffer' # buffer => Follows)
<1>1. CASE Receive
  <2>1. /\ blocks = <<>> /\ offset' = 1 /\ start' = 1
        /\ UNCHANGED <<partial, buffer, received>>
    BY <1>1 DEF Receive
  <2>2. IInv' /\ blocks' # <<>> /\ next <= blocks'[1]
    BY <1>1, ReceiveStep
  <2>3. next \in Nat /\ blocks'[1] \in Nat /\ SPB \in Nat /\ buffer \in Buffer
    <3>1. 1 \in 1 .. Blocks
      BY DispatchAssumption
    <3> QED BY <2>2, <3>1, DispatchAssumption DEF IInv, TypeOK, Numbered
  <2>4. next * SPB \in Nat /\ next * SPB <= blocks'[1] * SPB /\ blocks'[1] * SPB \in Nat
    BY <2>2, <2>3, Multiples
  <2>5. buffer.to \in Nat /\ buffer.to <= next * SPB
    BY <2>1, <2>3 DEF Timing, Buffer
  <2>6. buffer.to <= blocks'[1] * SPB
    BY <2>4, <2>5
  <2> QED BY <2>1, <2>2, <2>6 DEF Timing
<1>2. CASE BadHeader
  <2>1. blocks # <<>> /\ blocks' = <<>> /\ UNCHANGED <<next, offset, start, partial, buffer, received>>
    BY <1>2 DEF BadHeader
  <2>2. start \in 1 .. Blocks /\ next \in Nat /\ SPB \in Nat /\ buffer \in Buffer
    BY DispatchAssumption DEF IInv, TypeOK
  <2>3. blocks[start] \in Nat /\ blocks[start] <= next
    BY <2>1, <2>2, BlocksBound
  <2>4. blocks[start] * SPB <= next * SPB /\ blocks[start] * SPB \in Nat /\ next * SPB \in Nat
    BY <2>2, <2>3, Multiples
  <2>5. buffer.to \in Nat /\ buffer.to <= blocks[start] * SPB
    BY <2>1, <2>2 DEF Timing, Buffer
  <2>6. buffer.to <= next * SPB
    BY <2>4, <2>5
  <2> QED BY <2>1, <2>6 DEF Timing
<1>3. CASE SameRange
  BY <1>3, TimedSameRange DEF SameRange
<1>4. CASE NewRange
  BY <1>4, TimedNewRange
<1>5. CASE LastRange
  BY <1>5, TimedLastRange
<1>6. CASE UNCHANGED vars
  BY <1>6 DEF vars, Timing
<1> QED BY <1>1, <1>2, <1>3, <1>4, <1>5, <1>6 DEF Next

\* Until the 32 bits of the timestamp arithmetic wrap, a buffer starts where
\* the one before it ended, further on by exactly what the device dropped
\* between them, to within the rounding of one user sample.
THEOREM TimestampsFollowHolds ==
  ASSUME NoWrap
  PROVE  Spec => TimestampsFollow
<1>1. Init => IInv /\ Timing
  BY Initially, TimedInit
<1>2. (IInv /\ Timing) /\ [Next]_vars => (IInv /\ Timing)'
  BY Preserved, Timed
<1>3. (IInv /\ Timing) /\ [Next]_vars =>
        [received > 0 /\ buffer' # buffer =>
           LET end == buffer.timestamp + buffer.count
               dropped == buffer'.from - buffer.to
           IN /\ dropped = 0 => buffer'.timestamp = end
              /\ dropped > 0 => /\ buffer'.timestamp >= end + dropped \div AdcPerUser
                                /\ buffer'.timestamp <= end + dropped \div AdcPerUser + 1]_vars
  <2> SUFFICES ASSUME IInv, Timing, [Next]_vars, received > 0, buffer' # buffer
               PROVE  LET end == buffer.timestamp + buffer.count
                          dropped == buffer'.from - buffer.to
                      IN /\ dropped = 0 => buffer'.timestamp = end
                         /\ dropped > 0 => /\ buffer'.timestamp >= end + dropped \div AdcPerUser
                                           /\ buffer'.timestamp <= end + dropped \div AdcPerUser + 1
    OBVIOUS
  <2>1. Follows
    BY Timed
  <2> QED BY <2>1 DEF Follows
<1> QED BY <1>1, <1>2, <1>3, PTL DEF Spec, TimestampsFollow

\* Until then the timestamps increase, as pg2sdr.h promises: the wrap, which the run
\* dispatch_wrap shows, is all that makes them fall back.
THEOREM TimestampsIncreaseHolds ==
  ASSUME NoWrap
  PROVE  Spec => TimestampsIncrease
<1>1. Init => IInv /\ Timing
  BY Initially, TimedInit
<1>2. (IInv /\ Timing) /\ [Next]_vars => (IInv /\ Timing)'
  BY Preserved, Timed
<1>3. (IInv /\ Timing) /\ [Next]_vars =>
        [received > 0 /\ buffer' # buffer => buffer'.timestamp >= buffer.timestamp]_vars
  <2> SUFFICES ASSUME IInv, Timing, [Next]_vars, received > 0, buffer' # buffer
               PROVE  buffer'.timestamp >= buffer.timestamp
    OBVIOUS
  <2>1. buffer'.timestamp >= buffer.timestamp + buffer.count
    BY Timed DEF Follows
  <2>2. buffer \in Buffer /\ buffer' \in Buffer
    BY Preserved DEF IInv, TypeOK
  <2>3. buffer.count \in Nat /\ buffer.timestamp \in Int /\ buffer'.timestamp \in Int
    BY <2>2, Positive DEF Buffer
  <2> QED BY ONLY <2>1, <2>3
<1> QED BY <1>1, <1>2, <1>3, PTL DEF Spec, TimestampsIncrease

-----------------------------------------------------------------------------
(* pg2-rx.                                                                 *)

\* Whatever pg2-rx does, the stream it is fed by is the one of Dispatch.
LEMMA StepOfTheStream ==
  ASSUME [RxNext]_rx_vars
  PROVE  [Next]_vars
<1>1. CASE Dispatching
  BY <1>1 DEF Dispatching, Next
<1>2. CASE Setup \/ SetupFails \/ stop_streaming \/ Tick
  BY <1>2 DEF Setup, SetupFails, stop_streaming, Tick
<1>3. CASE StreamFails \/ StreamEnds
  BY <1>3 DEF StreamFails, StreamEnds, Exit
<1>4. CASE UNCHANGED rx_vars
  BY <1>4 DEF rx_vars
<1> QED BY <1>1, <1>2, <1>3, <1>4 DEF RxNext

LEMMA StreamOfCapture == RxSpec => Spec
<1>1. RxInit => Init
  BY DEF RxInit
<1>2. [RxNext]_rx_vars => [Next]_vars
  BY StepOfTheStream
<1> QED BY <1>1, <1>2, PTL DEF RxSpec, Spec

\* What changes what stream_callback keeps: nothing but a callback.
LEMMA CallbackOnly ==
  ASSUME [RxNext]_rx_vars
  PROVE  \/ /\ main = "stream" /\ (NewRange \/ LastRange)
            /\ stream_callback(buffer')
         \/ UNCHANGED <<counters, file, options, received, buffer>>
<1> USE DEF rxVars, counters, file, vars
<1>1. CASE Dispatching
  BY <1>1 DEF Dispatching, Receive, BadHeader, SameRange
<1>2. CASE Setup \/ SetupFails \/ stop_streaming \/ Tick
  BY <1>2 DEF Setup, SetupFails, stop_streaming, Tick
<1>3. CASE StreamFails \/ StreamEnds
  BY <1>3 DEF StreamFails, StreamEnds, Exit
<1>4. CASE UNCHANGED rx_vars
  BY <1>4 DEF rx_vars
<1> QED BY <1>1, <1>2, <1>3, <1>4 DEF RxNext

Counters ==
  /\ total_samples \in Nat /\ total_dropped \in Nat /\ next_timestamp \in Nat /\ first \in Int
  /\ written \in Nat /\ write_error \in BOOLEAN /\ options \in Options

\* The file is complete as long as no write has failed.
Complete == ~write_error => written = total_samples * SampleBytes

LEMMA SampleBytesNat == options \in Options => SampleBytes \in Nat
<1> SUFFICES ASSUME options \in Options PROVE SampleBytes \in Nat
  OBVIOUS
<1>1. options.format \in DOMAIN BytesPerValue
  BY RxAssumption DEF Options
<1>2. BytesPerValue[options.format] \in {1, 2, 4, 8}
  BY <1>1 DEF BytesPerValue
<1> QED BY <1>2 DEF SampleBytes, ValuesPerSample

\* The buffer a callback is passed.
LEMMA CallbackBuffer ==
  ASSUME IInv, NewRange \/ LastRange
  PROVE  /\ buffer'.timestamp \in Nat /\ buffer'.count \in Nat /\ received' > 0
         /\ failed' = failed
<1>1. CASE NewRange
  <2>1. /\ start \in 1 .. Blocks /\ offset - 1 \in 1 .. Blocks /\ start <= offset - 1
        /\ blocks # <<>> /\ DispatchRange(start, offset - 1)
    BY <1>1, NewRangeBlocks
  <2>2. buffer' \in Buffer /\ received' > 0
    BY <2>1, RangeStep
  <2>3. failed' = failed
    BY <1>1 DEF NewRange, GoodHeader
  <2> QED BY <2>2, <2>3, Positive DEF Buffer
<1>2. CASE LastRange
  <2>1. /\ start \in 1 .. Blocks /\ Blocks \in 1 .. Blocks /\ start <= Blocks
        /\ blocks # <<>> /\ DispatchRange(start, Blocks)
    BY <1>2, LastRangeBlocks
  <2>2. buffer' \in Buffer /\ received' > 0
    BY <2>1, RangeStep
  <2>3. failed' = failed
    BY <1>2 DEF LastRange
  <2> QED BY <2>2, <2>3, Positive DEF Buffer
<1> QED BY <1>1, <1>2

LEMMA CountersStep ==
  ASSUME IInv, Counters, Complete, [RxNext]_rx_vars
  PROVE  Counters' /\ Complete'
<1>1. CASE (NewRange \/ LastRange) /\ stream_callback(buffer')
  <2> DEFINE c == buffer'.count  bytes == c * SampleBytes
  <2>1. buffer'.timestamp \in Nat /\ c \in Nat
    BY <1>1, CallbackBuffer
  <2>2. /\ total_dropped' = total_dropped + Dropped(buffer')
        /\ first' = IF next_timestamp = 0 THEN buffer'.timestamp - total_samples - total_dropped ELSE first
        /\ next_timestamp' = buffer'.timestamp + c
        /\ total_samples' = total_samples + c
        /\ WriteAll(bytes)
        /\ options' = options
    BY <1>1 DEF stream_callback
  <2>3. SampleBytes \in Nat /\ SampleBytes' = SampleBytes
    BY <2>2, SampleBytesNat DEF Counters, SampleBytes, ValuesPerSample
  <2>4. bytes \in Nat
    BY <2>1, <2>3
  <2>5. Dropped(buffer') \in Nat
    BY <2>1 DEF Dropped, Counters
  <2>6. total_samples' * SampleBytes' = total_samples * SampleBytes + bytes
    BY <2>1, <2>2, <2>3 DEF Counters
  <2> HIDE DEF c, bytes
  <2>7. \/ written' = written + bytes /\ write_error' = write_error
        \/ write_error' = TRUE /\ \E k \in {0, bytes - 1} : written' = written + k /\ bytes > 0
    BY <2>2 DEF WriteAll
  <2>8. written' \in Nat /\ write_error' \in BOOLEAN
    <3>1. CASE written' = written + bytes /\ write_error' = write_error
      BY <2>4, <3>1 DEF Counters
    <3>2. CASE write_error' = TRUE /\ \E k \in {0, bytes - 1} : written' = written + k /\ bytes > 0
      <4>1. PICK k \in {0, bytes - 1} : written' = written + k /\ bytes > 0
        BY <3>2
      <4>2. k \in Nat
        BY <2>4, <4>1
      <4> QED BY <3>2, <4>1, <4>2 DEF Counters
    <3> QED BY <2>7, <3>1, <3>2
  <2>9. Counters'
    BY <2>1, <2>2, <2>5, <2>8 DEF Counters, Options
  <2>10. Complete'
    BY <2>6, <2>7 DEF Complete
  <2> QED BY <2>9, <2>10
<1>2. CASE UNCHANGED <<counters, file, options, received, buffer>>
  BY <1>2 DEF counters, file, Counters, Complete, SampleBytes, ValuesPerSample, Options
<1> QED BY <1>1, <1>2, CallbackOnly

\* The program ends in success when the stream ended, not when it failed.
Succeeds == main = "SUCCESS" => ~write_error /\ ~failed

LEMMA SucceedsStep ==
  ASSUME Succeeds, [RxNext]_rx_vars
  PROVE  Succeeds'
<1>1. CASE Dispatching
  BY <1>1 DEF Dispatching, stream_callback, rxVars, Succeeds
<1>2. CASE Setup
  <2>1. main' # "SUCCESS"
    BY <1>2 DEF Setup, Then
  <2> QED BY <2>1 DEF Succeeds
<1>3. CASE SetupFails
  BY <1>3 DEF SetupFails, Succeeds
<1>4. CASE stop_streaming \/ Tick
  BY <1>4 DEF stop_streaming, Tick, Succeeds, vars, file
<1>5. CASE StreamFails
  BY <1>5 DEF StreamFails, Exit, Succeeds
<1>6. CASE StreamEnds
  BY <1>6 DEF StreamEnds, Exit, Succeeds, vars, file
<1>7. CASE UNCHANGED rx_vars
  BY <1>7 DEF rx_vars, rxVars, vars, file, Succeeds
<1> QED BY <1>1, <1>2, <1>3, <1>4, <1>5, <1>6, <1>7 DEF RxNext

LEMMA CaptureInit == RxInit => Counters /\ Complete /\ Succeeds
<1> SUFFICES ASSUME RxInit PROVE Counters /\ Complete /\ Succeeds
  OBVIOUS
<1>1. SampleBytes \in Nat
  BY SampleBytesNat DEF RxInit
<1>2. total_samples * SampleBytes = 0
  BY <1>1 DEF RxInit
<1>3. Complete
  BY <1>2 DEF RxInit, Complete
<1>4. Counters
  <2>1. /\ total_samples = 0 /\ total_dropped = 0 /\ next_timestamp = 0 /\ first = 0
        /\ written = 0 /\ write_error = FALSE /\ options \in Options
    BY DEF RxInit
  <2>2. write_error \in BOOLEAN
    BY <2>1
  <2>3. /\ total_samples \in Nat /\ total_dropped \in Nat /\ next_timestamp \in Nat
        /\ first \in Int /\ written \in Nat
    BY <2>1
  <2> QED BY <2>1, <2>2, <2>3 DEF Counters
<1>5. Succeeds
  BY DEF RxInit, Succeeds
<1> QED BY <1>3, <1>4, <1>5

\* When pg2-rx exits with success every sample it was passed is in the file, in
\* the format asked for, and the stream met no malformed block.
THEOREM SuccessIsCompleteHolds == RxSpec => []SuccessIsComplete
<1> DEFINE J == Counters /\ Complete /\ Succeeds
<1>1. RxInit => J
  BY CaptureInit
<1>2. IInv /\ J /\ [RxNext]_rx_vars => J'
  BY CountersStep, SucceedsStep
<1>3. J => SuccessIsComplete
  BY DEF Complete, Succeeds, SuccessIsComplete
<1> HIDE DEF J
<1> QED BY <1>1, <1>2, <1>3, StreamOfCapture, Invariance, PTL DEF RxSpec

\* The end of the last buffer is where the next one is expected.
Expecting ==
  next_timestamp # 0 =>
    received > 0 /\ next_timestamp = buffer.timestamp + buffer.count

LEMMA AccountedStep ==
  ASSUME NoWrap, IInv, Timing, Counters, Expecting, Accounted, [RxNext]_rx_vars
  PROVE  Expecting' /\ Accounted'
<1>0. [Next]_vars
  BY StepOfTheStream
<1>1. CASE (NewRange \/ LastRange) /\ stream_callback(buffer')
  <2> DEFINE b == buffer'
  <2>1. b.timestamp \in Nat /\ b.count \in Nat /\ received' > 0
    BY <1>1, CallbackBuffer
  <2>2. /\ total_dropped' = total_dropped + Dropped(b)
        /\ first' = IF next_timestamp = 0 THEN b.timestamp - total_samples - total_dropped ELSE first
        /\ next_timestamp' = b.timestamp + b.count
        /\ total_samples' = total_samples + b.count
    BY <1>1 DEF stream_callback
  <2>3. Follows
    BY <1>1, TimedNewRange, TimedLastRange
  <2>4. Expecting'
    BY <2>1, <2>2 DEF Expecting
  <2>5. Accounted'
    <3>1. CASE next_timestamp = 0
      <4>1. Dropped(b) = 0
        BY <3>1 DEF Dropped
      <4> HIDE DEF b
      <4> QED BY <2>1, <2>2, <3>1, <4>1 DEF Accounted, Counters
    <3>2. CASE next_timestamp # 0
      <4>1. b.timestamp >= next_timestamp
        BY <2>3, <3>2 DEF Follows, Expecting
      <4> HIDE DEF b
      <4>2. Dropped(b) = b.timestamp - next_timestamp
        BY <2>1, <3>2, <4>1 DEF Dropped, Counters
      <4> QED BY <2>1, <2>2, <3>2, <4>1, <4>2 DEF Accounted, Counters
    <3> QED BY <3>1, <3>2
  <2> QED BY <2>4, <2>5
<1>2. CASE UNCHANGED <<counters, file, options, received, buffer>>
  BY <1>2 DEF counters, Expecting, Accounted
<1> QED BY <1>1, <1>2, CallbackOnly

\* What pg2-rx reports as received and dropped adds up to the stretch of the
\* device's samples between the first and the last timestamp, until the 32 bits
\* of the timestamp arithmetic wrap.
THEOREM AccountedHolds ==
  ASSUME NoWrap
  PROVE  RxSpec => []Accounted
<1> DEFINE J == Counters /\ Complete /\ Timing /\ Expecting /\ Accounted
<1>1. RxInit => J
  BY CaptureInit, TimedInit DEF RxInit, Expecting, Accounted
<1>2. IInv /\ J /\ [RxNext]_rx_vars => J'
  BY CountersStep, AccountedStep, Timed, StepOfTheStream
<1>3. J => Accounted
  OBVIOUS
<1> HIDE DEF J
<1> QED BY <1>1, <1>2, <1>3, StreamOfCapture, Invariance, PTL DEF RxSpec
====
