--------------------------- MODULE HistoryProofs ----------------------------
(***************************************************************************)
(* A theorem about module History, for signals, pieces and filters of any  *)
(* length. IN_BLOCK_LEN is 2 wherever dsp-history.inc is included.         *)
(***************************************************************************)
EXTENDS History, SequenceTheorems, TLAPS

\* Halves, for every number the wrapper halves.
LEMMA Halves ==
  ASSUME BlockLen = 2, NEW n \in Nat
  PROVE  /\ n \div BlockLen \in Nat /\ n \div BlockLen = n \div 2
         /\ RoundDown(n) = 2 * (n \div 2)
         /\ n = 2 * (n \div 2) + (n % 2) /\ n % 2 \in 0 .. 1
BY DEF RoundDown

\* Memory that holds the signal from just after place p on, read within bounds.
Signal(p, n) == [i \in 1 .. n |-> p + i]

LEMMA MemoryOfSignal ==
  ASSUME NEW p \in Int, NEW n \in Nat, NEW offset \in Nat, NEW m \in Nat, offset + m <= n
  PROVE  Memory(Signal(p, n), offset, m) = Signal(p + offset, m)
<1> DEFINE s == Signal(p, n)
<1>1. Len(s) = n /\ \A i \in 1 .. n : s[i] = p + i
  BY DEF Signal
<1> HIDE DEF s
<1>2. \A i \in 1 .. m : offset + i \in 1 .. Len(s) /\ s[offset + i] = (p + offset) + i
  BY <1>1
<1>3. Memory(s, offset, m) = [i \in 1 .. m |-> (p + offset) + i]
  BY <1>2 DEF Memory
<1> QED BY <1>3 DEF s, Signal

LEMMA JoinSignal ==
  ASSUME NEW p \in Int, NEW m \in Nat, NEW n \in Nat
  PROVE  Signal(p, m) \o Signal(p + m, n) = Signal(p, m + n)
<1> DEFINE s == Signal(p, m)
           r == Signal(p + m, n)
<1>1. s \in Seq(Int) /\ Len(s) = m /\ r \in Seq(Int) /\ Len(r) = n
  BY DEF Signal
<1>2. /\ s \o r = [i \in 1 .. m + n |-> (s \o r)[i]]
      /\ \A i \in 1 .. m + n : (s \o r)[i] = IF i <= m THEN s[i] ELSE r[i - m]
  <2> HIDE DEF s, r
  <2>1. /\ Len(s \o r) = m + n
        /\ \A i \in 1 .. m + n : (s \o r)[i] = IF i <= m THEN s[i] ELSE r[i - m]
    BY <1>1, ConcatProperties
  <2>2. s \o r \in Seq(Int)
    BY <1>1, ConcatProperties
  <2>3. \A q \in Seq(Int) : q = [i \in 1 .. Len(q) |-> q[i]]
    OBVIOUS
  <2> QED BY <2>1, <2>2, <2>3
<1>3. ASSUME NEW i \in 1 .. m + n PROVE (IF i <= m THEN s[i] ELSE r[i - m]) = p + i
  <2>1. CASE i <= m
    <3>1. i \in 1 .. m
      BY <2>1
    <3> QED BY <2>1, <3>1 DEF Signal
  <2>2. CASE ~(i <= m)
    <3>1. i - m \in 1 .. n /\ (p + m) + (i - m) = p + i
      BY <2>2
    <3> QED BY <2>2, <3>1 DEF Signal
  <2> QED BY <2>1, <2>2
<1> HIDE DEF s, r
<1>4. s \o r = [i \in 1 .. m + n |-> p + i]
  BY <1>2, <1>3
<1> QED BY <1>4 DEF s, r, Signal

\* s holds the n outputs that follow the first k.
Outputs(s, k, n) ==
  /\ s \in Seq(Seq(Int)) /\ Len(s) = n
  /\ \A i \in 1 .. n : s[i] = ReferenceOutput(k + i)

\* These are what is computed from such memory, if it begins context_len - 1
\* samples before the end of the first of them.
LEMMA DecimateSignal ==
  ASSUME BlockLen = 2, context_len \in Nat \ {0}, NEW k \in Nat, NEW n \in Nat,
         NEW offset \in Nat, NEW p \in Int, NEW h \in Nat,
         p + offset = 2 * k - context_len + 1,
         h = 0 \/ offset + 2 * h + context_len <= n + 2
  PROVE  Outputs(Decimate(Signal(p, n), offset, 2 * h), k, h)
<1> DEFINE d == Decimate(Signal(p, n), offset, 2 * h)
<1>1. (2 * h) \div BlockLen = h
  OBVIOUS
<1>2. d = [i \in 1 .. h |-> Memory(Signal(p, n), offset + (i - 1) * 2, context_len)]
  BY <1>1 DEF Decimate
<1>3. ASSUME NEW i \in 1 .. h PROVE d[i] = ReferenceOutput(k + i) /\ d[i] \in Seq(Int)
  <2> DEFINE o == offset + (i - 1) * 2
  <2>1. o \in Nat /\ o + context_len <= n
    OBVIOUS
  <2>2. p + o = 2 * k - context_len + 1 + (i - 1) * 2 /\ p + o \in Int
    OBVIOUS
  <2>3. d[i] = Memory(Signal(p, n), o, context_len)
    BY <1>2
  <2> HIDE DEF o, d
  <2>4. d[i] = Signal(p + o, context_len)
    BY <2>1, <2>3, MemoryOfSignal
  <2>5. \A j \in 1 .. context_len :
          (k + i - 1) * BlockLen + j - (context_len - 1) = (p + o) + j
    BY <2>2
  <2>6. ReferenceOutput(k + i) = [j \in 1 .. context_len |-> (p + o) + j]
    BY <2>5 DEF ReferenceOutput
  <2>7. Signal(p + o, context_len) \in Seq(Int)
    BY <2>2 DEF Signal
  <2> QED BY <2>4, <2>6, <2>7 DEF Signal
<1> HIDE DEF d
<1>4. d \in Seq(Seq(Int)) /\ Len(d) = h
  <2>1. d \in [1 .. h -> Seq(Int)]
    BY <1>2, <1>3
  <2> QED BY <2>1
<1> QED BY <1>3, <1>4 DEF d, Outputs

-----------------------------------------------------------------------------
\* The length of the history: context_len - 1 samples, and the one of an
\* incomplete block.
Kept == context_len - 1 + (total % 2)

\* The inductive invariant: the history ends with the last sample passed in and
\* begins with the first one the next output needs. It is what makes the next
\* call continue where the last one stopped.
IInv ==
  /\ TypeOK
  /\ history = Signal(total - Kept, Kept)
  /\ OutputIndependentOfPieces

LEMMA InitIInv == BlockLen = 2 /\ Init => IInv
<1> SUFFICES ASSUME BlockLen = 2, NEW c \in Contexts, StartWith(c - 1), context_len = c PROVE IInv
  BY DEF Init
<1>1. c \in Nat \ {0} /\ context_len = c /\ total = 0 /\ produced = 0 /\ outputs = <<>> /\ used = c - 1
  BY HistoryAssumption DEF StartWith
<1>2. Kept = c - 1 /\ total - Kept = 1 - c /\ total \div BlockLen = 0
  BY <1>1 DEF Kept
<1>3. history = Signal(1 - c, c - 1)
  <2>1. history = [i \in 1 .. c - 1 |-> i - (c - 1)]
    BY DEF StartWith
  <2>2. \A i \in 1 .. c - 1 : i - (c - 1) = (1 - c) + i
    BY <1>1
  <2> QED BY <2>1, <2>2 DEF Signal
<1>4. history \in Seq(Int)
  BY <1>1, <1>3 DEF Signal
<1>5. OutputIndependentOfPieces
  BY <1>1, <1>2 DEF OutputIndependentOfPieces, history_max
<1> QED BY <1>1, <1>2, <1>3, <1>4, <1>5 DEF IInv, TypeOK

LEMMA NextIInv ==
  ASSUME BlockLen = 2, MaxInput < Word, IInv, Next
  PROVE  IInv'
<1> DEFINE L == Kept
           K == total \div 2
           p == total - L
<1>1. /\ context_len \in Contexts /\ context_len \in Nat \ {0} /\ context_len' = context_len
      /\ total \in Nat /\ produced + Len(outputs) = total \div 2 /\ produced \in Nat
      /\ Len(outputs) \in Nat /\ outputs \in Seq(Seq(Int))
  <2>1. /\ context_len \in Contexts /\ total \in Nat /\ produced \in Nat
        /\ outputs \in Seq(Seq(Int)) /\ produced + Len(outputs) = total \div 2
    BY DEF IInv, TypeOK, OutputIndependentOfPieces
  <2>2. context_len \in Nat \ {0} /\ Len(outputs) \in Nat
    BY <2>1, HistoryAssumption
  <2>3. context_len' = context_len
    BY DEF Next, Process
  <2> QED BY <2>1, <2>2, <2>3
<1>2. /\ history = Signal(p, L)
      /\ L \in Nat /\ K \in Nat /\ p \in Int /\ L = context_len - 1 + (total - 2 * K)
      /\ total - 2 * K \in 0 .. 1 /\ L <= context_len
  <2>1. history = Signal(p, L) /\ L = context_len - 1 + (total % 2)
    BY DEF IInv, Kept
  <2>2. K \in Nat /\ total % 2 = total - 2 * K /\ total - 2 * K \in 0 .. 1
    BY <1>1, Halves
  <2> HIDE DEF L, K
  <2>3. L \in Nat /\ L = context_len - 1 + (total - 2 * K) /\ L <= context_len
    BY <1>1, <2>1, <2>2
  <2> QED BY <1>1, <2>1, <2>2, <2>3
<1>3. Len(history) = L
  BY <1>2 DEF Signal
<1>4. PICK n \in 0 .. Smaller(MaxInput, MaxSignal - total) :
        LET in == Signal(total, n)
            history_len == Len(history)
            history_fill == Smaller(history_max - history_len, n)
            filled == history \o Memory(in, 0, history_fill)
            available == Len(filled)
            fromHistory == IF available < context_len THEN 0
                           ELSE RoundDown(available - context_len + 1)
            offset == fromHistory - history_len
            fromInput == RoundDown((n - offset - context_len + 1) % Word)
            consumed == offset + fromInput
        IN /\ total' = total + n
           /\ used' = available
           /\ produced' = produced + Len(outputs)
           /\ \/ /\ fromHistory = 0 \/ fromHistory < history_len
                 /\ outputs' = Decimate(filled, 0, fromHistory)
                 /\ history' = Memory(filled, fromHistory, available - fromHistory)
              \/ /\ fromHistory > 0 /\ fromHistory >= history_len
                 /\ outputs' = Decimate(filled, 0, fromHistory) \o Decimate(in, offset, fromInput)
                 /\ history' = Memory(in, consumed, n - consumed)
  BY DEF Next, Process, Signal
<1> DEFINE in == Signal(total, n)
           fill == Smaller(history_max - L, n)
           filled == Signal(p, L + fill)
           h == IF L + fill < context_len THEN 0 ELSE (L + fill - context_len + 1) \div 2
           offset == 2 * h - L
           g == (n - offset - context_len + 1) \div 2
           consumed == offset + 2 * g
<1>5. /\ n \in Nat /\ n < Word
      /\ fill \in Nat /\ (fill = n \/ (fill < n /\ L + fill = 2 * context_len))
      /\ L + fill <= 2 * context_len /\ fill <= n
  BY <1>1, <1>2, HistoryAssumption DEF Smaller, history_max
<1>6. /\ h \in Nat
      /\ h = 0 \/ 2 * h + context_len <= L + fill + 1
      /\ fill < n => 2 * h >= L /\ h > 0
      /\ fill = n => h = (total + n - 2 * K) \div 2
  <2> DEFINE r == total - 2 * K
             m == L + fill - context_len + 1
  <2>1. r \in 0 .. 1 /\ L = context_len - 1 + r /\ m = fill + r /\ total + n - 2 * K = n + r
    BY <1>1, <1>2, <1>5
  <2>0. m = L + fill - context_len + 1 /\ h = IF L + fill < context_len THEN 0 ELSE m \div 2
    OBVIOUS
  <2> HIDE DEF L, K, fill, r, m, h
  <2>2. (L + fill < context_len <=> m < 1) /\ m \in Nat /\ h = IF m < 1 THEN 0 ELSE m \div 2
    <3>1. m \in Nat
      BY ONLY <1>5, <2>1
    <3>2. L + fill < context_len <=> m < 1
      BY ONLY <1>1, <1>2, <1>5, <2>0
    <3> QED BY ONLY <2>0, <3>1, <3>2
  <2>3. h = m \div 2 /\ h \in Nat /\ 2 * h <= m /\ m <= 2 * h + 1
    BY <2>2
  <2>4. h = 0 \/ 2 * h + context_len <= L + fill + 1
    BY <1>1, <1>2, <1>5, <2>1, <2>3
  <2>5. fill < n => 2 * h >= L /\ h > 0
    <3> SUFFICES ASSUME fill < n PROVE 2 * h >= L /\ h > 0
      OBVIOUS
    <3>1. context_len \in Nat \ {0} /\ L \in Nat /\ L <= context_len
      BY <1>1, <1>2
    <3>2. m = context_len + 1
      BY <1>5, <2>0, <3>1
    <3> QED BY ONLY <2>3, <3>1, <3>2
  <2>6. fill = n => h = (total + n - 2 * K) \div 2
    BY <1>1, <1>2, <1>5, <2>1, <2>3
  <2> QED BY <2>3, <2>4, <2>5, <2>6
<1>7. history \o Memory(in, 0, fill) = filled /\ Len(filled) = L + fill
  <2>1. Memory(in, 0, fill) = Signal(total, fill)
    BY <1>1, <1>5, MemoryOfSignal
  <2>2. p + L = total
    BY <1>1, <1>2
  <2>3. Signal(p, L) \o Signal(p + L, fill) = Signal(p, L + fill)
    <3> HIDE DEF p, L, fill
    <3> QED BY <1>2, <1>5, JoinSignal
  <2>4. Len(filled) = L + fill
    BY <1>2, <1>5 DEF Signal
  <2> HIDE DEF p, L, fill
  <2> QED BY <1>2, <2>1, <2>2, <2>3, <2>4
<1>8. 2 * h = IF Len(filled) < context_len THEN 0 ELSE RoundDown(Len(filled) - context_len + 1)
  <2> HIDE DEF filled, L, fill
  <2>1. CASE L + fill < context_len
    BY <1>7, <2>1
  <2>2. CASE ~(L + fill < context_len)
    <3> DEFINE m == L + fill - context_len + 1
    <3>1. m \in Nat /\ h = m \div 2
      BY <1>1, <1>2, <1>5, <2>2
    <3>2. RoundDown(m) = 2 * (m \div 2)
      <4> HIDE DEF m
      <4> QED BY <3>1, Halves
    <3> HIDE DEF h, m
    <3>3. 2 * h = RoundDown(m)
      BY <3>1, <3>2
    <3> QED BY <1>1, <1>2, <1>5, <1>7, <2>2, <3>3 DEF m
  <2> QED BY <2>1, <2>2
<1>9. ASSUME h > 0, 2 * h >= L
      PROVE  /\ n - offset - context_len + 1 \in Nat /\ offset \in Nat /\ g \in Nat
             /\ RoundDown((n - offset - context_len + 1) % Word) = 2 * g
  <2>0. offset = 2 * h - L
    OBVIOUS
  <2> HIDE DEF L, fill, h, offset
  <2>1. offset \in Nat /\ n - offset - context_len + 1 \in Nat
        /\ n - offset - context_len + 1 < Word /\ Word \in Nat \ {0}
    BY <1>1, <1>2, <1>5, <1>6, <1>9, <2>0, HistoryAssumption
  <2>2. (n - offset - context_len + 1) % Word = n - offset - context_len + 1
    BY <2>1
  <2> QED BY <2>1, <2>2, Halves
<1>10. /\ total' = total + n /\ used' = L + fill /\ produced' = K
       /\ \/ /\ h = 0 \/ 2 * h < L
             /\ outputs' = Decimate(filled, 0, 2 * h)
             /\ history' = Memory(filled, 2 * h, L + fill - 2 * h)
          \/ /\ h > 0 /\ 2 * h >= L
             /\ outputs' = Decimate(filled, 0, 2 * h) \o Decimate(in, offset, 2 * g)
             /\ history' = Memory(in, consumed, n - consumed)
  <2>1. in = Signal(total, n) /\ fill = Smaller(history_max - Len(history), n)
    BY <1>3
  <2>2. offset = 2 * h - Len(history) /\ consumed = offset + 2 * g /\ h \in Nat
        /\ (h > 0 <=> 2 * h > 0) /\ (h = 0 <=> 2 * h = 0)
    BY <1>3, <1>6
  <2>3. K = produced + Len(outputs)
    BY <1>1
  <2> HIDE DEF L, K, p, in, fill, filled, h, offset, g, consumed
  <2>4. LET fromInput == RoundDown((n - offset - context_len + 1) % Word)
        IN /\ total' = total + n
           /\ used' = Len(filled)
           /\ produced' = produced + Len(outputs)
           /\ \/ /\ 2 * h = 0 \/ 2 * h < L
                 /\ outputs' = Decimate(filled, 0, 2 * h)
                 /\ history' = Memory(filled, 2 * h, Len(filled) - 2 * h)
              \/ /\ 2 * h > 0 /\ 2 * h >= L
                 /\ outputs' = Decimate(filled, 0, 2 * h) \o Decimate(in, offset, fromInput)
                 /\ history' = Memory(in, offset + fromInput, n - (offset + fromInput))
    BY <1>3, <1>4, <1>7, <1>8, <2>1, <2>2
  <2>5. total' = total + n /\ used' = L + fill /\ produced' = K
    BY <1>7, <2>3, <2>4
  <2>6. CASE h = 0 \/ 2 * h < L
    <3>1. ~(2 * h > 0 /\ 2 * h >= L) /\ L + fill = Len(filled)
      BY <2>2, <2>6, <1>2, <1>7
    <3>2. /\ outputs' = Decimate(filled, 0, 2 * h)
          /\ history' = Memory(filled, 2 * h, Len(filled) - 2 * h)
      <4> HIDE <2>6
      <4> QED BY ONLY <2>4, <3>1
    <3>3. /\ h = 0 \/ 2 * h < L
          /\ outputs' = Decimate(filled, 0, 2 * h)
          /\ history' = Memory(filled, 2 * h, L + fill - 2 * h)
      <4>1. h = 0 \/ 2 * h < L
        BY <2>6
      <4>2. Memory(filled, 2 * h, Len(filled) - 2 * h) = Memory(filled, 2 * h, L + fill - 2 * h)
        <5>1. L + fill = Len(filled) /\ L \in Nat /\ fill \in Nat /\ h \in Nat
          BY <1>2, <1>5, <2>2, <3>1
        <5>2. Len(filled) - 2 * h = L + fill - 2 * h
          BY ONLY <5>1
        <5> QED BY ONLY <5>2, Zenon
      <4> QED BY ONLY <3>2, <4>1, <4>2, Zenon
    <3> QED BY <2>5, <3>3, Zenon
  <2>7. CASE h > 0 /\ 2 * h >= L
    <3>1. RoundDown((n - offset - context_len + 1) % Word) = 2 * g
      BY <1>9, <2>7
    <3>2. ~(2 * h = 0 \/ 2 * h < L)
      BY <2>2, <2>7, <1>2
    <3> QED BY <2>2, <2>4, <2>5, <2>7, <3>1, <3>2
  <2> QED BY <2>2, <2>6, <2>7, <1>2
<1>11. p + 2 * h = 2 * (K + h) - context_len + 1 /\ p = 2 * K - context_len + 1
  BY <1>1, <1>2, <1>6
\* The windows found in the history buffer.
<1>12. Outputs(Decimate(filled, 0, 2 * h), K, h)
  <2> DEFINE q == L + fill
  <2>0. filled = Signal(p, q)
    OBVIOUS
  <2> HIDE DEF p, K, L, fill, filled, h
  <2>1. p + 0 = 2 * K - context_len + 1 /\ q \in Nat /\ 0 \in Nat
        /\ (h = 0 \/ 0 + 2 * h + context_len <= q + 2)
    BY <1>1, <1>2, <1>5, <1>6, <1>11
  <2> HIDE DEF q
  <2>2. context_len \in Nat \ {0} /\ K \in Nat /\ p \in Int /\ h \in Nat
    BY <1>1, <1>2, <1>6
  <2>3. Outputs(Decimate(Signal(p, q), 0, 2 * h), K, h)
    BY <2>1, <2>2, DecimateSignal
  <2> QED BY <2>0, <2>3
\* What is left to show of a call: its outputs and the history it leaves.
<1> DEFINE M == context_len - 1 + ((total + n) % 2)
<1>13. ASSUME NEW m \in Nat, Outputs(outputs', K, m), K + m = (total + n) \div 2,
              history' = Signal(total + n - M, M)
       PROVE  IInv'
  <2>0. /\ outputs' \in Seq(Seq(Int)) /\ K + Len(outputs') = (total + n) \div 2
        /\ \A i \in 1 .. Len(outputs') : outputs'[i] = ReferenceOutput(K + i)
    BY <1>13 DEF Outputs
  <2> HIDE DEF L, fill, K
  <2>1. /\ total' = total + n /\ total' \in Nat /\ produced' = K /\ used' = L + fill
        /\ used' <= 2 * context_len /\ used' \in Nat
    BY <1>1, <1>2, <1>5, <1>10
  <2>2. Kept' = M /\ M \in Nat
    BY <1>1, <2>1 DEF Kept
  <2>3. history' = Signal(total' - Kept', Kept')
    <3> HIDE DEF M
    <3> QED BY <1>1, <1>5, <1>13, <2>1, <2>2
  <2>4. history' \in Seq(Int)
    <3> HIDE DEF M
    <3>1. total + n - M \in Int
      BY <1>1, <1>5, <2>2
    <3> QED BY <1>13, <2>2, <3>1 DEF Signal
  <2>5. OutputIndependentOfPieces'
    <3>1. \A i \in 1 .. Len(outputs') : outputs'[i] = ReferenceOutput(produced' + i)
      BY <2>0, <2>1
    <3>2. \A i \in 1 .. Len(outputs') : outputs'[i] = ReferenceOutput(produced + i)'
      BY <1>1, <3>1 DEF ReferenceOutput
    <3>3. produced' + Len(outputs') = total' \div BlockLen /\ used' <= history_max'
      BY <1>1, <2>0, <2>1 DEF history_max
    <3> QED BY <3>2, <3>3 DEF OutputIndependentOfPieces
  <2>6. Signal(total - Kept, Kept)' = Signal(total' - Kept', Kept')
    BY DEF Signal
  <2> QED BY <1>1, <1>2, <2>0, <2>1, <2>3, <2>4, <2>5, <2>6 DEF IInv, TypeOK
<1>14. CASE /\ h = 0 \/ 2 * h < L
            /\ outputs' = Decimate(filled, 0, 2 * h)
            /\ history' = Memory(filled, 2 * h, L + fill - 2 * h)
  <2> HIDE DEF h, fill, L, K, filled
  <2>1. fill = n /\ h = (total + n - 2 * K) \div 2
    BY <1>1, <1>2, <1>5, <1>6, <1>14
  <2>2. K + h = (total + n) \div 2 /\ L + fill - 2 * h = M /\ M \in Nat
    BY <1>1, <1>2, <1>5, <2>1
  <2>3. history' = Signal(p + 2 * h, L + fill - 2 * h)
    <3> DEFINE q == L + fill
               o == 2 * h
               m == L + fill - 2 * h
    <3>1. p \in Int /\ q \in Nat /\ o \in Nat /\ m \in Nat /\ o + m <= q
      BY <1>1, <1>2, <1>5, <1>6, <2>2
    <3>2. history' = Memory(Signal(p, q), o, m)
      BY <1>14 DEF filled
    <3> HIDE DEF p, q, o, m
    <3>3. history' = Signal(p + o, m)
      BY <3>1, <3>2, MemoryOfSignal
    <3> QED BY <3>3 DEF q, o, m
  <2>4. p + 2 * h = total + n - M
    BY <1>1, <1>2, <1>5, <1>6, <2>1, <2>2
  <2>5. history' = Signal(total + n - M, M)
    <3> HIDE DEF M, p
    <3> QED BY <2>2, <2>3, <2>4
  <2> HIDE DEF M
  <2>6. Outputs(outputs', K, h)
    BY <1>12, <1>14
  <2> QED BY <1>6, <1>13, <2>2, <2>5, <2>6
<1>15. CASE /\ h > 0 /\ 2 * h >= L
            /\ outputs' = Decimate(filled, 0, 2 * h) \o Decimate(in, offset, 2 * g)
            /\ history' = Memory(in, consumed, n - consumed)
  <2> DEFINE s1 == Decimate(filled, 0, 2 * h)
             s2 == Decimate(in, offset, 2 * g)
  <2>0. offset = 2 * h - L /\ g = (n - offset - context_len + 1) \div 2 /\ consumed = offset + 2 * g
        /\ total = p + L /\ in = Signal(total, n)
    BY <1>1, <1>2
  <2> HIDE DEF h, fill, L, K, filled, offset, g, consumed, in, p
  <2>1. offset \in Nat /\ g \in Nat /\ n - offset - context_len + 1 \in Nat
    BY <1>9, <1>15
  <2>2. total + offset = 2 * (K + h) - context_len + 1 /\ K + h \in Nat
    BY <1>1, <1>2, <1>6, <1>11, <2>0
  <2>3. g = 0 \/ offset + 2 * g + context_len <= n + 2
    <3> DEFINE x == n - offset - context_len + 1
    <3>0. offset + x + context_len = n + 1
      BY <1>1, <2>1
    <3>1. x \in Nat /\ g = x \div 2 /\ offset + x + context_len = n + 1
      BY <2>0, <2>1, <3>0
    <3> HIDE DEF x
    <3>2. 2 * g <= x
      BY <3>1
    <3> QED BY <1>1, <1>5, <2>1, <3>1, <3>2
  <2>4. Outputs(s2, K + h, g)
    <3> DEFINE k == K + h
    <3>1. total + offset = 2 * k - context_len + 1 /\ k \in Nat /\ total \in Int
          /\ context_len \in Nat \ {0} /\ n \in Nat /\ offset \in Nat /\ g \in Nat
      BY <1>1, <1>5, <2>1, <2>2
    <3> HIDE DEF k
    <3>2. Outputs(Decimate(Signal(total, n), offset, 2 * g), k, g)
      BY <2>3, <3>1, DecimateSignal
    <3> QED BY <2>0, <3>2 DEF k
  <2>5. /\ (K + h) + g = (total + n) \div 2
        /\ n - consumed = M /\ M \in Nat /\ consumed \in Nat
        /\ total + consumed = total + n - M
    BY <1>1, <1>2, <1>5, <1>6, <2>0, <2>1, <2>2
  <2>6. history' = Signal(total + n - M, M)
    <3> HIDE DEF M
    <3>1. history' = Memory(Signal(total, n), consumed, M)
      BY <1>15, <2>0, <2>5
    <3>2. consumed + M <= n /\ total \in Int
      BY <1>1, <1>5, <2>5
    <3>3. history' = Signal(total + consumed, M)
      BY <1>5, <2>5, <3>1, <3>2, MemoryOfSignal
    <3> QED BY <2>5, <3>3
  <2>7. Outputs(s1, K, h) /\ outputs' = s1 \o s2
    BY <1>12, <1>15
  <2> HIDE DEF M, s1, s2
  <2>8. /\ outputs' \in Seq(Seq(Int)) /\ Len(outputs') = h + g
        /\ \A i \in 1 .. h + g : outputs'[i] = IF i <= h THEN s1[i] ELSE s2[i - h]
    <3>1. /\ s1 \in Seq(Seq(Int)) /\ Len(s1) = h
          /\ s2 \in Seq(Seq(Int)) /\ Len(s2) = g
      BY <2>4, <2>7 DEF Outputs
    <3> QED BY <2>7, <3>1, ConcatProperties
  <2>9. ASSUME NEW i \in 1 .. h + g PROVE outputs'[i] = ReferenceOutput(K + i)
    <3>1. CASE i <= h
      BY <1>6, <2>1, <2>7, <2>8, <3>1 DEF Outputs
    <3>2. CASE i > h
      <4>1. i - h \in 1 .. g /\ (K + h) + (i - h) = K + i /\ ~(i <= h)
        BY <1>2, <1>6, <2>1, <3>2
      <4> QED BY <2>4, <2>8, <4>1 DEF Outputs
    <3> QED BY <1>6, <2>1, <3>1, <3>2
  <2>10. Outputs(outputs', K, h + g)
    BY <2>8, <2>9 DEF Outputs
  <2>11. h + g \in Nat /\ K + (h + g) = (total + n) \div 2
    BY <1>2, <1>6, <2>1, <2>5
  <2> QED BY <1>13, <2>6, <2>10, <2>11
<1> QED BY <1>10, <1>14, <1>15

\* Whatever pieces a signal arrives in, and whatever the length of the filter,
\* the stage computes the outputs of the undivided signal, all of them and in
\* order, and never writes past its history buffer (dsp-history.inc). The length
\* of a piece is an unsigned int, so it is below Word.
THEOREM OutputIndependentOfPiecesHolds ==
  ASSUME BlockLen = 2, MaxInput < Word
  PROVE  Spec => []OutputIndependentOfPieces
<1>1. Init => IInv
  BY InitIInv
<1>2. IInv /\ UNCHANGED vars => IInv'
  BY DEF IInv, TypeOK, vars, Signal, Kept, OutputIndependentOfPieces, ReferenceOutput, history_max
<1>3. IInv /\ [Next]_vars => IInv'
  BY <1>2, NextIInv
<1>4. IInv => OutputIndependentOfPieces
  BY DEF IInv
<1> QED BY <1>1, <1>3, <1>4, PTL DEF Spec
=============================================================================
