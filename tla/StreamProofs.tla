---------------------------- MODULE StreamProofs ----------------------------
(***************************************************************************)
(* Theorems about module Stream, for any number of threads and transfers.  *)
(***************************************************************************)
EXTENDS Stream, SequenceTheorems, TLAPS

-----------------------------------------------------------------------------
(* The sequences of the model.                                             *)

\* Taking one element out of a sequence leaves a sequence.
LEMMA WithoutType ==
  ASSUME NEW S, NEW s \in Seq(S), NEW i \in 1 .. Len(s)
  PROVE  Without(s, i) \in Seq(S)
BY DEF Without

\* Taking one element out of a sequence without repetitions takes it out of
\* the set of elements, and leaves no repetition (the completion of a
\* transfer libusb owns).
LEMMA WithoutProperties ==
  ASSUME NEW S, NEW s \in Seq(S), NEW i \in 1 .. Len(s)
  PROVE  Injective(s) => /\ Injective(Without(s, i))
                         /\ Elements(Without(s, i)) = Elements(s) \ {s[i]}
<1>1. Without(s, i) \in Seq(S) /\ Len(Without(s, i)) = Len(s) - 1
  BY DEF Without
<1>2. ASSUME Injective(s) PROVE Injective(Without(s, i))
  BY <1>1, <1>2 DEF Without, Injective
<1>3. ASSUME Injective(s) PROVE Elements(Without(s, i)) = Elements(s) \ {s[i]}
  <2>1. ASSUME NEW x \in Elements(s) \ {s[i]} PROVE x \in Elements(Without(s, i))
    <3>1. PICK j \in 1 .. Len(s) : x = s[j] /\ j # i
      BY <2>1 DEF Elements
    <3>2. CASE j < i
      BY <1>1, <3>1, <3>2 DEF Elements, Without
    <3>3. CASE j > i
      <4>1. j - 1 \in 1 .. Len(s) - 1 /\ Without(s, i)[j - 1] = s[j]
        BY <3>1, <3>3 DEF Without
      <4> QED BY <1>1, <3>1, <4>1 DEF Elements
    <3> QED BY <3>1, <3>2, <3>3
  <2>2. ASSUME NEW x \in Elements(Without(s, i)) PROVE x \in Elements(s) \ {s[i]}
    <3>1. PICK j \in 1 .. Len(s) - 1 : x = Without(s, i)[j]
      BY <1>1, <2>2 DEF Elements
    <3>2. PICK k \in 1 .. Len(s) : x = s[k] /\ k # i
      <4>1. CASE j < i
        BY <3>1, <4>1 DEF Without
      <4>2. CASE j >= i
        <5>1. j + 1 \in 1 .. Len(s) /\ x = s[j + 1] /\ j + 1 # i
          BY <3>1, <4>2 DEF Without
        <5> QED BY <5>1
      <4> QED BY <4>1, <4>2
    <3> QED BY <1>3, <3>2 DEF Elements, Injective
  <2> QED BY <2>1, <2>2
<1> QED BY <1>1, <1>2, <1>3

\* Moving the head of a list to its tail keeps its elements (a transfer
\* submitted again).
LEMMA RotateElements ==
  ASSUME NEW S, NEW s \in Seq(S), s # <<>>
  PROVE  /\ Tail(s) \in Seq(S) /\ Head(s) \in S /\ Head(s) \in Elements(s)
         /\ Append(Tail(s), Head(s)) \in Seq(S)
         /\ Elements(Append(Tail(s), Head(s))) = Elements(s)
<1> DEFINE h == Head(s)
           t == Tail(s)
           r == Append(t, h)
<1>1. /\ t \in Seq(S) /\ h \in S /\ Len(t) = Len(s) - 1 /\ Len(s) \in Nat \ {0}
      /\ h = s[1]
      /\ \A j \in 1 .. Len(t) : t[j] = s[j + 1]
  BY HeadTailProperties
<1> HIDE DEF t, h
<1>2. /\ r \in Seq(S) /\ Len(r) = Len(t) + 1
      /\ \A j \in 1 .. Len(t) : r[j] = t[j]
      /\ r[Len(t) + 1] = h
  BY <1>1, AppendProperties
<1> HIDE DEF r
<1>3. Elements(r) = Elements(s)
  <2>1. ASSUME NEW j \in 1 .. Len(s) PROVE s[j] \in Elements(r)
    <3>1. CASE j = 1
      BY <1>1, <1>2, <3>1 DEF Elements
    <3>2. CASE j > 1
      <4>1. j - 1 \in 1 .. Len(t) /\ r[j - 1] = s[j]
        BY <1>1, <1>2, <3>2
      <4> QED BY <1>2, <4>1 DEF Elements
    <3> QED BY <3>1, <3>2
  <2>2. ASSUME NEW j \in 1 .. Len(r) PROVE r[j] \in Elements(s)
    <3>1. CASE j = Len(r)
      BY <1>1, <1>2, <3>1 DEF Elements
    <3>2. CASE j # Len(r)
      <4>1. j + 1 \in 1 .. Len(s) /\ r[j] = s[j + 1]
        BY <1>1, <1>2, <3>2
      <4> QED BY <4>1 DEF Elements
    <3> QED BY <3>1, <3>2
  <2> QED BY <2>1, <2>2 DEF Elements
<1>4. h \in Elements(s)
  BY <1>1 DEF Elements
<1> QED BY <1>1, <1>2, <1>3, <1>4 DEF r, t, h

\* What appending does to the elements (a transfer submitted to libusb).
LEMMA AppendElements ==
  ASSUME NEW S, NEW s \in Seq(S), NEW x \in S
  PROVE  /\ Append(s, x) \in Seq(S)
         /\ Elements(Append(s, x)) = Elements(s) \cup {x}
         /\ Injective(s) /\ x \notin Elements(s) => Injective(Append(s, x))
<1>1. Append(s, x) \in Seq(S) /\ Len(Append(s, x)) = Len(s) + 1 /\ Len(s) \in Nat
  OBVIOUS
<1>2. \A j \in 1 .. Len(s) + 1 : Append(s, x)[j] = IF j = Len(s) + 1 THEN x ELSE s[j]
  OBVIOUS
<1>3. Elements(Append(s, x)) = Elements(s) \cup {x}
  BY <1>1, <1>2 DEF Elements
<1>4. ASSUME Injective(s), x \notin Elements(s) PROVE Injective(Append(s, x))
  BY <1>1, <1>2, <1>4 DEF Injective, Elements
<1> QED BY <1>1, <1>3, <1>4

\* The initial batch: all transfers, in order.
LEMMA BatchElements ==
  ASSUME NEW n \in Nat
  PROVE  LET s == [i \in 1 .. n |-> i] IN
         s \in Seq(1 .. n) /\ Elements(s) = 1 .. n /\ Injective(s) /\ <<>> \o s = s
BY DEF Elements, Injective

\* What a list without its head contains (a transfer taken off the list).
LEMMA TailProperties ==
  ASSUME NEW S, NEW s \in Seq(S), s # <<>>, Injective(s)
  PROVE  /\ Tail(s) \in Seq(S) /\ Injective(Tail(s))
         /\ Elements(Tail(s)) = Elements(s) \ {Head(s)}
         /\ Injective(Append(Tail(s), Head(s)))
<1> DEFINE h == Head(s)
           t == Tail(s)
<1>1. /\ t \in Seq(S) /\ h \in S /\ Len(t) = Len(s) - 1 /\ Len(s) \in Nat \ {0}
      /\ h = s[1]
      /\ \A j \in 1 .. Len(t) : t[j] = s[j + 1]
  BY HeadTailProperties
<1> HIDE DEF t, h
<1>2. Injective(t)
  <2> SUFFICES ASSUME NEW i \in 1 .. Len(t), NEW j \in 1 .. Len(t), t[i] = t[j] PROVE i = j
    BY DEF Injective
  <2>1. i + 1 \in 1 .. Len(s) /\ j + 1 \in 1 .. Len(s) /\ s[i + 1] = s[j + 1]
    BY <1>1
  <2>2. i + 1 = j + 1
    BY <2>1 DEF Injective
  <2> QED BY <2>2
<1>3. ASSUME NEW x \in Elements(t) PROVE x \in Elements(s) \ {h}
  <2>1. PICK j \in 1 .. Len(t) : x = t[j]
    BY DEF Elements
  <2>2. j + 1 \in 1 .. Len(s) /\ 1 \in 1 .. Len(s) /\ j + 1 # 1 /\ x = s[j + 1]
    BY <1>1, <2>1
  <2>3. x # s[1]
    BY <2>2 DEF Injective
  <2> QED BY <1>1, <2>2, <2>3 DEF Elements
<1>4. ASSUME NEW x \in Elements(s) \ {h} PROVE x \in Elements(t)
  <2>1. PICK j \in 1 .. Len(s) : x = s[j]
    BY DEF Elements
  <2>2. j - 1 \in 1 .. Len(t) /\ t[j - 1] = x
    BY <1>1, <1>4, <2>1
  <2> QED BY <2>2 DEF Elements
<1>5. Elements(t) = Elements(s) \ {h}
  BY <1>3, <1>4
<1>6. Injective(Append(t, h))
  <2>1. h \notin Elements(t)
    BY <1>5
  <2> QED BY <1>1, <1>2, <2>1, AppendElements
<1> QED BY <1>1, <1>2, <1>5, <1>6 DEF t, h

\* Taking the head off a list changes no order.
LEMMA TailOrder ==
  ASSUME NEW S, NEW r \in Seq(S), NEW s \in Seq(S), r # <<>>, SameOrder(r, s)
  PROVE  SameOrder(Tail(r), s)
<1>1. /\ Len(Tail(r)) = Len(r) - 1 /\ Len(r) \in Nat \ {0}
      /\ \A j \in 1 .. Len(Tail(r)) : Tail(r)[j] = r[j + 1]
  BY HeadTailProperties
<1> SUFFICES ASSUME NEW i \in 1 .. Len(Tail(r)), NEW j \in 1 .. Len(Tail(r)),
                    NEW k \in 1 .. Len(s), NEW l \in 1 .. Len(s),
                    Tail(r)[i] = s[k], Tail(r)[j] = s[l], i < j
             PROVE  k < l
  BY DEF SameOrder
<1>2. /\ i + 1 \in 1 .. Len(r) /\ j + 1 \in 1 .. Len(r) /\ i + 1 < j + 1
      /\ r[i + 1] = s[k] /\ r[j + 1] = s[l]
  BY <1>1
<1> QED BY <1>2 DEF SameOrder

\* A transfer moved from the head of the list to its tail and submitted to
\* libusb at the same time is last in both.
LEMMA RotateOrder ==
  ASSUME NEW S, NEW r \in Seq(S), NEW s \in Seq(S), r # <<>>, SameOrder(r, s),
         Injective(r), Head(r) \notin Elements(s)
  PROVE  SameOrder(Append(Tail(r), Head(r)), Append(s, Head(r)))
<1> DEFINE x == Head(r)
           t == Tail(r)
           r2 == Append(t, x)
           s2 == Append(s, x)
<1>1. /\ t \in Seq(S) /\ x \in S /\ Len(t) = Len(r) - 1 /\ Len(r) \in Nat \ {0}
      /\ x = r[1]
      /\ \A j \in 1 .. Len(t) : t[j] = r[j + 1]
  BY HeadTailProperties
<1>2. Injective(r2)
  BY TailProperties
<1> HIDE DEF t, x
<1>3. /\ Len(r2) = Len(t) + 1 /\ Len(s2) = Len(s) + 1 /\ Len(s) \in Nat
      /\ \A j \in 1 .. Len(t) : r2[j] = t[j]
      /\ \A j \in 1 .. Len(s) : s2[j] = s[j]
      /\ r2[Len(t) + 1] = x /\ s2[Len(s) + 1] = x
  BY <1>1, AppendProperties
<1> HIDE DEF r2, s2
<1>4. \A k \in 1 .. Len(s) : s[k] # x
  BY DEF Elements, x
<1> SUFFICES ASSUME NEW i \in 1 .. Len(r2), NEW j \in 1 .. Len(r2),
                    NEW k \in 1 .. Len(s2), NEW l \in 1 .. Len(s2),
                    r2[i] = s2[k], r2[j] = s2[l], i < j
             PROVE  k < l
  BY DEF SameOrder, r2, s2, t, x
<1>5. /\ i \in 1 .. Len(t) /\ i + 1 \in 1 .. Len(r) /\ i # Len(r2)
      /\ r2[i] = r[i + 1] /\ Len(r2) \in 1 .. Len(r2)
  BY <1>1, <1>3
<1>6. k \in 1 .. Len(s) /\ s2[k] = s[k]
  <2>1. r2[i] # x
    BY <1>2, <1>3, <1>5 DEF Injective
  <2> QED BY <1>3, <2>1
<1>7. CASE l = Len(s2)
  BY <1>3, <1>6, <1>7
<1>8. CASE l # Len(s2)
  <2>1. l \in 1 .. Len(s) /\ s2[l] = s[l]
    BY <1>3, <1>8
  <2>2. r2[j] # x
    BY <1>4, <2>1
  <2>3. j \in 1 .. Len(t) /\ j + 1 \in 1 .. Len(r) /\ r2[j] = r[j + 1] /\ i + 1 < j + 1
    BY <1>1, <1>3, <2>2
  <2> QED BY <1>5, <1>6, <2>1, <2>3 DEF SameOrder
<1> QED BY <1>7, <1>8

\* A completion, wherever in libusb's queue, changes no order.
LEMMA WithoutOrder ==
  ASSUME NEW S, NEW r \in Seq(S), NEW s \in Seq(S), NEW n \in 1 .. Len(s), SameOrder(r, s)
  PROVE  SameOrder(r, Without(s, n))
<1> DEFINE w == Without(s, n)
           at == [k \in 1 .. Len(s) - 1 |-> IF k < n THEN k ELSE k + 1]
<1>1. /\ w \in Seq(S) /\ Len(w) = Len(s) - 1 /\ Len(s) \in Nat
      /\ \A k \in 1 .. Len(s) - 1 : at[k] \in 1 .. Len(s) /\ w[k] = s[at[k]]
  BY DEF Without
<1>2. \A k, l \in 1 .. Len(s) - 1 : at[k] < at[l] => k < l
  BY <1>1
<1> HIDE DEF w, at
<1> SUFFICES ASSUME NEW i \in 1 .. Len(r), NEW j \in 1 .. Len(r),
                    NEW k \in 1 .. Len(w), NEW l \in 1 .. Len(w),
                    r[i] = w[k], r[j] = w[l], i < j
             PROVE  k < l
  BY DEF SameOrder, w
<1>3. at[k] < at[l]
  BY <1>1 DEF SameOrder
<1> QED BY <1>1, <1>2, <1>3

-----------------------------------------------------------------------------
(* Type correctness.                                                       *)

USE DEF Transfers, NoTransfer, States, PCs, Locked, Waiting, Cancelled

\* A freshly opened device is well typed.
LEMMA InitTypeOK == Init => TypeOK
<1>1. <<>> \in Seq(1 .. N)
  BY EmptySeq
<1>2. NoThread \in Threads \cup {NoThread}
  OBVIOUS
<1> SUFFICES ASSUME Init PROVE TypeOK
  OBVIOUS
<1>3. active \in Seq(1 .. N) /\ urbs \in Seq(1 .. N)
  BY <1>1 DEF Init
<1>4. state \in [1 .. N -> States] /\ status \in [1 .. N -> {"COMPLETED", "FAILED"}]
  BY DEF Init
<1>5. pc \in [Threads -> PCs] /\ error \in [Threads -> {"SUCCESS", "ERROR"}]
  BY DEF Init
<1>6. completion_flag \in 0 .. 1 /\ calling \in (1 .. N) \cup {0}
  BY DEF Init
<1> QED BY <1>2, <1>3, <1>4, <1>5, <1>6 DEF Init, TypeOK

\* Every step of every thread and of libusb keeps the types.
LEMMA NextTypeOK == TypeOK /\ [Next]_vars => TypeOK'
<1> SUFFICES ASSUME TypeOK, [Next]_vars PROVE TypeOK'
  OBVIOUS
<1> USE DEF TypeOK, Goto, Fail, Done, devVars, usbVars, handleVars
<1>1. CASE UNCHANGED vars
  BY <1>1 DEF vars
<1>2. ASSUME NEW t \in Threads, StreamData(t) PROVE TypeOK'
  <2>1. CASE StartFailsEarly(t)
    BY <2>1 DEF StartFailsEarly, Enter, AllFreed
  <2>2. CASE StartFailsLate(t)
    BY <2>2 DEF StartFailsLate, Enter, AllFreed
  <2>3. CASE Start(t)
    BY <2>3 DEF Start, Enter
  <2>4. CASE SubmitTransfers(t)
    <3>0. (IF "submit" \in Faults THEN 0 .. N ELSE {N}) \subseteq 0 .. N
      BY StreamAssumption
    <3>1. PICK n \in 0 .. N :
            /\ state' = [x \in 1 .. N |-> IF x <= n THEN "BUSY" ELSE state[x]]
            /\ active' = active \o [i \in 1 .. n |-> i]
            /\ urbs' = urbs \o [i \in 1 .. n |-> i]
      BY <2>4, <3>0 DEF SubmitTransfers
    <3>2. [i \in 1 .. n |-> i] \in Seq(1 .. N)
      BY <3>1, StreamAssumption
    <3>3. active' \in Seq(1 .. N) /\ urbs' \in Seq(1 .. N)
      BY <3>1, <3>2, ConcatProperties
    <3>4. state' \in [1 .. N -> States]
      BY <3>1
    <3> QED BY <2>4, <3>3, <3>4 DEF SubmitTransfers
  <2>5. CASE ResetFlag(t)
    BY <2>5 DEF ResetFlag
  <2>6. CASE SeeDraining(t)
    BY <2>6 DEF SeeDraining
  <2>7. CASE AwaitHead(t)
    BY <2>7 DEF AwaitHead
  <2>8. CASE HeadFails(t)
    BY <2>8 DEF HeadFails
  <2>9. CASE BeginDispatch(t) \/ BeginCallback(t) \/ EndCallback(t)
    BY <2>9 DEF BeginDispatch, BeginCallback, EndCallback
  <2>10. CASE StopFromCallback(t)
    BY <2>10 DEF StopFromCallback, RequestStop
  <2>11. CASE DispatchFails(t)
    BY <2>11 DEF DispatchFails
  <2>12. CASE Resubmit(t)
    <3>1. /\ Tail(active) \in Seq(1 .. N) /\ Head(active) \in 1 .. N
          /\ Append(Tail(active), Head(active)) \in Seq(1 .. N)
      BY <2>12, RotateElements DEF Resubmit
    <3>2. Append(urbs, Head(active)) \in Seq(1 .. N)
      BY <3>1, AppendElements
    <3> QED BY <2>12, <3>1, <3>2 DEF Resubmit
  <2>13. CASE Wake(t)
    BY <2>13 DEF Wake
  <2>14. CASE BeginDrain(t)
    BY <2>14 DEF BeginDrain
  <2>15. CASE DrainResetFlag(t)
    BY <2>15 DEF DrainResetFlag
  <2>16. CASE AwaitDrain(t)
    BY <2>16 DEF AwaitDrain
  <2>17. CASE DrainWake(t)
    BY <2>17 DEF DrainWake
  <2>18. CASE DrainFails(t)
    BY <2>18 DEF DrainFails
  <2>19. CASE Finish(t)
    BY <2>19, EmptySeq DEF Finish, AllFreed
  <2> QED
    BY <1>2, <2>1, <2>2, <2>3, <2>4, <2>5, <2>6, <2>7, <2>8, <2>9, <2>10, <2>11, <2>12,
       <2>13, <2>14, <2>15, <2>16, <2>17, <2>18, <2>19 DEF StreamData
<1>3. ASSUME NEW t \in Threads, Stop(t) PROVE TypeOK'
  BY <1>3 DEF Stop, RequestStop
<1>4. ASSUME NEW t \in Threads, Close(t) PROVE TypeOK'
  BY <1>4 DEF Close
<1>5. CASE Reopen
  <2>1. <<>> \in Seq(1 .. N)
    BY EmptySeq
  <2>2. active' \in Seq(1 .. N) /\ urbs' \in Seq(1 .. N)
    BY <1>5, <2>1 DEF Reopen
  <2>3. state' \in [1 .. N -> States]
    BY <1>5 DEF Reopen, AllFreed
  <2>4. completion_flag' = 0
    BY <1>5 DEF Reopen
  <2>5. open' \in BOOLEAN /\ dsp' \in BOOLEAN
    BY <1>5, Zenon DEF Reopen
  <2>6. UNCHANGED <<streaming, draining, status, calling, adc, mutex, pc, error>>
    BY <1>5 DEF Reopen
  <2> QED BY <2>2, <2>3, <2>4, <2>5, <2>6
<1>6. CASE MarkCompleted
  <2>1. PICK i \in 1 .. Len(urbs) : \E s \in Outcome(i) :
          /\ urbs' = Without(urbs, i)
          /\ status' = [status EXCEPT ![urbs[i]] = s]
          /\ state' = [state EXCEPT ![urbs[i]] = "COMPLETED"]
          /\ calling' = urbs[i]
    BY <1>6 DEF MarkCompleted
  <2>2. urbs[i] \in 1 .. N /\ Without(urbs, i) \in Seq(1 .. N)
    <3>1. urbs \in Seq(1 .. N)
      OBVIOUS
    <3>2. urbs[i] \in 1 .. N
      BY <3>1, StreamAssumption
    <3> QED BY <3>1, <3>2, WithoutType
  <2>3. Outcome(i) \subseteq {"COMPLETED", "FAILED"}
    BY DEF Outcome
  <2> QED BY <1>6, <2>1, <2>2, <2>3 DEF MarkCompleted
<1>7. CASE RaiseFlag
  BY <1>7 DEF RaiseFlag
<1> QED BY <1>1, <1>2, <1>3, <1>4, <1>5, <1>6, <1>7 DEF Next

\* Every variable keeps its type, whatever fails: among others, completion_flag
\* is a flag and the lists only hold transfers of the device.
THEOREM TypeCorrect == Spec => []TypeOK
<1>1. Init => TypeOK
  BY InitTypeOK
<1>2. TypeOK /\ [Next]_vars => TypeOK'
  BY NextTypeOK
<1> QED BY <1>1, <1>2, PTL DEF Spec

-----------------------------------------------------------------------------
(* Every way out releases everything that can lock the device.             *)

\* A step of pg2sdr_stream_data either leaves by "done", which clears the
\* flags, or stays inside.
LEMMA LeavesClear ==
  ASSUME TypeOK, NEW t \in Threads, StreamData(t)
  PROVE  Done(t) \/ (pc[t] # "out" /\ UNCHANGED pc) \/ pc'[t] # "out"
<1> USE DEF TypeOK, Goto
<1>1. CASE StartFailsEarly(t) \/ StartFailsLate(t) \/ Start(t) \/ SubmitTransfers(t)
  BY <1>1 DEF StartFailsEarly, StartFailsLate, Start, SubmitTransfers
<1>2. CASE ResetFlag(t) \/ SeeDraining(t) \/ AwaitHead(t) \/ HeadFails(t) \/ BeginDispatch(t)
             \/ BeginCallback(t) \/ EndCallback(t)
  BY <1>2 DEF ResetFlag, SeeDraining, AwaitHead, HeadFails, BeginDispatch, BeginCallback, EndCallback
<1>3. CASE StopFromCallback(t) \/ DispatchFails(t) \/ Resubmit(t) \/ Wake(t) \/ BeginDrain(t)
  BY <1>3 DEF StopFromCallback, RequestStop, DispatchFails, Resubmit, Wake, BeginDrain
<1>4. CASE DrainResetFlag(t) \/ AwaitDrain(t) \/ DrainWake(t) \/ DrainFails(t) \/ Finish(t)
  BY <1>4 DEF DrainResetFlag, AwaitDrain, DrainWake, DrainFails, Finish
<1> QED BY <1>1, <1>2, <1>3, <1>4 DEF StreamData

\* A step that leaves nobody inside clears the flags and the mutex.
LEMMA NextNeverWedged ==
  ASSUME TypeOK, NeverWedged, [Next]_vars
  PROVE  NeverWedged'
<1> USE DEF NeverWedged, InStreamData
<1>1. CASE UNCHANGED vars
  BY <1>1 DEF vars, devVars
<1>2. ASSUME NEW t \in Threads, StreamData(t) PROVE NeverWedged'
  <2>1. CASE Done(t)
    BY <2>1 DEF Done
  <2>2. CASE (pc[t] # "out" /\ UNCHANGED pc) \/ pc'[t] # "out"
    BY <2>2
  <2> QED BY <1>2, <2>1, <2>2, LeavesClear
<1>3. ASSUME NEW t \in Threads, Stop(t) PROVE NeverWedged'
  BY <1>3 DEF Stop, RequestStop
<1>4. ASSUME NEW t \in Threads, Close(t) PROVE NeverWedged'
  BY <1>4 DEF Close, devVars
<1>5. CASE Reopen
  BY <1>5 DEF Reopen
<1>6. CASE MarkCompleted \/ RaiseFlag
  BY <1>6 DEF MarkCompleted, RaiseFlag, devVars
<1> QED BY <1>1, <1>2, <1>3, <1>4, <1>5, <1>6 DEF Next

\* Whatever libusb does wrong, and even if calls overlap after that, the device
\* is not left locked, streaming or draining when the last call has returned.
THEOREM NeverWedgedHolds == Spec => []NeverWedged
<1>1. Init => TypeOK /\ NeverWedged
  BY InitTypeOK DEF Init, NeverWedged
<1>2. TypeOK /\ NeverWedged /\ [Next]_vars => (TypeOK /\ NeverWedged)'
  BY NextTypeOK, NextNeverWedged
<1> QED BY <1>1, <1>2, PTL DEF Spec

-----------------------------------------------------------------------------
(* One call at a time.                                                     *)

\* Why a second call cannot get in while the first waits with the mutex
\* released: "streaming" is set by then.
Exclusion == MutexHeldWhereLocked /\ StreamingSet /\ ExclusiveUse

\* A call that gets past the check finds nobody else inside.
LEMMA EnterAlone ==
  ASSUME TypeOK, Exclusion, mutex = NoThread, ~streaming
  PROVE  \A u \in Threads : pc[u] = "out"
BY StreamAssumption DEF Exclusion, MutexHeldWhereLocked, StreamingSet, TypeOK

\* A step lets nobody in beside the call that waits for events.
LEMMA NextExclusion ==
  ASSUME "submit" \notin Faults, TypeOK, Exclusion, [Next]_vars
  PROVE  Exclusion'
<1> USE DEF Exclusion, MutexHeldWhereLocked, StreamingSet, ExclusiveUse, InStreamData,
            Goto, Done, devVars, usbVars, handleVars
<1>0. /\ pc \in [Threads -> PCs] /\ NoThread \notin Threads
      /\ \A u \in Threads : pc[u] # "out" /\ mutex = NoThread => streaming
  BY StreamAssumption DEF TypeOK
<1>1. CASE UNCHANGED vars
  BY <1>1 DEF vars
<1>2. ASSUME NEW t \in Threads, StreamData(t) PROVE Exclusion'
  <2>1. CASE StartFailsEarly(t)
    BY <1>0, <2>1 DEF StartFailsEarly, Enter
  <2>2. CASE StartFailsLate(t)
    BY <1>0, <2>2 DEF StartFailsLate, Enter
  <2>3. CASE Start(t)
    BY <1>0, <2>3 DEF Start, Enter
  <2>4. CASE SubmitTransfers(t)
    <3>1. /\ pc[t] = "submit" /\ pc' = [pc EXCEPT ![t] = "loop"] /\ streaming'
          /\ mutex' = mutex /\ open' = open
      BY <2>4, StreamAssumption DEF SubmitTransfers
    <3> QED BY <1>0, <3>1
  <2>5. CASE ResetFlag(t)
    BY <1>0, <2>5 DEF ResetFlag
  <2>6. CASE SeeDraining(t)
    BY <1>0, <2>6 DEF SeeDraining
  <2>7. CASE AwaitHead(t)
    BY <1>0, <2>7 DEF AwaitHead
  <2>8. CASE HeadFails(t)
    BY <1>0, <2>8 DEF HeadFails
  <2>9. CASE BeginDispatch(t) \/ BeginCallback(t) \/ EndCallback(t)
    BY <1>0, <2>9 DEF BeginDispatch, BeginCallback, EndCallback
  <2>10. CASE StopFromCallback(t)
    BY <1>0, <2>10 DEF StopFromCallback, RequestStop
  <2>11. CASE DispatchFails(t)
    BY <1>0, <2>11 DEF DispatchFails
  <2>12. CASE Resubmit(t)
    BY <1>0, <2>12 DEF Resubmit
  <2>13. CASE Wake(t)
    BY <1>0, <2>13 DEF Wake
  <2>14. CASE BeginDrain(t)
    BY <1>0, <2>14 DEF BeginDrain
  <2>15. CASE DrainResetFlag(t)
    BY <1>0, <2>15 DEF DrainResetFlag
  <2>16. CASE AwaitDrain(t)
    BY <1>0, <2>16 DEF AwaitDrain
  <2>17. CASE DrainWake(t)
    BY <1>0, <2>17 DEF DrainWake
  <2>18. CASE DrainFails(t)
    BY <1>0, <2>18 DEF DrainFails
  <2>19. CASE Finish(t)
    BY <1>0, <2>19 DEF Finish
  <2> QED
    BY <1>2, <2>1, <2>2, <2>3, <2>4, <2>5, <2>6, <2>7, <2>8, <2>9, <2>10, <2>11,
       <2>12, <2>13, <2>14, <2>15, <2>16, <2>17, <2>18, <2>19 DEF StreamData
<1>3. ASSUME NEW t \in Threads, Stop(t) PROVE Exclusion'
  BY <1>0, <1>3 DEF Stop, RequestStop
<1>4. ASSUME NEW t \in Threads, Close(t) PROVE Exclusion'
  BY <1>0, <1>4 DEF Close
<1>5. CASE Reopen
  BY <1>0, <1>5 DEF Reopen
<1>6. CASE MarkCompleted
  BY <1>0, <1>6 DEF MarkCompleted
<1>7. CASE RaiseFlag
  BY <1>0, <1>7 DEF RaiseFlag
<1> QED BY <1>1, <1>2, <1>3, <1>4, <1>5, <1>6, <1>7 DEF Next

\* One call of pg2sdr_stream_data at a time, and no close under it, however
\* many threads try and whatever fails, except the submission of the initial
\* batch, after which the call drains with "streaming" clear.
THEOREM ExclusiveUseHolds ==
  ASSUME "submit" \notin Faults
  PROVE  Spec => []ExclusiveUse
<1>1. Init => TypeOK /\ Exclusion
  BY InitTypeOK, StreamAssumption
  DEF Init, Exclusion, MutexHeldWhereLocked, StreamingSet, ExclusiveUse, InStreamData
<1>2. TypeOK /\ Exclusion /\ [Next]_vars => (TypeOK /\ Exclusion)'
  BY NextTypeOK, NextExclusion
<1>3. Exclusion => ExclusiveUse
  BY DEF Exclusion
<1> QED BY <1>1, <1>2, <1>3, PTL DEF Spec

-----------------------------------------------------------------------------
(* Transfers, the active list, wake-ups and cleaning up, when only the     *)
(* contained faults happen.                                                *)

Ownership ==
  /\ Injective(urbs)
  /\ BusyIffOwned
  /\ \A t \in Threads : pc[t] = "submit" => urbs = <<>>

Listing ==
  /\ HeadExists
  /\ \A t \in Threads :
       /\ pc[t] = "submit" => active = <<>>
       /\ pc[t] \in {"dispatch", "callback"} => HeadIs("COMPLETED")

Cleaning ==
  /\ CleanWhenIdle
  /\ \A t \in Threads : pc[t] \in Cancelled => ~adc

\* The inductive invariant. Each part needs the others: that a transfer may be
\* appended to urbs needs the head being dispatched to be completed; that the
\* batch is all there is needs a clean start; that a clean end is reached needs
\* the states to tell who owns the memory.
IInv == TypeOK /\ Exclusion /\ Ownership /\ Listing /\ NoLostWakeup /\ Cleaning

\* A sequence without elements is empty.
LEMMA NoElements ==
  ASSUME NEW S, NEW s \in Seq(S), Elements(s) = {}
  PROVE  s = <<>>
BY DEF Elements

\* When nobody is inside, everything is clean.
LEMMA IdleIsClean ==
  ASSUME IInv, \A u \in Threads : pc[u] = "out"
  PROVE  /\ active = <<>> /\ urbs = <<>> /\ state = AllFreed
         /\ ~streaming /\ ~draining /\ ~dsp /\ ~adc
BY DEF IInv, Cleaning, CleanWhenIdle, InStreamData

\* What the steps of one thread rely on: it is alone.
LEMMA Alone ==
  ASSUME IInv, NEW t \in Threads, pc[t] # "out"
  PROVE  \A u \in Threads : u # t => pc[u] = "out"
BY DEF IInv, Exclusion, ExclusiveUse, InStreamData

\* A step keeps the wake-up protocol intact.
LEMMA NextWakeup ==
  ASSUME Faults \subseteq Contained, IInv, [Next]_vars
  PROVE  NoLostWakeup'
<1> USE DEF NoLostWakeup, HeadIs, AnyBusy, Goto, Done, devVars, usbVars, handleVars
<1>0. pc \in [Threads -> PCs]
  BY DEF IInv, TypeOK
<1>1. CASE UNCHANGED vars
  BY <1>1 DEF vars, IInv
<1>2. ASSUME NEW t \in Threads, StreamData(t) PROVE NoLostWakeup'
  <2>0. /\ pc[t] # "out" => \A u \in Threads : u # t => pc[u] = "out"
        /\ Enter(t) => \A u \in Threads : pc[u] = "out"
    BY Alone, EnterAlone DEF IInv, Enter
  <2>1. CASE StartFailsEarly(t)
    BY <1>0, <2>0, <2>1, IdleIsClean DEF IInv, StartFailsEarly
  <2>2. CASE StartFailsLate(t)
    BY <1>0, <2>0, <2>2, IdleIsClean DEF IInv, StartFailsLate
  <2>3. CASE Start(t)
    BY <1>0, <2>0, <2>3, IdleIsClean DEF IInv, Start
  <2>4. CASE SubmitTransfers(t)
    BY <1>0, <2>0, <2>4 DEF IInv, SubmitTransfers
  <2>5. CASE ResetFlag(t)
    BY <1>0, <2>0, <2>5 DEF IInv, ResetFlag
  <2>6. CASE SeeDraining(t)
    BY <1>0, <2>0, <2>6 DEF IInv, SeeDraining
  <2>7. CASE AwaitHead(t)
    BY <1>0, <2>0, <2>7 DEF IInv, AwaitHead
  <2>8. CASE HeadFails(t)
    BY <1>0, <2>0, <2>8 DEF IInv, HeadFails
  <2>9. CASE BeginDispatch(t) \/ BeginCallback(t) \/ EndCallback(t)
    BY <1>0, <2>0, <2>9 DEF IInv, BeginDispatch, BeginCallback, EndCallback
  <2>10. CASE StopFromCallback(t)
    BY <1>0, <2>0, <2>10 DEF IInv, StopFromCallback, RequestStop
  <2>11. CASE DispatchFails(t)
    BY <1>0, <2>0, <2>11 DEF IInv, DispatchFails
  <2>12. CASE Resubmit(t)
    BY <1>0, <2>0, <2>12 DEF IInv, Resubmit
  <2>13. CASE Wake(t)
    BY <1>0, <2>0, <2>13 DEF IInv, Wake
  <2>14. CASE BeginDrain(t)
    BY <1>0, <2>0, <2>14 DEF IInv, BeginDrain
  <2>15. CASE DrainResetFlag(t)
    BY <1>0, <2>0, <2>15 DEF IInv, DrainResetFlag
  <2>16. CASE AwaitDrain(t)
    BY <1>0, <2>0, <2>16 DEF IInv, AwaitDrain
  <2>17. CASE DrainWake(t)
    BY <1>0, <2>0, <2>17 DEF IInv, DrainWake
  <2>18. CASE DrainFails(t)
    BY <1>0, <2>0, <2>18 DEF IInv, DrainFails
  <2>19. CASE Finish(t)
    BY <1>0, <2>0, <2>19 DEF IInv, Finish
  <2> QED
    BY <1>2, <2>1, <2>2, <2>3, <2>4, <2>5, <2>6, <2>7, <2>8, <2>9, <2>10, <2>11,
       <2>12, <2>13, <2>14, <2>15, <2>16, <2>17, <2>18, <2>19 DEF StreamData
<1>3. ASSUME NEW t \in Threads, Stop(t) PROVE NoLostWakeup'
  BY <1>0, <1>3 DEF IInv, Stop, RequestStop
<1>4. ASSUME NEW t \in Threads, Close(t) PROVE NoLostWakeup'
  BY <1>0, <1>4 DEF IInv, Close
<1>5. CASE Reopen
  BY <1>0, <1>5, IdleIsClean DEF IInv, Reopen
<1>6. CASE MarkCompleted
  <2>1. PICK i \in 1 .. Len(urbs) :
          /\ urbs' = Without(urbs, i)
          /\ state' = [state EXCEPT ![urbs[i]] = "COMPLETED"]
          /\ calling' = urbs[i]
    BY <1>6 DEF MarkCompleted
  <2>2. urbs \in Seq(1 .. N) /\ urbs[i] \in 1 .. N
    BY StreamAssumption DEF IInv, TypeOK
  <2> QED BY <2>1, <2>2, StreamAssumption
<1>7. CASE RaiseFlag
  BY <1>0, <1>7 DEF IInv, RaiseFlag
<1> QED BY <1>1, <1>2, <1>3, <1>4, <1>5, <1>6, <1>7 DEF Next

\* A step out of pg2sdr_stream_data leaves nothing behind.
LEMMA NextCleaning ==
  ASSUME Faults \subseteq Contained, IInv, [Next]_vars
  PROVE  Cleaning'
<1> USE DEF Cleaning, CleanWhenIdle, InStreamData, Contained, Goto, Done, devVars, usbVars, handleVars
<1>0. pc \in [Threads -> PCs]
  BY DEF IInv, TypeOK
<1>1. CASE UNCHANGED vars
  BY <1>1 DEF vars, IInv
<1>2. ASSUME NEW t \in Threads, StreamData(t) PROVE Cleaning'
  <2>0. /\ pc[t] # "out" => \A u \in Threads : u # t => pc[u] = "out"
        /\ Enter(t) => \A u \in Threads : pc[u] = "out"
    BY Alone, EnterAlone DEF IInv, Enter
  <2>1. CASE StartFailsEarly(t)
    BY <1>0, <2>0, <2>1, IdleIsClean DEF IInv, StartFailsEarly
  <2>2. CASE StartFailsLate(t)
    BY <1>0, <2>0, <2>2, IdleIsClean DEF IInv, StartFailsLate
  <2>3. CASE Start(t)
    BY <1>0, <2>0, <2>3, IdleIsClean DEF IInv, Start
  <2>4. CASE SubmitTransfers(t)
    BY <1>0, <2>0, <2>4 DEF IInv, SubmitTransfers
  <2>5. CASE ResetFlag(t)
    BY <1>0, <2>0, <2>5 DEF IInv, ResetFlag
  <2>6. CASE SeeDraining(t)
    BY <1>0, <2>0, <2>6 DEF IInv, SeeDraining
  <2>7. CASE AwaitHead(t)
    BY <1>0, <2>0, <2>7 DEF IInv, AwaitHead
  <2>8. CASE HeadFails(t)
    BY <1>0, <2>0, <2>8 DEF IInv, HeadFails
  <2>9. CASE BeginDispatch(t) \/ BeginCallback(t) \/ EndCallback(t)
    BY <1>0, <2>0, <2>9 DEF IInv, BeginDispatch, BeginCallback, EndCallback
  <2>10. CASE StopFromCallback(t)
    BY <1>0, <2>0, <2>10 DEF IInv, StopFromCallback, RequestStop
  <2>11. CASE DispatchFails(t)
    BY <1>0, <2>0, <2>11 DEF IInv, DispatchFails
  <2>12. CASE Resubmit(t)
    BY <1>0, <2>0, <2>12 DEF IInv, Resubmit
  <2>13. CASE Wake(t)
    BY <1>0, <2>0, <2>13 DEF IInv, Wake
  <2>14. CASE BeginDrain(t)
    BY <1>0, <2>0, <2>14 DEF IInv, BeginDrain
  <2>15. CASE DrainResetFlag(t)
    BY <1>0, <2>0, <2>15 DEF IInv, DrainResetFlag
  <2>16. CASE AwaitDrain(t)
    BY <1>0, <2>0, <2>16 DEF IInv, AwaitDrain
  <2>17. CASE DrainWake(t)
    BY <1>0, <2>0, <2>17 DEF IInv, DrainWake
  <2>18. CASE DrainFails(t)
    BY <1>0, <2>0, <2>18 DEF IInv, DrainFails
  <2>19. CASE Finish(t)
    <3>1. Elements(urbs) = {}
      <4>1. urbs \in Seq(1 .. N)
        BY DEF IInv, TypeOK
      <4>2. Elements(urbs) \subseteq 1 .. N
        BY <4>1, StreamAssumption DEF Elements
      <4> QED BY <4>2, <2>19 DEF Finish, AnyBusy, IInv, Ownership, BusyIffOwned, Owned
    <3>2. urbs = <<>>
      BY <3>1, NoElements DEF IInv, TypeOK
    <3> QED BY <1>0, <2>0, <3>2, <2>19 DEF IInv, Finish
  <2> QED
    BY <1>2, <2>1, <2>2, <2>3, <2>4, <2>5, <2>6, <2>7, <2>8, <2>9, <2>10, <2>11,
       <2>12, <2>13, <2>14, <2>15, <2>16, <2>17, <2>18, <2>19 DEF StreamData
<1>3. ASSUME NEW t \in Threads, Stop(t) PROVE Cleaning'
  BY <1>0, <1>3 DEF IInv, Stop, RequestStop
<1>4. ASSUME NEW t \in Threads, Close(t) PROVE Cleaning'
  BY <1>0, <1>4 DEF IInv, Close
<1>5. CASE Reopen
  BY <1>0, <1>5, IdleIsClean DEF IInv, Reopen
<1>6. CASE MarkCompleted
  BY <1>0, <1>6 DEF IInv, MarkCompleted
<1>7. CASE RaiseFlag
  BY <1>0, <1>7 DEF IInv, RaiseFlag
<1> QED BY <1>1, <1>2, <1>3, <1>4, <1>5, <1>6, <1>7 DEF Next

\* A step keeps the active list complete while the main loop runs.
LEMMA NextListing ==
  ASSUME Faults \subseteq Contained, IInv, [Next]_vars
  PROVE  Listing'
<1> USE DEF Listing, HeadExists, HeadIs, Linked, Contained, Goto, Done, devVars, usbVars, handleVars
<1>0. pc \in [Threads -> PCs]
  BY DEF IInv, TypeOK
<1>1. CASE UNCHANGED vars
  BY <1>1 DEF vars, IInv
<1>2. ASSUME NEW t \in Threads, StreamData(t) PROVE Listing'
  <2>0. /\ pc[t] # "out" => \A u \in Threads : u # t => pc[u] = "out"
        /\ Enter(t) => \A u \in Threads : pc[u] = "out"
    BY Alone, EnterAlone DEF IInv, Enter
  <2>1. CASE StartFailsEarly(t)
    BY <1>0, <2>0, <2>1, IdleIsClean DEF IInv, StartFailsEarly
  <2>2. CASE StartFailsLate(t)
    BY <1>0, <2>0, <2>2, IdleIsClean DEF IInv, StartFailsLate
  <2>3. CASE Start(t)
    BY <1>0, <2>0, <2>3, IdleIsClean DEF IInv, Start
  <2>4. CASE SubmitTransfers(t)
    <3>0. "submit" \notin Faults /\ active = <<>>
      BY <2>4 DEF SubmitTransfers, IInv
    <3>1. active' = <<>> \o [i \in 1 .. N |-> i] /\ pc' = [pc EXCEPT ![t] = "loop"]
      BY <2>4, <3>0, StreamAssumption DEF SubmitTransfers
    <3>2. Elements(active') = 1 .. N
      BY <3>1, BatchElements, StreamAssumption
    <3> QED BY <1>0, <2>0, <3>1, <3>2, <2>4 DEF SubmitTransfers
  <2>5. CASE ResetFlag(t)
    BY <1>0, <2>0, <2>5 DEF IInv, ResetFlag
  <2>6. CASE SeeDraining(t)
    BY <1>0, <2>0, <2>6 DEF IInv, SeeDraining
  <2>7. CASE AwaitHead(t)
    BY <1>0, <2>0, <2>7 DEF IInv, AwaitHead
  <2>8. CASE HeadFails(t)
    BY <1>0, <2>0, <2>8 DEF IInv, HeadFails
  <2>9. CASE BeginDispatch(t)
    <3>1. pc[t] = "check" /\ active # <<>> /\ state[Head(active)] = "COMPLETED"
      BY <2>9 DEF BeginDispatch, HeadHasData
    <3> QED BY <1>0, <2>0, <3>1, <2>9 DEF IInv, BeginDispatch
  <2>9a. CASE BeginCallback(t) \/ EndCallback(t)
    BY <1>0, <2>0, <2>9a DEF IInv, BeginCallback, EndCallback
  <2>10. CASE StopFromCallback(t)
    BY <1>0, <2>0, <2>10 DEF IInv, StopFromCallback, RequestStop
  <2>11. CASE DispatchFails(t)
    BY <1>0, <2>0, <2>11 DEF IInv, DispatchFails
  <2>12. CASE Resubmit(t)
    <3>1. Elements(Append(Tail(active), Head(active))) = Elements(active)
      BY <2>12, RotateElements DEF Resubmit, IInv, TypeOK
    <3>2. \/ active' = Append(Tail(active), Head(active)) /\ pc' = [pc EXCEPT ![t] = "loop"]
          \/ pc' = [pc EXCEPT ![t] = "drain"]
      BY <2>12 DEF Resubmit
    <3>3. pc[t] = "dispatch"
      BY <2>12 DEF Resubmit
    <3> QED BY <1>0, <2>0, <3>1, <3>2, <3>3 DEF IInv
  <2>13. CASE Wake(t)
    BY <1>0, <2>0, <2>13 DEF IInv, Wake
  <2>14. CASE BeginDrain(t)
    BY <1>0, <2>0, <2>14 DEF IInv, BeginDrain
  <2>15. CASE DrainResetFlag(t)
    BY <1>0, <2>0, <2>15 DEF IInv, DrainResetFlag
  <2>16. CASE AwaitDrain(t)
    BY <1>0, <2>0, <2>16 DEF IInv, AwaitDrain
  <2>17. CASE DrainWake(t)
    BY <1>0, <2>0, <2>17 DEF IInv, DrainWake
  <2>18. CASE DrainFails(t)
    BY <1>0, <2>0, <2>18 DEF IInv, DrainFails
  <2>19. CASE Finish(t)
    BY <1>0, <2>0, <2>19 DEF IInv, Finish
  <2> QED
    BY <1>2, <2>1, <2>2, <2>3, <2>4, <2>5, <2>6, <2>7, <2>8, <2>9, <2>9a, <2>10, <2>11,
       <2>12, <2>13, <2>14, <2>15, <2>16, <2>17, <2>18, <2>19 DEF StreamData
<1>3. ASSUME NEW t \in Threads, Stop(t) PROVE Listing'
  BY <1>0, <1>3 DEF IInv, Stop, RequestStop
<1>4. ASSUME NEW t \in Threads, Close(t) PROVE Listing'
  BY <1>0, <1>4 DEF IInv, Close
<1>5. CASE Reopen
  BY <1>0, <1>5, IdleIsClean DEF IInv, Reopen
<1>6. CASE MarkCompleted
  BY <1>0, <1>6 DEF IInv, MarkCompleted
<1>7. CASE RaiseFlag
  BY <1>0, <1>7 DEF IInv, RaiseFlag
<1> QED BY <1>1, <1>2, <1>3, <1>4, <1>5, <1>6, <1>7 DEF Next

\* A step keeps the states in agreement with what libusb owns.
LEMMA NextOwnership ==
  ASSUME Faults \subseteq Contained, IInv, [Next]_vars
  PROVE  Ownership'
<1> USE DEF Ownership, BusyIffOwned, Owned, Contained, Goto, Done, devVars, usbVars, handleVars
<1>0. pc \in [Threads -> PCs]
  BY DEF IInv, TypeOK
<1>1. CASE UNCHANGED vars
  BY <1>1 DEF vars, IInv
<1>2. ASSUME NEW t \in Threads, StreamData(t) PROVE Ownership'
  <2>0. /\ pc[t] # "out" => \A u \in Threads : u # t => pc[u] = "out"
        /\ Enter(t) => \A u \in Threads : pc[u] = "out"
    BY Alone, EnterAlone DEF IInv, Enter
  <2>1. CASE StartFailsEarly(t)
    BY <1>0, <2>0, <2>1, IdleIsClean DEF IInv, StartFailsEarly
  <2>2. CASE StartFailsLate(t)
    BY <1>0, <2>0, <2>2, IdleIsClean DEF IInv, StartFailsLate
  <2>3. CASE Start(t)
    <3>1. urbs = <<>>
      BY <2>0, <2>3, IdleIsClean DEF Start
    <3>2. Elements(urbs) = {}
      BY <3>1 DEF Elements
    <3> QED BY <1>0, <2>0, <3>1, <3>2, <2>3 DEF IInv, Start
  <2>4. CASE SubmitTransfers(t)
    <3>1. /\ urbs' = <<>> \o [i \in 1 .. N |-> i] /\ pc' = [pc EXCEPT ![t] = "loop"]
          /\ \A x \in 1 .. N : state'[x] = "BUSY"
      BY <2>4, StreamAssumption DEF SubmitTransfers, IInv
    <3>2. Elements(urbs') = 1 .. N /\ Injective(urbs')
      BY <3>1, BatchElements, StreamAssumption
    <3> QED BY <1>0, <2>0, <3>1, <3>2, <2>4 DEF SubmitTransfers
  <2>5. CASE ResetFlag(t)
    BY <1>0, <2>0, <2>5 DEF IInv, ResetFlag
  <2>6. CASE SeeDraining(t)
    BY <1>0, <2>0, <2>6 DEF IInv, SeeDraining
  <2>7. CASE AwaitHead(t)
    BY <1>0, <2>0, <2>7 DEF IInv, AwaitHead
  <2>8. CASE HeadFails(t)
    BY <1>0, <2>0, <2>8 DEF IInv, HeadFails
  <2>9. CASE BeginDispatch(t) \/ BeginCallback(t) \/ EndCallback(t)
    BY <1>0, <2>0, <2>9 DEF IInv, BeginDispatch, BeginCallback, EndCallback
  <2>10. CASE StopFromCallback(t)
    BY <1>0, <2>0, <2>10 DEF IInv, StopFromCallback, RequestStop
  <2>11. CASE DispatchFails(t)
    BY <1>0, <2>0, <2>11 DEF IInv, DispatchFails
  <2>12. CASE Resubmit(t)
    <3> DEFINE x == Head(active)
    <3>1. /\ pc[t] = "dispatch" /\ active # <<>> /\ state[x] = "COMPLETED"
      BY <2>12 DEF Resubmit, IInv, Listing, HeadIs
    <3>2. x \in 1 .. N /\ urbs \in Seq(1 .. N) /\ state \in [1 .. N -> States]
      BY <3>1, RotateElements DEF IInv, TypeOK
    <3>3. x \notin Elements(urbs)
      BY <3>1, <3>2 DEF IInv
    <3>4. /\ Elements(Append(urbs, x)) = Elements(urbs) \cup {x}
          /\ Injective(Append(urbs, x))
      BY <3>2, <3>3, AppendElements DEF IInv
    <3>5. CASE urbs' = Append(urbs, x) /\ state' = [state EXCEPT ![x] = "BUSY"] /\ pc' = [pc EXCEPT ![t] = "loop"]
      BY <1>0, <2>0, <3>1, <3>2, <3>4, <3>5 DEF IInv
    <3>6. CASE urbs' = urbs /\ state' = [state EXCEPT ![x] = "IDLE"] /\ pc' = [pc EXCEPT ![t] = "drain"]
      BY <1>0, <2>0, <3>1, <3>2, <3>3, <3>6 DEF IInv
    <3> QED BY <2>12, <3>5, <3>6 DEF Resubmit
  <2>13. CASE Wake(t)
    BY <1>0, <2>0, <2>13 DEF IInv, Wake
  <2>14. CASE BeginDrain(t)
    BY <1>0, <2>0, <2>14 DEF IInv, BeginDrain
  <2>15. CASE DrainResetFlag(t)
    BY <1>0, <2>0, <2>15 DEF IInv, DrainResetFlag
  <2>16. CASE AwaitDrain(t)
    BY <1>0, <2>0, <2>16 DEF IInv, AwaitDrain
  <2>17. CASE DrainWake(t)
    BY <1>0, <2>0, <2>17 DEF IInv, DrainWake
  <2>18. CASE DrainFails(t)
    BY <1>0, <2>0, <2>18 DEF IInv, DrainFails
  <2>19. CASE Finish(t)
    <3>1. \A x \in 1 .. N : state[x] # "BUSY" /\ state'[x] = "FREED"
      BY <2>19 DEF Finish, AnyBusy, AllFreed
    <3> QED BY <1>0, <2>0, <3>1, <2>19 DEF IInv, Finish
  <2> QED
    BY <1>2, <2>1, <2>2, <2>3, <2>4, <2>5, <2>6, <2>7, <2>8, <2>9, <2>10, <2>11,
       <2>12, <2>13, <2>14, <2>15, <2>16, <2>17, <2>18, <2>19 DEF StreamData
<1>3. ASSUME NEW t \in Threads, Stop(t) PROVE Ownership'
  BY <1>0, <1>3 DEF IInv, Stop, RequestStop
<1>4. ASSUME NEW t \in Threads, Close(t) PROVE Ownership'
  BY <1>0, <1>4 DEF IInv, Close
<1>5. CASE Reopen
  BY <1>0, <1>5, IdleIsClean DEF IInv, Reopen
<1>6. CASE MarkCompleted
  <2>1. PICK i \in 1 .. Len(urbs) :
          /\ urbs' = Without(urbs, i)
          /\ state' = [state EXCEPT ![urbs[i]] = "COMPLETED"]
          /\ calling' = urbs[i]
    BY <1>6 DEF MarkCompleted
  <2>2. urbs \in Seq(1 .. N) /\ urbs[i] \in 1 .. N
    BY StreamAssumption DEF IInv, TypeOK
  <2>3. Elements(Without(urbs, i)) = Elements(urbs) \ {urbs[i]} /\ Injective(Without(urbs, i))
    BY <2>2, WithoutProperties DEF IInv
  <2>4. state \in [1 .. N -> States]
    BY DEF IInv, TypeOK
  <2>5. urbs # <<>>
    BY <2>2
  <2> QED BY <1>0, <1>6, <2>1, <2>2, <2>3, <2>4, <2>5 DEF IInv, MarkCompleted
<1>7. CASE RaiseFlag
  BY <1>0, <1>7 DEF IInv, RaiseFlag
<1> QED BY <1>1, <1>2, <1>3, <1>4, <1>5, <1>6, <1>7 DEF Next

\* A freshly opened device satisfies the inductive invariant.
LEMMA InitIInv == Init => IInv
<1> SUFFICES ASSUME Init PROVE IInv
  OBVIOUS
<1>1. Injective(urbs) /\ Elements(urbs) = {}
  BY DEF Init, Injective, Elements
<1>2. \A x \in 1 .. N : state[x] = "FREED"
  BY DEF Init
<1>3. \A t \in Threads : pc[t] = "out"
  BY DEF Init
<1>4. Ownership
  BY <1>1, <1>2, <1>3 DEF Ownership, BusyIffOwned, Owned
<1>5. Exclusion
  BY <1>3, StreamAssumption
  DEF Init, Exclusion, MutexHeldWhereLocked, StreamingSet, ExclusiveUse, InStreamData
<1>6. Listing /\ NoLostWakeup
  BY <1>3 DEF Listing, HeadExists, NoLostWakeup
<1>7. Cleaning
  BY <1>3 DEF Init, Cleaning, CleanWhenIdle, AllFreed
<1> QED BY <1>4, <1>5, <1>6, <1>7, InitTypeOK DEF IInv

\* The inductive invariant holds as long as only contained faults happen.
LEMMA IInvHolds == ASSUME Faults \subseteq Contained PROVE Spec => []IInv
<1>1. Init => IInv
  BY InitIInv
<1>2. IInv /\ [Next]_vars => IInv'
  <2> SUFFICES ASSUME IInv, [Next]_vars PROVE IInv'
    OBVIOUS
  <2>1. TypeOK'
    BY NextTypeOK DEF IInv
  <2>2. Exclusion'
    BY NextExclusion DEF IInv, Contained
  <2>3. Ownership' /\ Listing' /\ NoLostWakeup' /\ Cleaning'
    BY NextOwnership, NextListing, NextWakeup, NextCleaning
  <2> QED BY <2>1, <2>2, <2>3 DEF IInv
<1> QED BY <1>1, <1>2, PTL DEF Spec

\* A transfer is BUSY exactly while libusb owns it, for any number of
\* transfers and threads: what free_dev_transfers and submit_one_transfer rely
\* on, as long as drain_transfers is not made to give up.
THEOREM BusyIffOwnedHolds ==
  ASSUME Faults \subseteq Contained
  PROVE  Spec => []BusyIffOwned
<1>1. IInv => BusyIffOwned
  BY DEF IInv, Ownership
<1> QED BY <1>1, IInvHolds, PTL

\* The main loop always finds all transfers in its list, so it never follows a
\* null head.
THEOREM HeadExistsHolds ==
  ASSUME Faults \subseteq Contained
  PROVE  Spec => []HeadExists
<1>1. IInv => HeadExists
  BY DEF IInv, Listing
<1> QED BY <1>1, IInvHolds, PTL

\* No thread sleeps in libusb's event loop with something to do and nothing to
\* wake it.
THEOREM NoLostWakeupHolds ==
  ASSUME Faults \subseteq Contained
  PROVE  Spec => []NoLostWakeup
<1>1. IInv => NoLostWakeup
  BY DEF IInv
<1> QED BY <1>1, IInvHolds, PTL

\* Every way out of pg2sdr_stream_data leaves no transfer, no DSP state, no
\* flag and a device told to stop.
THEOREM CleanWhenIdleHolds ==
  ASSUME Faults \subseteq Contained
  PROVE  Spec => []CleanWhenIdle
<1>1. IInv => CleanWhenIdle
  BY DEF IInv, Cleaning
<1> QED BY <1>1, IInvHolds, PTL
-----------------------------------------------------------------------------
(* The order of the active list.                                           *)

\* A list nobody changes, while libusb keeps its queue, stays in order as long
\* as the same transfers are in use.
LEMMA ListKept ==
  ASSUME ListInSubmissionOrder, active' = active, urbs' = urbs,
         \A x \in 1 .. N : state'[x] \in {"BUSY", "COMPLETED"} <=> state[x] \in {"BUSY", "COMPLETED"}
  PROVE  ListInSubmissionOrder'
<1>1. Linked' = Linked /\ Owned' = Owned
  BY DEF Linked, Owned, Elements
<1>2. Injective(active)' = Injective(active) /\ Injective(urbs)' = Injective(urbs)
  BY DEF Injective
<1>3. SameOrder(active, urbs)' = SameOrder(active, urbs)
  BY DEF SameOrder
<1> QED BY <1>1, <1>2, <1>3 DEF ListInSubmissionOrder

\* An empty list and an empty queue, while no transfer is in use, are in order.
LEMMA NothingListed ==
  ASSUME active' = <<>>, urbs' = <<>>, \A x \in 1 .. N : state'[x] \notin {"BUSY", "COMPLETED"}
  PROVE  ListInSubmissionOrder'
BY DEF ListInSubmissionOrder, Linked, Owned, Injective, SameOrder, Elements

\* A step keeps the list in the order of submission.
LEMMA NextListOrder ==
  ASSUME Faults \subseteq Contained, IInv, ListInSubmissionOrder, [Next]_vars
  PROVE  ListInSubmissionOrder'
<1> USE DEF Goto, Done, devVars, usbVars, handleVars
<1>0. /\ active \in Seq(1 .. N) /\ urbs \in Seq(1 .. N) /\ state \in [1 .. N -> States]
      /\ Injective(active) /\ Injective(urbs) /\ SameOrder(active, urbs)
      /\ Linked = {x \in 1 .. N : state[x] \in {"BUSY", "COMPLETED"}} /\ Owned \subseteq Linked
  BY DEF IInv, TypeOK, ListInSubmissionOrder
<1>1. CASE UNCHANGED vars
  BY <1>1, ListKept DEF vars
<1>2. ASSUME NEW t \in Threads, StreamData(t) PROVE ListInSubmissionOrder'
  <2>0. Enter(t) => /\ active = <<>> /\ urbs = <<>> /\ state = AllFreed
    BY EnterAlone, IdleIsClean DEF IInv, Enter
  <2>1. CASE StartFailsEarly(t) \/ StartFailsLate(t) \/ Start(t)
    <3>1. active' = <<>> /\ urbs' = <<>>
      BY <2>0, <2>1 DEF StartFailsEarly, StartFailsLate, Start
    <3>2. state' = AllFreed \/ state' = [x \in 1 .. N |-> "IDLE"]
      BY <2>0, <2>1 DEF StartFailsEarly, StartFailsLate, Start
    <3> QED BY <3>1, <3>2, NothingListed DEF AllFreed
  <2>2. CASE SubmitTransfers(t)
    <3> DEFINE b == [i \in 1 .. N |-> i]
    <3>1. active = <<>> /\ urbs = <<>>
      BY <2>2 DEF SubmitTransfers, IInv, Ownership, Listing
    <3>2. active' = <<>> \o b /\ urbs' = <<>> \o b /\ \A x \in 1 .. N : state'[x] = "BUSY"
      BY <2>2, <3>1, StreamAssumption DEF SubmitTransfers, Contained
    <3>3. b \in Seq(1 .. N) /\ Elements(b) = 1 .. N /\ Injective(b) /\ <<>> \o b = b
      BY BatchElements, StreamAssumption
    <3>4. active' = b /\ urbs' = b
      BY <3>2, <3>3
    <3>5. SameOrder(b, b)
      BY StreamAssumption DEF SameOrder
    <3> HIDE DEF b
    <3>6. Linked' = 1 .. N /\ Owned' = 1 .. N
      BY <3>3, <3>4 DEF Linked, Owned, Elements
    <3>7. Injective(active') /\ Injective(urbs') /\ SameOrder(active', urbs')
      BY <3>3, <3>4, <3>5
    <3> QED BY <3>2, <3>6, <3>7 DEF ListInSubmissionOrder, Injective, SameOrder
  <2>3. CASE Resubmit(t)
    <3> DEFINE x == Head(active)
    <3>1. active # <<>> /\ state[x] = "COMPLETED"
      BY <2>3 DEF Resubmit, IInv, Listing, HeadIs
    <3>2. x \in 1 .. N /\ x \in Elements(active) /\ Tail(active) \in Seq(1 .. N)
      BY <1>0, <3>1, RotateElements
    <3>3. x \notin Elements(urbs)
      BY <3>1, <3>2 DEF IInv, Ownership, BusyIffOwned, Owned
    <3>4. CASE /\ active' = Append(Tail(active), x) /\ urbs' = Append(urbs, x)
               /\ state' = [state EXCEPT ![x] = "BUSY"]
      <4>1. Injective(Append(Tail(active), x))
        BY <1>0, <3>1, TailProperties
      <4>2. Elements(Append(Tail(active), x)) = Elements(active)
        BY <1>0, <3>1, RotateElements
      <4>3. Elements(Append(urbs, x)) = Elements(urbs) \cup {x} /\ Injective(Append(urbs, x))
        BY <1>0, <3>2, <3>3, AppendElements
      <4>4. SameOrder(Append(Tail(active), x), Append(urbs, x))
        BY <1>0, <3>1, <3>3, RotateOrder
      <4>5. \A y \in 1 .. N : state'[y] \in {"BUSY", "COMPLETED"} <=> state[y] \in {"BUSY", "COMPLETED"}
        BY <1>0, <3>1, <3>2, <3>4
      <4>6. Linked' = Linked /\ Owned' = Owned \cup {x}
        BY <3>4, <4>2, <4>3 DEF Linked, Owned, Elements
      <4>7. Linked' = {y \in 1 .. N : state'[y] \in {"BUSY", "COMPLETED"}} /\ Owned' \subseteq Linked'
        BY <1>0, <3>2, <4>5, <4>6 DEF Linked
      <4>8. Injective(active') /\ Injective(urbs') /\ SameOrder(active', urbs')
        BY <3>4, <4>1, <4>3, <4>4
      <4> QED BY <4>7, <4>8 DEF ListInSubmissionOrder, Injective, SameOrder
    <3>5. CASE /\ active' = Tail(active) /\ urbs' = urbs
               /\ state' = [state EXCEPT ![x] = "IDLE"]
      <4>1. Injective(Tail(active)) /\ Elements(Tail(active)) = Elements(active) \ {x}
        BY <1>0, <3>1, TailProperties
      <4>2. SameOrder(Tail(active), urbs)
        BY <1>0, <3>1, TailOrder
      <4>3. Linked' = Linked \ {x} /\ Owned' = Owned
        BY <3>5, <4>1 DEF Linked, Owned, Elements
      <4>4. \A y \in 1 .. N : state'[y] \in {"BUSY", "COMPLETED"} <=> y # x /\ state[y] \in {"BUSY", "COMPLETED"}
        BY <1>0, <3>2, <3>5
      <4>5. Linked' = {y \in 1 .. N : state'[y] \in {"BUSY", "COMPLETED"}} /\ Owned' \subseteq Linked'
        BY <1>0, <3>3, <4>3, <4>4 DEF Owned
      <4>6. Injective(active') /\ Injective(urbs') /\ SameOrder(active', urbs')
        BY <1>0, <3>5, <4>1, <4>2
      <4> QED BY <4>5, <4>6 DEF ListInSubmissionOrder, Injective, SameOrder
    <3> QED BY <2>3, <3>4, <3>5 DEF Resubmit
  <2>4. CASE Finish(t)
    <3>1. active' = <<>> /\ \A x \in 1 .. N : state[x] # "BUSY" /\ state'[x] = "FREED"
      BY <2>4 DEF Finish, AnyBusy, AllFreed
    <3>2. Elements(urbs) = {}
      BY <1>0, <3>1 DEF IInv, Ownership, BusyIffOwned, Owned
    <3>3. urbs' = <<>>
      BY <1>0, <2>4, <3>2, NoElements DEF Finish
    <3> QED BY <3>1, <3>3, NothingListed
  <2>5. CASE ResetFlag(t) \/ SeeDraining(t) \/ AwaitHead(t) \/ HeadFails(t) \/ BeginDispatch(t)
             \/ BeginCallback(t) \/ EndCallback(t)
    BY <2>5, ListKept
    DEF ResetFlag, SeeDraining, AwaitHead, HeadFails, BeginDispatch, BeginCallback, EndCallback
  <2>6. CASE StopFromCallback(t) \/ DispatchFails(t) \/ Wake(t)
    BY <2>6, ListKept DEF StopFromCallback, RequestStop, DispatchFails, Wake
  <2>7. CASE BeginDrain(t) \/ DrainResetFlag(t) \/ AwaitDrain(t) \/ DrainWake(t) \/ DrainFails(t)
    BY <2>7, ListKept DEF BeginDrain, DrainResetFlag, AwaitDrain, DrainWake, DrainFails
  <2> QED BY <1>2, <2>1, <2>2, <2>3, <2>4, <2>5, <2>6, <2>7 DEF StreamData
<1>3. ASSUME NEW t \in Threads, Stop(t) \/ Close(t) PROVE ListInSubmissionOrder'
  BY <1>3, ListKept DEF Stop, RequestStop, Close
<1>4. CASE Reopen
  <2>1. urbs = <<>>
    BY <1>4, IdleIsClean DEF Reopen
  <2> QED BY <1>4, <2>1, NothingListed DEF Reopen, AllFreed
<1>5. CASE MarkCompleted
  <2>1. PICK i \in 1 .. Len(urbs) :
          /\ urbs' = Without(urbs, i)
          /\ state' = [state EXCEPT ![urbs[i]] = "COMPLETED"]
    BY <1>5 DEF MarkCompleted
  <2>2. active' = active
    BY <1>5 DEF MarkCompleted
  <2>3. urbs[i] \in 1 .. N /\ urbs[i] \in Owned
    BY <1>0 DEF Owned, Elements
  <2>4. state[urbs[i]] \in {"BUSY", "COMPLETED"}
    BY <1>0, <2>3
  <2>5. \A y \in 1 .. N : state'[y] \in {"BUSY", "COMPLETED"} <=> state[y] \in {"BUSY", "COMPLETED"}
    BY <1>0, <2>1, <2>3, <2>4
  <2>6. Injective(urbs') /\ Elements(urbs') = Elements(urbs) \ {urbs[i]}
    BY <1>0, <2>1, WithoutProperties
  <2>7. SameOrder(active, urbs')
    BY <1>0, <2>1, WithoutOrder
  <2>8. Linked' = Linked /\ Owned' \subseteq Owned
    BY <2>2, <2>6 DEF Linked, Owned, Elements
  <2>9. Linked' = {y \in 1 .. N : state'[y] \in {"BUSY", "COMPLETED"}} /\ Owned' \subseteq Linked'
    BY <1>0, <2>5, <2>8
  <2> QED BY <1>0, <2>2, <2>6, <2>7, <2>9 DEF ListInSubmissionOrder, Injective, SameOrder
<1>6. CASE RaiseFlag
  BY <1>6, ListKept DEF RaiseFlag
<1> QED BY <1>1, <1>2, <1>3, <1>4, <1>5, <1>6 DEF Next

\* The active list holds each transfer once, exactly those submitted or not yet
\* dispatched, and in the order in which libusb was given them: the head is
\* always the transfer with the oldest data.
THEOREM ListInSubmissionOrderHolds ==
  ASSUME Faults \subseteq Contained
  PROVE  Spec => []ListInSubmissionOrder
<1>1. Init => ListInSubmissionOrder
  BY DEF Init, AllFreed, ListInSubmissionOrder, Linked, Owned, Injective, SameOrder, Elements
<1>2. IInv /\ ListInSubmissionOrder /\ [Next]_vars => ListInSubmissionOrder'
  BY NextListOrder
<1> QED BY <1>1, <1>2, IInvHolds, PTL DEF Spec

-----------------------------------------------------------------------------
(* Callbacks, when only threads of this device handle its events.          *)

\* A callback runs inside the event handling of a thread that is still in
\* pg2sdr_stream_data, on a transfer that is still allocated.
CallbackInside ==
  calling # NoTransfer =>
    /\ state[calling] # "FREED"
    /\ \E t \in Threads : pc[t] \in Waiting \cup {"drain"}

\* While a callback runs, pg2sdr_stream_data stands still.
LEMMA StillDuringCallback ==
  ASSUME ForeignEvents = FALSE, IInv, CallbackInside, NEW t \in Threads, StreamData(t)
  PROVE  calling = NoTransfer
<1> SUFFICES ASSUME calling # NoTransfer PROVE FALSE
  OBVIOUS
<1>1. PICK u \in Threads : pc[u] \in Waiting \cup {"drain"}
  BY DEF CallbackInside
<1>2. ~CallbackOver
  BY DEF CallbackOver
<1>3. ~Enter(t)
  BY <1>1, EnterAlone DEF Enter, IInv
<1>4. pc[t] # "out" => pc[t] \in Waiting \cup {"drain"}
  BY <1>1, Alone
<1>5. CASE StartFailsEarly(t) \/ StartFailsLate(t) \/ Start(t)
  BY <1>3, <1>5 DEF StartFailsEarly, StartFailsLate, Start
<1>6. CASE Wake(t) \/ BeginDrain(t) \/ DrainWake(t) \/ DrainFails(t)
  BY <1>2, <1>6 DEF Wake, BeginDrain, DrainWake, DrainFails
<1>7. CASE SubmitTransfers(t) \/ ResetFlag(t) \/ SeeDraining(t) \/ AwaitHead(t) \/ HeadFails(t)
  BY <1>4, <1>7 DEF SubmitTransfers, ResetFlag, SeeDraining, AwaitHead, HeadFails, Goto
<1>8. CASE BeginDispatch(t) \/ BeginCallback(t) \/ StopFromCallback(t) \/ EndCallback(t)
           \/ DispatchFails(t) \/ Resubmit(t)
  BY <1>4, <1>8 DEF BeginDispatch, BeginCallback, StopFromCallback, EndCallback, DispatchFails, Resubmit, Goto
<1>9. CASE DrainResetFlag(t) \/ AwaitDrain(t) \/ Finish(t)
  BY <1>4, <1>9 DEF DrainResetFlag, AwaitDrain, Finish, Goto
<1> QED BY <1>5, <1>6, <1>7, <1>8, <1>9 DEF StreamData

\* No step of pg2sdr_stream_data begins or ends a callback.
LEMMA StreamDataCallsNothing ==
  ASSUME NEW t \in Threads, StreamData(t)
  PROVE  calling' = calling
<1> USE DEF usbVars
<1>1. CASE StartFailsEarly(t) \/ StartFailsLate(t) \/ Start(t) \/ SubmitTransfers(t)
  BY <1>1 DEF StartFailsEarly, StartFailsLate, Start, SubmitTransfers
<1>2. CASE ResetFlag(t) \/ SeeDraining(t) \/ AwaitHead(t) \/ HeadFails(t) \/ BeginDispatch(t)
             \/ BeginCallback(t) \/ EndCallback(t)
  BY <1>2 DEF ResetFlag, SeeDraining, AwaitHead, HeadFails, BeginDispatch, BeginCallback, EndCallback
<1>3. CASE StopFromCallback(t) \/ DispatchFails(t) \/ Resubmit(t) \/ Wake(t) \/ BeginDrain(t)
  BY <1>3 DEF StopFromCallback, RequestStop, DispatchFails, Resubmit, Wake, BeginDrain
<1>4. CASE DrainResetFlag(t) \/ AwaitDrain(t) \/ DrainWake(t) \/ DrainFails(t) \/ Finish(t)
  BY <1>4 DEF DrainResetFlag, AwaitDrain, DrainWake, DrainFails, Finish
<1> QED BY <1>1, <1>2, <1>3, <1>4 DEF StreamData

\* A step of any thread or of libusb keeps callbacks inside.
LEMMA NextCallback ==
  ASSUME ForeignEvents = FALSE, IInv, CallbackInside, [Next]_vars
  PROVE  CallbackInside'
<1> USE DEF devVars, usbVars, handleVars
<1>1. CASE UNCHANGED vars
  BY <1>1 DEF vars, CallbackInside
<1>2. ASSUME NEW t \in Threads, StreamData(t) PROVE CallbackInside'
  BY <1>2, StillDuringCallback, StreamDataCallsNothing DEF CallbackInside
<1>3. ASSUME NEW t \in Threads, Stop(t) \/ Close(t) PROVE CallbackInside'
  BY <1>3 DEF Stop, RequestStop, Close, CallbackInside
<1>4. CASE Reopen
  BY <1>4 DEF Reopen, CallbackInside
<1>5. CASE MarkCompleted
  <2>1. PICK i \in 1 .. Len(urbs) :
          /\ state' = [state EXCEPT ![urbs[i]] = "COMPLETED"]
          /\ calling' = urbs[i]
    BY <1>5 DEF MarkCompleted
  <2>2. urbs \in Seq(1 .. N) /\ urbs[i] \in 1 .. N /\ state \in [1 .. N -> States]
    BY StreamAssumption DEF IInv, TypeOK
  <2>3. state'[calling'] = "COMPLETED"
    BY <2>1, <2>2
  <2>4. \E t \in Threads : pc[t] \in Waiting \cup {"drain"}
    BY <1>5 DEF MarkCompleted, EventsHandled
  <2>5. pc' = pc
    BY <1>5 DEF MarkCompleted
  <2> QED BY <2>3, <2>4, <2>5 DEF CallbackInside
<1>6. CASE RaiseFlag
  BY <1>6 DEF RaiseFlag, CallbackInside
<1> QED BY <1>1, <1>2, <1>3, <1>4, <1>5, <1>6 DEF Next

\* transfer_callback touches no freed memory, neither the transfer nor the
\* device, as long as no thread outside pg2sdr_stream_data handles the events
\* of the context: a program that streams from one device at a time.
THEOREM CallbackMemoryValidHolds ==
  ASSUME Faults \subseteq Contained, ForeignEvents = FALSE
  PROVE  Spec => []CallbackMemoryValid
<1>1. Init => CallbackInside
  BY DEF Init, CallbackInside
<1>2. IInv /\ CallbackInside /\ [Next]_vars => CallbackInside'
  BY NextCallback
<1>3. IInv /\ CallbackInside => CallbackMemoryValid
  BY DEF IInv, Exclusion, ExclusiveUse, InStreamData, CallbackInside, CallbackMemoryValid
<1> QED BY <1>1, <1>2, <1>3, IInvHolds, PTL DEF Spec
-----------------------------------------------------------------------------
(* The contract of the API.                                                *)

\* A call only begins to drain with a reason, an error or a stop.
Reasons ==
  \A t \in Threads :
    /\ pc[t] \in {"submit", "loop", "check", "wait", "dispatch", "callback"} => error[t] = "SUCCESS"
    /\ pc[t] = "drain" => draining \/ error[t] = "ERROR"
    /\ pc[t] \in Cancelled => draining

\* What the mapping to StreamAPI needs. That nobody is left behind after a
\* failed drain is no part of it, so every fault but one is allowed.
CallInv == TypeOK /\ Exclusion /\ NeverWedged /\ Reasons

\* What the contract sees of a call.
PhaseOf(t) ==
  IF error[t] = "ERROR" THEN "failing" ELSE IF draining THEN "stopping" ELSE "streaming"

LEMMA SeenInside ==
  TypeOK /\ Exclusion =>
    \A t \in Threads : pc[t] # "out" =>
      /\ Phase = PhaseOf(t) /\ Owner = t /\ (InCallback <=> pc[t] = "callback")
      /\ \A u \in Threads : u # t => pc[u] = "out"
<1> SUFFICES ASSUME TypeOK, Exclusion, NEW t \in Threads, pc[t] # "out"
             PROVE  /\ Phase = PhaseOf(t) /\ Owner = t /\ (InCallback <=> pc[t] = "callback")
                    /\ \A u \in Threads : u # t => pc[u] = "out"
  OBVIOUS
<1>1. InStreamData = {t} /\ open
  BY DEF Exclusion, ExclusiveUse, InStreamData
<1>2. \A u \in Threads : u # t => pc[u] = "out"
  BY <1>1 DEF InStreamData
<1>3. Owner = t
  BY <1>1 DEF Owner
<1>4. InCallback <=> pc[t] = "callback"
  BY <1>2 DEF InCallback
<1>5. Failing <=> error[t] = "ERROR"
  BY <1>2 DEF Failing
<1>6. Phase = PhaseOf(t)
  BY <1>1, <1>5 DEF Phase, PhaseOf
<1> QED BY <1>2, <1>3, <1>4, <1>6

LEMMA SeenIdle ==
  (\A u \in Threads : pc[u] = "out") =>
    Phase = (IF open THEN "idle" ELSE "closed") /\ Owner = NoThread /\ ~InCallback
<1> SUFFICES ASSUME \A u \in Threads : pc[u] = "out"
             PROVE  Phase = (IF open THEN "idle" ELSE "closed") /\ Owner = NoThread /\ ~InCallback
  OBVIOUS
<1>1. InStreamData = {}
  BY DEF InStreamData
<1> QED BY <1>1 DEF Phase, Owner, InCallback

\* Nobody is left inside by a step that returns.
LEMMA LastOneOut ==
  ASSUME TypeOK, Exclusion, NEW t \in Threads, pc[t] # "out" \/ Enter(t),
         pc' = [pc EXCEPT ![t] = "out"]
  PROVE  \A u \in Threads : pc'[u] = "out"
<1>1. \A u \in Threads : u # t => pc[u] = "out"
  BY SeenInside, EnterAlone DEF Enter
<1> QED BY <1>1 DEF TypeOK

LEMMA NextReasons ==
  ASSUME "submit" \notin Faults, CallInv, [Next]_vars
  PROVE  Reasons'
<1> USE DEF Goto, Done, Fail, devVars, usbVars, handleVars
<1>0. /\ pc \in [Threads -> PCs] /\ error \in [Threads -> {"SUCCESS", "ERROR"}] /\ Reasons
  BY DEF CallInv, TypeOK
<1>1. CASE UNCHANGED vars
  BY <1>0, <1>1 DEF vars, Reasons
<1>2. ASSUME NEW t \in Threads, StreamData(t) PROVE Reasons'
  <2>0. /\ pc[t] # "out" => \A u \in Threads : u # t => pc[u] = "out"
        /\ Enter(t) => \A u \in Threads : pc[u] = "out"
    BY SeenInside, EnterAlone DEF CallInv, Enter
  <2>1. CASE StartFailsEarly(t) \/ StartFailsLate(t)
    BY <1>0, <2>0, <2>1 DEF StartFailsEarly, StartFailsLate, Reasons
  <2>2. CASE Start(t)
    BY <1>0, <2>0, <2>2 DEF Start, Reasons
  <2>3. CASE SubmitTransfers(t)
    <3>1. pc' = [pc EXCEPT ![t] = "loop"] /\ UNCHANGED <<error, draining>> /\ pc[t] = "submit"
      BY <2>3, StreamAssumption DEF SubmitTransfers
    <3> QED BY <1>0, <2>0, <3>1 DEF Reasons
  <2>4. CASE ResetFlag(t)
    BY <1>0, <2>0, <2>4 DEF ResetFlag, Reasons
  <2>5. CASE SeeDraining(t)
    BY <1>0, <2>0, <2>5 DEF SeeDraining, Reasons
  <2>6. CASE AwaitHead(t) \/ BeginDispatch(t) \/ BeginCallback(t) \/ EndCallback(t)
    BY <1>0, <2>0, <2>6 DEF AwaitHead, BeginDispatch, BeginCallback, EndCallback, Reasons
  <2>7. CASE HeadFails(t) \/ DispatchFails(t)
    BY <1>0, <2>0, <2>7 DEF HeadFails, DispatchFails, Reasons
  <2>8. CASE StopFromCallback(t)
    BY <1>0, <2>8 DEF StopFromCallback, RequestStop, Reasons
  <2>9. CASE Resubmit(t)
    BY <1>0, <2>0, <2>9 DEF Resubmit, Reasons
  <2>10. CASE Wake(t)
    BY <1>0, <2>0, <2>10 DEF Wake, Reasons
  <2>11. CASE BeginDrain(t)
    BY <1>0, <2>0, <2>11 DEF BeginDrain, Reasons
  <2>12. CASE DrainResetFlag(t) \/ AwaitDrain(t) \/ DrainWake(t)
    BY <1>0, <2>0, <2>12 DEF DrainResetFlag, AwaitDrain, DrainWake, Reasons
  <2>13. CASE DrainFails(t) \/ Finish(t)
    BY <1>0, <2>0, <2>13 DEF DrainFails, Finish, Reasons
  <2> QED
    BY <1>2, <2>1, <2>2, <2>3, <2>4, <2>5, <2>6, <2>7, <2>8, <2>9, <2>10, <2>11,
       <2>12, <2>13 DEF StreamData
<1>3. ASSUME NEW t \in Threads, Stop(t) \/ Close(t) PROVE Reasons'
  BY <1>0, <1>3 DEF Stop, RequestStop, Close, Reasons
<1>4. CASE Reopen
  BY <1>0, <1>4 DEF Reopen, Reasons
<1>5. CASE MarkCompleted \/ RaiseFlag
  BY <1>0, <1>5 DEF MarkCompleted, RaiseFlag, Reasons
<1> QED BY <1>1, <1>2, <1>3, <1>4, <1>5 DEF Next

\* Initially the device is open and idle.
LEMMA InitCallInv == Init => CallInv
<1> SUFFICES ASSUME Init PROVE CallInv
  OBVIOUS
<1>1. \A t \in Threads : pc[t] = "out"
  BY DEF Init
<1>2. Exclusion
  BY <1>1, StreamAssumption
  DEF Init, Exclusion, MutexHeldWhereLocked, StreamingSet, ExclusiveUse, InStreamData
<1>3. NeverWedged /\ Reasons
  BY <1>1 DEF Init, NeverWedged, Reasons
<1> QED BY <1>2, <1>3, InitTypeOK DEF CallInv

LEMMA NextCallInv == "submit" \notin Faults /\ CallInv /\ [Next]_vars => CallInv'
BY NextTypeOK, NextExclusion, NextNeverWedged, NextReasons DEF CallInv

\* A step of a call, where the contract sees it before and after.
LEMMA CallStep ==
  ASSUME NEW t \in Threads, NEW p, NEW p2, NEW c \in BOOLEAN, NEW c2 \in BOOLEAN,
         Phase = p, Phase' = p2, Owner' = Owner, InCallback = c, InCallback' = c2,
         \/ p2 = p /\ c2 = c
         \/ p \in {"streaming", "stopping"} /\ p2 = p /\ c = FALSE /\ c2 = TRUE
         \/ p2 = p /\ c = TRUE /\ c2 = FALSE
         \/ p = "streaming" /\ p2 = "stopping" /\ c2 = c
         \/ p \in {"streaming", "stopping"} /\ p2 = "failing" /\ c = FALSE /\ c2 = FALSE
  PROVE  [API!Next]_API!vars
BY DEF API!Next, API!vars, API!BeginCallback, API!EndCallback, API!StopStreaming, API!Error

\* Each step of the engine is one of the contract, or none.
LEMMA ImplementsStep ==
  ASSUME "submit" \notin Faults, CallInv, [Next]_vars
  PROVE  [API!Next]_API!vars
<1> USE DEF Goto, Done, Fail, devVars, usbVars, handleVars
<1>0. /\ pc \in [Threads -> PCs] /\ error \in [Threads -> {"SUCCESS", "ERROR"}] /\ Reasons
      /\ TypeOK /\ Exclusion /\ NeverWedged
      /\ draining \in BOOLEAN /\ streaming \in BOOLEAN /\ open \in BOOLEAN
  BY DEF CallInv, TypeOK
<1>00. CallInv' /\ TypeOK' /\ Exclusion' /\ Reasons'
  BY NextCallInv DEF CallInv
<1>a. /\ InCallback \in BOOLEAN /\ InCallback' \in BOOLEAN
  BY DEF InCallback
<1>b. \A t \in Threads : pc[t] # "out" =>
        /\ Phase = PhaseOf(t) /\ Owner = t /\ (InCallback <=> pc[t] = "callback")
        /\ \A u \in Threads : u # t => pc[u] = "out"
  BY <1>0, SeenInside
<1>c. \A t \in Threads : pc'[t] # "out" =>
        /\ Phase' = PhaseOf(t)' /\ Owner' = t /\ (InCallback' <=> pc'[t] = "callback")
  <2>1. (TypeOK /\ Exclusion =>
          \A t \in Threads : pc[t] # "out" =>
            /\ Phase = PhaseOf(t) /\ Owner = t /\ (InCallback <=> pc[t] = "callback")
            /\ \A u \in Threads : u # t => pc[u] = "out")'
    BY SeenInside, PTL
  <2> QED BY <1>00, <2>1
<1>d. (\A u \in Threads : pc[u] = "out") =>
        Phase = (IF open THEN "idle" ELSE "closed") /\ Owner = NoThread /\ ~InCallback
  BY SeenIdle
<1>e. (\A u \in Threads : pc'[u] = "out") =>
        Phase' = (IF open' THEN "idle" ELSE "closed") /\ Owner' = NoThread /\ ~InCallback'
  <2>1. ((\A u \in Threads : pc[u] = "out") =>
          Phase = (IF open THEN "idle" ELSE "closed") /\ Owner = NoThread /\ ~InCallback)'
    BY SeenIdle, PTL
  <2> QED BY <2>1
\* Of a thread inside before and after, only error, draining and whether it is
\* in the callback are seen.
<1>f. ASSUME NEW t \in Threads, pc[t] # "out", pc'[t] # "out",
             LET p == PhaseOf(t)
                 p2 == PhaseOf(t)'
                 c == pc[t] = "callback"
                 c2 == pc'[t] = "callback"
             IN  \/ p2 = p /\ (c2 <=> c)
                 \/ p \in {"streaming", "stopping"} /\ p2 = p /\ ~c /\ c2
                 \/ p2 = p /\ c /\ ~c2
                 \/ p = "streaming" /\ p2 = "stopping" /\ (c2 <=> c)
                 \/ p \in {"streaming", "stopping"} /\ p2 = "failing" /\ ~c /\ ~c2
      PROVE  [API!Next]_API!vars
  <2>1. Phase = PhaseOf(t) /\ Phase' = PhaseOf(t)' /\ Owner' = Owner
    BY <1>b, <1>c, <1>f
  <2>2. (InCallback <=> pc[t] = "callback") /\ (InCallback' <=> pc'[t] = "callback")
    BY <1>b, <1>c, <1>f
  <2>3. \/ Phase' = Phase /\ InCallback' = InCallback
        \/ Phase \in {"streaming", "stopping"} /\ Phase' = Phase /\ InCallback = FALSE /\ InCallback' = TRUE
        \/ Phase' = Phase /\ InCallback = TRUE /\ InCallback' = FALSE
        \/ Phase = "streaming" /\ Phase' = "stopping" /\ InCallback' = InCallback
        \/ Phase \in {"streaming", "stopping"} /\ Phase' = "failing" /\ InCallback = FALSE /\ InCallback' = FALSE
    BY <1>a, <1>f, <2>1, <2>2
  <2> QED BY <1>a, <2>1, <2>3, CallStep
<1>g. ASSUME UNCHANGED <<open, pc, error, draining>> PROVE UNCHANGED API!vars
  <2>1. CASE \A u \in Threads : pc[u] = "out"
    BY <1>a, <1>d, <1>e, <1>g, <2>1 DEF API!vars
  <2>2. ASSUME NEW t \in Threads, pc[t] # "out" PROVE UNCHANGED API!vars
    <3>1. PhaseOf(t)' = PhaseOf(t)
      BY <1>g DEF PhaseOf
    <3> QED BY <1>a, <1>b, <1>c, <1>g, <2>2, <3>1 DEF API!vars
  <2> QED BY <2>1, <2>2
<1>1. CASE UNCHANGED vars
  BY <1>g, <1>1 DEF vars
<1>2. ASSUME NEW t \in Threads, StreamData(t) PROVE [API!Next]_API!vars
  <2>0. PICK e \in {"SUCCESS", "ERROR"} : error[t] = e
    BY <1>0
  <2>1. CASE StartFailsEarly(t) \/ StartFailsLate(t)
    <3>1. \A u \in Threads : pc[u] = "out" /\ pc'[u] = "out"
      BY <1>0, <2>1, EnterAlone, LastOneOut DEF StartFailsEarly, StartFailsLate, Enter
    <3>2. open' = open
      BY <2>1 DEF StartFailsEarly, StartFailsLate
    <3> QED BY <1>a, <1>d, <1>e, <3>1, <3>2 DEF API!vars
  <2>2. CASE Start(t)
    <3>1. /\ \A u \in Threads : pc[u] = "out"
          /\ open /\ ~draining /\ draining' = draining
          /\ pc'[t] = "submit" /\ error'[t] = "SUCCESS"
      <4>1. \A u \in Threads : pc[u] = "out"
        BY <1>0, <2>2, EnterAlone DEF Start, Enter
      <4> QED BY <1>0, <2>2, <4>1 DEF Start, Enter, NeverWedged, InStreamData
    <3>2. Phase = "idle" /\ ~InCallback
      BY <1>d, <3>1
    <3>3. Phase' = "streaming" /\ Owner' = t /\ ~InCallback'
      BY <1>c, <3>1 DEF PhaseOf
    <3>4. API!StreamData(t)
      BY <1>a, <3>2, <3>3 DEF API!StreamData
    <3> QED BY <3>4 DEF API!Next
  <2>3. CASE SubmitTransfers(t)
    <3>1. pc' = [pc EXCEPT ![t] = "loop"] /\ UNCHANGED <<error, draining>> /\ pc[t] = "submit"
      BY <2>3, StreamAssumption DEF SubmitTransfers
    <3> QED BY <1>0, <1>f, <3>1 DEF PhaseOf
  <2>4. CASE ResetFlag(t) \/ SeeDraining(t) \/ AwaitHead(t)
    BY <1>0, <1>f, <2>4 DEF ResetFlag, SeeDraining, AwaitHead, PhaseOf
  <2>5. CASE HeadFails(t)
    BY <1>0, <1>f, <2>5 DEF HeadFails, PhaseOf, Reasons
  <2>6. CASE BeginDispatch(t) \/ EndCallback(t)
    BY <1>0, <1>f, <2>6 DEF BeginDispatch, EndCallback, PhaseOf, Reasons
  <2>6a. CASE BeginCallback(t)
    BY <1>0, <1>f, <2>6a DEF BeginCallback, PhaseOf, Reasons
  <2>7. CASE StopFromCallback(t)
    BY <1>0, <1>f, <2>7 DEF StopFromCallback, RequestStop, PhaseOf, Reasons
  <2>8. CASE DispatchFails(t)
    BY <1>0, <1>f, <2>8 DEF DispatchFails, PhaseOf, Reasons
  <2>9. CASE Resubmit(t)
    BY <1>0, <1>f, <2>9 DEF Resubmit, PhaseOf, Reasons
  <2>10. CASE Wake(t)
    BY <1>0, <1>f, <2>10 DEF Wake, PhaseOf, Reasons
  <2>11. CASE BeginDrain(t)
    BY <1>0, <1>f, <2>11 DEF BeginDrain, PhaseOf, Reasons
  <2>12. CASE DrainResetFlag(t) \/ AwaitDrain(t) \/ DrainWake(t)
    BY <1>0, <1>f, <2>12 DEF DrainResetFlag, AwaitDrain, DrainWake, PhaseOf
  <2>13. CASE DrainFails(t) \/ Finish(t)
    <3>1. pc[t] \in {"draincheck", "drainwait"} /\ pc' = [pc EXCEPT ![t] = "out"] /\ open' = open
      BY <2>13 DEF DrainFails, Finish
    <3>2. \A u \in Threads : pc'[u] = "out"
      BY <1>0, <3>1, LastOneOut
    <3>3. Phase \in {"stopping", "failing"} /\ ~InCallback /\ open
      BY <1>0, <1>b, <3>1
      DEF Reasons, Cancelled, PhaseOf, Exclusion, ExclusiveUse, InStreamData
    <3>4. Phase' = "idle" /\ Owner' = NoThread /\ ~InCallback'
      BY <1>e, <3>1, <3>2, <3>3
    <3>5. API!Return
      BY <1>a, <3>3, <3>4 DEF API!Return
    <3> QED BY <3>5 DEF API!Next
  <2> QED
    BY <1>2, <2>1, <2>2, <2>3, <2>4, <2>5, <2>6, <2>6a, <2>7, <2>8, <2>9, <2>10, <2>11,
       <2>12, <2>13 DEF StreamData
<1>3. ASSUME NEW t \in Threads, Stop(t) PROVE [API!Next]_API!vars
  <2>1. PICK u \in Threads : pc[u] # "out"
    BY <1>0, <1>3 DEF Stop, RequestStop, NeverWedged, InStreamData
  <2>2. UNCHANGED <<pc, error>> /\ draining'
    BY <1>3 DEF Stop, RequestStop
  <2> QED BY <1>0, <1>f, <2>1, <2>2 DEF PhaseOf
<1>4. ASSUME NEW t \in Threads, Close(t) PROVE [API!Next]_API!vars
  <2>1. \A u \in Threads : pc[u] = "out" /\ pc'[u] = "out"
    BY <1>0, <1>4, EnterAlone DEF Close
  <2>2. open /\ ~open'
    BY <1>4 DEF Close
  <2>3. API!CloseDevice
    BY <1>a, <1>d, <1>e, <2>1, <2>2 DEF API!CloseDevice
  <2> QED BY <2>3 DEF API!Next
<1>5. CASE Reopen
  <2>1. (\A u \in Threads : pc[u] = "out" /\ pc'[u] = "out") /\ ~open /\ open'
    BY <1>5 DEF Reopen
  <2>2. API!OpenDevice
    BY <1>a, <1>d, <1>e, <2>1 DEF API!OpenDevice
  <2> QED BY <2>2 DEF API!Next
<1>6. CASE MarkCompleted \/ RaiseFlag
  BY <1>6, <1>g DEF MarkCompleted, RaiseFlag
<1> QED BY <1>1, <1>2, <1>3, <1>4, <1>5, <1>6 DEF Next

\* ImplementsAPI, as far as it is about what a step may do: whatever else fails,
\* every behaviour of the engine is one the contract of module StreamAPI allows.
\* Callbacks come one at a time, from the one call that is under way and never
\* once it has failed, though they may go on after a stop; a call only ends
\* between callbacks, stopped or failed; the device is closed only between calls
\* (pg2sdr_stream_data, dispatch_transfer, pg2sdr_stop_streaming,
\* pg2sdr_close_device).
THEOREM ImplementsAPISafety ==
  ASSUME "submit" \notin Faults
  PROVE  Spec => API!Safety
<1>1. Init => API!Init
  <2>1. Init => (\A u \in Threads : pc[u] = "out") /\ open
    BY DEF Init
  <2>2. InCallback \in BOOLEAN
    BY DEF InCallback
  <2> QED BY <2>1, <2>2, SeenIdle DEF API!Init
<1>2. CallInv /\ [Next]_vars => [API!Next]_API!vars
  BY ImplementsStep
<1>3. Spec => []CallInv
  BY InitCallInv, NextCallInv, PTL DEF Spec
<1> QED BY <1>1, <1>2, <1>3, PTL DEF Spec, API!Safety

=============================================================================
