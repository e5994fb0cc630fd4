---------------------------- MODULE SoapyProofs -----------------------------
(***************************************************************************)
(* Theorems about module Soapy, for any number of streams and of threads   *)
(* that control them, and buffers and queues of any size.                  *)
(***************************************************************************)
EXTENDS Soapy, SequenceTheorems, NaturalFacts, TLAPS

-----------------------------------------------------------------------------
(* The inductive invariant.                                                *)

ThreadStates == {"none", "starting", "streaming", "failed", "done"}

\* Where a thread is while it has mutex_ and the stream has to stand still.
Stopping(c) == pc[c] \in {"stop", "join"}
Stopped(c) == pc[c] \in {"paused", "apply", "resume"}

Shape ==
  /\ thread \in [Streams -> ThreadStates]
  /\ DOMAIN queue = Streams /\ DOMAIN pc = Controllers
  /\ active \in Streams \cup {NoStream}

Exclusion ==
  \A c \in Controllers :
    /\ Stopping(c) \/ Stopped(c) => mutex = c
    /\ Stopping(c) => active # NoStream /\ thread[active] # "none"
    /\ Stopped(c) /\ active # NoStream => thread[active] = "none"

OneWorker == \A s \in Streams : thread[s] # "none" => active = s

LibraryHasWorker ==
  /\ phase = "idle" <=> owner = NoThread
  /\ phase # "idle" => owner \in Streams /\ thread[owner] = "streaming"

QueueOfWorker == \A s \in Streams : thread[s] = "none" => queue[s] = <<>>

IInv == Shape /\ Exclusion /\ OneWorker /\ LibraryHasWorker /\ QueueOfWorker /\ RateSettled

LEMMA InitIInv == Init => IInv
<1> SUFFICES ASSUME Init PROVE IInv
  OBVIOUS
<1> QED
  BY SoapyAssumption DEF Init, Lib!Init, IInv, Shape, ThreadStates, Exclusion, Stopping,
     Stopped, OneWorker, LibraryHasWorker, QueueOfWorker, RateSettled

-----------------------------------------------------------------------------
(* What the steps have in common.                                          *)

\* A stream stands still when nobody can be streaming.
LEMMA NoStreamNoWorker ==
  ASSUME IInv, \A s \in Streams : thread[s] = "none"
  PROVE  phase = "idle"
BY DEF IInv, LibraryHasWorker

LEMMA StoppedIsIdle ==
  ASSUME IInv, NEW c \in Controllers, Stopped(c)
  PROVE  phase = "idle"
<1>1. \A s \in Streams : thread[s] = "none"
  BY SoapyAssumption DEF IInv, Exclusion, OneWorker
<1> QED BY <1>1, NoStreamNoWorker

\* With the mutex free nobody is in the middle of a pause.
LEMMA FreeMutex ==
  ASSUME IInv, mutex = NoThread
  PROVE  \A c \in Controllers : ~Stopping(c) /\ ~Stopped(c)
BY SoapyAssumption DEF IInv, Exclusion

\* Applying changes never takes the rate out of force.
LEMMA AppliedStays ==
  ASSUME NEW result \in {"OK", "BAD_STATE", "FAILS"}, ApplyChanges(result)
  PROVE  /\ rate = "applied" => rate' = "applied"
         /\ result = "OK" => rate' = "applied"
BY DEF ApplyChanges, config

\* And a stream that is started, or fails to start, is the one given.
LEMMA ActivationStep ==
  ASSUME IInv, NEW s \in Streams, active \in {NoStream, s},
         ActivateWorks(s) \/ ActivateFails(s)
  PROVE  /\ rate = "applied" => rate' = "applied"
         /\ \/ thread' = thread
            \/ thread[s] = "none" /\ thread' = [thread EXCEPT ![s] = "starting"]
BY AppliedStays DEF ActivateWorks, ActivateFails, config

-----------------------------------------------------------------------------
(* Every step preserves the invariant.                                     *)

\* The steps of a controller.
LEMMA ControlIInv ==
  ASSUME IInv, NEW c \in Controllers, Control(c)
  PROVE  IInv'
<1> USE SoapyAssumption
<1> USE DEF IInv, Shape, ThreadStates, Exclusion, Stopping, Stopped, OneWorker,
        LibraryHasWorker, QueueOfWorker, RateSettled
<1>1. ASSUME NEW s \in Streams, activateStream(c, s)
      PROVE  IInv'
  <2>1. \A d \in Controllers : ~Stopping(d) /\ ~Stopped(d)
    BY <1>1, FreeMutex DEF activateStream
  <2>2. /\ rate = "applied" => rate' = "applied"
        /\ \/ thread' = thread
           \/ thread[s] = "none" /\ thread' = [thread EXCEPT ![s] = "starting"]
    BY <1>1, ActivationStep DEF activateStream
  <2>3. \/ active' = active /\ thread' = thread
        \/ active' = s
    BY <1>1 DEF activateStream, ActivateFails
  <2>4. UNCHANGED <<phase, owner, mutex, pc, queue>>
    BY <1>1 DEF activateStream, libVars, queueVars
  <2>5. active \in {NoStream, s}
    BY <1>1 DEF activateStream
  <2> QED BY <2>1, <2>2, <2>3, <2>4, <2>5
<1>2. CASE Pause(c)
  <2>1. \A d \in Controllers : ~Stopping(d) /\ ~Stopped(d)
    BY <1>2, FreeMutex DEF Pause
  <2> QED BY <1>2, <2>1 DEF Pause, libVars, config, queueVars
<1>3. CASE StopLibrary(c)
  BY <1>3 DEF StopLibrary, Lib!StopStreaming, libVars, config, queueVars
<1>4. CASE Join(c)
  BY <1>4 DEF Join, libVars, config
<1>5. CASE Deactivated(c)
  BY <1>5 DEF Deactivated, Unlock, libVars, config, queueVars
<1>6. CASE Write(c) \/ setSampleRate(c)
  <2>1. phase = "idle"
    BY <1>6, StoppedIsIdle DEF Write, setSampleRate
  <2> QED BY <1>6, <2>1 DEF Write, setSampleRate, libVars, queueVars
<1>7. CASE Apply(c)
  <2>1. rate = "applied" => rate' = "applied"
    BY <1>7, AppliedStays DEF Apply
  <2> QED BY <1>7, <2>1 DEF Apply, libVars, queueVars
<1>8. CASE Resume(c)
  <2>1. /\ rate = "applied" => rate' = "applied"
        /\ \/ thread' = thread
           \/ /\ active # NoStream /\ thread[active] = "none"
              /\ thread' = [thread EXCEPT ![active] = "starting"]
    BY <1>8, ActivationStep DEF Resume, config
  <2>2. \A d \in Controllers : Stopping(d) \/ Stopped(d) => d = c
    BY <1>8 DEF Resume
  <2> QED BY <1>8, <2>1, <2>2 DEF Resume, Unlock, libVars, queueVars
<1>9. CASE setFrequency(c) \/ getFrequency(c)
  BY <1>9 DEF setFrequency, getFrequency, libVars, config, queueVars
<1>10. CASE tryApplyChanges(c)
  <2>1. rate = "applied" => rate' = "applied"
    BY <1>10, AppliedStays DEF tryApplyChanges
  <2> QED BY <1>10, <2>1 DEF tryApplyChanges, libVars, queueVars
<1> QED BY <1>1, <1>2, <1>3, <1>4, <1>5, <1>6, <1>7, <1>8, <1>9, <1>10 DEF Control

\* The steps of a worker, and of the library it is in.
LEMMA WorkerIInv ==
  ASSUME IInv, NEW s \in Streams, Worker(s)
  PROVE  IInv'
<1> USE SoapyAssumption
<1> USE DEF IInv, Shape, ThreadStates, Exclusion, Stopping, Stopped, OneWorker,
        LibraryHasWorker, QueueOfWorker, RateSettled
<1>1. CASE WorkerEnters(s)
  <2>1. rate' = "applied"
    BY <1>1, AppliedStays DEF WorkerEnters
  <2> QED
    BY <1>1, <2>1 DEF WorkerEnters, SetWorker, Lib!StreamData, callVars, queueVars
<1>2. CASE WorkerRefused(s)
  <2>1. rate = "applied" => rate' = "applied"
    BY <1>2, AppliedStays DEF WorkerRefused, config
  <2> QED
    BY <1>2, <2>1 DEF WorkerRefused, SetWorker, libVars, callVars, queueVars
<1>3. CASE WorkerReturns(s)
  BY <1>3 DEF WorkerReturns, SetWorker, Lib!Return, config, callVars, queueVars
<1>4. CASE WorkerReports(s)
  BY <1>4 DEF WorkerReports, SetWorker, libVars, config, callVars
<1>5. CASE StopFromCallback(s)
  BY <1>5 DEF StopFromCallback, Lib!StopStreaming, config, callVars, queueVars
<1>6. ASSUME NEW n \in Counts, Buffer(s, n)
      PROVE  IInv'
  BY <1>6 DEF Buffer, Lib!EndCallback, config, callVars, queueVars
<1> QED BY <1>1, <1>2, <1>3, <1>4, <1>5, <1>6 DEF Worker

LEMMA LibraryIInv ==
  ASSUME IInv, Library
  PROVE  IInv'
BY DEF Library, LibraryCalls, LibraryFails, Lib!BeginCallback, Lib!Error, config, callVars,
   queueVars, IInv, Shape, ThreadStates, Exclusion, Stopping, Stopped, OneWorker,
   LibraryHasWorker, QueueOfWorker, RateSettled

\* A reader takes from the queue of its stream and touches nothing else that counts here.
LEMMA ReadIInv ==
  ASSUME IInv, NEW s \in Streams, Read(s)
  PROVE  IInv'
<1>1. UNCHANGED <<libVars, config, callVars, thread>>
  BY DEF Read, readStream, TakePending, TakeQueued, TimesOut, HeldIsGone, ReportsError,
     Jumps, Copy, CopyHeld, Fills
<1>2. \/ queue' = queue
      \/ queue[s] # <<>> /\ queue' = [queue EXCEPT ![s] = Tail(@)]
  BY DEF Read, readStream, TakePending, TakeQueued, TimesOut, HeldIsGone, ReportsError,
     Jumps, Copy, CopyHeld, Fills, queueVars
<1> QED
  BY <1>1, <1>2 DEF libVars, config, callVars, IInv, Shape, ThreadStates, Exclusion,
     Stopping, Stopped, OneWorker, LibraryHasWorker, QueueOfWorker, RateSettled

LEMMA NextIInv == IInv /\ [Next]_vars => IInv'
<1> SUFFICES ASSUME IInv, [Next]_vars PROVE IInv'
  OBVIOUS
<1>1. CASE UNCHANGED vars
  BY <1>1 DEF vars, libVars, config, callVars, queueVars, IInv, Shape, ThreadStates,
     Exclusion, Stopping, Stopped, OneWorker, LibraryHasWorker, QueueOfWorker, RateSettled
<1> QED BY <1>1, ControlIInv, WorkerIInv, LibraryIInv, ReadIInv DEF Next

LEMMA IInvHolds == Spec => []IInv
<1> QED BY InitIInv, NextIInv, PTL DEF Spec

-----------------------------------------------------------------------------
(* The theorems.                                                           *)

\* Whatever the threads of an application do, a worker runs only for the active
\* stream, so that the others may be deleted; and when deactivateStream or
\* closeStream has returned nothing streams and nothing is queued: the destructor
\* of the driver closes a device that is not in use.
THEOREM OnlyActiveWorksHolds == Spec => []OnlyActiveWorks
<1>1. IInv => OnlyActiveWorks
  BY SoapyAssumption DEF IInv, OneWorker, LibraryHasWorker, QueueOfWorker, OnlyActiveWorks
<1> QED BY <1>1, IInvHolds, PTL

\* The sample rate is in force whenever the library streams. PauseStreamGuard keeps
\* the promise that the rate is never touched under a running stream.
THEOREM RateSettledHolds == Spec => []RateSettled
<1>1. IInv => RateSettled
  BY DEF IInv
<1> QED BY <1>1, IInvHolds, PTL

\* So pg2sdr_apply_changes never answers PG2SDR_ERROR_BAD_STATE: the branch of
\* tryApplyChanges that pauses the stream and applies the changes again is never
\* taken, whatever an application does.
NeverRefused == \A c \in Controllers : pc[c] # "retry"

LEMMA NextNeverRefused ==
  ASSUME IInv, NeverRefused, [Next]_vars
  PROVE  NeverRefused'
<1> USE DEF NeverRefused
<1>1. ASSUME NEW c \in Controllers, Control(c)
      PROVE  NeverRefused'
  <2>1. DOMAIN pc = Controllers
    BY DEF IInv, Shape
  <2>2. CASE tryApplyChanges(c)
    <3>1. PICK result \in {"OK", "BAD_STATE", "FAILS"} :
            /\ ApplyChanges(result)
            /\ pc' = [pc EXCEPT ![c] = IF result = "BAD_STATE" THEN "retry" ELSE "idle"]
      BY <2>2 DEF tryApplyChanges
    <3>2. result # "BAD_STATE"
      BY <3>1 DEF ApplyChanges, IInv, RateSettled
    <3> QED BY <2>1, <3>1, <3>2
  <2>3. CASE ~tryApplyChanges(c)
    BY <1>1, <2>1, <2>3 DEF Control, activateStream, Pause, StopLibrary, Join, Deactivated,
       Write, setSampleRate, Apply, Resume, setFrequency, getFrequency, Unlock
  <2> QED BY <2>2, <2>3
<1>2. ASSUME NEW s \in Streams, Worker(s)
      PROVE  NeverRefused'
  BY <1>2 DEF Worker, WorkerEnters, WorkerRefused, WorkerReturns, WorkerReports,
     StopFromCallback, Buffer, callVars
<1>3. ASSUME NEW s \in Streams, Read(s)
      PROVE  NeverRefused'
  BY <1>3 DEF Read, readStream, TakePending, TakeQueued, TimesOut, HeldIsGone,
     ReportsError, Jumps, Copy, CopyHeld, Fills, callVars
<1>4. CASE Library \/ UNCHANGED vars
  BY <1>4 DEF Library, LibraryCalls, LibraryFails, vars, callVars
<1> QED BY <1>1, <1>2, <1>3, <1>4 DEF Next

\* No controller ever gets there.
THEOREM NeverRefusedHolds == Spec => []NeverRefused
<1>1. Init => NeverRefused
  BY DEF Init, NeverRefused
<1>2. IInv /\ NeverRefused /\ [Next]_vars => NeverRefused'
  BY NextNeverRefused
<1> QED BY <1>1, <1>2, IInvHolds, PTL DEF Spec

-----------------------------------------------------------------------------
(* What is queued.                                                         *)

Items == [error : BOOLEAN, run : {0, 1}, timestamp : Nat, count : Nat]

\* SamplesIn is what its definition says.
LEMMA SamplesInRule ==
  ASSUME NEW q \in Seq(Items)
  PROVE  /\ \A i \in 0 .. Len(q) : SamplesIn(q)[i] \in Nat
         /\ SamplesIn(q)[0] = 0
         /\ \A i \in 1 .. Len(q) : SamplesIn(q)[i] = SamplesIn(q)[i - 1] + q[i].count
<1> DEFINE n == Len(q)
           step == [i \in 1 .. n |-> [x \in Nat |-> x + q[i].count]]
           Rule(f) == f = [i \in 0 .. n |-> IF i = 0 THEN 0 ELSE f[i - 1] + q[i].count]
<1>0. n \in Nat /\ \A i \in 1 .. n : q[i].count \in Nat
  <2>1. n \in Nat /\ \A i \in 1 .. n : q[i] \in Items
    OBVIOUS
  <2> QED BY <2>1 DEF Items
<1>1. step \in [1 .. n -> [Nat -> Nat]]
  <2>1. ASSUME NEW i \in 1 .. n, NEW x \in Nat PROVE x + q[i].count \in Nat
    <3> HIDE DEF step, n
    <3>1. q[i].count \in Nat
      BY <1>0
    <3> QED BY <3>1
  <2> HIDE DEF n
  <2> QED BY <2>1
<1>2. PICK f \in [0 .. n -> Nat] : f[0] = 0 /\ \A i \in 1 .. n : f[i] = step[i][f[i - 1]]
  <2> HIDE DEF step, n
  <2> QED BY <1>0, <1>1, RecursiveFunction
<1>3. ASSUME NEW i \in 1 .. n PROVE f[i] = f[i - 1] + q[i].count
  <2>1. i - 1 \in 0 .. n
    BY <1>0
  <2> HIDE DEF n
  <2>2. f[i - 1] \in Nat
    BY <1>2, <2>1
  <2> QED BY <1>2, <2>2
<1>4. Rule(f)
  BY <1>2, <1>3
<1>5. Rule(SamplesIn(q))
  BY <1>4 DEF SamplesIn
<1> DEFINE g == SamplesIn(q)
<1>6. g[0] = 0 /\ \A i \in 1 .. n : g[i] = g[i - 1] + q[i].count
  <2>1. 0 \in 0 .. n /\ \A i \in 1 .. n : i \in 0 .. n /\ i # 0
    BY <1>0
  <2> HIDE DEF g
  <2> QED BY <1>5, <2>1 DEF g
<1> HIDE DEF g
<1>7. \A i \in 0 .. n : g[i] \in Nat
  <2> HIDE DEF n
  <2>1. ASSUME NEW i \in 1 .. n, g[i - 1] \in Nat PROVE g[i] \in Nat
    <3>1. q[i].count \in Nat /\ g[i] = g[i - 1] + q[i].count
      BY <1>0, <1>6
    <3> QED BY <2>1, <3>1
  <2> DEFINE V == Nat
  <2>2. g[0] \in V /\ \A i \in 1 .. n : g[i - 1] \in V => g[i] \in V
    BY <1>6, <2>1
  <2> HIDE DEF V
  <2>3. \A i \in 0 .. n : g[i] \in V
    BY <1>0, <2>2, StepByStep
  <2> QED BY <2>3 DEF V
<1> QED BY <1>6, <1>7 DEF g

\* No items, no samples; one more item, its samples more.
LEMMA SamplesAppend ==
  /\ Samples(<<>>) = 0
  /\ \A q \in Seq(Items) : \A x \in Items :
       Samples(q) \in Nat /\ Samples(Append(q, x)) = Samples(q) + x.count
<1>1. Samples(<<>>) = 0
  <2>1. <<>> \in Seq(Items) /\ Len(<<>>) = 0
    OBVIOUS
  <2> QED BY <2>1, SamplesInRule DEF Samples
<1>2. ASSUME NEW q \in Seq(Items), NEW x \in Items
      PROVE  Samples(q) \in Nat /\ Samples(Append(q, x)) = Samples(q) + x.count
  <2> DEFINE r == Append(q, x)
             n == Len(q)
             f == SamplesIn(q)
             g == SamplesIn(r)
  <2>1. /\ r \in Seq(Items) /\ Len(r) = n + 1 /\ n \in Nat
        /\ (\A i \in 1 .. n : r[i] = q[i]) /\ r[n + 1] = x
    BY AppendProperties
  <2>2. /\ f[0] = 0 /\ \A i \in 1 .. n : f[i] = f[i - 1] + q[i].count
        /\ \A i \in 0 .. n : f[i] \in Nat
    BY SamplesInRule
  <2> HIDE DEF r
  <2>3. g[0] = 0 /\ \A i \in 1 .. n + 1 : g[i] = g[i - 1] + r[i].count
    BY <2>1, SamplesInRule
  <2> HIDE DEF f, g, n
  <2> DEFINE S == {i \in 0 .. n : g[i] = f[i]}
  <2>4. S \in SUBSET (0 .. n) /\ 0 \in S
    BY <2>1, <2>2, <2>3
  <2>5. ASSUME NEW i \in S, i < n PROVE i + 1 \in S
    <3>1. i + 1 \in 1 .. n /\ (i + 1) - 1 = i /\ i + 1 \in 0 .. n /\ i + 1 \in 1 .. n + 1
      BY <2>1, <2>5
    <3>2. g[i + 1] = g[i] + r[i + 1].count /\ f[i + 1] = f[i] + q[i + 1].count
      BY <2>2, <2>3, <3>1
    <3> QED BY <2>1, <3>1, <3>2
  <2> HIDE DEF S
  <2>6. S = 0 .. n
    BY <2>1, <2>4, <2>5, BoundedInduction
  <2>7. g[n] = f[n] /\ g[n + 1] = g[n] + r[n + 1].count /\ f[n] \in Nat
    <3>1. n \in S
      BY <2>1, <2>6
    <3>2. n + 1 \in 1 .. n + 1 /\ (n + 1) - 1 = n /\ n \in 0 .. n
      BY <2>1
    <3>3. g[n] = f[n]
      BY <3>1 DEF S
    <3> QED BY <2>2, <2>3, <3>2, <3>3
  <2>8. Samples(q) = f[n] /\ Samples(Append(q, x)) = g[n + 1]
    BY <2>1 DEF Samples, f, g, n, r
  <2> QED BY <2>1, <2>7, <2>8
<1> QED BY <1>1, <1>2

\* One item taken from the front, its samples less.
LEMMA SamplesTail ==
  ASSUME NEW q \in Seq(Items), q # <<>>
  PROVE  Samples(Tail(q)) \in Nat /\ Samples(q) = Samples(Tail(q)) + Head(q).count
<1> DEFINE r == Tail(q)
           n == Len(r)
           c == Head(q).count
           f == SamplesIn(q)
           g == SamplesIn(r)
<1>1. /\ r \in Seq(Items) /\ Len(q) = n + 1 /\ n \in Nat /\ q[1].count = c /\ c \in Nat
      /\ \A i \in 1 .. n : r[i] = q[i + 1]
  <2>1. Head(q) \in Items /\ Head(q) = q[1]
    BY HeadTailProperties
  <2>2. r \in Seq(Items) /\ Len(r) = Len(q) - 1 /\ Len(q) \in Nat \ {0}
        /\ \A i \in 1 .. Len(r) : r[i] = q[i + 1]
    BY HeadTailProperties
  <2> QED BY <2>1, <2>2 DEF Items
<1>2. f[0] = 0 /\ \A i \in 1 .. n + 1 : f[i] = f[i - 1] + q[i].count
  BY <1>1, SamplesInRule
<1> HIDE DEF r
<1>3. /\ g[0] = 0 /\ \A i \in 1 .. n : g[i] = g[i - 1] + r[i].count
      /\ \A i \in 0 .. n : g[i] \in Nat
  BY <1>1, SamplesInRule
<1>4. \A i \in 1 .. n : r[i].count \in Nat
  <2>1. \A i \in 1 .. n : r[i] \in Items
    BY <1>1
  <2> QED BY <2>1 DEF Items
<1> HIDE DEF f, g, n, c
<1> DEFINE S == {i \in 0 .. n : f[i + 1] = g[i] + c}
<1>5. S \in SUBSET (0 .. n) /\ 0 \in S
  <2>1. 1 \in 1 .. n + 1 /\ 1 - 1 = 0 /\ 0 \in 0 .. n /\ 0 + 1 = 1
    BY <1>1
  <2>2. f[1] = 0 + c
    BY <1>1, <1>2, <2>1
  <2> QED BY <1>1, <1>3, <2>1, <2>2
<1>6. ASSUME NEW i \in S, i < n PROVE i + 1 \in S
  <2>1. /\ i + 1 \in 1 .. n /\ (i + 1) - 1 = i /\ i + 1 \in 0 .. n
        /\ (i + 1) + 1 \in 1 .. n + 1 /\ ((i + 1) + 1) - 1 = i + 1 /\ i \in 0 .. n
    BY <1>1, <1>6
  <2>2. f[(i + 1) + 1] = f[i + 1] + q[(i + 1) + 1].count /\ g[i + 1] = g[i] + r[i + 1].count
    BY <1>2, <1>3, <2>1
  <2>3. r[i + 1] = q[(i + 1) + 1] /\ r[i + 1].count \in Nat /\ g[i] \in Nat /\ f[i + 1] = g[i] + c
    BY <1>1, <1>3, <1>4, <2>1
  <2> QED BY <1>1, <2>1, <2>2, <2>3
<1> HIDE DEF S
<1>7. S = 0 .. n
  BY <1>1, <1>5, <1>6, BoundedInduction
<1>8. f[n + 1] = g[n] + c /\ g[n] \in Nat
  <2>1. n \in S /\ n \in 0 .. n
    BY <1>1, <1>7
  <2> QED BY <1>3, <2>1 DEF S
<1>9. Samples(q) = f[n + 1] /\ Samples(Tail(q)) = g[n]
  BY <1>1 DEF Samples, f, g, n, r
<1> QED BY <1>8, <1>9 DEF c

-----------------------------------------------------------------------------
(* The order of what is queued, in an activation r whose next sample is at *)
(* time t.                                                                 *)

NoError(q) == \A i \in 1 .. Len(q) : ~q[i].error

Ordered(q, r, t) ==
  \A i \in 1 .. Len(q) :
    /\ q[i].error => i = Len(q)
    /\ ~q[i].error => q[i].run = r /\ q[i].timestamp + q[i].count <= t
    /\ i > 1 /\ ~q[i].error => q[i - 1].timestamp + q[i - 1].count <= q[i].timestamp

\* Time passes, or a buffer taken then, or an error, is queued.
LEMMA OrderedAppend ==
  ASSUME NEW q \in Seq(Items), NEW r \in {0, 1}, NEW t \in Nat, NEW n \in Nat,
         Ordered(q, r, t), NoError(q)
  PROVE  /\ Ordered(q, r, t + n)
         /\ Ordered(Append(q, Item(r, t, n)), r, t + n) /\ NoError(Append(q, Item(r, t, n)))
         /\ Ordered(Append(q, Error), r, t)
<1>0. /\ Len(q) \in Nat /\ \A i \in 1 .. Len(q) : q[i].timestamp \in Nat /\ q[i].count \in Nat
  <2>1. Len(q) \in Nat /\ \A i \in 1 .. Len(q) : q[i] \in Items
    OBVIOUS
  <2> QED BY <2>1 DEF Items
<1>1. Ordered(q, r, t + n)
  BY <1>0 DEF Ordered
<1>2. ASSUME NEW x PROVE
        /\ Len(Append(q, x)) = Len(q) + 1 /\ Append(q, x)[Len(q) + 1] = x
        /\ \A i \in 1 .. Len(q) : Append(q, x)[i] = q[i]
  OBVIOUS
<1>3. Ordered(Append(q, Item(r, t, n)), r, t + n) /\ NoError(Append(q, Item(r, t, n)))
  <2> DEFINE x == Item(r, t, n)
             p == Append(q, x)
  <2>1. x.error = FALSE /\ x.run = r /\ x.timestamp = t /\ x.count = n
    BY DEF Item
  <2>2. Len(p) = Len(q) + 1 /\ p[Len(q) + 1] = x /\ \A i \in 1 .. Len(q) : p[i] = q[i]
    BY <1>2
  <2> HIDE DEF x, p
  <2>3. ASSUME NEW i \in 1 .. Len(p)
        PROVE  /\ ~p[i].error /\ p[i].run = r /\ p[i].timestamp + p[i].count <= t + n
               /\ i > 1 => p[i - 1].timestamp + p[i - 1].count <= p[i].timestamp
    <3>1. CASE i \in 1 .. Len(q)
      <4>1. i > 1 => i - 1 \in 1 .. Len(q)
        BY <1>0, <3>1
      <4>2. p[i] = q[i] /\ (i > 1 => p[i - 1] = q[i - 1]) /\ ~q[i].error
        BY <2>2, <3>1, <4>1 DEF NoError
      <4>3. /\ q[i].run = r /\ q[i].timestamp + q[i].count <= t + n
            /\ i > 1 => q[i - 1].timestamp + q[i - 1].count <= q[i].timestamp
        BY <1>0, <1>1, <3>1, <4>2 DEF Ordered
      <4> QED BY <4>2, <4>3
    <3>2. CASE i = Len(q) + 1
      <4>1. i > 1 => i - 1 \in 1 .. Len(q) /\ i - 1 = Len(q)
        BY <1>0, <3>2
      <4> QED BY <1>0, <2>1, <2>2, <3>2, <4>1 DEF Ordered, NoError
    <3> QED BY <1>0, <2>2, <3>1, <3>2
  <2> QED BY <2>3 DEF Ordered, NoError, p, x
<1>4. Ordered(Append(q, Error), r, t)
  <2> DEFINE p == Append(q, Error)
  <2>1. Len(p) = Len(q) + 1 /\ p[Len(q) + 1].error /\ \A i \in 1 .. Len(q) : p[i] = q[i]
    BY <1>2 DEF Error
  <2> HIDE DEF p
  <2>2. ASSUME NEW i \in 1 .. Len(p), ~p[i].error \/ i # Len(p)
        PROVE  /\ ~p[i].error /\ p[i].run = r /\ p[i].timestamp + p[i].count <= t
               /\ i > 1 => p[i - 1].timestamp + p[i - 1].count <= p[i].timestamp
    <3>1. i \in 1 .. Len(q) /\ (i > 1 => i - 1 \in 1 .. Len(q))
      BY <1>0, <2>1, <2>2
    <3>2. p[i] = q[i] /\ (i > 1 => p[i - 1] = q[i - 1]) /\ ~q[i].error
      BY <2>1, <3>1 DEF NoError
    <3> QED BY <3>1, <3>2 DEF Ordered
  <2>3. Ordered(p, r, t)
    BY <2>2 DEF Ordered
  <2> QED BY <2>3 DEF p
<1> QED BY <1>1, <1>3, <1>4

\* The front of the queue is used up, or some of its samples are.
LEMMA OrderedTail ==
  ASSUME NEW q \in Seq(Items), NEW r, NEW t \in Nat, Ordered(q, r, t), q # <<>>
  PROVE  Ordered(Tail(q), r, t) /\ (NoError(q) => NoError(Tail(q)))
<1> DEFINE p == Tail(q)
<1>1. /\ Len(q) = Len(p) + 1 /\ Len(p) \in Nat /\ \A i \in 1 .. Len(p) : p[i] = q[i + 1]
  BY HeadTailProperties
<1> HIDE DEF p
<1>2. ASSUME NEW i \in 1 .. Len(p)
      PROVE  /\ p[i] = q[i + 1] /\ i + 1 \in 1 .. Len(q) /\ i + 1 > 1 /\ (i + 1) - 1 = i
             /\ i > 1 => p[i - 1] = q[i]
  BY <1>1
<1>3. NoError(q) => NoError(p)
  BY <1>2 DEF NoError
<1>4. Ordered(p, r, t)
  <2>1. ASSUME NEW i \in 1 .. Len(p), p[i].error PROVE i = Len(p)
    BY <1>1, <1>2, <2>1 DEF Ordered
  <2>2. ASSUME NEW i \in 1 .. Len(p), ~p[i].error
        PROVE  /\ p[i].run = r /\ p[i].timestamp + p[i].count <= t
               /\ i > 1 => p[i - 1].timestamp + p[i - 1].count <= p[i].timestamp
    <3>1. ~q[i + 1].error /\ i + 1 \in 1 .. Len(q)
      BY <1>2, <2>2
    <3>2. /\ q[i + 1].run = r /\ q[i + 1].timestamp + q[i + 1].count <= t
          /\ q[i].timestamp + q[i].count <= q[i + 1].timestamp
      BY <1>2, <3>1 DEF Ordered
    <3> QED BY <1>2, <3>2
  <2> QED BY <2>1, <2>2 DEF Ordered
<1> QED BY <1>3, <1>4 DEF p

\* The first item loses samples at its beginning.
LEMMA OrderedRest ==
  ASSUME NEW q \in Seq(Items), NEW r, NEW t \in Nat, Ordered(q, r, t), q # <<>>,
         NEW x \in Items, ~q[1].error, ~x.error, x.run = q[1].run,
         x.timestamp + x.count = q[1].timestamp + q[1].count
  PROVE  Ordered(<<x>> \o Tail(q), r, t) /\ (NoError(q) => NoError(<<x>> \o Tail(q)))
<1> DEFINE p == <<x>> \o Tail(q)
<1>1. /\ p \in Seq(Items) /\ Len(p) = Len(q) /\ Len(q) \in Nat \ {0} /\ p[1] = x
      /\ \A i \in 1 .. Len(q) : i > 1 => p[i] = q[i]
  <2> DEFINE y == Tail(q)
  <2>1. /\ y \in Seq(Items) /\ Len(q) = Len(y) + 1 /\ Len(y) \in Nat
        /\ \A i \in 1 .. Len(y) : y[i] = q[i + 1]
    BY HeadTailProperties
  <2> HIDE DEF y
  <2>2. <<x>> \in Seq(Items) /\ Len(<<x>>) = 1 /\ <<x>>[1] = x
    OBVIOUS
  <2>3. /\ <<x>> \o y \in Seq(Items) /\ Len(<<x>> \o y) = 1 + Len(y)
        /\ \A i \in 1 .. 1 + Len(y) : (<<x>> \o y)[i] = IF i <= 1 THEN <<x>>[i] ELSE y[i - 1]
    BY <2>1, <2>2, ConcatProperties
  <2>4. ASSUME NEW i \in 1 .. Len(q), i > 1 PROVE (<<x>> \o y)[i] = q[i]
    <3>1. i - 1 \in 1 .. Len(y) /\ i \in 1 .. 1 + Len(y) /\ ~(i <= 1) /\ (i - 1) + 1 = i
      BY <2>1, <2>4
    <3> QED BY <2>1, <2>3, <3>1
  <2>5. (<<x>> \o y)[1] = x
    BY <2>1, <2>2, <2>3
  <2> QED BY <2>1, <2>3, <2>4, <2>5
<1> HIDE DEF p
<1>2. NoError(q) => NoError(p)
  BY <1>1 DEF NoError
<1>3. ASSUME NEW i \in 1 .. Len(p), p[i].error PROVE i = Len(p)
  <2>1. i > 1
    BY <1>1, <1>3
  <2> QED BY <1>1, <1>3, <2>1 DEF Ordered
<1>4. ASSUME NEW i \in 1 .. Len(p), ~p[i].error
      PROVE  /\ p[i].run = r /\ p[i].timestamp + p[i].count <= t
             /\ i > 1 => p[i - 1].timestamp + p[i - 1].count <= p[i].timestamp
  <2>1. q[1].run = r /\ q[1].timestamp + q[1].count <= t
    BY <1>1 DEF Ordered
  <2>2. CASE i = 1
    BY <1>1, <2>1, <2>2
  <2>3. CASE i > 1
    <3>1. p[i] = q[i] /\ i - 1 \in 1 .. Len(q) /\ i \in 1 .. Len(q)
      BY <1>1, <2>3
    <3>2. /\ q[i].run = r /\ q[i].timestamp + q[i].count <= t
          /\ q[i - 1].timestamp + q[i - 1].count <= q[i].timestamp
      BY <1>4, <2>3, <3>1 DEF Ordered
    <3>3. p[i - 1].timestamp + p[i - 1].count = q[i - 1].timestamp + q[i - 1].count
      <4>1. CASE i - 1 = 1
        BY <1>1, <4>1
      <4>2. CASE i - 1 > 1
        BY <1>1, <3>1, <4>2
      <4> QED BY <3>1, <4>1, <4>2
    <3> QED BY <3>1, <3>2, <3>3
  <2> QED BY <1>1, <2>2, <2>3
<1>5. Ordered(p, r, t)
  BY <1>3, <1>4 DEF Ordered
<1> QED BY <1>2, <1>5 DEF p

-----------------------------------------------------------------------------
(* The queue and its reader.                                               *)

ReaderStates == {"idle", "loop", "copy", "full", "undefined"}
Readers == [at : ReaderStates, want : Nat, got : Seq({0, 1} \X Nat), paused : BOOLEAN]

Types ==
  /\ run \in {0, 1} /\ now \in Nat
  /\ queue \in [Streams -> Seq(Items)] /\ queueSize \in [Streams -> Nat]
  /\ pending \in [Streams -> Seq(Items)]
  /\ reader \in [Streams -> Readers] /\ expected \in [Streams -> Nat]

\* What is queued on s, the item its reader has begun included.
Whole(s) == pending[s] \o queue[s]

\* An error is only queued by a worker that has ended, and nothing by one that
\* has not begun.
QueueOf(s) ==
  /\ Len(pending[s]) <= 1
  /\ queueSize[s] = Samples(queue[s]) /\ queueSize[s] <= QueueLimit
  /\ Ordered(Whole(s), run, now)
  /\ thread[s] \in {"none", "starting"} => queue[s] = <<>> /\ pending[s] = <<>>
  /\ thread[s] # "done" => NoError(Whole(s))

\* What a call of read that has not been paused has returned so far ends where
\* expected_timestamp_ says, in this activation.
GotOf(s) ==
  /\ reader[s].at = "idle" => reader[s].got = <<>>
  /\ Len(reader[s].got) <= reader[s].want
  /\ ~reader[s].paused /\ reader[s].got # <<>> =>
       /\ thread[s] \in {"streaming", "failed", "done"}
       /\ \A i \in 1 .. Len(reader[s].got) :
            reader[s].got[i] = <<run, expected[s] - Len(reader[s].got) + i - 1>>

QInv == Types /\ \A s \in Streams : QueueOf(s) /\ GotOf(s)

LEMMA EmptyOrdered ==
  \A r, t : Ordered(<<>>, r, t) /\ NoError(<<>>)
BY DEF Ordered, NoError

LEMMA NothingWhole ==
  ASSUME NEW s \in Streams, queue[s] = <<>>, pending[s] = <<>>
  PROVE  Whole(s) = <<>>
BY DEF Whole

LEMMA InitQInv == Init => QInv
<1> SUFFICES ASSUME Init PROVE QInv
  OBVIOUS
<1>1. /\ run = 0 /\ now = 0 /\ queue = [s \in Streams |-> <<>>]
      /\ queueSize = [s \in Streams |-> 0] /\ pending = [s \in Streams |-> <<>>]
      /\ expected = [s \in Streams |-> 0] /\ thread = [s \in Streams |-> "none"]
      /\ reader = [s \in Streams |-> NotReading]
  BY DEF Init
<1>2. NotReading \in Readers /\ NotReading.at = "idle" /\ NotReading.got = <<>> /\ NotReading.want = 0
  BY DEF NotReading, Readers, ReaderStates
<1>3. <<>> \in Seq(Items) /\ Len(<<>>) = 0
  OBVIOUS
<1>4. Types
  BY <1>1, <1>2, <1>3 DEF Types
<1>5. ASSUME NEW s \in Streams PROVE QueueOf(s) /\ GotOf(s)
  <2>1. queue[s] = <<>> /\ pending[s] = <<>> /\ queueSize[s] = 0 /\ thread[s] = "none"
        /\ reader[s] = NotReading
    BY <1>1
  <2>2. Whole(s) = <<>>
    BY <2>1, NothingWhole
  <2> QED
    BY <1>2, <1>3, <2>1, <2>2, EmptyOrdered, SamplesAppend, SoapyAssumption DEF QueueOf, GotOf
<1> QED BY <1>4, <1>5 DEF QInv

\* A step that touches neither, and lets a worker only go on.
LEMMA QueuesStill ==
  ASSUME QInv, UNCHANGED <<run, now, queue, queueSize, pending, reader>>,
         expected' \in [Streams -> Nat],
         \A s \in Streams :
           \/ thread'[s] = thread[s] /\ expected'[s] = expected[s]
           \/ thread[s] = "none" /\ thread'[s] = "starting"
           \/ /\ thread[s] = "starting" /\ thread'[s] = "failed"
              /\ expected'[s] = expected[s]
           \/ /\ thread[s] = "streaming" /\ thread'[s] \in {"failed", "done"}
              /\ expected'[s] = expected[s]
  PROVE  QInv'
<1>1. Types'
  BY DEF QInv, Types
<1>2. ASSUME NEW s \in Streams PROVE QueueOf(s)' /\ GotOf(s)'
  <2>1. QueueOf(s) /\ GotOf(s)
    BY DEF QInv
  <2>2. Whole(s)' = Whole(s)
    BY DEF Whole
  <2>3. QueueOf(s)'
    BY <2>1, <2>2 DEF QueueOf
  <2>4. GotOf(s)'
    BY <2>1 DEF GotOf
  <2> QED BY <2>3, <2>4
<1> QED BY <1>1, <1>2 DEF QInv

\* The steps of a controller: all it does to a queue is to clear it.
LEMMA ControlQInv ==
  ASSUME IInv, QInv, NEW c \in Controllers, Control(c)
  PROVE  QInv'
<1>0. /\ thread \in [Streams -> ThreadStates] /\ expected \in [Streams -> Nat]
      /\ active \in Streams \cup {NoStream} /\ NoStream \notin Streams
  BY SoapyAssumption DEF IInv, Shape, QInv, Types
<1>1. ASSUME NEW s \in Streams, ActivateWorks(s) \/ ActivateFails(s),
             UNCHANGED <<run, now, queue, queueSize, pending, reader>>
      PROVE  QInv'
  <2>1. \/ UNCHANGED <<thread, expected>>
        \/ /\ thread[s] = "none" /\ thread' = [thread EXCEPT ![s] = "starting"]
           /\ expected' = [expected EXCEPT ![s] = 0]
    BY <1>1 DEF ActivateWorks, ActivateFails
  <2>2. expected' \in [Streams -> Nat]
    BY <1>0, <2>1
  <2>3. \A u \in Streams :
          \/ thread'[u] = thread[u] /\ expected'[u] = expected[u]
          \/ thread[u] = "none" /\ thread'[u] = "starting"
    BY <1>0, <2>1
  <2> QED BY <1>1, <2>2, <2>3, QueuesStill
<1>2. ASSUME UNCHANGED <<run, now, queue, queueSize, pending, reader, thread, expected>>
      PROVE  QInv'
  BY <1>0, <1>2, QueuesStill
<1>3. CASE Join(c)
  <2>1. PICK a \in Streams : active = a
    BY <1>0, <1>3 DEF Join, IInv, Exclusion, Stopping
  <2>2. /\ queue' = [queue EXCEPT ![a] = <<>>] /\ queueSize' = [queueSize EXCEPT ![a] = 0]
        /\ pending' = [pending EXCEPT ![a] = <<>>]
        /\ thread' = [thread EXCEPT ![a] = "none"]
        /\ reader' = [reader EXCEPT ![a].paused = reader[a].at # "idle"]
        /\ UNCHANGED <<run, now, expected>>
    BY <1>3, <2>1 DEF Join
  <2>3. <<>> \in Seq(Items) /\ Len(<<>>) = 0
    OBVIOUS
  <2>4. Types'
    <3>1. Types
      BY DEF QInv
    <3>2. run' \in {0, 1} /\ now' \in Nat /\ expected' \in [Streams -> Nat]
      BY <2>2, <3>1 DEF Types
    <3>3. /\ queue' \in [Streams -> Seq(Items)] /\ pending' \in [Streams -> Seq(Items)]
          /\ queueSize' \in [Streams -> Nat]
      BY <2>2, <2>3, <3>1 DEF Types
    <3>4. reader' \in [Streams -> Readers]
      <4>1. reader[a] \in Readers /\ (reader[a].at # "idle") \in BOOLEAN
        BY <3>1 DEF Types
      <4>2. [reader[a] EXCEPT !.paused = reader[a].at # "idle"] \in Readers
        BY <4>1 DEF Readers
      <4> QED BY <2>2, <3>1, <4>2 DEF Types
    <3> QED BY <3>2, <3>3, <3>4 DEF Types
  <2>5. QueueOf(a)'
    <3>1. queue'[a] = <<>> /\ pending'[a] = <<>> /\ queueSize'[a] = 0
      BY <2>2 DEF QInv, Types
    <3>2. Whole(a)' = <<>>
      BY <3>1 DEF Whole
    <3>3. Ordered(Whole(a), run, now)' /\ NoError(Whole(a))'
      BY <3>2, EmptyOrdered
    <3> QED BY <2>3, <3>1, <3>3, SamplesAppend, SoapyAssumption DEF QueueOf
  <2>6. GotOf(a)'
    <3>1. GotOf(a) /\ reader[a] \in Readers
      BY DEF QInv, Types
    <3>2. reader'[a] = [reader[a] EXCEPT !.paused = reader[a].at # "idle"]
      BY <2>2 DEF QInv, Types
    <3>3. /\ reader'[a].at = reader[a].at /\ reader'[a].got = reader[a].got
          /\ reader'[a].want = reader[a].want
          /\ reader'[a].paused = (reader[a].at # "idle")
      BY <3>1, <3>2 DEF Readers
    <3> QED BY <3>1, <3>3 DEF GotOf
  <2>7. ASSUME NEW s \in Streams, s # a PROVE QueueOf(s)' /\ GotOf(s)'
    <3>1. QueueOf(s) /\ GotOf(s)
      BY DEF QInv
    <3>2. /\ queue'[s] = queue[s] /\ pending'[s] = pending[s] /\ queueSize'[s] = queueSize[s]
          /\ thread'[s] = thread[s] /\ reader'[s] = reader[s]
      BY <1>0, <2>2, <2>7 DEF QInv, Types
    <3>3. Whole(s)' = Whole(s)
      BY <3>2 DEF Whole
    <3> QED BY <2>2, <3>1, <3>2, <3>3 DEF QueueOf, GotOf
  <2> QED BY <2>4, <2>5, <2>6, <2>7 DEF QInv
<1>4. ASSUME NEW s \in Streams, activateStream(c, s) PROVE QInv'
  <2>1. ActivateWorks(s) \/ ActivateFails(s)
    BY <1>4 DEF activateStream
  <2>2. UNCHANGED <<run, now, queue, queueSize, pending, reader>>
    BY <1>4 DEF activateStream, queueVars
  <2> QED BY <1>1, <2>1, <2>2
<1>5. CASE Resume(c)
  <2>1. UNCHANGED <<run, now, queue, queueSize, pending, reader>>
    BY <1>5 DEF Resume, queueVars
  <2>2. CASE active = NoStream
    <3>1. UNCHANGED <<thread, expected>>
      BY <1>5, <2>2 DEF Resume
    <3> QED BY <1>2, <2>1, <3>1
  <2>3. CASE active # NoStream
    <3>1. ActivateWorks(active) \/ ActivateFails(active)
      BY <1>5, <2>3 DEF Resume
    <3> QED BY <1>0, <1>1, <2>1, <2>3, <3>1
  <2> QED BY <2>2, <2>3
<1>6. CASE Pause(c) \/ StopLibrary(c) \/ Deactivated(c) \/ Write(c) \/ setSampleRate(c)
           \/ Apply(c) \/ setFrequency(c) \/ getFrequency(c) \/ tryApplyChanges(c)
  BY <1>2, <1>6 DEF Pause, StopLibrary, Deactivated, Write, setSampleRate, Apply,
     setFrequency, getFrequency, tryApplyChanges, queueVars, readVars
<1> QED BY <1>3, <1>4, <1>5, <1>6 DEF Control

\* The steps of a worker.
LEMMA WorkerQInv ==
  ASSUME IInv, QInv, NEW s \in Streams, Worker(s)
  PROVE  QInv'
<1>0. /\ thread \in [Streams -> ThreadStates] /\ expected \in [Streams -> Nat]
      /\ \A u \in Streams : thread[s] # "none" /\ u # s => thread[u] = "none"
      /\ owner = s => thread[s] = "streaming"
  BY SoapyAssumption DEF IInv, Shape, OneWorker, LibraryHasWorker, QInv, Types
<1>00. Types /\ \A u \in Streams : QueueOf(u) /\ GotOf(u)
  BY DEF QInv
<1>1. CASE WorkerEnters(s)
  <2>1. /\ thread[s] = "starting" /\ thread' = [thread EXCEPT ![s] = "streaming"]
        /\ run' = 1 - run /\ now' = 0
        /\ UNCHANGED <<queue, queueSize, pending, expected, reader>>
    BY <1>1 DEF WorkerEnters, SetWorker, queueVars, readVars
  <2>2. Types'
    BY <1>00, <2>1 DEF Types
  <2>3. ASSUME NEW u \in Streams PROVE QueueOf(u)' /\ GotOf(u)'
    <3>1. QueueOf(u) /\ GotOf(u) /\ thread[u] \in {"none", "starting"}
      BY <1>0, <1>00, <2>1
    <3>2. queue[u] = <<>> /\ pending[u] = <<>> /\ (reader[u].got = <<>> \/ reader[u].paused)
      BY <3>1 DEF QueueOf, GotOf
    <3>3. Whole(u)' = <<>>
      BY <2>1, <3>2 DEF Whole
    <3>4. Ordered(Whole(u), run, now)' /\ NoError(Whole(u))'
      BY <3>3, EmptyOrdered
    <3>5. QueueOf(u)'
      BY <2>1, <3>1, <3>2, <3>4 DEF QueueOf
    <3>6. GotOf(u)'
      BY <2>1, <3>1, <3>2 DEF GotOf
    <3> QED BY <3>5, <3>6
  <2> QED BY <2>2, <2>3 DEF QInv
<1>2. CASE WorkerRefused(s) \/ WorkerReturns(s) \/ StopFromCallback(s)
  <2>1. UNCHANGED <<run, now, queue, queueSize, pending, expected, reader>>
    BY <1>2 DEF WorkerRefused, WorkerReturns, StopFromCallback, queueVars, readVars
  <2>2. \/ thread' = thread
        \/ thread[s] = "starting" /\ thread' = [thread EXCEPT ![s] = "failed"]
        \/ thread[s] = "streaming" /\ thread' = [thread EXCEPT ![s] = "failed"]
        \/ thread[s] = "streaming" /\ thread' = [thread EXCEPT ![s] = "done"]
    BY <1>2 DEF WorkerRefused, WorkerReturns, StopFromCallback, SetWorker
  <2>3. \A u \in Streams :
           \/ thread'[u] = thread[u]
           \/ thread[u] = "starting" /\ thread'[u] = "failed"
           \/ thread[u] = "streaming" /\ thread'[u] \in {"failed", "done"}
    BY <1>0, <2>2
  <2> QED BY <1>0, <2>1, <2>3, QueuesStill
<1>a. ASSUME NEW u \in Streams, NEW x \in Items, NEW r \in {0, 1}, NEW t \in Nat, NEW th,
             queue'[u] = Append(queue[u], x), pending'[u] = pending[u], thread'[u] = th,
             th \notin {"none", "starting"}, run' = r, now' = t,
             Ordered(Append(Whole(u), x), r, t),
             th # "done" => NoError(Append(Whole(u), x)),
             queueSize'[u] = queueSize[u] + x.count, queueSize'[u] <= QueueLimit
      PROVE  QueueOf(u)'
  <2>1. QueueOf(u) /\ queue[u] \in Seq(Items) /\ pending[u] \in Seq(Items)
    BY <1>00 DEF Types
  <2>2. Whole(u)' = Append(Whole(u), x)
    <3> DEFINE p == pending[u]
               q == queue[u]
    <3>1. p \in Seq(Items) /\ q \in Seq(Items)
      BY <2>1
    <3> HIDE DEF p, q
    <3>2. p \o Append(q, x) = Append(p \o q, x)
      BY <3>1
    <3> QED BY <1>a, <3>2 DEF Whole, p, q
  <2>3. queueSize'[u] = Samples(queue'[u])
    BY <1>a, <2>1, SamplesAppend DEF QueueOf
  <2>4. Ordered(Whole(u), run, now)' /\ (thread'[u] # "done" => NoError(Whole(u))')
    BY <1>a, <2>2
  <2> QED BY <1>a, <2>1, <2>3, <2>4 DEF QueueOf
<1>b. ASSUME NEW u \in Streams, u # s, NEW t \in Nat, now' = t, run' \in {0, 1},
             thread[s] # "none", thread'[u] = thread[u], queue'[u] = queue[u],
             pending'[u] = pending[u], queueSize'[u] = queueSize[u], reader' = reader
      PROVE  QueueOf(u)' /\ GotOf(u)'
  <2>1. QueueOf(u) /\ GotOf(u) /\ thread[u] = "none"
    BY <1>0, <1>00, <1>b
  <2>2. queue[u] = <<>> /\ pending[u] = <<>>
    BY <2>1 DEF QueueOf
  <2>3. Whole(u)' = <<>>
    BY <1>b, <2>2 DEF Whole
  <2>4. Ordered(Whole(u), run, now)' /\ NoError(Whole(u))'
    BY <2>3, EmptyOrdered
  <2> QED BY <1>b, <2>1, <2>4 DEF QueueOf, GotOf
<1>3. CASE WorkerReports(s)
  <2>1. /\ thread[s] = "failed" /\ thread' = [thread EXCEPT ![s] = "done"]
        /\ queue' = [queue EXCEPT ![s] = Append(@, Error)]
        /\ UNCHANGED <<run, now, queueSize, pending, expected, reader>>
    BY <1>3 DEF WorkerReports, SetWorker, readVars
  <2>2. Error \in Items /\ Error.count = 0
    BY DEF Error, Items
  <2>3. Types'
    BY <1>00, <2>1, <2>2 DEF Types
  <2>4. QueueOf(s)'
    <3>1. /\ QueueOf(s) /\ run \in {0, 1} /\ now \in Nat /\ queueSize[s] \in Nat
          /\ Whole(s) \in Seq(Items)
      BY <1>00 DEF Types, Whole
    <3>2. Ordered(Append(Whole(s), Error), run, now)
      BY <2>1, <3>1, OrderedAppend DEF QueueOf
    <3>3. /\ queue'[s] = Append(queue[s], Error) /\ thread'[s] = "done"
          /\ queueSize'[s] = queueSize[s] + Error.count /\ queueSize'[s] <= QueueLimit
      BY <1>0, <1>00, <2>1, <2>2, <3>1 DEF Types, QueueOf
    <3> QED BY <1>a, <2>1, <2>2, <3>1, <3>2, <3>3
  <2>5. GotOf(s)'
    <3>1. GotOf(s) /\ thread'[s] = "done"
      BY <1>0, <1>00, <2>1
    <3> QED BY <2>1, <3>1 DEF GotOf
  <2>6. ASSUME NEW u \in Streams, u # s PROVE QueueOf(u)' /\ GotOf(u)'
    BY <1>0, <1>00, <1>b, <2>1, <2>6 DEF Types
  <2> QED BY <2>3, <2>4, <2>5, <2>6 DEF QInv
<1>4. ASSUME NEW n \in Counts, Buffer(s, n) PROVE QInv'
  <2>0. n \in Nat /\ QueueLimit \in Nat /\ MaxTime \in Nat
    BY SoapyAssumption
  <2>1. /\ thread[s] = "streaming" /\ UNCHANGED <<run, thread, pending, expected, reader>>
        /\ now' = IF now + n > MaxTime THEN now ELSE now + n
        /\ \/ UNCHANGED <<queue, queueSize>>
           \/ /\ ~Full(s, n)
              /\ queue' = [queue EXCEPT ![s] = Append(@, Item(run, now, n))]
              /\ queueSize' = [queueSize EXCEPT ![s] = @ + n]
    BY <1>0, <1>4 DEF Buffer, queueVars, readVars
  <2>2. Types'
    <3>1. run \in {0, 1} /\ now \in Nat
      BY <1>00 DEF Types
    <3>2. Item(run, now, n) \in Items
      BY <2>0, <3>1 DEF Item, Items
    <3>3. now' \in Nat /\ run' \in {0, 1}
      BY <2>0, <2>1, <3>1
    <3>4. queue' \in [Streams -> Seq(Items)] /\ queueSize' \in [Streams -> Nat]
      <4> DEFINE x == Item(run, now, n)
      <4>1. x \in Items /\ queue \in [Streams -> Seq(Items)] /\ queueSize \in [Streams -> Nat]
        BY <1>00, <3>2 DEF Types
      <4>2. \/ UNCHANGED <<queue, queueSize>>
            \/ /\ queue' = [queue EXCEPT ![s] = Append(@, x)]
               /\ queueSize' = [queueSize EXCEPT ![s] = @ + n]
        BY <2>1
      <4> HIDE DEF x
      <4>3. Append(queue[s], x) \in Seq(Items) /\ queueSize[s] + n \in Nat
        BY <2>0, <4>1
      <4> QED BY <4>1, <4>2, <4>3
    <3> QED BY <1>00, <2>1, <3>3, <3>4 DEF Types
  <2>3. QueueOf(s)'
    <3>0. /\ QueueOf(s) /\ run \in {0, 1} /\ now \in Nat /\ queueSize[s] \in Nat
          /\ Whole(s) \in Seq(Items)
      BY <1>00 DEF Types, Whole
    <3>1. /\ Ordered(Whole(s), run, now + n)
          /\ Ordered(Append(Whole(s), Item(run, now, n)), run, now + n)
          /\ NoError(Append(Whole(s), Item(run, now, n)))
      BY <2>0, <2>1, <3>0, OrderedAppend DEF QueueOf
    <3>2. CASE UNCHANGED <<queue, queueSize>>
      <4>1. Whole(s)' = Whole(s)
        BY <2>1, <3>2 DEF Whole
      <4>2. Ordered(Whole(s), run, now)'
        BY <2>1, <3>0, <3>1, <4>1 DEF QueueOf
      <4> QED BY <2>1, <3>0, <3>2, <4>1, <4>2 DEF QueueOf
    <3>3. CASE /\ ~Full(s, n)
               /\ queue' = [queue EXCEPT ![s] = Append(@, Item(run, now, n))]
               /\ queueSize' = [queueSize EXCEPT ![s] = @ + n]
      <4> DEFINE x == Item(run, now, n)
      <4>1. x \in Items /\ x.count = n
        BY <2>0, <3>0 DEF Item, Items
      <4>2. /\ queue'[s] = Append(queue[s], x) /\ queueSize'[s] = queueSize[s] + x.count
            /\ queueSize'[s] <= QueueLimit /\ now' = now + n /\ now + n \in Nat
        BY <1>00, <2>0, <2>1, <3>0, <3>3, <4>1 DEF Types, Full
      <4>3. Ordered(Append(Whole(s), x), run, now + n) /\ NoError(Append(Whole(s), x))
        BY <3>1
      <4> HIDE DEF x
      <4> QED BY <1>a, <2>1, <3>0, <4>1, <4>2, <4>3
    <3> QED BY <2>1, <3>2, <3>3
  <2>4. GotOf(s)'
    BY <1>00, <2>1 DEF GotOf
  <2>5. ASSUME NEW u \in Streams, u # s PROVE QueueOf(u)' /\ GotOf(u)'
    <3>1. now' \in Nat /\ run \in {0, 1} /\ queue'[u] = queue[u] /\ queueSize'[u] = queueSize[u]
      BY <1>00, <2>0, <2>1, <2>5 DEF Types
    <3> QED BY <1>b, <2>1, <2>5, <3>1
  <2> QED BY <2>2, <2>3, <2>4, <2>5 DEF QInv
<1> QED BY <1>1, <1>2, <1>3, <1>4 DEF Worker

\* The steps of the reader of s. Those that take nothing leave what is queued.
LEMMA ReaderOnly ==
  ASSUME QInv, NEW s \in Streams, NEW x \in Readers, reader' = [reader EXCEPT ![s] = x],
         UNCHANGED <<run, now, queue, queueSize, pending, thread, expected>>,
         x.at = "idle" => x.got = <<>>, Len(x.got) <= x.want,
         x.got = <<>> \/ (x.got = reader[s].got /\ (x.paused <=> reader[s].paused))
  PROVE  QInv'
<1>0. Types /\ \A u \in Streams : QueueOf(u) /\ GotOf(u)
  BY DEF QInv
<1>1. Types'
  BY <1>0 DEF Types
<1>2. ASSUME NEW u \in Streams PROVE QueueOf(u)'
  <2>1. Whole(u)' = Whole(u) /\ QueueOf(u)
    BY <1>0 DEF Whole
  <2> QED BY <2>1 DEF QueueOf
<1>3. reader'[s] = x
  BY <1>0 DEF Types
<1>4. GotOf(s)'
  BY <1>0, <1>3 DEF GotOf
<1>5. ASSUME NEW u \in Streams, u # s PROVE GotOf(u)'
  <2>1. reader'[u] = reader[u] /\ GotOf(u)
    BY <1>0, <1>5 DEF Types
  <2> QED BY <2>1 DEF GotOf
<1> QED BY <1>1, <1>2, <1>4, <1>5 DEF QInv

LEMMA ReadQInv ==
  ASSUME IInv, QInv, NEW s \in Streams, Read(s)
  PROVE  QInv'
<1>0. Types /\ \A u \in Streams : QueueOf(u) /\ GotOf(u)
  BY DEF QInv
<1> DEFINE r == reader[s]
<1>1. /\ r \in Readers /\ r.at \in ReaderStates /\ r.want \in Nat
      /\ r.got \in Seq({0, 1} \X Nat) /\ r.paused \in BOOLEAN
      /\ (r.at = "idle" => r.got = <<>>) /\ Len(r.got) <= r.want
      /\ reader \in [Streams -> Readers]
  BY <1>0 DEF Types, GotOf, Readers
<1>2. ASSUME NEW at \in ReaderStates, at # "idle" \/ r.got = <<>>, Reader(s, at)
      PROVE  /\ reader' = [reader EXCEPT ![s] = [r EXCEPT !.at = at]]
             /\ [r EXCEPT !.at = at] \in Readers /\ [r EXCEPT !.at = at].at = at
             /\ [r EXCEPT !.at = at].got = r.got /\ [r EXCEPT !.at = at].want = r.want
             /\ [r EXCEPT !.at = at].paused = r.paused
  BY <1>1, <1>2 DEF Reader, Readers
<1>3. CASE readStream(s)
  <2>1. PICK n \in Wants :
          reader' = [reader EXCEPT ![s] = [NotReading EXCEPT !.at = "loop", !.want = n]]
    BY <1>3 DEF readStream
  <2> DEFINE x == [NotReading EXCEPT !.at = "loop", !.want = n]
  <2>2. x \in Readers /\ x.at = "loop" /\ x.got = <<>> /\ x.want = n /\ n \in Nat
    <3>1. NotReading = [at |-> "idle", want |-> 0, got |-> <<>>, paused |-> FALSE]
      BY DEF NotReading
    <3>2. n \in Nat /\ <<>> \in Seq({0, 1} \X Nat) /\ NotReading \in Readers
      BY <3>1, SoapyAssumption DEF Readers, ReaderStates
    <3>3. x \in Readers
      BY <3>2 DEF Readers, ReaderStates
    <3>4. x.at = "loop" /\ x.want = n /\ x.got = <<>>
      BY <3>1, <3>2 DEF Readers
    <3> HIDE DEF x
    <3> QED BY <3>2, <3>3, <3>4
  <2>3. UNCHANGED <<run, now, queue, queueSize, pending, thread, expected>>
    BY <1>3 DEF readStream, queueVars
  <2>4. Len(x.got) <= x.want
    BY <2>2
  <2> HIDE DEF x
  <2> QED BY <2>1, <2>2, <2>3, <2>4, ReaderOnly DEF x
<1>4. ASSUME NEW at \in ReaderStates, at # "idle", Reader(s, at),
             UNCHANGED <<run, now, queue, queueSize, pending, thread, expected>>
      PROVE  QInv'
  <2> DEFINE x == [r EXCEPT !.at = at]
  <2>1. /\ reader' = [reader EXCEPT ![s] = x] /\ x \in Readers /\ x.at = at
        /\ x.got = r.got /\ x.want = r.want /\ x.paused = r.paused
    BY <1>2, <1>4
  <2> HIDE DEF x
  <2> QED BY <1>1, <1>4, <2>1, ReaderOnly
<1>5. CASE TakePending(s) \/ HeldIsGone(s)
  BY <1>4, <1>5 DEF TakePending, HeldIsGone, ReaderStates, queueVars
<1>6. CASE TimesOut(s) \/ ReportsError(s) \/ Jumps(s) \/ Fills(s)
  <2>1. reader' = [reader EXCEPT ![s] = NotReading]
    BY <1>6 DEF TimesOut, ReportsError, Jumps, Fills, Returned
  <2>2. NotReading \in Readers /\ NotReading.got = <<>> /\ NotReading.want = 0
    BY DEF NotReading, Readers, ReaderStates
  <2>3. UNCHANGED <<run, now, queue, queueSize, pending, thread, expected>>
    BY <1>6 DEF TimesOut, ReportsError, Jumps, Fills, queueVars
  <2>4. Len(NotReading.got) <= NotReading.want
    BY <2>2
  <2> QED BY <2>1, <2>2, <2>3, <2>4, ReaderOnly
<1>7. CASE TakeQueued(s)
  <2> DEFINE q == queue[s]
             h == Head(q)
             y == Tail(q)
  <2>1. /\ Reader(s, "copy") /\ pending[s] = <<>> /\ q # <<>>
        /\ pending' = [pending EXCEPT ![s] = <<h>>] /\ queue' = [queue EXCEPT ![s] = y]
        /\ queueSize' = [queueSize EXCEPT ![s] = @ - h.count]
        /\ UNCHANGED <<run, now, thread, expected>>
    BY <1>7 DEF TakeQueued
  <2>2. /\ q \in Seq(Items) /\ h \in Items /\ y \in Seq(Items) /\ h.count \in Nat
        /\ <<h>> \in Seq(Items) /\ Len(<<h>>) = 1
    <3>1. q \in Seq(Items)
      BY <1>0 DEF Types
    <3>2. h \in Items /\ y \in Seq(Items)
      BY <2>1, <3>1, HeadTailProperties
    <3> QED BY <3>1, <3>2 DEF Items
  <2>3. Samples(y) \in Nat /\ Samples(q) = Samples(y) + h.count
    <3> HIDE DEF q
    <3> QED BY <2>1, <2>2, SamplesTail
  <2>4. queueSize[s] = Samples(q) /\ queueSize[s] - h.count = Samples(y) /\ Samples(y) <= QueueLimit
    <3>1. queueSize[s] = Samples(q) /\ queueSize[s] <= QueueLimit /\ QueueLimit \in Nat
      BY <1>0, SoapyAssumption DEF QueueOf
    <3> HIDE DEF q, h, y
    <3> QED BY <2>2, <2>3, <3>1
  <2> HIDE DEF h, y
  <2>5. Types'
    <3>1. queueSize' \in [Streams -> Nat]
      BY <1>0, <2>1, <2>3, <2>4 DEF Types
    <3>2. reader' \in [Streams -> Readers]
      BY <1>1, <1>2, <2>1 DEF ReaderStates
    <3> QED BY <1>0, <2>1, <2>2, <3>1, <3>2 DEF Types
  <2>6. Whole(s)' = Whole(s)
    <3>1. <<h>> \o y = q
      BY <2>1, <2>2 DEF h, y
    <3>2. Whole(s)' = <<h>> \o y /\ Whole(s) = q
      BY <1>0, <2>1, <2>2 DEF Whole, Types
    <3> QED BY <3>1, <3>2
  <2>7. QueueOf(s)'
    <3>1. /\ queue'[s] = y /\ pending'[s] = <<h>> /\ queueSize'[s] = Samples(y)
      BY <1>0, <2>1, <2>4 DEF Types
    <3>2. thread[s] \notin {"none", "starting"}
      BY <1>0, <2>1 DEF QueueOf
    <3> QED BY <1>0, <2>1, <2>2, <2>4, <2>6, <3>1, <3>2 DEF QueueOf
  <2>8. GotOf(s)'
    <3>1. reader'[s].at = "copy" /\ reader'[s].got = r.got /\ reader'[s].want = r.want
          /\ reader'[s].paused = r.paused
      BY <1>1, <1>2, <2>1 DEF ReaderStates
    <3> QED BY <1>0, <2>1, <3>1 DEF GotOf
  <2>9. ASSUME NEW u \in Streams, u # s PROVE QueueOf(u)' /\ GotOf(u)'
    <3>1. /\ queue'[u] = queue[u] /\ pending'[u] = pending[u] /\ queueSize'[u] = queueSize[u]
          /\ reader'[u] = reader[u]
      BY <1>0, <1>1, <1>2, <2>1, <2>9 DEF Types, ReaderStates
    <3>2. Whole(u)' = Whole(u)
      BY <3>1 DEF Whole
    <3> QED BY <1>0, <2>1, <3>1, <3>2 DEF QueueOf, GotOf
  <2> QED BY <2>5, <2>7, <2>8, <2>9 DEF QInv
<1>8. CASE Copy(s)
  <2> DEFINE h == Held(s)
             left == r.want - Len(r.got)
             n == IF h.count <= left THEN h.count ELSE left
             at == IF n = left THEN "full" ELSE "loop"
             got == r.got \o Taken(s, n)
  <2>1. /\ pending[s] # <<>> /\ ~h.error /\ (r.got = <<>> \/ h.timestamp = expected[s])
        /\ expected' = [expected EXCEPT ![s] = h.timestamp + n]
        /\ pending' = [pending EXCEPT ![s] = Rest(s, n)]
        /\ reader' = [reader EXCEPT ![s].at = at, ![s].got = @ \o Taken(s, n)]
        /\ UNCHANGED <<run, now, queue, queueSize, thread>>
    BY <1>8 DEF Copy, CopyHeld, Holding, Continues, queueVars
  <2>2. /\ pending[s] = <<h>> /\ h \in Items /\ queue[s] \in Seq(Items)
        /\ h.timestamp \in Nat /\ h.count \in Nat /\ h.run \in {0, 1}
    <3>1. pending[s] \in Seq(Items) /\ Len(pending[s]) <= 1 /\ pending[s] # <<>> /\ queue[s] \in Seq(Items)
      BY <1>0, <2>1 DEF Types, QueueOf
    <3>2. pending[s] = <<pending[s][1]>> /\ pending[s][1] \in Items
      BY <3>1
    <3> QED BY <3>1, <3>2 DEF Held, Items
  <2>3. left \in Nat /\ n \in Nat /\ n <= h.count /\ n <= left /\ Len(r.got) \in Nat
    BY <1>1, <2>2
  <2>4. at \in ReaderStates /\ at # "idle"
    BY DEF ReaderStates
  <2>5. /\ Taken(s, n) \in Seq({0, 1} \X Nat) /\ Len(Taken(s, n)) = n
        /\ \A i \in 1 .. n : Taken(s, n)[i] = <<h.run, h.timestamp + i - 1>>
    <3> HIDE DEF n, h
    <3>1. Taken(s, n) = [i \in 1 .. n |-> <<h.run, h.timestamp + i - 1>>]
      BY DEF Taken, h
    <3>2. \A i \in 1 .. n : <<h.run, h.timestamp + i - 1>> \in {0, 1} \X Nat
      BY <2>2, <2>3
    <3> QED BY <2>3, <3>1, <3>2
  <2>6. /\ got \in Seq({0, 1} \X Nat) /\ Len(got) = Len(r.got) + n
        /\ \A i \in 1 .. Len(r.got) + n :
             got[i] = IF i <= Len(r.got) THEN r.got[i] ELSE Taken(s, n)[i - Len(r.got)]
    <3> DEFINE g == r.got
               z == Taken(s, n)
    <3>1. g \in Seq({0, 1} \X Nat) /\ z \in Seq({0, 1} \X Nat) /\ Len(z) = n
      BY <1>1, <2>5
    <3> HIDE DEF g, z, n
    <3>2. /\ g \o z \in Seq({0, 1} \X Nat) /\ Len(g \o z) = Len(g) + Len(z)
          /\ \A i \in 1 .. Len(g) + Len(z) : (g \o z)[i] = IF i <= Len(g) THEN g[i] ELSE z[i - Len(g)]
      BY <3>1, ConcatProperties
    <3> QED BY <3>1, <3>2 DEF g, z
  <2> HIDE DEF n, at, got, h, left
  <2>7. /\ reader'[s].at = at /\ reader'[s].got = got /\ reader'[s].want = r.want
        /\ reader'[s].paused = r.paused
        /\ reader'[s] \in Readers /\ reader' \in [Streams -> Readers]
        /\ \A u \in Streams : u # s => reader'[u] = reader[u]
    <3> DEFINE k == r
               z == Taken(s, n)
               m == [k EXCEPT !.at = at]
               y == [m EXCEPT !.got = @ \o z]
    <3>1. reader' = [reader EXCEPT ![s] = y]
      BY <1>1, <2>1
    <3>2. k \in Readers /\ got = k.got \o z
      BY <1>1 DEF got
    <3> HIDE DEF k, z
    <3>3. m \in Readers /\ m.at = at /\ m.want = k.want /\ m.got = k.got /\ m.paused = k.paused
      BY <2>4, <3>2 DEF Readers
    <3> HIDE DEF m
    <3>4. y.at = m.at /\ y.want = m.want /\ y.got = got /\ y.paused = m.paused
      BY <3>2, <3>3 DEF Readers
    <3>5. y \in Readers
      BY <2>6, <3>2, <3>3 DEF Readers
    <3> HIDE DEF y
    <3>6. reader'[s] = y /\ \A u \in Streams : u # s => reader'[u] = reader[u]
      BY <1>1, <3>1
    <3>7. reader' \in [Streams -> Readers]
      BY <1>1, <3>1, <3>5
    <3> QED BY <3>3, <3>4, <3>5, <3>6, <3>7 DEF k
  <2> DEFINE w == Whole(s)
             rest == Item(h.run, h.timestamp + n, h.count - n)
  <2>8. w \in Seq(Items) /\ w # <<>> /\ w[1] = h /\ Tail(w) = queue[s] /\ Ordered(w, run, now)
        /\ (thread[s] # "done" => NoError(w)) /\ thread[s] \notin {"none", "starting"}
    <3>1. w = <<h>> \o queue[s] /\ QueueOf(s)
      BY <1>0, <2>2 DEF Whole
    <3> HIDE DEF w
    <3>2. w \in Seq(Items) /\ w # <<>> /\ w[1] = h /\ Tail(w) = queue[s]
      BY <2>2, <3>1
    <3> QED BY <2>1, <3>1, <3>2 DEF QueueOf, w
  <2>9. /\ rest \in Items /\ ~rest.error /\ rest.run = h.run
        /\ rest.timestamp + rest.count = h.timestamp + h.count
    BY <2>2, <2>3 DEF Item, Items
  <2>10. /\ pending' = [pending EXCEPT ![s] = IF n = h.count THEN <<>> ELSE <<rest>>]
    BY <2>1 DEF Rest, h
  <2> HIDE DEF rest
  <2>11. <<rest>> \in Seq(Items) /\ Len(<<rest>>) = 1 /\ <<>> \in Seq(Items) /\ Len(<<>>) = 0
    BY <2>9
  <2>12. pending' \in [Streams -> Seq(Items)] /\ pending'[s] = IF n = h.count THEN <<>> ELSE <<rest>>
    BY <1>0, <2>10, <2>11 DEF Types
  <2>13. Types'
    <3>1. expected' \in [Streams -> Nat]
      BY <1>0, <2>1, <2>2, <2>3 DEF Types
    <3> QED BY <1>0, <2>1, <2>7, <2>12, <3>1 DEF Types
  <2>14. QueueOf(s)'
    <3>1. Ordered(Whole(s), run, now)' /\ (thread[s] # "done" => NoError(Whole(s)))'
      <4>0. now \in Nat /\ w \in Seq(Items)
        BY <1>0, <2>8 DEF Types
      <4>1. CASE n = h.count
        <5>0. <<>> \o queue[s] = queue[s]
          BY <2>2
        <5>1. Whole(s)' = Tail(w)
          <6>1. pending'[s] = <<>> /\ queue'[s] = queue[s] /\ Tail(w) = queue[s]
            BY <2>1, <2>8, <2>12, <4>1
          <6> HIDE DEF w
          <6> QED BY <5>0, <6>1 DEF Whole
        <5> HIDE DEF w
        <5>2. Ordered(Tail(w), run, now) /\ (NoError(w) => NoError(Tail(w)))
          BY <2>8, <4>0, OrderedTail
        <5> QED BY <2>1, <2>8, <5>1, <5>2
      <4>2. CASE n # h.count
        <5>1. Whole(s)' = <<rest>> \o Tail(w)
          BY <2>1, <2>2, <2>8, <2>12, <4>2 DEF Whole
        <5> HIDE DEF w
        <5>2. Ordered(<<rest>> \o Tail(w), run, now) /\ (NoError(w) => NoError(<<rest>> \o Tail(w)))
          BY <2>1, <2>8, <2>9, <4>0, OrderedRest
        <5> QED BY <2>1, <2>8, <5>1, <5>2
      <4> QED BY <4>1, <4>2
    <3>2. Len(pending'[s]) <= 1
      BY <2>11, <2>12
    <3> QED BY <1>0, <2>1, <2>8, <3>1, <3>2 DEF QueueOf
  <2>15. GotOf(s)'
    <3>0. expected'[s] = h.timestamp + n
      <4>1. expected \in [Streams -> Nat]
        BY <1>0 DEF Types
      <4> QED BY <2>1, <4>1
    <3>1. /\ reader'[s].at = at /\ reader'[s].got = got /\ reader'[s].want = r.want
          /\ reader'[s].paused = r.paused /\ expected'[s] = h.timestamp + n
      <4> HIDE DEF r
      <4> QED BY <2>7, <3>0
    <3>2. Len(got) <= r.want
      BY <1>1, <2>3, <2>6 DEF left
    <3>3. h.run = run
      <4>1. 1 \in 1 .. Len(w) /\ ~w[1].error
        BY <2>1, <2>8
      <4> QED BY <2>8, <4>1 DEF Ordered
    <3>4. ASSUME ~r.paused, NEW i \in 1 .. Len(got)
          PROVE  got[i] = <<run, (h.timestamp + n) - Len(got) + i - 1>>
      <4>1. CASE i <= Len(r.got)
        <5>1. i \in 1 .. Len(r.got) /\ r.got # <<>>
          BY <1>1, <2>3, <2>6, <4>1
        <5>2. got[i] = r.got[i] /\ r.got[i] = <<run, expected[s] - Len(r.got) + i - 1>>
          BY <1>0, <2>3, <2>6, <3>4, <4>1, <5>1 DEF GotOf
        <5>3. expected[s] = h.timestamp
          BY <2>1, <5>1
        <5>4. expected[s] - Len(r.got) + i - 1 = (h.timestamp + n) - Len(got) + i - 1
          BY <2>2, <2>3, <2>6, <5>3
        <5> QED BY <5>2, <5>4
      <4>2. CASE i > Len(r.got)
        <5> DEFINE j == i - Len(r.got)
        <5>1. j \in 1 .. n /\ ~(i <= Len(r.got)) /\ i \in 1 .. Len(r.got) + n
          BY <2>3, <2>6, <4>2
        <5>2. h.timestamp + j - 1 = (h.timestamp + n) - Len(got) + i - 1
          <6>1. /\ Len(got) = Len(r.got) + n /\ n \in Nat /\ h.timestamp \in Nat
                /\ Len(r.got) \in Nat /\ i \in Int
            BY <2>2, <2>3, <2>6
          <6> QED BY ONLY <6>1 DEF j
        <5>3. got[i] = Taken(s, n)[j]
          BY <2>6, <5>1
        <5> HIDE DEF j
        <5>4. got[i] = <<h.run, h.timestamp + j - 1>>
          BY <2>5, <5>1, <5>3
        <5> QED BY <3>3, <5>2, <5>4
      <4> QED BY <2>3, <2>6, <4>1, <4>2
    <3>5. thread[s] \in {"streaming", "failed", "done"}
      <4>1. thread[s] \in ThreadStates
        BY DEF IInv, Shape
      <4> QED BY <2>8, <4>1 DEF ThreadStates
    <3> QED BY <2>1, <2>4, <3>1, <3>2, <3>4, <3>5 DEF GotOf
  <2>16. ASSUME NEW u \in Streams, u # s PROVE QueueOf(u)' /\ GotOf(u)'
    <3>1. pending'[u] = pending[u] /\ expected'[u] = expected[u] /\ reader'[u] = reader[u]
      BY <1>0, <2>1, <2>7, <2>16 DEF Types
    <3>2. Whole(u)' = Whole(u)
      BY <2>1, <3>1 DEF Whole
    <3> QED BY <1>0, <2>1, <3>1, <3>2 DEF QueueOf, GotOf
  <2> QED BY <2>13, <2>14, <2>15, <2>16 DEF QInv
<1> QED BY <1>3, <1>5, <1>6, <1>7, <1>8 DEF Read

LEMMA LibraryQInv ==
  ASSUME QInv, Library
  PROVE  QInv'
<1>1. /\ UNCHANGED <<run, now, queue, queueSize, pending, reader, thread, expected>>
      /\ expected \in [Streams -> Nat]
  BY DEF Library, LibraryCalls, LibraryFails, queueVars, readVars, QInv, Types
<1> QED BY <1>1, QueuesStill

LEMMA NextQInv == IInv /\ QInv /\ [Next]_vars => QInv'
<1> SUFFICES ASSUME IInv, QInv, [Next]_vars PROVE QInv'
  OBVIOUS
<1>1. CASE UNCHANGED vars
  <2>1. /\ UNCHANGED <<run, now, queue, queueSize, pending, reader, thread, expected>>
        /\ expected \in [Streams -> Nat]
    BY <1>1 DEF vars, queueVars, readVars, QInv, Types
  <2> QED BY <2>1, QueuesStill
<1> QED BY <1>1, ControlQInv, WorkerQInv, LibraryQInv, ReadQInv DEF Next

LEMMA QInvHolds == Spec => []QInv
<1> QED BY InitQInv, NextQInv, IInvHolds, PTL DEF Spec

\* Whatever the worker, the reader and the threads that configure do, and in
\* whatever order: queue_size_ is what is queued and within queue_limit_, what is
\* queued is of this activation and in the order it was received, and an error is
\* the last of it.
THEOREM QueueInOrderHolds == Spec => []QueueInOrder
<1>1. QInv => QueueInOrder
  <2> SUFFICES ASSUME QInv, NEW s \in Streams
               PROVE  /\ queueSize[s] = Samples(queue[s]) /\ queueSize[s] <= QueueLimit
                      /\ \A i \in 1 .. Len(Whole(s)) :
                           /\ Whole(s)[i].error => i = Len(Whole(s))
                           /\ ~Whole(s)[i].error => Whole(s)[i].run = run
                           /\ i > 1 /\ ~Whole(s)[i].error =>
                                Whole(s)[i - 1].timestamp + Whole(s)[i - 1].count <= Whole(s)[i].timestamp
    BY DEF QueueInOrder, Whole
  <2>1. QueueOf(s)
    BY DEF QInv
  <2> QED BY <2>1 DEF QueueOf, Ordered
<1> QED BY <1>1, QInvHolds, PTL

\* The samples of one call of read that no pause falls into are consecutive ones of
\* one activation, although buffers are dropped when the queue is full and others
\* are taken in several parts.
THEOREM OneStretchHolds == Spec => []OneStretch
<1>1. QInv => OneStretch
  <2> SUFFICES ASSUME QInv, NEW s \in Streams, ~reader[s].paused,
                      NEW i \in 1 .. Len(reader[s].got) - 1
               PROVE  reader[s].got[i + 1] = <<reader[s].got[i][1], reader[s].got[i][2] + 1>>
    BY DEF OneStretch
  <2> DEFINE got == reader[s].got
  <2>1. got \in Seq({0, 1} \X Nat) /\ expected[s] \in Nat /\ GotOf(s)
    BY DEF QInv, Types, Readers
  <2>2. /\ Len(got) \in Nat /\ i \in 1 .. Len(got) /\ i + 1 \in 1 .. Len(got) /\ got # <<>>
    BY <2>1
  <2>3. /\ got[i] = <<run, expected[s] - Len(got) + i - 1>>
        /\ got[i + 1] = <<run, expected[s] - Len(got) + (i + 1) - 1>>
    BY <2>1, <2>2 DEF GotOf
  <2> HIDE DEF got
  <2>4. expected[s] - Len(got) + (i + 1) - 1 = (expected[s] - Len(got) + i - 1) + 1
    BY <2>1, <2>2
  <2> QED BY <2>3, <2>4 DEF got
<1> QED BY <1>1, QInvHolds, PTL
-----------------------------------------------------------------------------
(* Types.                                                                  *)

LEMMA ApplyTypes ==
  ASSUME TypeOK, NEW result, ApplyChanges(result)
  PROVE  rate' \in {"applied", "changed", "bad"} /\ freq' \in {"applied", "changed", "bad"}
BY DEF ApplyChanges, TypeOK, config

LEMMA NextTypeOK == IInv /\ QInv' /\ TypeOK /\ [Next]_vars => TypeOK'
<1> SUFFICES ASSUME IInv, QInv', TypeOK, [Next]_vars PROVE TypeOK'
  OBVIOUS
<1> DEFINE Settings == {"applied", "changed", "bad"}
           Points == {"idle", "try", "retry", "stop", "join", "paused", "apply", "resume"}
           Workers == {"none", "starting", "streaming", "failed", "done"}
           ConfigOK == rate \in Settings /\ freq \in Settings
           CallOK == /\ mutex \in Controllers \cup {NoThread} /\ active \in Streams \cup {NoStream}
                     /\ pc \in [Controllers -> Points] /\ retrying \in [Controllers -> BOOLEAN]
           WorkOK == thread \in [Streams -> Workers] /\ pleaseStop \in [Streams -> BOOLEAN]
<1>0. run' \in {0, 1} /\ now' \in Nat /\ queueSize' \in [Streams -> Nat]
  BY DEF QInv, Types
<1>1. ASSUME Lib!TypeOK', ConfigOK', CallOK', WorkOK' PROVE TypeOK'
  BY <1>0, <1>1 DEF TypeOK
<1>2. Lib!TypeOK /\ ConfigOK /\ CallOK /\ WorkOK
  BY DEF TypeOK
<1>3. UNCHANGED libVars => Lib!TypeOK'
  BY <1>2 DEF libVars, Lib!TypeOK
<1>4. UNCHANGED config => ConfigOK'
  BY <1>2 DEF config
<1>5. UNCHANGED callVars => CallOK'
  BY <1>2 DEF callVars
<1>6. UNCHANGED <<thread, pleaseStop>> => WorkOK'
  BY <1>2
<1>7. ASSUME NEW s, Lib!StreamData(s) \/ Lib!Return \/ Lib!BeginCallback \/ Lib!EndCallback
                    \/ Lib!StopStreaming \/ Lib!Error,
             s \in Streams
      PROVE  Lib!TypeOK'
  BY <1>2, <1>7 DEF Lib!TypeOK, Lib!Phases, Lib!StreamData, Lib!Return, Lib!BeginCallback,
                    Lib!EndCallback, Lib!StopStreaming, Lib!Error
<1>8. ASSUME NEW c \in Controllers, Control(c) PROVE TypeOK'
  <2>1. Lib!TypeOK'
    <3>1. UNCHANGED libVars \/ StopLibrary(c)
      BY <1>8 DEF Control, activateStream, Pause, Join, Deactivated, Write, setSampleRate, Apply,
                  Resume, setFrequency, getFrequency, tryApplyChanges
    <3>2. CASE StopLibrary(c)
      <4>1. UNCHANGED libVars \/ Lib!StopStreaming
        BY <3>2 DEF StopLibrary
      <4> QED BY <1>2, <1>3, <4>1 DEF Lib!TypeOK, Lib!Phases, Lib!StopStreaming
    <3> QED BY <1>3, <3>1, <3>2
  <2>2. ConfigOK'
    <3>1. \/ UNCHANGED config
          \/ \E result : ApplyChanges(result)
          \/ rate' \in Settings /\ UNCHANGED freq
          \/ freq' \in Settings /\ UNCHANGED rate
      BY <1>8 DEF Control, activateStream, ActivateWorks, ActivateFails, Pause, StopLibrary, Join,
                  Deactivated, Write, setSampleRate, Apply, Resume, setFrequency, getFrequency,
                  tryApplyChanges, config
    <3> QED BY <1>2, <1>4, <3>1, ApplyTypes
  <2>3. CallOK'
    <3>1. /\ mutex' \in {mutex, c, NoThread} /\ active' \in {active, NoStream} \cup Streams
          /\ \E p \in Points : pc' \in {pc, [pc EXCEPT ![c] = p]}
          /\ \E b \in BOOLEAN : retrying' \in {retrying, [retrying EXCEPT ![c] = b]}
      <4> USE DEF Unlock
      <4>1. CASE \E s \in Streams : activateStream(c, s)
        BY <4>1 DEF activateStream
      <4>2. CASE Pause(c)
        BY <4>2 DEF Pause
      <4>3. CASE StopLibrary(c) \/ Join(c) \/ Deactivated(c)
        BY <4>3 DEF StopLibrary, Join, Deactivated
      <4>4. CASE Write(c) \/ setSampleRate(c) \/ Apply(c) \/ Resume(c)
        BY <4>4 DEF Write, setSampleRate, Apply, Resume
      <4>5. CASE setFrequency(c) \/ getFrequency(c) \/ tryApplyChanges(c)
        BY <4>5 DEF setFrequency, getFrequency, tryApplyChanges
      <4> QED BY <1>8, <4>1, <4>2, <4>3, <4>4, <4>5 DEF Control
    <3> QED BY <1>2, <3>1
  <2>4. WorkOK'
    <3>1. /\ \E s, w : w \in Workers /\ thread' \in {thread, [thread EXCEPT ![s] = w]}
          /\ \E s, b : b \in BOOLEAN /\ pleaseStop' \in {pleaseStop, [pleaseStop EXCEPT ![s] = b]}
      <4>1. CASE \E s \in Streams : activateStream(c, s)
        BY <4>1 DEF activateStream, ActivateWorks, ActivateFails
      <4>2. CASE Resume(c)
        BY <4>2 DEF Resume, ActivateWorks, ActivateFails
      <4>3. CASE Pause(c) \/ StopLibrary(c) \/ Join(c) \/ Deactivated(c)
        BY <4>3 DEF Pause, StopLibrary, Join, Deactivated
      <4>4. CASE Write(c) \/ setSampleRate(c) \/ Apply(c) \/ setFrequency(c) \/ getFrequency(c)
                 \/ tryApplyChanges(c)
        BY <4>4 DEF Write, setSampleRate, Apply, setFrequency, getFrequency, tryApplyChanges
      <4> QED BY <1>8, <4>1, <4>2, <4>3, <4>4 DEF Control
    <3> QED BY <1>2, <3>1
  <2> QED BY <1>1, <2>1, <2>2, <2>3, <2>4
<1>9. ASSUME NEW s \in Streams, Worker(s) PROVE TypeOK'
  <2>1. Lib!TypeOK'
    <3>1. \/ UNCHANGED libVars \/ Lib!StreamData(s) \/ Lib!Return \/ Lib!StopStreaming
          \/ Lib!EndCallback
      BY <1>9 DEF Worker, WorkerEnters, WorkerRefused, WorkerReturns, WorkerReports,
                  StopFromCallback, Buffer
    <3> QED BY <1>3, <1>7, <3>1
  <2>2. ConfigOK'
    <3>1. UNCHANGED config \/ \E result : ApplyChanges(result)
      BY <1>9 DEF Worker, WorkerEnters, WorkerRefused, WorkerReturns, WorkerReports,
                  StopFromCallback, Buffer
    <3> QED BY <1>4, <3>1, ApplyTypes
  <2>3. UNCHANGED <<callVars, pleaseStop>>
    BY <1>9 DEF Worker, WorkerEnters, WorkerRefused, WorkerReturns, WorkerReports,
                StopFromCallback, Buffer
  <2>4. \E w \in Workers : thread' \in {thread, [thread EXCEPT ![s] = w]}
    BY <1>9 DEF Worker, WorkerEnters, WorkerRefused, WorkerReturns, WorkerReports, SetWorker,
                StopFromCallback, Buffer
  <2>5. WorkOK'
    BY <1>2, <2>3, <2>4
  <2> QED BY <1>1, <1>5, <2>1, <2>2, <2>3, <2>5
<1>10. ASSUME NEW s \in Streams, Read(s) PROVE TypeOK'
  <2>1. UNCHANGED <<libVars, config, callVars, thread, pleaseStop>>
    BY <1>10 DEF Read, readStream, TakePending, TakeQueued, TimesOut, HeldIsGone, ReportsError,
                 Jumps, Copy, CopyHeld, Fills
  <2> QED BY <1>1, <1>3, <1>4, <1>5, <1>6, <2>1
<1>11. ASSUME Library \/ UNCHANGED vars PROVE TypeOK'
  <2>1. /\ UNCHANGED <<config, callVars, thread, pleaseStop>>
        /\ UNCHANGED libVars \/ Lib!BeginCallback \/ Lib!Error
    BY <1>11 DEF Library, LibraryCalls, LibraryFails, vars
  <2>2. Lib!TypeOK'
    BY <1>2, <1>3, <2>1 DEF Lib!TypeOK, Lib!Phases, Lib!BeginCallback, Lib!Error
  <2> QED BY <1>1, <1>4, <1>5, <1>6, <2>1, <2>2
<1> QED BY <1>8, <1>9, <1>10, <1>11 DEF Next

\* Type correctness, of the driver and of what it takes the library to do.
THEOREM TypeCorrect == Spec => []TypeOK
<1>1. Init => TypeOK
  <2> SUFFICES ASSUME Init PROVE TypeOK
    OBVIOUS
  <2>1. Lib!TypeOK
    BY DEF Init, Lib!Init, Lib!TypeOK, Lib!Phases
  <2>2. /\ pc \in [Controllers -> {"idle", "try", "retry", "stop", "join", "paused", "apply", "resume"}]
        /\ retrying \in [Controllers -> BOOLEAN]
    BY DEF Init
  <2>3. /\ thread \in [Streams -> {"none", "starting", "streaming", "failed", "done"}]
        /\ pleaseStop \in [Streams -> BOOLEAN] /\ queueSize \in [Streams -> Nat]
    BY DEF Init
  <2>4. /\ rate \in {"applied", "changed", "bad"} /\ freq \in {"applied", "changed", "bad"}
        /\ run \in {0, 1} /\ now \in Nat
        /\ mutex \in Controllers \cup {NoThread} /\ active \in Streams \cup {NoStream}
    BY DEF Init
  <2> QED BY <2>1, <2>2, <2>3, <2>4 DEF TypeOK
<1>2. IInv /\ QInv' /\ TypeOK /\ [Next]_vars => TypeOK'
  BY NextTypeOK
<1> QED BY <1>1, <1>2, IInvHolds, QInvHolds, PTL DEF Spec
=============================================================================
