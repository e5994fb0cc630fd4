------------------------------- MODULE Soapy --------------------------------
(***************************************************************************)
(* The SoapySDR driver, soapy/soapy-pg2sdr.cc: streams of one device, each *)
(* with a queue between the worker thread that calls pg2sdr_stream_data    *)
(* and the thread that reads it, and threads that activate, deactivate and *)
(* configure while the others run. What the driver may expect of           *)
(* pg2sdr_stream_data and pg2sdr_stop_streaming is module StreamAPI.       *)
(*                                                                         *)
(* A sample is <<run, timestamp>>: the activation it was taken in and its  *)
(* place in it. Activations are told apart modulo 2.                       *)
(***************************************************************************)
EXTENDS Integers, Sequences

CONSTANTS
  Streams, NoStream,
  Controllers, NoThread,
  Counts,      \* samples in a buffer from the library
  Wants,       \* numElems of readStream
  QueueLimit,  \* queue_limit_
  MaxTime      \* bound: buffers past this timestamp are taken for dropped ones

ASSUME SoapyAssumption ==
  /\ NoStream \notin Streams /\ NoThread \notin Controllers \cup Streams
  /\ Counts \subseteq Nat \ {0} /\ Wants \subseteq Nat \ {0}
  /\ QueueLimit \in Nat /\ MaxTime \in Nat

VARIABLES
  phase, owner, inCallback,  \* the library's side of streaming: StreamAPI
  rate, freq,   \* settings that pg2sdr_apply_changes puts in force: "applied",
                \* "changed", or "bad", which is out of range until set again
  run, now,     \* the activation, and the timestamp of its next sample
  mutex,        \* mutex_: the controller holding it
  active,       \* active_stream_
  pc,           \* where each controller is
  retrying,     \* does it pause the stream to apply the changes again?
  thread,       \* the worker of each stream; "none" if thread_ is null
  queue, queueSize, pleaseStop,  \* queue_, queue_size_, please_stop_
  pending,      \* pending_: <<>> or one queue item
  expected,     \* expected_timestamp_
  reader        \* the call of read on each stream, and whether a pause came during it

libVars == <<phase, owner, inCallback>>
config == <<rate, freq>>
callVars == <<mutex, active, pc, retrying>>
queueVars == <<queue, queueSize>>
readVars == <<pending, expected, reader>>
vars == <<libVars, config, run, now, callVars, thread, queueVars, pleaseStop, readVars>>

Lib == INSTANCE StreamAPI WITH Threads <- Streams

Error == [error |-> TRUE, run |-> 0, timestamp |-> 0, count |-> 0]
Item(r, ts, n) == [error |-> FALSE, run |-> r, timestamp |-> ts, count |-> n]

NotReading == [at |-> "idle", want |-> 0, got |-> <<>>, paused |-> FALSE]

\* A driver just made, with a stream set up in each of Streams.
Init ==
  /\ Lib!Init
  /\ rate = "changed" /\ freq = "changed"
  /\ run = 0 /\ now = 0
  /\ mutex = NoThread /\ active = NoStream
  /\ pc = [c \in Controllers |-> "idle"]
  /\ retrying = [c \in Controllers |-> FALSE]
  /\ thread = [s \in Streams |-> "none"]
  /\ queue = [s \in Streams |-> <<>>]
  /\ queueSize = [s \in Streams |-> 0]
  /\ pleaseStop = [s \in Streams |-> FALSE]
  /\ pending = [s \in Streams |-> <<>>]
  /\ expected = [s \in Streams |-> 0]
  /\ reader = [s \in Streams |-> NotReading]

-----------------------------------------------------------------------------
(* pg2sdr_apply_changes, as far as the driver can tell: the rate cannot    *)
(* change while streaming, the rate goes first and moves the LO, and a     *)
(* tuner that must be retuned may not answer.                              *)
ApplyChanges(result) ==
  \/ /\ result = "BAD_STATE"
     /\ rate # "applied" /\ phase # "idle"
     /\ UNCHANGED config
  \/ /\ result = "FAILS"
     /\ rate = "bad" /\ phase = "idle"
     /\ UNCHANGED config
  \/ /\ result = "FAILS"
     /\ rate = "applied" \/ (rate = "changed" /\ phase = "idle")
     /\ rate # "applied" \/ freq # "applied"
     /\ rate' = "applied"
     /\ freq' = IF freq = "bad" THEN "bad" ELSE "changed"
  \/ /\ result = "OK"
     /\ rate = "applied" \/ (rate = "changed" /\ phase = "idle")
     /\ freq # "bad"
     /\ rate' = "applied" /\ freq' = "applied"

-----------------------------------------------------------------------------
(* PG2SDRStream::activate, with the mutex held. The thread object is there *)
(* as soon as it is made, whatever has become of the worker.               *)
ActivateFails(s) ==
  /\ thread[s] = "none"
  /\ \E result \in {"BAD_STATE", "FAILS"} : ApplyChanges(result)
  /\ UNCHANGED <<thread, expected>>

ActivateWorks(s) ==
  \/ thread[s] # "none" /\ UNCHANGED <<config, thread, expected>>
  \/ /\ thread[s] = "none"
     /\ ApplyChanges("OK")
     /\ expected' = [expected EXCEPT ![s] = 0]
     /\ thread' = [thread EXCEPT ![s] = "starting"]

\* Another stream being active is an error. Mutant: success is not recorded.
activateUnrecorded(c, s) ==
  /\ pc[c] = "idle" /\ mutex = NoThread
  /\ active \in {NoStream, s}
  /\ ActivateWorks(s) /\ UNCHANGED active
  /\ UNCHANGED <<libVars, run, now, mutex, pc, retrying, queueVars, pleaseStop, pending, reader>>

activateStream(c, s) ==
  /\ pc[c] = "idle" /\ mutex = NoThread
  /\ active \in {NoStream, s}
  /\ \/ ActivateWorks(s) /\ active' = s
     \/ ActivateFails(s) /\ UNCHANGED active
  /\ UNCHANGED <<libVars, run, now, mutex, pc, retrying, queueVars, pleaseStop, pending, reader>>

-----------------------------------------------------------------------------
(* Pausing: deactivateStream and closeStream, the settings that are        *)
(* changed under a PauseStreamGuard, and the retry of tryApplyChanges.     *)

\* Mutant: the stream runs on.
PauseNothing(c) ==
  /\ mutex = NoThread
  /\ pc[c] = "idle" /\ UNCHANGED retrying
  /\ mutex' = c
  /\ pc' = [pc EXCEPT ![c] = "paused"]
  /\ UNCHANGED <<libVars, config, run, now, active, thread, queueVars, pleaseStop, readVars>>

\* The mutex is taken; deactivate asks the worker to stop.
Pause(c) ==
  /\ mutex = NoThread
  /\ pc[c] \in {"idle", "retry"}
  /\ retrying' = [retrying EXCEPT ![c] = pc[c] = "retry"]
  /\ mutex' = c
  /\ IF active # NoStream /\ thread[active] # "none"
     THEN /\ pleaseStop' = [pleaseStop EXCEPT ![active] = TRUE]
          /\ pc' = [pc EXCEPT ![c] = "stop"]
     ELSE /\ pc' = [pc EXCEPT ![c] = "paused"]
          /\ UNCHANGED pleaseStop
  /\ UNCHANGED <<libVars, config, run, now, active, thread, queueVars, readVars>>

\* pg2sdr_stop_streaming: nothing happens if the worker is not streaming (yet).
StopLibrary(c) ==
  /\ pc[c] = "stop"
  /\ IF phase = "streaming" THEN Lib!StopStreaming ELSE UNCHANGED libVars
  /\ pc' = [pc EXCEPT ![c] = "join"]
  /\ UNCHANGED <<config, run, now, mutex, active, retrying, thread, queueVars, pleaseStop, readVars>>

\* Mutant: what is queued is left for the next read.
JoinKeepingQueue(c) ==
  /\ pc[c] = "join" /\ thread[active] = "done"
  /\ thread' = [thread EXCEPT ![active] = "none"]
  /\ pleaseStop' = [pleaseStop EXCEPT ![active] = FALSE]
  /\ pc' = [pc EXCEPT ![c] = "paused"]
  /\ UNCHANGED <<libVars, config, run, now, mutex, active, retrying, queueVars, readVars>>

Join(c) ==
  /\ pc[c] = "join" /\ thread[active] = "done"
  /\ thread' = [thread EXCEPT ![active] = "none"]
  /\ queue' = [queue EXCEPT ![active] = <<>>]
  /\ queueSize' = [queueSize EXCEPT ![active] = 0]
  /\ pending' = [pending EXCEPT ![active] = <<>>]
  /\ pleaseStop' = [pleaseStop EXCEPT ![active] = FALSE]
  /\ reader' = [reader EXCEPT ![active].paused = reader[active].at # "idle"]
  /\ pc' = [pc EXCEPT ![c] = "paused"]
  /\ UNCHANGED <<libVars, config, run, now, mutex, active, retrying, expected>>

Unlock(c) ==
  /\ mutex' = NoThread
  /\ pc' = [pc EXCEPT ![c] = "idle"]
  /\ retrying' = [retrying EXCEPT ![c] = FALSE]

Deactivated(c) ==
  /\ pc[c] = "paused" /\ ~retrying[c]
  /\ active' = NoStream
  /\ Unlock(c)
  /\ UNCHANGED <<libVars, config, run, now, thread, queueVars, pleaseStop, readVars>>

\* writeSetting leaves applying the change to the guard's destructor.
Write(c) ==
  /\ pc[c] = "paused" /\ ~retrying[c]
  /\ rate' \in {"changed", "bad"}
  /\ pc' = [pc EXCEPT ![c] = "resume"]
  /\ UNCHANGED <<libVars, freq, run, now, mutex, active, retrying, thread, queueVars, pleaseStop, readVars>>

setSampleRate(c) ==
  /\ pc[c] = "paused" /\ ~retrying[c]
  /\ rate' \in {"changed", "bad"}
  /\ pc' = [pc EXCEPT ![c] = "apply"]
  /\ UNCHANGED <<libVars, freq, run, now, mutex, active, retrying, thread, queueVars, pleaseStop, readVars>>

\* The outcome is the caller's result or exception; the guard goes out of scope.
Apply(c) ==
  /\ pc[c] = "apply" \/ (pc[c] = "paused" /\ retrying[c])
  /\ \E result \in {"OK", "BAD_STATE", "FAILS"} : ApplyChanges(result)
  /\ pc' = [pc EXCEPT ![c] = "resume"]
  /\ UNCHANGED <<libVars, run, now, mutex, active, retrying, thread, queueVars, pleaseStop, readVars>>

\* ~PauseStreamGuard ignores what activate returns.
Resume(c) ==
  /\ pc[c] = "resume"
  /\ \/ active = NoStream /\ UNCHANGED <<config, thread, expected>>
     \/ active # NoStream /\ (ActivateWorks(active) \/ ActivateFails(active))
  /\ Unlock(c)
  /\ UNCHANGED <<libVars, run, now, active, queueVars, pleaseStop, pending, reader>>

-----------------------------------------------------------------------------
(* setFrequency, setBandwidth and the getters: tryApplyChanges.            *)

setFrequency(c) ==
  /\ pc[c] = "idle"
  /\ freq' \in {"changed", "bad"}
  /\ pc' = [pc EXCEPT ![c] = "try"]
  /\ UNCHANGED <<libVars, rate, run, now, mutex, active, retrying, thread, queueVars, pleaseStop, readVars>>

getFrequency(c) ==
  /\ pc[c] = "idle"
  /\ pc' = [pc EXCEPT ![c] = "try"]
  /\ UNCHANGED <<libVars, config, run, now, mutex, active, retrying, thread, queueVars, pleaseStop, readVars>>

tryApplyChanges(c) ==
  /\ pc[c] = "try"
  /\ \E result \in {"OK", "BAD_STATE", "FAILS"} :
       /\ ApplyChanges(result)
       /\ pc' = [pc EXCEPT ![c] = IF result = "BAD_STATE" THEN "retry" ELSE "idle"]
  /\ UNCHANGED <<libVars, run, now, mutex, active, retrying, thread, queueVars, pleaseStop, readVars>>

-----------------------------------------------------------------------------
(* The worker, StreamingWorker, and the library that calls it back.        *)

SetWorker(s, to) == thread' = [thread EXCEPT ![s] = to]

\* pg2sdr_stream_data applies the changes as well, and is refused while
\* another call is outstanding. The timestamps start over.
WorkerEnters(s) ==
  /\ thread[s] = "starting"
  /\ Lib!StreamData(s)
  /\ ApplyChanges("OK")
  /\ SetWorker(s, "streaming")
  /\ run' = 1 - run
  /\ now' = 0
  /\ UNCHANGED <<callVars, queueVars, pleaseStop, readVars>>

WorkerRefused(s) ==
  /\ thread[s] = "starting"
  /\ IF phase = "idle" THEN ApplyChanges("FAILS") ELSE UNCHANGED config
  /\ SetWorker(s, "failed")
  /\ UNCHANGED <<libVars, run, now, callVars, queueVars, pleaseStop, readVars>>

WorkerReturns(s) ==
  /\ thread[s] = "streaming" /\ owner = s
  /\ Lib!Return
  /\ SetWorker(s, IF phase = "failing" THEN "failed" ELSE "done")
  /\ UNCHANGED <<config, run, now, callVars, queueVars, pleaseStop, readVars>>

\* The error is the last item of the queue.
WorkerReports(s) ==
  /\ thread[s] = "failed"
  /\ SetWorker(s, "done")
  /\ queue' = [queue EXCEPT ![s] = Append(@, Error)]
  /\ UNCHANGED <<libVars, config, run, now, callVars, queueSize, pleaseStop, readVars>>

LibraryCalls ==
  /\ Lib!BeginCallback
  /\ UNCHANGED <<config, run, now, callVars, thread, queueVars, pleaseStop, readVars>>

LibraryFails ==
  /\ Lib!Error
  /\ UNCHANGED <<config, run, now, callVars, thread, queueVars, pleaseStop, readVars>>

\* StreamCallback, all of it with queue_mutex_ held: a stop request that has not
\* reached the library is passed on; the buffer is queued all the same.
\* Mutant: only deactivate calls pg2sdr_stop_streaming.
StopIgnored(s) == FALSE

StopSeen(s) == owner = s /\ inCallback /\ pleaseStop[s] /\ phase = "streaming"

StopFromCallback(s) ==
  /\ StopSeen(s)
  /\ Lib!StopStreaming
  /\ UNCHANGED <<config, run, now, callVars, thread, queueVars, pleaseStop, readVars>>

Full(s, n) == queueSize[s] + n > QueueLimit \/ now + n > MaxTime

Buffer(s, n) ==
  /\ owner = s /\ ~StopSeen(s)
  /\ Lib!EndCallback
  /\ now' = IF now + n > MaxTime THEN now ELSE now + n
  /\ IF Full(s, n)
     THEN UNCHANGED queueVars
     ELSE /\ queue' = [queue EXCEPT ![s] = Append(@, Item(run, now, n))]
          /\ queueSize' = [queueSize EXCEPT ![s] = @ + n]
  /\ UNCHANGED <<config, run, callVars, thread, pleaseStop, readVars>>

Worker(s) ==
  \/ WorkerEnters(s) \/ WorkerRefused(s) \/ WorkerReturns(s) \/ WorkerReports(s)
  \/ StopFromCallback(s) \/ \E n \in Counts : Buffer(s, n)

-----------------------------------------------------------------------------
(* PG2SDRStream::read. pending_ is looked at without the lock, and may be  *)
(* cleared between two looks by Join.                                      *)

Reading(s, at) == reader[s].at = at
Reader(s, at) == reader' = [reader EXCEPT ![s].at = at]
Returned(s) == reader' = [reader EXCEPT ![s] = NotReading]

readStream(s) ==
  /\ Reading(s, "idle")
  /\ \E n \in Wants : reader' = [reader EXCEPT ![s] = [NotReading EXCEPT !.at = "loop", !.want = n]]
  /\ UNCHANGED <<libVars, config, run, now, callVars, thread, queueVars, pleaseStop, pending, expected>>

TakePending(s) ==
  /\ Reading(s, "loop") /\ pending[s] # <<>>
  /\ Reader(s, "copy")
  /\ UNCHANGED <<libVars, config, run, now, callVars, thread, queueVars, pleaseStop, pending, expected>>

TakeQueued(s) ==
  /\ Reading(s, "loop") /\ pending[s] = <<>> /\ queue[s] # <<>>
  /\ Reader(s, "copy")
  /\ pending' = [pending EXCEPT ![s] = <<Head(queue[s])>>]
  /\ queue' = [queue EXCEPT ![s] = Tail(@)]
  /\ queueSize' = [queueSize EXCEPT ![s] = @ - Head(queue[s]).count]
  /\ UNCHANGED <<libVars, config, run, now, callVars, thread, pleaseStop, expected>>

\* The deadline passes with nothing queued: what there is, or SOAPY_SDR_TIMEOUT.
TimesOut(s) ==
  /\ Reading(s, "loop") /\ pending[s] = <<>> /\ queue[s] = <<>>
  /\ Returned(s)
  /\ UNCHANGED <<libVars, config, run, now, callVars, thread, queueVars, pleaseStop, pending, expected>>

Holding(s) == Reading(s, "copy") /\ pending[s] # <<>>
Held(s) == pending[s][1]
Continues(s) == reader[s].got = <<>> \/ Held(s).timestamp = expected[s]

\* pending_ is cleared while it is used: nothing is known of this reader any more.
HeldIsGone(s) ==
  /\ Reading(s, "copy") /\ pending[s] = <<>>
  /\ Reader(s, "undefined")
  /\ UNCHANGED <<libVars, config, run, now, callVars, thread, queueVars, pleaseStop, pending, expected>>

\* SOAPY_SDR_STREAM_ERROR now and from then on, unless samples come first.
ReportsError(s) ==
  /\ Holding(s) /\ Held(s).error
  /\ Returned(s)
  /\ UNCHANGED <<libVars, config, run, now, callVars, thread, queueVars, pleaseStop, pending, expected>>

\* A jump ends the call, to be reported as the timestamp of the next one.
Jumps(s) ==
  /\ Holding(s) /\ ~Held(s).error /\ ~Continues(s)
  /\ Returned(s)
  /\ UNCHANGED <<libVars, config, run, now, callVars, thread, queueVars, pleaseStop, pending, expected>>

\* Held(s) with its first n samples taken; offset is folded into it.
Rest(s, n) ==
  IF n = Held(s).count THEN <<>>
  ELSE <<Item(Held(s).run, Held(s).timestamp + n, Held(s).count - n)>>
Taken(s, n) == [i \in 1 .. n |-> <<Held(s).run, Held(s).timestamp + i - 1>>]

CopyHeld(s) ==
  /\ Holding(s) /\ ~Held(s).error
  /\ LET left == reader[s].want - Len(reader[s].got)
         n == IF Held(s).count <= left THEN Held(s).count ELSE left
     IN /\ expected' = [expected EXCEPT ![s] = Held(s).timestamp + n]
        /\ pending' = [pending EXCEPT ![s] = Rest(s, n)]
        /\ reader' = [reader EXCEPT ![s].at = IF n = left THEN "full" ELSE "loop",
                                    ![s].got = @ \o Taken(s, n)]
  /\ UNCHANGED <<libVars, config, run, now, callVars, thread, queueVars, pleaseStop>>

\* Mutant: a jump goes unnoticed.
CopyAcross(s) == CopyHeld(s)

Copy(s) == Holding(s) /\ Continues(s) /\ CopyHeld(s)

Fills(s) ==
  /\ Reading(s, "full")
  /\ Returned(s)
  /\ UNCHANGED <<libVars, config, run, now, callVars, thread, queueVars, pleaseStop, pending, expected>>

Read(s) ==
  \/ readStream(s) \/ TakePending(s) \/ TakeQueued(s) \/ TimesOut(s) \/ HeldIsGone(s)
  \/ ReportsError(s) \/ Jumps(s) \/ Copy(s) \/ Fills(s)

Control(c) ==
  \/ \E s \in Streams : activateStream(c, s)
  \/ Pause(c) \/ StopLibrary(c) \/ Join(c) \/ Deactivated(c)
  \/ Write(c) \/ setSampleRate(c) \/ Apply(c) \/ Resume(c)
  \/ setFrequency(c) \/ getFrequency(c) \/ tryApplyChanges(c)

Library == LibraryCalls \/ LibraryFails

Next ==
  \/ \E c \in Controllers : Control(c)
  \/ \E s \in Streams : Worker(s) \/ Read(s)
  \/ Library

Spec == Init /\ [][Next]_vars

\* The worker runs, a controller inside a call goes on, and while it streams the
\* library delivers buffers, or fails (StreamAPI promises no data, module Stream
\* does: DataKeepsComing). Stopped or failed, the library returns, however many
\* buffers it still delivers, as StreamAPI promises: hence SF.
FairSpec ==
  /\ Spec
  /\ \A s \in Streams : WF_vars(Worker(s)) /\ SF_vars(WorkerReturns(s))
  /\ WF_vars(LibraryCalls)
  /\ \A c \in Controllers : WF_vars(pc[c] # "idle" /\ Control(c))

-----------------------------------------------------------------------------
(* Properties.                                                             *)

\* The samples in the first items of a queue, and in all of them.
SamplesIn(q) ==
  LET samples[i \in 0 .. Len(q)] == IF i = 0 THEN 0 ELSE samples[i - 1] + q[i].count
  IN  samples
Samples(q) == SamplesIn(q)[Len(q)]

TypeOK ==
  /\ Lib!TypeOK
  /\ rate \in {"applied", "changed", "bad"} /\ freq \in {"applied", "changed", "bad"}
  /\ run \in {0, 1} /\ now \in Nat
  /\ mutex \in Controllers \cup {NoThread} /\ active \in Streams \cup {NoStream}
  /\ pc \in [Controllers -> {"idle", "try", "retry", "stop", "join", "paused", "apply", "resume"}]
  /\ retrying \in [Controllers -> BOOLEAN]
  /\ thread \in [Streams -> {"none", "starting", "streaming", "failed", "done"}]
  /\ pleaseStop \in [Streams -> BOOLEAN]
  /\ queueSize \in [Streams -> Nat]

\* A worker exists only for the active stream, so that deleting any other is
\* safe; and with no active stream the library is not streaming and nothing is
\* queued: ~PG2SDRDevice closes the device and leaks nothing (PauseStreamGuard,
\* closeStream).
OnlyActiveWorks ==
  /\ \A s \in Streams : thread[s] # "none" => active = s
  /\ active = NoStream => phase = "idle" /\ \A s \in Streams : queue[s] = <<>>

\* The rate is in force before a stream starts and is not touched until it has
\* stopped: tryApplyChanges never sees PG2SDR_ERROR_BAD_STATE, whatever the
\* threads do in between.
RateSettled == phase # "idle" => rate = "applied"

\* queue_size_ is what is queued, within queue_limit_; an error comes last, and
\* everything else is of this activation and in the order it was received, what
\* was dropped missing.
QueueInOrder ==
  \A s \in Streams :
    /\ queueSize[s] = Samples(queue[s]) /\ queueSize[s] <= QueueLimit
    /\ LET q == pending[s] \o queue[s]
       IN \A i \in 1 .. Len(q) :
            /\ q[i].error => i = Len(q)
            /\ ~q[i].error => q[i].run = run
            /\ i > 1 /\ ~q[i].error => q[i - 1].timestamp + q[i - 1].count <= q[i].timestamp

\* "Timestamp discontinuity, return whatever we have already": the samples one
\* read returns are one stretch, nothing missing or repeated in it, unless the
\* stream is paused during the call.
OneStretch ==
  \A s \in Streams :
    LET got == reader[s].got
    IN ~reader[s].paused =>
         \A i \in 1 .. Len(got) - 1 : got[i + 1] = <<got[i][1], got[i][2] + 1>>

\* Every call of the control interface returns, also when the stop request comes
\* before the worker has reached pg2sdr_stream_data and stop_streaming does
\* nothing ("needed to avoid activate->deactivate races").
CallsReturn == \A c \in Controllers : pc[c] # "idle" ~> pc[c] = "idle"
=============================================================================
