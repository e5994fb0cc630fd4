--------------------------------- MODULE Rx ---------------------------------
(***************************************************************************)
(* pg2-rx, cli/pg2-rx/pg2-rx.c: a capture to a file, fed by the buffers    *)
(* module Dispatch delivers. stream_callback counts what it is given and   *)
(* what the timestamps say is missing, writes it and looks whether it is   *)
(* time to stop; a signal may come at any time.                            *)
(***************************************************************************)
EXTENDS Dispatch

CONSTANTS
  Formats,       \* values of -o
  SampleLimits,  \* of -n, 0 for none
  TimeLimits,    \* of -t, in units of 1 / Second: 0 for none
  Second,        \* time units in a second
  MaxClock       \* bound on the clock

\* bytes_per_value of convert_samples.
BytesPerValue == [UINT8 |-> 1, INT16 |-> 2, INT32 |-> 4, FLOAT32 |-> 4, FLOAT64 |-> 8]

ASSUME RxAssumption ==
  /\ Formats \subseteq DOMAIN BytesPerValue
  /\ SampleLimits \subseteq Nat /\ TimeLimits \subseteq Nat
  /\ Second \in Nat \ {0} /\ MaxClock \in Nat

VARIABLES
  options,         \* what the command line asks for, once it is accepted
  main,            \* the call main is at, or how the program has exited
  open,            \* which of file, context and device are to be released
  deadline,        \* time_limit_ts, as <<tv_sec, tv_nsec>>
  clock,
  next_timestamp, total_samples, total_dropped,
  first,           \* the timestamp counting began at
  stop_flag,
  stopped,         \* pg2sdr_stop_streaming has been called
  written,         \* bytes in the file
  write_error

counters == <<next_timestamp, total_samples, total_dropped, first>>
file == <<written, write_error>>
rxVars == <<options, main, open, deadline, clock, counters, stop_flag, stopped, file>>
rx_vars == <<vars, rxVars>>

Exits == {"SUCCESS", "FAILURE"}
Never == <<0, 0>>
Timespec(t) == <<t \div Second, t % Second>>

Options == [format : Formats, sample_limit : SampleLimits, time_limit : TimeLimits]

RxInit ==
  /\ Init
  /\ options \in Options
  /\ main = "creat" /\ open = {}
  /\ deadline = Never
  /\ clock \in Second .. 2 * Second
  /\ next_timestamp = 0 /\ total_samples = 0 /\ total_dropped = 0 /\ first = 0
  /\ stop_flag = FALSE /\ stopped = FALSE
  /\ written = 0 /\ write_error = FALSE

-----------------------------------------------------------------------------
\* The calls before streaming, in their order, and what each leaves to release.
\* "set" stands for the pg2sdr_set_* calls.
Then == [creat |-> "init", init |-> "open", open |-> "set", set |-> "apply", apply |-> "stream"]
Opens == [creat |-> {"file"}, init |-> {"context"}, open |-> {"device"}, set |-> {}, apply |-> {}]

\* A whole second in the sum of the fractions is carried over.
Setup ==
  /\ main \in DOMAIN Then
  /\ main' = Then[main]
  /\ open' = open \cup Opens[main]
  /\ deadline' = IF main' = "stream" /\ options.time_limit > 0
                 THEN Timespec(clock + options.time_limit) ELSE deadline
  /\ UNCHANGED <<vars, options, clock, counters, stop_flag, stopped, file>>

\* The label cleanup, which a failing open does not pass.
SetupFails ==
  /\ main \in DOMAIN Then
  /\ main' = "FAILURE"
  /\ open' = IF main = "open" THEN open ELSE {}
  /\ UNCHANGED <<vars, options, deadline, clock, counters, stop_flag, stopped, file>>

\* The handler only sets a flag.
stop_streaming ==
  /\ main = "stream" /\ ~stop_flag
  /\ stop_flag' = TRUE
  /\ UNCHANGED <<vars, options, main, open, deadline, clock, counters, stopped, file>>

Tick ==
  /\ main = "stream" /\ clock < MaxClock
  /\ clock' = clock + 1
  /\ UNCHANGED <<vars, options, main, open, deadline, counters, stop_flag, stopped, file>>

-----------------------------------------------------------------------------
\* Mutant: every timestamp that is not the expected one is a drop, of the
\* difference in unsigned arithmetic.
DroppedUnsigned(b) ==
  IF next_timestamp = 0 THEN 0 ELSE ((b.timestamp + Word - next_timestamp) % Word) + 1

Dropped(b) ==
  IF next_timestamp # 0 /\ b.timestamp > next_timestamp THEN b.timestamp - next_timestamp ELSE 0

\* The comparison of the code, tv_nsec for the second tv_sec included.
TimeIsUp ==
  LET now == Timespec(clock)
  IN /\ deadline[1] # 0
     /\ now[1] > deadline[1] \/ (now[1] = deadline[2] /\ now[2] >= deadline[2])

\* convert_samples: I and Q in BASEBAND mode, one value otherwise.
ValuesPerSample == IF Stages = 0 THEN 1 ELSE 2
SampleBytes == ValuesPerSample * BytesPerValue[options.format]

\* The write loop writes all of it, or fails part of the way. Mutant: a write
\* that fails is not remembered.
WriteUnnoticed(bytes) ==
  \E k \in {0, bytes} : written' = written + k /\ UNCHANGED write_error

WriteAll(bytes) ==
  \/ written' = written + bytes /\ UNCHANGED write_error
  \/ bytes > 0 /\ write_error' = TRUE /\ \E k \in {0, bytes - 1} : written' = written + k

Stops ==
  \/ write_error'
  \/ options.sample_limit > 0 /\ total_samples' + total_dropped' >= options.sample_limit
  \/ TimeIsUp

\* Mutant: only what has just been found makes the callback stop.
StopsNowOnly == Stops

StopsNow == stop_flag'

stream_callback(b) ==
  /\ total_dropped' = total_dropped + Dropped(b)
  /\ first' = IF next_timestamp = 0 THEN b.timestamp - total_samples - total_dropped ELSE first
  /\ next_timestamp' = b.timestamp + b.count
  /\ total_samples' = total_samples + b.count
  /\ WriteAll(b.count * SampleBytes)
  /\ stop_flag' = (stop_flag \/ Stops)
  /\ stopped' = (stopped \/ StopsNow)
  /\ UNCHANGED <<options, main, open, deadline, clock>>

\* pg2sdr_stream_data: once it has been stopped no transfer is dispatched, but
\* the one that is goes on to its end, with a callback for each of its ranges.
Dispatching ==
  /\ main = "stream"
  /\ \/ ~stopped /\ Receive /\ UNCHANGED rxVars
     \/ (BadHeader \/ SameRange) /\ UNCHANGED rxVars
     \/ (NewRange \/ LastRange) /\ stream_callback(buffer')

Exit(status) ==
  /\ main = "stream" /\ blocks = <<>>
  /\ main' = status
  /\ open' = {}
  /\ UNCHANGED <<vars, options, deadline, clock, counters, stop_flag, stopped, file>>

\* A USB error.
StreamFails == ~stopped /\ ~failed /\ Exit("FAILURE")

StreamEnds ==
  (stopped \/ failed) /\ Exit(IF failed \/ write_error THEN "FAILURE" ELSE "SUCCESS")

RxNext ==
  \/ Setup \/ SetupFails \/ stop_streaming \/ Tick
  \/ Dispatching \/ StreamFails \/ StreamEnds

RxSpec == RxInit /\ [][RxNext]_rx_vars

\* Data keeps coming and a stopped stream ends (DataKeepsComing and StopReturns
\* of module Stream).
RxFairSpec == RxSpec /\ WF_rx_vars(Dispatching) /\ WF_rx_vars(StreamEnds)

-----------------------------------------------------------------------------
(* Properties.                                                             *)

\* The closing line "Received ... samples (+ ... dropped)" adds up: what was
\* received and what was dropped is exactly the stretch of user samples between
\* the first and the last timestamp, however blocks, transfers and decimation
\* divide it (stream_callback), as long as the counter has not wrapped.
Accounted ==
  next_timestamp # 0 => total_samples + total_dropped = next_timestamp - first

\* Exiting with success means that the file holds every sample there was, and
\* that nothing the stream met was wrong.
SuccessIsComplete ==
  main = "SUCCESS" => written = total_samples * SampleBytes /\ ~failed

\* A stop, whoever asks for it, ends the program, although the signal handler
\* can only set a flag for the next callback (stop_streaming). The device has
\* data for two more transfers: MaxBlock is no limit of the code.
StopEnds ==
  stop_flag /\ next + 2 * Blocks * (MaxGap + 1) <= MaxBlock ~> main \in Exits
=============================================================================
