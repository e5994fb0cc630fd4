# libpg2sdr in TLA+

libpg2sdr drives a USB software-defined radio, FlightAware's Pro Stick. It
configures a tuner and an ADC over control transfers, streams bulk transfers of
ADC blocks, converts them to samples and passes them to a user callback. With
it come a SoapySDR driver, a capture program (pg2-rx) and the firmware tools
(pg2-util). This directory holds TLA+ models of them, the TLC configurations
that check them, and theorems whose proofs tlapm checks. Source paths below are
relative to `src/`, lines are those of the commit modelled.

    tlc -config MCStream.cfg MCStream     one of the runs of PROJECT.json
    tlapm StreamProofs.tla                a module of proofs

Contents: 1 the system, 2 the modules, 3 the runs, 4 the proofs, 5 findings and
observations, 6 what is not modelled, 7 the plan.

## 1. The system

### Components

| Component | State it keeps | Operations | Module |
|---|---|---|---|
| streaming engine, `src/stream.c` | `streaming`, `draining`, `completion_flag`, the transfers and their states, the active list, the DSP chain, `partial_samples` | `pg2sdr_stream_data`, `pg2sdr_stop_streaming`, `transfer_callback`, the dispatch of a transfer | `Stream`, `Dispatch` |
| signal processing, `dsp/` | a history buffer per stage | reset, process a piece of signal | `History` |
| configuration, `src/config.c`, `src/bandpass.c` | the requests, `changing_rate/freq/bandpass`, `adc_pll_config`, `tuner_pll_config`, `bandpass_table`, `current_bandpass_entry` | `pg2sdr_set_*`, `pg2sdr_apply_changes` | `Config` |
| gain control, `src/gain.c` | cached steps, gain tables, `current_gain_entry` | set by step, by dB, as a total; replace tables | `Gain` |
| tuner driver, `src/tuner.c` | in the device structure; the registers are the tuner's | initialise, gains, bandpass filter, PLL | `Registers`, `Tuner` |
| device life cycle, `src/device.c` | memory, USB handle, claimed interface | open (`build_device`), close | `Device` |
| ADC clock search, `src/adc.c` | none | find p, i and dividers for a target | a constant of `Config` |
| core library, `corelib/` | the libusb context | control requests, discovery, error codes | in the steps of the others |
| SoapySDR driver, `soapy/` | `active_stream_`; per stream a worker thread, a bounded queue, flags | activate, deactivate, read, settings | `Soapy` |
| pg2-rx, `cli/pg2-rx/` | counters, file, deadline, stop flag | capture to a file until a limit or a signal | `Rx` |
| pg2-util, `cli/pg2-util/` | the image, a device, a sector's contents, the hotplug state | load, write, verify, reset, standby, selftest | `Stick`, `Util`, `Firmware` |

### Interactions

- **API threads and the mutex.** Every entry point takes the recursive
  `dev->mutex`. `pg2sdr_apply_changes` and the gain calls keep it from start to
  end. `pg2sdr_stream_data` gives it away whenever it waits for libusb events
  (`src/stream.c:354`, `:689`) and takes it back; in these gaps any other call
  of the API runs, `pg2sdr_stop_streaming` and setters included.
- **libusb.** Submitted transfers belong to libusb until it runs
  `transfer_callback` on them, in whatever thread of the `pg2sdr_context`
  happens to handle events, without the mutex. The callback makes two stores,
  `XFER_COMPLETED` and then `completion_flag`; libusb polls the flag to leave
  its event loop.
- **The user callback** runs in the streaming thread with the mutex held. It
  may call the library, `pg2sdr_stop_streaming` above all.
- **Streaming and configuration.** `pg2sdr_stream_data` applies pending changes
  before it starts. The sizes `apply_rate_change` computed size its transfers;
  while it runs, `sideband_mode` and `undersampling_mode` are read for every
  buffer.
- **Dispatch and DSP.** `partial_samples` mirrors, from outside, how many
  samples the decimators hold back.
- **Tuner registers** are shared by gains, filter and PLL, each written by a
  change set that masks its own fields.
- **SoapySDR.** `activateStream` starts a worker thread that calls
  `pg2sdr_stream_data`; its callback queues buffers which `readStream` takes
  out in another thread. A setting that cannot be made while streaming stops
  the worker and starts it again (`PauseStreamGuard`).
- **pg2-rx** runs `pg2sdr_stream_data` in its main thread; its signal handler
  sets a flag that the next callback turns into a stop.
- **pg2-util** sends firmware to a stick, which vanishes from the bus and comes
  back; a libusb hotplug callback reports what arrives. Other programs, other
  sticks and the person who plugs them act in between.

### What is hard, and what makes each component correct

- *Streaming engine*: the races between two releases of the mutex, the flag
  protocol, transfers that complete in a different order from the list, every
  way out of a long function with many failures. Correct means: one call at a
  time; no memory freed or submitted twice while libusb has it; transfers
  dispatched in order; no lost wake-up; a stop always ends the call; every way
  out leaves the device usable.
- *Dispatch, DSP and pg2-rx*: pieces shorter than a filter, remainders, gaps,
  wraps. Correct means: output independent of how the input is cut, no sample
  lost, a timestamp that matches the sample, a buffer that is always large
  enough, counts of received and dropped samples that add up.
- *Configuration*: any order of requests, applications that stop half way,
  writes that fail but reached the device. Correct means: nothing asked for is
  forgotten, nothing is believed of the hardware that is not so, and a running
  stream keeps the clock and sizes it was started with.
- *Gain, tuner, device*: a cached entry of a replaceable table, a scan that
  stops early, bit fields shared by three writers, partial writes, a tuner found
  in any state. Correct means: the registers hold what the library believes,
  and an open that fails gives everything back.
- *SoapySDR*: a worker, a reader and controllers, two mutexes, a bounded queue.
  Correct means: a worker only for the active stream, no sample out of order or
  across a gap in one read, every call returns.
- *pg2-util*: an interrupted flash write, a deadline that races a device, a
  stick that is not the one meant. Correct means: nothing is touched that was
  not to be, success means the image is there, and a repeated write repairs.

`PROJECT.json` lists each hazard at its line with the properties that cover it.

## 2. The modules

| Module | Models | State and actions against the code |
|---|---|---|
| `Stream` | `src/stream.c`, the life of a stream; close against it | `pc[t]` is the point of `pg2sdr_stream_data` thread `t` is at, `error[t]` its local; `streaming`, `draining`, `completion_flag`, `state`, `active` are the fields of the same names; `urbs`, `status`, `calling` are libusb's side |
| `StreamAPI` | what a caller can rely on, less than `include/pg2sdr.h` says | a phase, its owner, and whether the callback runs; implemented by `Stream` (`ImplementsAPI`, a refinement mapping) |
| `Dispatch` | `dispatch_transfer`, `dispatch_contiguous_blocks`, the counting of `convert_adc_blocks` | `offset` and `start` are the loop of `dispatch_transfer`; `partial` is `partial_samples`; `held` is what each stage keeps; `received`, `delivered` count samples and are not in the code |
| `Rx` | `cli/pg2-rx/pg2-rx.c` | extends `Dispatch`: every buffer it delivers is a call of `stream_callback`; counters, file, deadline and flags have the names of the code; `main` is the call `main` is at or the exit status |
| `History` | `dsp/src/dsp-history.inc` around a half-band decimator | `Process` is one call; a sample is its place in the signal, an output the window it was computed from |
| `Config` | `src/config.c`, `src/bandpass.c`, what they write of the tuner | `request` and `changing` are the setters' side, `adc`, `tuner`, `table`, `entry` the cached configuration, `hw` the hardware; `stage` is how far `apply_changes` has got |
| `Registers` | `include/internal/tuner-regs.h`, `set_tuner_bits` | a register is the set of its bits that are 1; a change set a function from fields to values; a write that fails leaves any prefix written |
| `Gain` | `src/gain.c` and the gains of `src/tuner.c` | `gains`, `entry`, tables as in the code, `regs` the tuner's registers; `in_doubt` marks the stages a failed write may have changed |
| `Tuner` | the rest of `src/tuner.c` | filter, sideband and PLL: divider arithmetic, its registers, the search for a VCO current; `step` is what `pg2sdr__start_pll` does next |
| `Device` | `src/device.c` | extends `Tuner`; `dev` is where `build_device` is, `memory`, `handle`, `interface` what it has taken; another program may take the interface and leave the registers in any state |
| `Soapy` | `soapy/soapy-pg2sdr.cc`, streams and settings | `pc` is where each controlling thread is, `thread` the worker of each stream, `queue`, `pending`, `expected` as in the code; `phase`, `owner`, `inCallback` are the library as `StreamAPI` describes it |
| `Stick` | sticks on the bus, as the tools rely on them; external | `flash`, what it `runs`, `where` it is plugged, its switch, what is powered, who else has it |
| `Util` | `cli/pg2-util/`: load, write, verify, reset, standby | `pc` is what the tool does next; `dev` and `handle` are the libusb objects, `hotplug` is `firmware_hotplug_state`, `flash_sector` the sector's contents as the tool believes them |
| `Firmware` | the self-test, and the composition with the user and other programs | `test` is the state of the self-test's loop |
| `StreamProofs`, `RxProofs`, `HistoryProofs`, `ConfigProofs`, `SoapyProofs`, `DeviceProofs`, `FirmwareProofs` | | theorems and proofs |
| `NaturalFacts` | | facts the proofs share: least elements and induction as facts about sets, recursive functions, powers of two, division, binary digits |
| `MCStream`, `MCDispatch`, `MCRx`, `MCHistory`, `MCConfig`, `MCDevice`, `MCSoapy`, `MCFirmware` | | values for TLC |

What composes what: `Rx` extends `Dispatch`; `Device` extends `Tuner`, which
extends `Gain`, which extends `Registers`; `Firmware` extends `Util`, which
extends `Stick`; `Stream` implements `StreamAPI`, whose steps are the library
side of `Soapy`.

How steps were chosen:

- **Stream.** All code between two releases of the mutex is atomic for other API
  threads, but not for `transfer_callback`. So an action is a stretch with at
  most one access to what the callback writes: resetting the flag, looking at
  the states, going to wait and waking up are separate steps, and each of the
  callback's two stores is one. Nothing in the submission of the batch looks at
  what the callback writes, so it is one step. A refused call (`BAD_STATE`)
  changes nothing and is not a step. `Faults` names the calls that may fail.
  `Contained` is the subset after which `drain_transfers` leaves everything
  clean. With `ForeignEvents` a thread of the same context that works on another
  device may handle this device's events.
- **Dispatch and Stream** share no variables: in `Stream`, dispatching a transfer
  is `BeginDispatch`, any number of callbacks (`BeginCallback`, `EndCallback`, one
  for each contiguous range), and `Resubmit` or `DispatchFails`. A stop may fall
  into a callback or between two; the rest of the transfer's ranges follow it
  (`src/stream.c:617-627`). `Dispatch` is which ranges there are. **History** is one
  stage of the chain `Dispatch` counts with.
- **Config.** `apply_changes` is three steps (and the start of a stream a
  fourth), although no other call can come between them, because each can fail
  alone and leaves the flags of the rest. The streaming engine appears as one
  flag. A failed control write leaves the hardware in any of the states the
  sequence of writes allows. Frequencies are integers in a unit of the model's
  choice. The PLL's dividers are abstracted to the frequency they make (they are
  `Tuner`'s), and `adc_find_divisors` to the constant `AdcClock`, any partial
  function.
- **Gain, Tuner, Device.** A gain or filter call is a step, whether its write
  succeeds, fails before the tuner or fails after some registers. Starting the
  PLL is one step for each change set it writes, since each can fail alone.
- **Soapy.** A step is a stretch under one of the mutexes, or one that touches
  nothing another thread reads. `read` works on `pending_` outside the queue's
  mutex; a pause in the middle of it is undefined behaviour in the code, and
  `HeldIsGone` tells such calls apart. Samples are pairs of the activation (told
  apart modulo 2) and a timestamp.
- **Util and Firmware.** A step is a control transfer, or a stretch without one.
  Firmware, boot ROM and libusb are external: `Stick` states what the tools rely
  on. An image is what its pages hold; a page may hold erased bytes only, which
  the tool treats as a case of its own. The deadline of a load may pass at any
  time, and the stick may arrive before, after or never, on its port or another.

Definitions that follow a comment "Mutant:" are not part of the specification:
they are what a plausible bug would turn the next definition into, and each
property of a passing run is violated under one of them (`PROJECT.json`,
"mutants").

## 3. The runs

`CHECK_DEADLOCK FALSE` appears only where the system really stops: `Dispatch` at
the last block or after a malformed header, `History` at the end of the signal,
`Rx` when the program has exited.

| Run | Shows | Bounds, and why they are enough |
|---|---|---|
| `stream` | `ExclusiveUse`, `BusyIffOwned`, `ListInSubmissionOrder`, `HeadExists`, `NoLostWakeup`, `CleanWhenIdle` under every interleaving and the contained faults; `StopReturns`, `DataKeepsComing`; that `Stream` implements `StreamAPI`, its fairness included: callbacks from one call at a time, none after it has failed, and a call that returns between callbacks, once it is stopped or has failed | 2 threads: one streams, another contends; a third is no different from the second. 4 transfers, the least the code allocates: head, tail and two in the middle, so that a list out of order has room to show. No symmetry, which is unsound for liveness |
| `stream_faults` | `NeverWedged` when every libusb call may fail, in any combination | 3 transfers: a batch submitted not at all, partly or wholly. The constraint `MemoryIntact` ends a behaviour once memory that is still in use has been freed: what the program does then is undefined. Symmetry in the threads |
| `stream_submit_failure` | finding 1 | 2 transfers |
| `dispatch_wrap` | finding 2 | a word of 6 bits, so that 16 blocks wrap it |
| `rx` | `PartialMirrorsDSP`, `SamplesConserved`, `CountFitsBuffer`, `TimestampsFollow` of `Dispatch`; `Accounted`, `SuccessIsComplete`, `StopEnds` of `Rx` | 3 blocks of 4 samples a transfer, 3 decimation stages: a block is half a user sample, so that remainders of every stage occur. Gaps of 0 or 1 block before any block and a malformed header anywhere. 14 blocks, more than 4 transfers; `W` is large enough for the counter not to wrap (finding 2). Two sizes of values; sample and time limits present or not; a clock of 7 half seconds around a limit of 3 |
| `history` | `OutputIndependentOfPieces` | filters of 3, 7 and 11 taps, the first three lengths a half-band filter can have; pieces of 0 to 30 samples, from nothing to enough to fill the history of the longest filter (22 samples) and go on in the input, so every path of the wrapper is taken; a signal of 36 samples, long enough for several pieces and for blocks past the history |
| `config` | `NothingForgotten`, `KnownMatchesHardware`, `SpectrumUpright`, `StreamKeepsClock`, `BufferHoldsTransfer` with any write failing | two of everything the sizes and the clock depend on: rates, ADC limits, undersampling modes, buffer sizes, automatic and explicit decimation, bandpass requests; some combinations have no ADC clock. A word of 6 bits and buffers of 2 and 16 samples of one, two or four ADC samples, so that a buffer can be smaller than a block of 4, be capped by `MaxTransfer` or not, or make either product wrap, to a transfer of 0 bytes that still counts ADC samples |
| `config_live` | finding 3 | |
| `config_sideband` | finding 4 | |
| `device` | `SettingsInRegisters`, `PllInRegisters`, `EntryInUse`, `NothingLeaks`, `NearestIsNearest` | one failure, of any call or part of a write, in each behaviour, then anything; registers that power up as all 0 or all 1, so that a field nobody writes shows; two firmware versions, one incompatible; two filters that differ in every field; six frequencies: the two of the self-test, one next to an integer divider, one next to half of one, one below the VCO, one above it, where the divider is rounded up to 269; a gain table given unsorted, with a stage table that is not monotone |
| `soapy` | `OnlyActiveWorks`, `RateSettled`, `QueueInOrder`, `OneStretch`, `CallsReturn` | one stream, since all of them share what is modelled but the queue, and the proofs cover any number; two controllers, so that activate, deactivate and a setting meet; a queue of one buffer of 2 samples and reads of 3, so that buffers are dropped and a read spans two; 6 samples an activation |
| `firmware` | `WritesErased`, `SuccessMeansImage`, `FlashSpared`, `InUseUntouched`, `OwnDevice`, `Quiet`, `Repaired` | two sticks, two ports; 3 sectors of 2 pages, the image in the first two and the self-test in the last; two images that differ in one page, which one of them leaves erased; one stick's flash holds either image or is erased, and from there whatever interrupted commands leave; the other's, plugged in later, holds the wanted image; one fault anywhere: a transfer, power, the wrong port, another program, a write the flash does not take. Eleven commands, force-erase and dry run included |

### Fairness

Nothing is assumed of an application but what is listed: it may never call,
never stop, and ask to stop as often as it likes.

- `stream`, `FairSpec`: a thread inside `pg2sdr_stream_data` keeps running
  (`WF(Advance(t))`): its event loop has a timeout and returns on it; the mutex
  it wants back is held by others only for the length of a call, which never
  waits; the user callback is documented to return. A transfer ends, at the
  latest on its own timeout or when it is cancelled, if someone handles events
  again and again (`SF(MarkCompleted)`): strong because the streaming thread
  leaves and enters the event loop in between. A transfer's dispatch ends
  (`SF(DispatchFails(t) \/ Resubmit(t))`): it has finitely many ranges, which
  `Stream` does not count; strong because it cannot end during a callback.
  `transfer_callback`, once begun, ends (`WF(RaiseFlag)`). `StreamAPI` in turn asks that
  a callback ends and that a call which is to return does, although callbacks may
  still come (`SF(Return)`).
- `rx`, `RxFairSpec`: data keeps coming and a stopped stream ends, which are
  `DataKeepsComing` and `StopReturns` of `Stream`. `StopEnds` asks that enough
  of the bounded signal is left (`MaxBlock` is no limit of the code).
- `soapy`, `FairSpec`: workers run; a controller that is inside a call goes on,
  calls are not started by fairness; the library, while it streams, calls back or
  ends with an error, and a call that is to return does return (`SF(WorkerReturns)`,
  as `StreamAPI` has it). The reader is not assumed to read.
- `firmware`, `Fairness`: the tool runs, libusb's transfers end and it reports
  what arrives; other programs let go of a stick; a stick that was pulled or
  switched is put back; and, as the premise of `Repaired`, the user who wants the
  image does run the write for it. `Repaired` concerns behaviours in which from
  some time on only that write is run.

## 4. The proofs

Each section names the theorems, then the inductive invariant and the argument.
Where a theorem names an invariant of a run, the run shows it on the instance of
section 3 and the theorem for every value of the constants.

### `StreamProofs`

For any set of threads and any number of transfers:

| Theorem | Assumption | Says |
|---|---|---|
| `TypeCorrect` | none | `TypeOK`, whatever fails |
| `NeverWedgedHolds` | none | `NeverWedged`, whatever fails and even if calls overlap after it |
| `ExclusiveUseHolds` | `"submit" \notin Faults` | one call at a time, no close under it |
| `BusyIffOwnedHolds`, `HeadExistsHolds`, `NoLostWakeupHolds`, `CleanWhenIdleHolds` | `Faults \subseteq Contained` | the invariants of the same names |
| `ListInSubmissionOrderHolds` | `Faults \subseteq Contained` | the active list keeps the order of submission: its head is the oldest transfer |
| `ImplementsAPISafety` | `"submit" \notin Faults` | `Stream` implements the safety part of `StreamAPI` |
| `CallbackMemoryValidHolds` | that, and `ForeignEvents = FALSE` | `transfer_callback` never touches freed memory |

The first assumption is exact: `stream_submit_failure` violates the property
without it. The last is the observation on `src/stream.c:466` in section 5.

*Why never wedged.* `NeverWedged` is inductive with `TypeOK` alone. A step of
`pg2sdr_stream_data` either leaves through `done`, which clears everything, or
its thread stays inside (`LeavesClear`), and no other call sets a flag unless
`streaming` is set, so that somebody is inside.

*Why one call at a time.* `ExclusiveUse` alone is not inductive: while the first
call waits, the mutex is free, and what keeps a second out is `streaming`.
`Exclusion` adds that the mutex is held exactly at the points of `Locked` and
that whoever is past submission has set `streaming`. `EnterAlone` then says that
a call which gets past the check finds nobody inside.

*The inductive invariant* is `IInv == TypeOK /\ Exclusion /\ Ownership /\ Listing
/\ NoLostWakeup /\ Cleaning`. Its parts need each other. Resubmitting appends the
head to `urbs`, which stays injective only because the head is completed
(`Listing`) and so not libusb's (`Ownership`). The batch is all there is only if
the call before left nothing behind (`Cleaning`). A clean end is reached only
because the states tell who owns the memory (`Ownership`). There is one lemma per
part (`NextExclusion`, `NextWakeup`, `NextListing`, `NextOwnership`,
`NextCleaning`), with one step per action. The lemmas before them
(`WithoutProperties`, `RotateElements`, `AppendElements`, `BatchElements`) say
what removing, rotating and appending do to the elements of a sequence.

*Callbacks.* `CallbackInside` says that a callback in progress belongs to a
thread at a point where events are handled. Such a thread cannot go on
(`StillDuringCallback`), no other can enter, and so nothing is freed.

*The list.* `ListInSubmissionOrder` is inductive on top of `IInv`. A resubmission
moves the head to the end of the list and to the end of what libusb owns at once.
A completion takes a transfer out of what libusb owns, and the others keep their
order.

*The contract.* `ImplementsAPISafety` shows for each step which step of
`StreamAPI` it is, or that it is none. The contract is not the header's word for
word: where `include/pg2sdr.h:1832` has a stopped call return "after it has
finished processing any outstanding data", `StreamAPI` lets it call back after the
stop or not, because the engine hands out what is left of the transfer at hand and
drops the others that have completed (section 5). What it does promise is that
callbacks belong to one call, that none begins once the call has failed or returned, and
that it returns between callbacks and only once stopped or failed. `CallInv == TypeOK /\ Exclusion /\
NeverWedged /\ Reasons` is what this needs. `Reasons` says that a call drains
only because it was stopped or has failed: without it a call could end without a
step of the contract that explains it. What a failed drain leaves with libusb
does not show in the contract, so every fault but that of the batch is allowed.

### `RxProofs`

For blocks, transfers and buffers of any size and any number of decimation
stages:

| Theorem | Assumption | Says |
|---|---|---|
| `PartialMirrorsDSPHolds` | none | `partial_samples` is what the stages hold back |
| `SamplesConservedHolds` | none | every sample received is delivered or held back |
| `CountFitsBufferHolds` | none | a range never makes more samples than its buffer was allocated for |
| `SuccessIsCompleteHolds` | none | after an exit status of 0 everything received is in the file |
| `TimestampsFollowHolds` | `NoWrap` | a timestamp continues from the last by what was delivered and dropped |
| `AccountedHolds` | `NoWrap` | received and dropped add up to the stretch the timestamps span |
| `TimestampsIncreaseHolds` | `NoWrap` | a timestamp is never less than the one before |
| `TypeCorrect` | none | `TypeOK` of `Dispatch` |

`NoWrap == MaxBlock * SPB < Word`: the product of sequence number and block size
has not yet wrapped. `dispatch_wrap` shows what happens when it has (finding 2): with
`TimestampsIncreaseHolds` the wrap is the only thing that makes timestamps fall
back.

`IInv == TypeOK /\ Numbered /\ (offset = 1 => start = 1) /\ RangeStarted /\
Chain`. `Chain` holds the first three theorems together. Its heart are two
lemmas about the decimators: samples are conserved up to each stage
(`StagesConserve`), and what the stages hold is less than a user sample, being a
binary number with a digit for each stage (`HeldBelow`). So the chain holds back
what a counter modulo `AdcPerUser`, which `partial_samples` is, counts. Both are
inductions over stages. `RangeStarted` says that no range is empty when it is
dispatched, `Numbered` that blocks of a transfer are numbered upwards.

`Timing` adds where the last buffer lies between what has been received and the
blocks to come. Only with it does a gap in the timestamps follow from a gap in
the sequence numbers, remainders included. `SuccessIsComplete` needs that the
file is complete until a write fails (`Complete`) and that success is reported
only if none has (`Succeeds`). `Accounted` needs that `next_timestamp` is the end
of the last buffer (`Expecting`).

### `HistoryProofs`

`OutputIndependentOfPiecesHolds`, assuming `BlockLen = 2` and `MaxInput < Word`:
for a filter of any length, the outputs are the same however the signal is cut
into pieces. `BlockLen` is `IN_BLOCK_LEN`, 2 at every place that includes the
wrapper (`dsp/src/dsp.c:56`); inputs are below the wrap of its 32-bit counters.
`IInv` says that the history is the stretch of the signal just before the next
input, and as long as the filter needs. What the wrapper copies about is then a
stretch of the signal (`MemoryOfSignal`, `JoinSignal`), and a filter run over such
memory gives the outputs of the reference (`DecimateSignal`); the proof of a step
goes through the paths of the wrapper: no block, blocks in the history only, and
blocks that go on in the input.

### `ConfigProofs`

For any requests, tables, clocks and failures:

| Theorem | Says |
|---|---|
| `NothingForgottenHolds` | with no flag left, ADC configuration, LO and filter are what the last requests ask for |
| `KnownMatchesHardwareHolds` | the cached LO and filter are the hardware's |
| `StreamKeepsClockHolds` | the ADC's clock is the one everything was computed for |
| `BufferHoldsTransferHolds` | a transfer of a running stream fits a user buffer, which its DSP chain is right for |
| `SpectrumUprightHolds` | assuming `ClockAboveStep`: the DSP un-inverts the spectrum exactly when LO and undersampling have inverted it |
| `BestFilterHolds` | with nothing left to apply, no entry of the table in use has a smaller penalty than the filter in the hardware |
| `OnlySkippingLosesSideband` | only a retune that is skipped, the LO being where it should be, makes the tuner lose the sideband asked for |
| `TypeCorrect` | `TypeOK`: among others, the current entry is one of the table in use |

`IInv == Shape /\ NothingForgotten /\ KnownMatchesHardware /\ StreamKeepsClock`.
`NothingForgotten` needs `KnownMatchesHardware`, because the steps that find "no
work to do" compare with the cache only. The argument is about what each
computation depends on: `AdcConfigInputs`, `LoInputs` and `FilterInputs` state
that two requests which agree on certain fields give the same ADC
configuration, LO and filter. `RequestKeeps` uses them to show that a setter
that changes one of those fields marks the part. None of these three depends on
what the arithmetic computes, so they hold for frequencies of any size, and need
nothing of `SelectFilter` but that it is a function of its arguments.

*Sizes.* `SizeInv == Computed /\ BufferHoldsTransfer`, where `Computed` says what
a valid configuration was computed from and that a stream starts only from one
that is up to date. The division lemmas show that the sizes of `src/config.c:613`
fit, also where a 32-bit product wraps: a product that wraps only gets smaller.

*The spectrum.* `ClockAboveStep` asks that a quarter of every ADC clock is at
least a step of the PLL. The slowest ADC clock there is runs at some 17 kHz
(`include/internal/adc.h`: 275 MHz divided by 2 * 32 * 256), a quarter of it at 4
kHz, and the PLL's step is some hundred Hz. Then rounding cannot move the LO to
the other side of the frequency asked for (`LoSide`). Without it, an offset of
less than a step could be rounded away.

*The filter.* `TypeCorrect` needs the arithmetic to make numbers: the decimation,
the band and the penalties are numbers, and so the scan of
`pg2sdr__select_bandpass_filter` finds an entry that no other is better than
(`SelectFilterIsBest`, from `NaturalFacts!FirstLeast`). The tables are not empty,
which `pg2sdr_set_bandpass_table` checks (`src/bandpass.c:40`). What is selected
is the best entry for the request at hand, and by `NothingForgotten` for the last
one.

*The sideband.* `SidebandRetained` does not hold (finding 4). `TunerRetains` is the
same without the filter's flag, and the only step after which it no longer holds
is `SkipsSideband`: `FreqUnchanged` with the LO right and the image wrong. No
setter and no failing write loses the sideband.

### `SoapyProofs`

For any streams, controllers, buffer and queue sizes:

| Theorem | Says |
|---|---|
| `OnlyActiveWorksHolds` | a worker only for the active stream; without one, nothing streams and nothing is queued |
| `RateSettledHolds` | the rate is in force whenever the library streams |
| `QueueInOrderHolds` | what is queued is of this activation, in order, an error last, and within the limit |
| `OneStretchHolds` | what one read returns, unless a pause falls into it, is one stretch of samples of one activation |
| `NeverRefusedHolds` | `pg2sdr_apply_changes` never answers `BAD_STATE` to `tryApplyChanges`: its pause-and-retry branch is dead code |
| `TypeCorrect` | `TypeOK`, of `StreamAPI`'s state too |

`IInv == Shape /\ Exclusion /\ OneWorker /\ LibraryHasWorker /\ QueueOfWorker /\
RateSettled`. `mutex_` is held at exactly the points where a controller changes
what workers depend on (`Exclusion`). What the library runs for is a worker
(`LibraryHasWorker`), a worker is the active stream's (`OneWorker`), and joining
it leaves its queue to be cleared (`QueueOfWorker`). `RateSettled` then holds
because a step that touches the rate comes after the join (`StoppedIsIdle`).

*The queue.* `QInv == Types /\ \A s : QueueOf(s) /\ GotOf(s)`. `QueueInOrder`
alone is not inductive: a worker that starts could find an item of the activation
before, and an error could be queued before samples. `QueueOf` adds the item the
reader has begun, that nothing is queued before a worker streams, and that an
error is only queued by one that has ended. `GotOf` says that what a read has
returned so far ends just before `expected_timestamp_`. The read that a pause
falls into is left out, as in the property: section 5 has what happens to it.
`Samples`, a recursive function, is shown to add up under append and tail.

### `DeviceProofs`

For any tables, filters, frequencies, registers and failures:

| Theorem | Says |
|---|---|
| `NothingLeaksHolds` | however `build_device` fails, memory, handle and claim are given back |
| `NearestIsNearestHolds` | the scan that ends early picks an entry no other is nearer than |
| `EntryInUseHolds` | while an entry counts as in use, the library's stages and the tuner's registers hold its steps; of the registers, stages that a failed write has left in doubt are left out |
| `SettingsInRegistersHolds` | the gains and the filter the library believes in are in the registers, and the fields written once stay as written |
| `PllInRegistersHolds` | assuming `26 * Reference < VcoMin`: a PLL known to be set is the one asked for, to three steps of the fraction, and can lock |

`HeldInv == NothingLeaks /\ Held`, where `Held` says what has been taken at each
point of `build_device`. `GainInv == Tables /\ EntryMatchesStages` relates the entry
to the cached steps, `SettingsInRegisters` these to the registers; together they
give `EntryInUse`. The scan of
`pg2sdr_set_total_gain_db` is correct for a table of any length: neighbours in
order mean that all are (`AdjacentToPairwise`, which takes the first entry out of
order, from `NaturalFacts!LeastElement`), the entry picked is the nearest of those seen
(`NearestSeen`), and those not seen are further away (`NearestOfAll`). `qsort`
may order equal gains in any way; `SortedIsUsable` covers all of them.

*Registers.* `RegInv` says that until the tuner is initialised the library
believes nothing of it (`Fresh`), and from then on `SettingsKept` and
`FixedHeld`. What makes it inductive is the layout: the fields of a register do
not overlap (`FieldsApart`), gains, filter and PLL write different fields
(`FieldsOwn`), and so a change set, written wholly or up to any register, leaves
the fields it does not name alone (`WriteKeeps`). That is proved for the layout of
`tuner-regs.h`, every field of it, and for any contents of the registers before.

*The PLL.* `PllInv` says what the registers hold at each point of
`pg2sdr__start_pll`: nothing known before the settings are written, the new
settings (`Written`) while it looks for a lock, and, once the PLL counts as set,
settings that can lock. `PllParametersAre` and `SdmSteps` are the arithmetic of
`pg2sdr__find_pll_parameters`, for any frequency: the dividers it chooses, the
fraction that is rounded to a multiple of four, the carry to the next divider.
`ReadBack` is the way back: the value of the fields is the number that was
written, by `DigitsInByte`. The exception is a divider of 269, which does not fit
and comes out as 13 (section 5). The assumption says that the VCO cannot run at
13 times twice the reference, so that a divider of 269 never locks and is never
kept. `VCO_MIN` is 1.75 GHz, so that this holds for any reference below 67 MHz;
the code's is a crystal of at most 24 MHz or half of one above.

### `FirmwareProofs`

For any sticks, ports, flash sizes, images, commands and number
of faults:

| Theorem | Says |
|---|---|
| `InUseUntouchedHolds` | the flash of a stick another program has claimed stays; its power, its firmware and that claim stay until the program ends, the stick is unplugged or a reset is given for it |
| `WritesErasedHolds` | only pages that are erased in the flash itself are written |
| `FlashSparedHolds` | only what a command is to change is changed |
| `OwnDeviceHolds` | after a load the tool goes on with the stick on the port, or with another only if the one it loaded does not run there |
| `SuccessMeansImageHolds` | a write or verify that succeeds leaves the image in the flash |
| `QuietHolds` | what standby or a whole self-test reports to have passed is powered down |

`IInv == Shape /\ Progress /\ Claims /\ InImage /\ Believed`. `Claims` says at
which points of a command the interface is held, and that nobody else then has
it; a reset is the command that goes on without. What `InUseUntouched` needs of it
for each step is `Kept`. `Believed` relates the tool's copy of a sector to the flash: a sector is
erased for a reason, and a page the tool takes for erased is erased. It is what
makes the assertion of `write_image` true of the flash and not only of the copy.
`FlashChanges` lists who changes flash at all, `UseChanges` and `UseBegins` who
changes the use of a stick. That an erase which reports success has erased is part
of `Stick` and `Util` (`EraseSector`): the code reads back what it wrote, not what it
erased, and `WritesErased` is relative to it. A page write may fail without a word.

*The bus.* `BusInv == Bus /\ Selftesting /\ Watched` relates what the tool has a
`libusb_device` of to what is there. `Watched` is about the hotplug state: the
stick reported for the port is on the bus and still on that port, the one reported
elsewhere is on the bus, and as long as none has come up on the port, the stick
that was there does not run on it. That is what makes the "maybe" after the timeout
a last resort. To keep it, no stick the tool has a device of may boot, so
`Selftesting` says that the sticks the self-test still has to do are on the bus and
that the one it loads is not among them.

*Success.* A write that has modified something verifies. For one that has not,
`Unmodified` says that the sectors before the one at hand hold the image and that
the tool's copy of this one is what is in the flash. When the last sector is done,
no page of the image lies beyond it (`ImageFacts`). `Succeeding` lists the ways to
report success at all.

### What the proofs rest on

Every assumption is one on the constants, checked by TLC in the runs
(`SoapyAssumption`, `TunerAssumption`, `StickAssumption` and so on), or named in
the theorem. Induction is used as a fact about sets: a set of naturals with an
element has a least one (`LeastElement`), so that one which contains 0 and is
closed under successors contains all (`SetInduction`). `RecursiveFunction` derives
from it that a recursive definition defines the function it says.

Only model-checked are liveness (`StopReturns`, `DataKeepsComing`, `StopEnds`,
`CallsReturn`, `Repaired`) and the fairness of `ImplementsAPI`, which are beyond
the prover.

## 5. Findings and observations

### Findings, each with a run that shows it

1. **A batch submitted in part lets a second call in**
   (`stream_submit_failure`). When `submit_transfers` fails,
   `pg2sdr_stream_data` drains with `streaming` still false
   (`src/stream.c:333`), and `drain_transfers` releases the mutex. Another
   `pg2sdr_stream_data` or a close is accepted and frees transfers that libusb
   owns.
2. **Timestamps fall back** (`dispatch_wrap`). `h.sequence *
   usb_samples_per_block` is 32-bit arithmetic (`src/stream.c:218`), so the
   timestamp wraps every 2^32 ADC samples; the header promises increasing ones.
   Until then they do increase (`TimestampsIncreaseHolds`).
3. **Setters reach a running stream** (`config_live`). `convert_adc_blocks`
   reads `sideband_mode` and `undersampling_mode` (`src/stream.c:120`), which
   setters change at once; the header says they do not affect an active stream.
4. **A sideband is not written** (`config_sideband`). A change of sideband that
   leaves the PLL settings as they are succeeds without writing the image
   rejection, which goes out only with them (`src/config.c:651`). No other step
   loses it (`OnlySkippingLosesSideband`).

### Met while modelling, plain from the code, without a run of their own

Library:

- `transfer_callback` stores `XFER_COMPLETED` and then reads
  `dev_transfer->dev`. If it runs in a thread that handles the context's events
  for another device, the streaming thread can see the last transfer completed,
  free it and return in between (`src/stream.c:466`). `CallbackMemoryValidHolds`
  says when this cannot happen.
- A failure of the event loop while draining leaves transfers with libusb, and
  the next call frees them (`src/stream.c:692`, `:398`).
- A stop drops transfers that have completed but have not been dispatched
  (`src/stream.c:344`), where `include/pg2sdr.h:1832` says the call returns
  "after it has finished processing any outstanding data". The ranges left of the
  transfer being dispatched still reach the callback. `StreamAPI` therefore
  promises less than the header, and no property says what is dropped.
- `malloc` of a sample buffer is not checked (`src/stream.c:79-81`).
- The gap test that `include/pg2sdr.h:488` suggests finds the loss of a single
  block only if a block holds at least one user sample.
- After `pg2sdr_set_bandpass_table` no entry is current, and applying changes
  does not select one, since no flag is set (`src/bandpass.c:58`); the getter
  reports 0 until something else changes (`include/pg2sdr.h:1262`).
  `NothingForgotten` therefore speaks of the filter only if an entry is current.
- A buffer smaller than one ADC block makes `adc_samples_per_transfer` 0, which
  the number of transfers is divided by (`src/config.c:615`, `src/stream.c:476`):
  in floating point, and the result is converted to `unsigned`, which it does not
  fit. The products in `src/config.c:614-616` are 32-bit and wrap for buffers of
  gigabytes; the second can come out as a `usb_transfer_size` of 0 for a number of
  ADC samples that is not. Run `config` reaches both; they break none of its
  properties.
- A failed gain write that did reach the tuner leaves the cache and the entry in
  use alone (`src/tuner.c:94`, `src/gain.c:40`). Setting the old step again, or the
  old total gain, is then skipped and succeeds (`src/tuner.c:86`), and the getters
  give the old values where `include/pg2sdr.h:1421` and `:1537` have them give the
  "current hardware gain settings". `SettingsInRegisters` and `EntryInUse` leave out
  the registers of such stages (`in_doubt`).
- A feedback divider just under 269 is rounded up to 269, which does not fit
  its field (`src/tuner.c:346`); it lies above what the VCO can do. `VCO_DAC` of
  a VCO below about 1541 MHz converts a negative double to `uint8_t`.
- A `build_device` that fails after it has initialised the tuner leaves the RF
  section powered; a close frees neither the serial number nor the port list;
  the failure path of device discovery frees twice (`corelib/discovery.c`).
- `s < range_max` in `src/adc.c` leaves out the last divisor of each range.

SoapySDR driver (`soapy/soapy-pg2sdr.cc`):

- `read` uses `pending_` without the lock while a deactivation clears it, and
  one that spans a pause can join samples from before and after it.
- `activateStream` returns 0 when the worker has already ended with an error
  (line 1011); a stream that does not come back after a setting stays off, the
  result being ignored (252-258).
- A `LIBCALL` that throws in the constructor leaks the handle. An unsupported
  format throws a pointer.

pg2-rx (`cli/pg2-rx/pg2-rx.c`):

- The time limit compares `tv_sec` with `tv_nsec` (219), so that it stops up to
  a second late. `SuccessIsComplete` and `StopEnds` hold all the same.
- After a stop, or a write error, the ranges left of the same transfer still
  reach the callback, and after an error are still written.
- Gaps before a buffer whose timestamp is expected to be 0 are not counted
  (`Accounted` starts from the first expectation that is not).
- The return at line 536 skips the cleanup.

pg2-util (`cli/pg2-util/`):

- The deadline of `hotplug.c:161` computes microseconds from milliseconds; this
  is harmless for the 3000 it is called with.
- If a stick does not leave the bus after a failed transfer of a DFU load,
  another one that is plugged in meanwhile is taken for it after the timeout
  ("maybe match") and written. `OwnDevice` allows exactly this.
- `doc/cli-pg2-util.md:184-187` has `standby` make another process that uses the
  stick see timeouts and lose its tuner state. The code claims the interface, so as
  not to do that (`standby.c:120-124`), and refuses.
- `reset` opens without a claim (`reset.c:125`) and takes the stick away from a
  program that has claimed it, as `doc/cli-pg2-util.md:176-180` says: the exception in
  `InUseUntouched`.
- `--force-erase` erases the sectors of the image, not "all flash sectors"
  (`write.c:74`, `doc/cli-pg2-util.md:121`). `FlashSpared` states what the code does.
- A load and a reset report success if the stick arrived and has vanished again.
- Sectors are written in ascending order, the header first, so that an
  interrupted write leaves a valid header over a bad body; `Repaired` says that
  another write mends it.
- A write to a stick in recovery mode does not patch its boot mode, although the
  help says "as if 'pg2-util load' had been used".
- `image.c`: `available = load_size - offset` can underflow. `device.c`: the
  assignment in `usb_error = libusb_set_configuration(handle, 1) < 0` takes the
  comparison. `io.c`: a verify claims the interface; a failed open leaks the
  structure. `reset.c` closes a handle that a cache still holds.
- `selftest -v` is documented but not accepted, and a failed self-test leaves ADC
  and RF section on (`Quiet` speaks of success only); `standby` accepts `-w`,
  which has no effect.
- `pg2-update-firmware` takes a stick whose flash could not be read for version
  0.0.0.0 and may replace newer firmware.

## 6. Not modelled

- **Sample values** and filter arithmetic: numerical code. What is modelled is
  which samples go into which output. The generated dispatcher, flavours and
  benchmark of `dsp/` have no protocol.
- **The ADC clock search**: floating-point search over a table of pairs, without
  state. `Config` takes its result as a constant.
- **Parsing of image files and options, wording of output**: an image is what
  its pages hold, a command a record of its options.
- **The other commands of pg2-util** (listing, blinking): requests whose answers
  are printed.
- **pg2-update-firmware**: a script that reads the text pg2-util prints and runs
  its commands, which are those of `Util`.
- **Generators of the tables, tests, build and packaging**: no behaviour at run
  time. The tables are constants.
- **Core library**: each function is one control request, a step of the module
  that makes it, whose failure is among the faults; reference counts of libusb
  devices, error strings and logging are left out.
- **SoapySDR's descriptive calls** (ranges, names) only read; gains go straight
  to the library. All settings made in the same way are one.
- **A callback that closes the device or changes its configuration**: a close is
  refused while streaming; setters are `Config`'s, at any moment.
- **Weak memory.** The plain stores of `transfer_callback` and the loads of the
  main loop are taken in program order, as the code's `memory_barrier()` is
  meant to make them.

## 7. The plan

Done, in this order: `Stream` and `StreamAPI`, `StreamProofs`, `Dispatch`,
`History`, `Config`, `Gain`, `ConfigProofs`; then `Soapy`, `Rx`, `Registers`,
`Tuner`, `Device`, `Stick`, `Util`, `Firmware`, and `SoapyProofs`,
`DeviceProofs`, `FirmwareProofs`; then `RxProofs` and `HistoryProofs`, the order
of the list and the contract of `Stream`, the sizes and the spectrum of `Config`,
the filter that is selected and the step that loses the sideband, the queue and
the types of `Soapy`, the registers and the PLL of `Device`, the bus and the
success of commands of `Firmware`. Every safety property the runs check is proved.

Next: a model of the ADC divisor search over small integers, against the best pair
by definition.
