------------------------------- MODULE Config -------------------------------
(***************************************************************************)
(* Device configuration, src/src/config.c: the pg2sdr_set_* calls record a *)
(* request and mark what it affects in changing_rate, changing_freq and    *)
(* changing_bandpass; pg2sdr_apply_changes brings the ADC clock, the tuner *)
(* LO and the bandpass filter up to date, in this order, and stops at the  *)
(* first error. pg2sdr_stream_data applies the changes too, then programs  *)
(* the ADC and streams.                                                    *)
(*                                                                         *)
(* apply_changes keeps dev->mutex from beginning to end: while "stage" is  *)
(* not "idle" no other call of the API does anything. Streaming itself     *)
(* (module Stream) gives the mutex away again and again, so every call     *)
(* here may come while it goes on, from another thread or the callback.    *)
(*                                                                         *)
(* Frequencies are integers in a unit of the model's choice. The PLL's     *)
(* dividers are abstracted to the frequency they make, a multiple of       *)
(* LoStep.                                                                 *)
(***************************************************************************)
EXTENDS Integers, Sequences

CONSTANTS
  \* What the user asks for.
  Rates, AdcLimits, Decimations, Undersamplings, BufferSizes, Frequencies,
  Bandpasses,     \* pairs of cutoffs, relative to the frequency
  Tables,         \* bandpass tables
  \* What there is.
  AdcClock,       \* the ADC clock pg2sdr__adc_find_divisors finds for a target
                  \* frequency, for each it finds one for
  DecimationMax,  \* PG2SDR_DECIMATION_MAX
  AutoMargin,     \* the 0.5e6 of apply_rate_change
  LoMin, LoMax,   \* range and step of the tuner's PLL
  LoStep,
  MinWidth,       \* the 1000 of pg2sdr__select_bandpass_filter
  DefaultFilter,  \* filter settings pg2sdr__init_tuner writes
  W,              \* width of unsigned
  SPB, BPB,       \* usb_samples_per_block, usb_bytes_per_block
  MaxTransfer,    \* MAX_USB_TRANSFER
  Faults          \* may control transfers to the device fail?

AUTO == -1        \* PG2SDR_DECIMATION_AUTO
NULL == 0         \* no current_bandpass_entry
Unlocked == 0     \* the LO is at no known frequency

ASSUME ConfigAssumption ==
  /\ Rates \subseteq Nat \ {0} /\ AdcLimits \subseteq Nat /\ BufferSizes \subseteq Nat \ {0}
  /\ Decimations \subseteq Nat \cup {AUTO} /\ Undersamplings \subseteq Nat \ {0}
  /\ Frequencies \subseteq Int /\ Bandpasses \subseteq Int \X Int
  /\ \A t \in DOMAIN AdcClock : AdcClock[t] \in Nat \ {0}
  /\ DecimationMax \in Nat /\ AutoMargin \in Nat
  /\ LoMin \in Nat \ {0} /\ LoMax \in Nat /\ LoStep \in Nat \ {0}
  /\ \A t \in Tables :
       /\ Len(t) \in Nat \ {0} /\ DOMAIN t = 1 .. Len(t)
       /\ \A i \in DOMAIN t :
            t[i].lower_corner \in Int /\ t[i].upper_corner \in Int /\ t[i].ripple \in Int
  /\ MinWidth \in Nat
  /\ W \in Nat /\ SPB \in Nat \ {0} /\ BPB \in Nat \ {0} /\ MaxTransfer \in Nat
  /\ Faults \in BOOLEAN

VARIABLES
  request,    \* what the user has asked for last
  changing,   \* which of changing_rate, changing_freq, changing_bandpass are set
  adc,        \* dev->adc_pll_config, and the sizes apply_rate_change computes
  tuner,      \* dev->tuner_pll_config
  table,      \* dev->bandpass_table
  entry,      \* index of dev->current_bandpass_entry in it, or NULL
  streaming,  \* dev->streaming
  stage,      \* how far apply_changes or the start of pg2sdr_stream_data has got
  starting,   \* is it pg2sdr_stream_data that applies the changes?
  hw          \* the hardware: ADC clock, LO, rejected image and IF filter

devVars == <<adc, tuner, table, entry, streaming>>
callVars == <<stage, starting>>
vars == <<request, changing, devVars, callVars, hw>>

-----------------------------------------------------------------------------
(* The arithmetic of config.c on a request q, an ADC configuration a.      *)

Baseband(q) == q.conversion_mode = "BASEBAND"

\* Stages that fit the ADC limit, no more than asked for.
Fits(rate, limit, d) == rate * 2 ^ (d + 1) <= limit
ExplicitDecimation(rate, limit, mode) ==
  LET most == IF mode >= DecimationMax THEN DecimationMax ELSE mode
  IN CHOOSE d \in 0 .. most :
       (d = 0 \/ Fits(rate, limit, d)) /\ \A e \in d + 1 .. most : ~Fits(rate, limit, e)

\* Stages added until the rate clears the low end of the IF filter.
AddsStage(rate, limit, d) ==
  /\ rate * 2 ^ (d + 2) <= limit
  /\ d < DecimationMax
  /\ rate * 2 ^ d - rate < AutoMargin
AutoDecimation(rate, limit) ==
  CHOOSE d \in 0 .. DecimationMax :
    ~AddsStage(rate, limit, d) /\ \A e \in 0 .. d - 1 : AddsStage(rate, limit, e)

PostDecimation(q) ==
  IF ~Baseband(q) THEN 0
  ELSE IF q.decimation_mode = AUTO THEN AutoDecimation(q.sample_rate, q.adc_limit)
  ELSE ExplicitDecimation(q.sample_rate, q.adc_limit, q.decimation_mode)

AdcPerUser(q) == IF Baseband(q) THEN 2 ^ (PostDecimation(q) + 1) ELSE 1
Target(q) == q.sample_rate * AdcPerUser(q)
RateAvailable(q) == Target(q) <= q.adc_limit /\ Target(q) \in DOMAIN AdcClock

\* Whole blocks in a user buffer, in unsigned arithmetic, and their bytes, as
\* computed and as used.
BlocksPerBuffer(q) == ((q.buffer_size * AdcPerUser(q)) % 2 ^ W) \div SPB
BlockBytes(n) == (n * BPB) % 2 ^ W
BlocksPerTransfer(q) ==
  LET n == BlocksPerBuffer(q)
  IN IF BlockBytes(n) > MaxTransfer THEN MaxTransfer \div BPB ELSE n

AdcConfig(q) ==
  [valid |-> TRUE, frequency |-> AdcClock[Target(q)],
   adc_samples_per_user_sample |-> AdcPerUser(q), post_decimation |-> PostDecimation(q),
   usb_transfer_size |-> BlockBytes(BlocksPerTransfer(q)),
   adc_samples_per_transfer |-> BlocksPerTransfer(q) * SPB]

UndersamplingOffset(q, a) == (q.undersampling_mode - 1) * (a.frequency \div 2)
LoDistance(q, a) ==
  UndersamplingOffset(q, a) + IF Baseband(q) THEN a.frequency \div 4 ELSE 0
LoOffset(q, a) == IF q.sideband_mode = "UPPER" THEN - LoDistance(q, a) ELSE LoDistance(q, a)
CenterIf(q, a) == IF Baseband(q) THEN LoDistance(q, a) ELSE 0

\* pg2sdr__find_pll_parameters: the PLL's step at or below the target.
LoTarget(q, a) == q.frequency + LoOffset(q, a)
LoInRange(q, a) == LoTarget(q, a) \in LoMin .. LoMax
Lo(q, a) == LoTarget(q, a) - (LoTarget(q, a) % LoStep)

\* The part of the IF that is wanted, within what the ADC can tell apart, and
\* made MinWidth wide if it is narrower or inside out.
Positive(x) == IF x > 0 THEN x ELSE 0
WantedBand(q, a) ==
  LET nyquist == UndersamplingOffset(q, a)
      center == CenterIf(q, a)
      l == IF q.sideband_mode = "UPPER" THEN center + q.bandpass[1] ELSE center - q.bandpass[2]
      h == IF q.sideband_mode = "UPPER" THEN center + q.bandpass[2] ELSE center - q.bandpass[1]
      low == nyquist + Positive(l - nyquist)
      high == nyquist + a.frequency \div 2 - Positive(nyquist + a.frequency \div 2 - h)
  IN IF high - low >= MinWidth THEN <<low, high>>
     ELSE <<(IF low < high THEN low ELSE high) - MinWidth \div 2,
            (IF low < high THEN high ELSE low) + MinWidth \div 2>>

\* filter_penalty, times four times the bandwidth; ripple is counted in the
\* 5dB that weigh as much as a quarter of the bandwidth.
FilterPenalty(f, band, nyquist_low, nyquist_high) ==
  LET lower == f.lower_corner + 2 * Positive(nyquist_low - f.lower_corner)
      upper == f.upper_corner - 2 * Positive(f.upper_corner - nyquist_high)
  IN Positive(band[1] - f.lower_corner) + Positive(f.upper_corner - band[2])
     + 4 * (Positive(lower - band[1]) + Positive(band[2] - upper))
     + f.ripple * (band[2] - band[1])

\* The first of the entries with the least penalty.
SelectFilter(t, band, nyquist_low, nyquist_high) ==
  LET penalty(i) == FilterPenalty(t[i], band, nyquist_low, nyquist_high)
  IN CHOOSE i \in 1 .. Len(t) :
       /\ \A j \in 1 .. Len(t) : penalty(i) <= penalty(j)
       /\ \A j \in 1 .. i - 1 : penalty(i) < penalty(j)

FilterFor(q, a, t) ==
  LET nyquist == UndersamplingOffset(q, a)
  IN SelectFilter(t, WantedBand(q, a), nyquist, nyquist + a.frequency \div 2)

-----------------------------------------------------------------------------
\* A device as pg2sdr_open_device returns it, its limits, sizes and tables set
\* to anything before the first rate is.
Init ==
  /\ request \in [conversion_mode : {"BASEBAND"}, sideband_mode : {"LOWER"},
                  undersampling_mode : {1}, decimation_mode : {AUTO}, sample_rate : {0},
                  frequency : {0}, adc_limit : AdcLimits, buffer_size : BufferSizes,
                  bandpass : {b \in Bandpasses : b[1] <= b[2]}]
  /\ changing = {}
  /\ adc = [valid |-> FALSE, frequency |-> 0, adc_samples_per_user_sample |-> 0,
            post_decimation |-> 0, usb_transfer_size |-> 0, adc_samples_per_transfer |-> 0]
  /\ tuner = [valid |-> FALSE, lo |-> Unlocked]
  /\ table \in Tables
  /\ entry = NULL
  /\ streaming = FALSE
  /\ stage = "idle"
  /\ starting = FALSE
  /\ hw = [adc |-> 0, lo |-> Unlocked, img |-> "LOWER", filter |-> DefaultFilter]

-----------------------------------------------------------------------------
(* The setters. Setting what is set already does nothing.                  *)

Request(name, value, marks) ==
  /\ stage = "idle"
  /\ value # request[name]
  /\ request' = [request EXCEPT ![name] = value]
  /\ changing' = changing \cup marks
  /\ UNCHANGED <<devVars, callVars, hw>>

set_conversion_mode(mode) ==
  ~streaming /\ Request("conversion_mode", mode, {"rate", "freq", "bandpass"})

\* Mutants: while streaming too; the transfers keep their size.
set_buffer_size_anytime(size) == Request("buffer_size", size, {"rate"})

set_buffer_size(size) == ~streaming /\ Request("buffer_size", size, {"rate"})

set_sample_rate(rate) == Request("sample_rate", rate, {"rate"})

set_decimation_mode(mode) == Request("decimation_mode", mode, {"rate"})

set_undersampling_mode(mode) == Request("undersampling_mode", mode, {"rate"})

set_adc_limit(limit) == Request("adc_limit", limit, {"rate"})

\* Mutant: the LO stays on its side of the frequency.
set_sideband_unmarked(mode) == Request("sideband_mode", mode, {"bandpass"})

set_sideband(mode) == Request("sideband_mode", mode, {"freq", "bandpass"})

set_frequency(freq) == Request("frequency", freq, {"freq"})

set_bandpass(low, high) ==
  Request("bandpass", IF low > high THEN <<high, low>> ELSE <<low, high>>, {"bandpass"})

set_bandpass_table(t) ==
  /\ stage = "idle"
  /\ table' = t
  /\ entry' = NULL
  /\ UNCHANGED <<request, changing, adc, tuner, streaming, callVars, hw>>

Set ==
  \/ \E mode \in {"LOWIF_REAL", "BASEBAND"} : set_conversion_mode(mode)
  \/ \E size \in BufferSizes : set_buffer_size(size)
  \/ \E rate \in Rates : set_sample_rate(rate)
  \/ \E mode \in Decimations : set_decimation_mode(mode)
  \/ \E mode \in Undersamplings : set_undersampling_mode(mode)
  \/ \E limit \in AdcLimits : set_adc_limit(limit)
  \/ \E mode \in {"LOWER", "UPPER"} : set_sideband(mode)
  \/ \E freq \in Frequencies : set_frequency(freq)
  \/ \E b \in Bandpasses : set_bandpass(b[1], b[2])
  \/ \E t \in Tables : set_bandpass_table(t)

-----------------------------------------------------------------------------
(* pg2sdr_apply_changes, and pg2sdr_stream_data as far as configuration    *)
(* goes. Each step is one of apply_rate_change, apply_freq_change and      *)
(* apply_bandpass_change, with the lines of apply_changes around it.       *)

Call(stream) ==
  /\ stage = "idle"
  /\ stage' = "rate"
  /\ starting' = stream
  /\ UNCHANGED <<request, changing, devVars, hw>>

apply_changes == Call(FALSE)
stream_data == ~streaming /\ Call(TRUE)

At(here, flag, pending) == stage = here /\ (flag \in changing <=> pending)

Return ==
  /\ stage' = "idle"
  /\ starting' = FALSE

Skip(here, next) ==
  /\ At(here, here, FALSE)
  /\ stage' = next
  /\ UNCHANGED <<request, changing, devVars, starting, hw>>

\* changing_rate is cleared, and the LO offset, the IF center and the Nyquist
\* range may all have moved. Mutant: nobody is told.
RateAppliedAlone ==
  /\ changing' = changing \ {"rate"}
  /\ stage' = "freq"
  /\ UNCHANGED <<request, tuner, table, entry, streaming, starting, hw>>

RateApplied ==
  /\ changing' = (changing \ {"rate"}) \cup {"freq", "bandpass"}
  /\ stage' = "freq"
  /\ UNCHANGED <<request, tuner, table, entry, streaming, starting, hw>>

RateFails ==
  /\ At("rate", "rate", TRUE)
  /\ streaming \/ (request.sample_rate # 0 /\ ~RateAvailable(request))
  /\ Return
  /\ UNCHANGED <<request, changing, devVars, hw>>

RateUnset ==
  /\ At("rate", "rate", TRUE)
  /\ ~streaming /\ request.sample_rate = 0
  /\ RateApplied
  /\ UNCHANGED adc

\* The ADC itself is programmed when streaming starts. Mutant: the rate may
\* change while streaming.
ChangeRateAnytime ==
  /\ At("rate", "rate", TRUE)
  /\ request.sample_rate # 0 /\ RateAvailable(request)
  /\ adc' = AdcConfig(request)
  /\ RateApplied

ChangeRate ==
  /\ At("rate", "rate", TRUE)
  /\ ~streaming /\ request.sample_rate # 0 /\ RateAvailable(request)
  /\ adc' = AdcConfig(request)
  /\ RateApplied

FreqApplied ==
  /\ changing' = changing \ {"freq"}
  /\ stage' = "bandpass"
  /\ UNCHANGED <<request, adc, table, entry, streaming, starting>>

TunerIdle == request.frequency = 0 \/ ~adc.valid
Tuned == tuner = [valid |-> TRUE, lo |-> Lo(request, adc)]

FreqFails ==
  /\ At("freq", "freq", TRUE)
  /\ ~TunerIdle /\ ~LoInRange(request, adc)
  /\ Return
  /\ UNCHANGED <<request, changing, devVars, hw>>

\* No frequency or rate yet, or the PLL has these settings already.
FreqUnchanged ==
  /\ At("freq", "freq", TRUE)
  /\ TunerIdle \/ (LoInRange(request, adc) /\ Tuned)
  /\ FreqApplied
  /\ UNCHANGED <<tuner, hw>>

Retunes ==
  /\ At("freq", "freq", TRUE)
  /\ ~TunerIdle /\ LoInRange(request, adc) /\ ~Tuned

\* pg2sdr__start_pll writes the PLL settings and which image to reject.
ChangeFreq ==
  /\ Retunes
  /\ tuner' = [valid |-> TRUE, lo |-> Lo(request, adc)]
  /\ hw' = [hw EXCEPT !.lo = Lo(request, adc), !.img = request.sideband_mode]
  /\ FreqApplied

\* It fails: nothing was written, or only which image to reject, the PLL does not
\* lock, or it does and the last write failed. Mutant: the old settings are taken
\* to be still there.
TuneFailsWith(valid) ==
  /\ Faults /\ Retunes
  /\ tuner' = [tuner EXCEPT !.valid = valid]
  /\ hw' \in {hw} \cup {[hw EXCEPT !.lo = lo, !.img = request.sideband_mode] :
                           lo \in {hw.lo, Unlocked, Lo(request, adc)}}
  /\ Return
  /\ UNCHANGED <<request, changing, adc, table, entry, streaming>>

TuneFailsUnnoticed == TuneFailsWith(tuner.valid)

TuneFails == TuneFailsWith(FALSE)

BandpassApplied ==
  /\ changing' = changing \ {"bandpass"}
  /\ IF starting THEN stage' = "start" /\ UNCHANGED starting ELSE Return
  /\ UNCHANGED <<request, adc, tuner, table, streaming>>

SkipBandpass ==
  /\ At("bandpass", "bandpass", FALSE)
  /\ IF starting THEN stage' = "start" /\ UNCHANGED starting ELSE Return
  /\ UNCHANGED <<request, changing, devVars, hw>>

FilterIdle == ~adc.valid \/ "rate" \in changing
Selected == FilterFor(request, adc, table)
FilterSet == entry # NULL /\ table[entry].settings = table[Selected].settings

BandpassUnchanged ==
  /\ At("bandpass", "bandpass", TRUE)
  /\ FilterIdle \/ FilterSet
  /\ BandpassApplied
  /\ UNCHANGED <<entry, hw>>

ChangeBandpass ==
  /\ At("bandpass", "bandpass", TRUE)
  /\ ~FilterIdle /\ ~FilterSet
  /\ entry' = Selected
  /\ hw' = [hw EXCEPT !.filter = table[Selected].settings]
  /\ BandpassApplied

FilterFails ==
  /\ Faults
  /\ At("bandpass", "bandpass", TRUE)
  /\ ~FilterIdle /\ ~FilterSet
  /\ entry' = NULL
  /\ hw' \in {hw, [hw EXCEPT !.filter = table[Selected].settings]}
  /\ Return
  /\ UNCHANGED <<request, changing, adc, tuner, table, streaming>>

apply_rate_change == Skip("rate", "freq") \/ RateFails \/ RateUnset \/ ChangeRate
apply_freq_change == Skip("freq", "bandpass") \/ FreqFails \/ FreqUnchanged \/ ChangeFreq \/ TuneFails
apply_bandpass_change == SkipBandpass \/ BandpassUnchanged \/ ChangeBandpass \/ FilterFails

\* No sample rate, or a call after it fails, when the ADC may run already.
StartFails ==
  /\ stage = "start"
  /\ ~adc.valid \/ Faults
  /\ hw' = hw \/ (adc.valid /\ hw' = [hw EXCEPT !.adc = adc.frequency])
  /\ Return
  /\ UNCHANGED <<request, changing, devVars>>

start_transfer ==
  /\ stage = "start"
  /\ adc.valid
  /\ hw' = [hw EXCEPT !.adc = adc.frequency]
  /\ streaming' = TRUE
  /\ Return
  /\ UNCHANGED <<request, changing, adc, tuner, table, entry>>

stop_streaming ==
  /\ stage = "idle"
  /\ streaming
  /\ streaming' = FALSE
  /\ UNCHANGED <<request, changing, adc, tuner, table, entry, callVars, hw>>

Next ==
  \/ Set
  \/ apply_changes \/ stream_data
  \/ apply_rate_change \/ apply_freq_change \/ apply_bandpass_change
  \/ StartFails \/ start_transfer \/ stop_streaming

Spec == Init /\ [][Next]_vars

-----------------------------------------------------------------------------
(* Properties.                                                             *)

Requests ==
  [conversion_mode : {"BASEBAND", "LOWIF_REAL"}, sideband_mode : {"LOWER", "UPPER"},
   undersampling_mode : Nat \ {0}, decimation_mode : Nat \cup {AUTO}, sample_rate : Nat,
   frequency : Int, adc_limit : Nat, buffer_size : Nat \ {0},
   bandpass : {b \in Int \X Int : b[1] <= b[2]}]

AdcConfigs ==
  [valid : BOOLEAN, frequency : Nat, adc_samples_per_user_sample : Nat, post_decimation : Nat,
   usb_transfer_size : Nat, adc_samples_per_transfer : Nat]

TypeOK ==
  /\ request \in Requests
  /\ changing \subseteq {"rate", "freq", "bandpass"}
  /\ adc \in AdcConfigs
  /\ tuner \in [valid : BOOLEAN, lo : Int]
  /\ table \in Tables
  /\ entry \in {NULL} \cup DOMAIN table
  /\ streaming \in BOOLEAN
  /\ stage \in {"idle", "rate", "freq", "bandpass", "start"}
  /\ starting \in BOOLEAN
  /\ DOMAIN hw = {"adc", "lo", "img", "filter"}

\* Once apply_changes has nothing left to do, the device does what was asked
\* for last, in whatever order it was asked, applied, refused and failed: no
\* step of apply_changes works from inputs a later call has changed without
\* marking it (the changing_* flags of config.c).
NothingForgotten ==
  /\ "rate" \notin changing /\ request.sample_rate # 0 => adc = AdcConfig(request)
  /\ changing \cap {"rate", "freq"} = {} /\ request.frequency # 0 /\ adc.valid =>
       hw.lo = Lo(request, adc)
  /\ changing \cap {"rate", "bandpass"} = {} /\ adc.valid /\ entry # NULL =>
       hw.filter = table[FilterFor(request, adc, table)].settings

\* What the library believes of the tuner is so, after any failure: otherwise
\* pg2sdr_get_frequency and pg2sdr_get_bandpass report settings the hardware
\* does not have, and a retry is taken for "no work to do".
KnownMatchesHardware ==
  /\ tuner.valid => hw.lo = tuner.lo
  /\ entry # NULL => hw.filter = table[entry].settings

\* The ADC runs at the clock all sizes, timeouts and offsets are computed for,
\* whatever is requested and applied while it does (apply_rate_change).
StreamKeepsClock == streaming => adc.valid /\ hw.adc = adc.frequency

\* What dispatch_contiguous_blocks asserts, a transfer's worth of samples fits
\* a user buffer, and what convert_adc_blocks takes for granted, the DSP chain
\* is the one of the conversion mode; as long as the stream runs.
BufferHoldsTransfer ==
  streaming =>
    /\ adc.adc_samples_per_transfer <= request.buffer_size * adc.adc_samples_per_user_sample
    /\ Baseband(request) <=> adc.adc_samples_per_user_sample # 1

\* inverted_spectrum of convert_adc_blocks: is the ADC data to be un-inverted?
InvertedSpectrum(q) == (q.sideband_mode = "LOWER") # (q.undersampling_mode % 2 = 0)

\* convert_adc_blocks un-inverts the spectrum exactly when the LO, wherever
\* the last retune has left it, and the undersampling have inverted it.
SpectrumUpright ==
  streaming /\ changing = {} /\ Baseband(request) /\ request.frequency # 0 =>
    (InvertedSpectrum(request) <=>
       (hw.lo > request.frequency) # (request.undersampling_mode % 2 = 0))

\* The sideband "retained by the tuner" is the one asked for, once there is
\* nothing left to apply (IMG_R, written by pg2sdr__configure_pll_settings).
SidebandRetained ==
  changing = {} /\ request.frequency # 0 /\ adc.valid => hw.img = request.sideband_mode

\* "May be called at any time; does not affect the configuration of any
\* currently active stream": a setter leaves alone what convert_adc_blocks
\* does to the samples.
SettersSpareStream ==
  [][request' # request /\ streaming =>
       InvertedSpectrum(request') = InvertedSpectrum(request)]_vars
=============================================================================
