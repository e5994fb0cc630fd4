---------------------------- MODULE ConfigProofs ----------------------------
(***************************************************************************)
(* Theorems about module Config, for any requests, tables, ADC clocks and  *)
(* failures, and frequencies of any size.                                  *)
(***************************************************************************)
EXTENDS Config, NaturalFacts, TLAPS

-----------------------------------------------------------------------------
(* What the arithmetic of config.c depends on. The parts of apply_changes  *)
(* are pure functions of some of the requests; a setter must mark a part   *)
(* if its request is one of them.                                          *)

\* The ADC configuration (apply_rate_change).
LEMMA AdcConfigInputs ==
  ASSUME NEW q, NEW r,
         q.conversion_mode = r.conversion_mode, q.decimation_mode = r.decimation_mode,
         q.sample_rate = r.sample_rate, q.adc_limit = r.adc_limit,
         q.buffer_size = r.buffer_size
  PROVE  AdcConfig(q) = AdcConfig(r)
<1>1. Baseband(q) = Baseband(r)
  BY DEF Baseband
<1>2. PostDecimation(q) = PostDecimation(r)
  BY <1>1 DEF PostDecimation
<1>3. AdcPerUser(q) = AdcPerUser(r)
  BY <1>1, <1>2 DEF AdcPerUser
<1>4. Target(q) = Target(r) /\ BlocksPerBuffer(q) = BlocksPerBuffer(r)
  BY <1>3 DEF Target, BlocksPerBuffer
<1>5. BlocksPerTransfer(q) = BlocksPerTransfer(r)
  BY <1>4 DEF BlocksPerTransfer
<1> QED BY <1>2, <1>3, <1>4, <1>5 DEF AdcConfig

\* The LO (apply_freq_change), for a given ADC configuration.
LEMMA LoInputs ==
  ASSUME NEW q, NEW r, NEW a,
         q.conversion_mode = r.conversion_mode, q.sideband_mode = r.sideband_mode,
         q.undersampling_mode = r.undersampling_mode, q.frequency = r.frequency
  PROVE  Lo(q, a) = Lo(r, a)
<1>1. LoDistance(q, a) = LoDistance(r, a)
  BY DEF LoDistance, Baseband, UndersamplingOffset
<1>2. LoTarget(q, a) = LoTarget(r, a)
  BY <1>1 DEF LoTarget, LoOffset
<1> QED BY <1>2 DEF Lo

\* The filter (apply_bandpass_change), for a given ADC configuration.
LEMMA FilterInputs ==
  ASSUME NEW q, NEW r, NEW a, NEW t,
         q.conversion_mode = r.conversion_mode, q.sideband_mode = r.sideband_mode,
         q.undersampling_mode = r.undersampling_mode, q.bandpass = r.bandpass
  PROVE  FilterFor(q, a, t) = FilterFor(r, a, t)
<1>1. UndersamplingOffset(q, a) = UndersamplingOffset(r, a)
  BY DEF UndersamplingOffset
<1>2. CenterIf(q, a) = CenterIf(r, a)
  BY <1>1 DEF CenterIf, LoDistance, Baseband
<1>3. WantedBand(q, a) = WantedBand(r, a)
  BY <1>1, <1>2 DEF WantedBand
<1> QED BY <1>1, <1>3 DEF FilterFor

-----------------------------------------------------------------------------
(* The inductive invariant.                                                *)

\* The records keep their fields: all that is needed of types.
Shape ==
  /\ DOMAIN request = {"conversion_mode", "sideband_mode", "undersampling_mode",
                        "decimation_mode", "sample_rate", "frequency", "adc_limit",
                        "buffer_size", "bandpass"}
  /\ DOMAIN tuner = {"valid", "lo"}
  /\ DOMAIN hw = {"adc", "lo", "img", "filter"}

\* That nothing is forgotten rests on what the library believes of the tuner:
\* the steps that find nothing to do look at that only.
IInv == Shape /\ NothingForgotten /\ KnownMatchesHardware /\ StreamKeepsClock

\* A device as it is opened satisfies it.
LEMMA InitIInv == Init => IInv
BY DEF Init, IInv, Shape, NothingForgotten, KnownMatchesHardware, StreamKeepsClock, NULL

\* A setter that marks what depends on its request forgets nothing.
LEMMA RequestKeeps ==
  ASSUME IInv, NEW name \in DOMAIN request, NEW value, NEW marks, Request(name, value, marks),
         name \in {"conversion_mode", "decimation_mode", "sample_rate", "adc_limit",
                   "buffer_size"} => "rate" \in marks,
         name \in {"conversion_mode", "sideband_mode", "undersampling_mode", "frequency"} =>
           marks \cap {"rate", "freq"} # {},
         name \in {"conversion_mode", "sideband_mode", "undersampling_mode", "bandpass"} =>
           marks \cap {"rate", "bandpass"} # {}
  PROVE  IInv'
<1> USE DEF IInv, devVars
<1>1. /\ UNCHANGED <<adc, tuner, table, entry, streaming, hw>>
      /\ request' = [request EXCEPT ![name] = value]
      /\ changing' = changing \cup marks
  BY DEF Request
<1>2. Shape'
  BY <1>1 DEF Shape
<1>3. KnownMatchesHardware' /\ StreamKeepsClock'
  BY <1>1 DEF KnownMatchesHardware, StreamKeepsClock
<1>4. \A f \in DOMAIN request : f # name => request'[f] = request[f]
  BY <1>1
<1>5. ASSUME "rate" \notin changing', request'.sample_rate # 0
      PROVE  adc = AdcConfig(request')
  <2>1. /\ request'.conversion_mode = request.conversion_mode
        /\ request'.decimation_mode = request.decimation_mode
        /\ request'.sample_rate = request.sample_rate
        /\ request'.adc_limit = request.adc_limit
        /\ request'.buffer_size = request.buffer_size
    BY <1>1, <1>4, <1>5 DEF Shape
  <2> QED BY <1>1, <1>5, <2>1, AdcConfigInputs DEF NothingForgotten
<1>6. ASSUME changing' \cap {"rate", "freq"} = {}, request'.frequency # 0, adc.valid
      PROVE  hw.lo = Lo(request', adc)
  <2>1. /\ request'.conversion_mode = request.conversion_mode
        /\ request'.sideband_mode = request.sideband_mode
        /\ request'.undersampling_mode = request.undersampling_mode
        /\ request'.frequency = request.frequency
    BY <1>1, <1>4, <1>6 DEF Shape
  <2> QED BY <1>1, <1>6, <2>1, LoInputs DEF NothingForgotten
<1>7. ASSUME changing' \cap {"rate", "bandpass"} = {}, adc.valid, entry # NULL
      PROVE  hw.filter = table[FilterFor(request', adc, table)].settings
  <2>1. /\ request'.conversion_mode = request.conversion_mode
        /\ request'.sideband_mode = request.sideband_mode
        /\ request'.undersampling_mode = request.undersampling_mode
        /\ request'.bandpass = request.bandpass
    BY <1>1, <1>4, <1>7 DEF Shape
  <2>2. FilterFor(request', adc, table) = FilterFor(request, adc, table)
    BY <2>1, FilterInputs
  <2>3. changing \cap {"rate", "bandpass"} = {}
    BY <1>1, <1>7
  <2> QED BY <1>7, <2>2, <2>3 DEF NothingForgotten
<1>8. NothingForgotten'
  BY <1>1, <1>5, <1>6, <1>7 DEF NothingForgotten
<1> QED BY <1>2, <1>3, <1>8

\* So does every setter.
LEMMA SetKeeps ==
  ASSUME IInv, Set
  PROVE  IInv'
<1>0. DOMAIN request = {"conversion_mode", "sideband_mode", "undersampling_mode",
                        "decimation_mode", "sample_rate", "frequency", "adc_limit",
                        "buffer_size", "bandpass"}
  BY DEF IInv, Shape
<1>1. ASSUME NEW mode, set_conversion_mode(mode) PROVE IInv'
  BY <1>0, <1>1, RequestKeeps DEF set_conversion_mode
<1>2. ASSUME NEW size, set_buffer_size(size) PROVE IInv'
  BY <1>0, <1>2, RequestKeeps DEF set_buffer_size
<1>3. ASSUME NEW rate, set_sample_rate(rate) PROVE IInv'
  BY <1>0, <1>3, RequestKeeps DEF set_sample_rate
<1>4. ASSUME NEW mode, set_decimation_mode(mode) PROVE IInv'
  BY <1>0, <1>4, RequestKeeps DEF set_decimation_mode
<1>5. ASSUME NEW mode, set_undersampling_mode(mode) PROVE IInv'
  BY <1>0, <1>5, RequestKeeps DEF set_undersampling_mode
<1>6. ASSUME NEW limit, set_adc_limit(limit) PROVE IInv'
  BY <1>0, <1>6, RequestKeeps DEF set_adc_limit
<1>7. ASSUME NEW mode, set_sideband(mode) PROVE IInv'
  BY <1>0, <1>7, RequestKeeps DEF set_sideband
<1>8. ASSUME NEW freq, set_frequency(freq) PROVE IInv'
  BY <1>0, <1>8, RequestKeeps DEF set_frequency
<1>9. ASSUME NEW b, set_bandpass(b[1], b[2]) PROVE IInv'
  BY <1>0, <1>9, RequestKeeps DEF set_bandpass
<1>10. ASSUME NEW t, set_bandpass_table(t) PROVE IInv'
  BY <1>10 DEF set_bandpass_table, IInv, Shape, NothingForgotten, KnownMatchesHardware,
               StreamKeepsClock
<1> QED
  BY <1>1, <1>2, <1>3, <1>4, <1>5, <1>6, <1>7, <1>8, <1>9, <1>10 DEF Set

\* The first stage of apply_changes, however it ends.
LEMMA RateKeeps ==
  ASSUME IInv, apply_rate_change
  PROVE  IInv'
<1> USE DEF IInv, Shape, NothingForgotten, KnownMatchesHardware, StreamKeepsClock, At, devVars
<1>1. CASE Skip("rate", "freq")
  BY <1>1 DEF Skip
<1>2. CASE RateFails
  BY <1>2 DEF RateFails
<1>3. CASE RateUnset
  BY <1>3 DEF RateUnset, RateApplied
<1>4. CASE ChangeRate
  <2>1. /\ ~streaming /\ adc' = AdcConfig(request)
        /\ changing' = (changing \ {"rate"}) \cup {"freq", "bandpass"}
        /\ UNCHANGED <<request, tuner, table, entry, streaming, hw>>
    BY <1>4 DEF ChangeRate, RateApplied
  <2> QED BY <2>1
<1> QED BY <1>1, <1>2, <1>3, <1>4 DEF apply_rate_change

\* pg2sdr__start_pll may leave the LO anywhere; the flag and the cache tell.
LEMMA FreqKeeps ==
  ASSUME IInv, apply_freq_change
  PROVE  IInv'
<1> USE DEF IInv, Shape, NothingForgotten, KnownMatchesHardware, StreamKeepsClock, At, devVars
<1>1. CASE Skip("freq", "bandpass")
  BY <1>1 DEF Skip
<1>2. CASE FreqFails
  BY <1>2 DEF FreqFails
<1>3. CASE FreqUnchanged
  <2>1. /\ changing' = changing \ {"freq"}
        /\ UNCHANGED <<request, adc, tuner, table, entry, streaming, hw>>
        /\ TunerIdle \/ Tuned
    BY <1>3 DEF FreqUnchanged, FreqApplied
  <2>2. request.frequency # 0 /\ adc.valid => hw.lo = Lo(request, adc)
    BY <2>1 DEF TunerIdle, Tuned
  <2> QED BY <2>1, <2>2
<1>4. CASE ChangeFreq
  <2>1. /\ changing' = changing \ {"freq"}
        /\ UNCHANGED <<request, adc, table, entry, streaming>>
        /\ tuner' = [valid |-> TRUE, lo |-> Lo(request, adc)]
        /\ hw' = [hw EXCEPT !.lo = Lo(request, adc), !.img = request.sideband_mode]
    BY <1>4 DEF ChangeFreq, FreqApplied
  <2> QED BY <2>1
<1>5. CASE TuneFails
  <2>1. /\ UNCHANGED <<request, changing, adc, table, entry, streaming>>
        /\ tuner' = [tuner EXCEPT !.valid = FALSE]
        /\ "freq" \in changing
        /\ \/ hw' = hw
           \/ \E lo : hw' = [hw EXCEPT !.lo = lo, !.img = request.sideband_mode]
    BY <1>5 DEF TuneFails, TuneFailsWith, Retunes
  <2> QED BY <2>1
<1> QED BY <1>1, <1>2, <1>3, <1>4, <1>5 DEF apply_freq_change

\* The same for the filter.
LEMMA BandpassKeeps ==
  ASSUME IInv, apply_bandpass_change
  PROVE  IInv'
<1> USE DEF IInv, Shape, NothingForgotten, KnownMatchesHardware, StreamKeepsClock, At, devVars
<1>1. CASE SkipBandpass
  BY <1>1 DEF SkipBandpass
<1>2. CASE BandpassUnchanged
  <2>1. /\ changing' = changing \ {"bandpass"}
        /\ UNCHANGED <<request, adc, tuner, table, entry, streaming, hw>>
        /\ FilterIdle \/ FilterSet
    BY <1>2 DEF BandpassUnchanged, BandpassApplied
  <2>2. "rate" \notin changing /\ adc.valid /\ entry # NULL =>
          hw.filter = table[FilterFor(request, adc, table)].settings
    BY <2>1 DEF FilterIdle, FilterSet, Selected
  <2> QED BY <2>1, <2>2
<1>3. CASE ChangeBandpass
  <2>1. /\ changing' = changing \ {"bandpass"}
        /\ UNCHANGED <<request, adc, tuner, table, streaming>>
        /\ entry' = FilterFor(request, adc, table)
        /\ hw' = [hw EXCEPT !.filter = table[FilterFor(request, adc, table)].settings]
    BY <1>3 DEF ChangeBandpass, BandpassApplied, Selected
  <2> QED BY <2>1
<1>4. CASE FilterFails
  <2>1. /\ UNCHANGED <<request, changing, adc, tuner, table, streaming>>
        /\ entry' = NULL
        /\ hw' = hw \/ \E filter : hw' = [hw EXCEPT !.filter = filter]
    BY <1>4 DEF FilterFails
  <2> QED BY <2>1
<1> QED BY <1>1, <1>2, <1>3, <1>4 DEF apply_bandpass_change

\* The invariant holds, whatever is requested when and whatever fails.
LEMMA IInvHolds == Spec => []IInv
<1>1. IInv /\ [Next]_vars => IInv'
  <2> SUFFICES ASSUME IInv, [Next]_vars PROVE IInv'
    OBVIOUS
  <2> USE DEF IInv, Shape, NothingForgotten, KnownMatchesHardware, StreamKeepsClock, devVars
  <2>1. CASE UNCHANGED vars
    BY <2>1 DEF vars
  <2>2. CASE apply_changes \/ stream_data
    BY <2>2 DEF apply_changes, stream_data, Call
  <2>3. CASE StartFails
    BY <2>3 DEF StartFails
  <2>4. CASE start_transfer
    BY <2>4 DEF start_transfer
  <2>5. CASE stop_streaming
    BY <2>5 DEF stop_streaming
  <2> HIDE DEF IInv
  <2> QED
    BY <2>1, <2>2, <2>3, <2>4, <2>5, SetKeeps, RateKeeps, FreqKeeps, BandpassKeeps DEF Next
<1> QED BY <1>1, InitIInv, PTL DEF Spec

\* Whatever order things are requested, applied, refused and failed in: with
\* nothing left to apply, the ADC configuration, the LO and the filter are the
\* ones that follow from the last requests.
THEOREM NothingForgottenHolds == Spec => []NothingForgotten
<1>1. IInv => NothingForgotten
  BY DEF IInv
<1> QED BY <1>1, IInvHolds, PTL

\* Neither the cached LO nor the cached filter is ever believed wrongly, not
\* even after a write that failed half way or a change of tables.
THEOREM KnownMatchesHardwareHolds == Spec => []KnownMatchesHardware
<1>1. IInv => KnownMatchesHardware
  BY DEF IInv
<1> QED BY <1>1, IInvHolds, PTL

\* The ADC of a running stream keeps the clock all its sizes and offsets are
\* computed for.
THEOREM StreamKeepsClockHolds == Spec => []StreamKeepsClock
<1>1. IInv => StreamKeepsClock
  BY DEF IInv
<1> QED BY <1>1, IInvHolds, PTL

-----------------------------------------------------------------------------
(* The sideband the tuner retains. It is not always the one asked for (run *)
(* config_sideband): this is the one step that loses it.                   *)

\* With the LO up to date the tuner retains the sideband asked for.
TunerRetains ==
  changing \cap {"rate", "freq"} = {} /\ request.frequency # 0 /\ adc.valid =>
    hw.img = request.sideband_mode

\* apply_freq_change takes the tuner to be set, as tuner_pll_config_equal finds
\* the LO where it should be, and leaves a sideband that is not the one asked for.
SkipsSideband ==
  /\ FreqUnchanged /\ Tuned
  /\ hw.lo = Lo(request, adc) /\ hw.img # request.sideband_mode

\* No other step makes the tuner retain the wrong sideband once there is nothing left
\* to apply, whatever is requested and whichever write fails.
THEOREM OnlySkippingLosesSideband ==
  /\ TunerRetains => SidebandRetained
  /\ Spec => TunerRetains /\ [][TunerRetains /\ ~TunerRetains' => SkipsSideband]_vars
<1>1. TunerRetains => SidebandRetained
  BY DEF TunerRetains, SidebandRetained
<1>2. Init => TunerRetains
  BY DEF Init, TunerRetains
<1>3. IInv /\ [Next]_vars => [TunerRetains /\ ~TunerRetains' => SkipsSideband]_vars
  <2> SUFFICES ASSUME IInv, Next, TunerRetains, ~TunerRetains' PROVE SkipsSideband
    BY DEF vars, TunerRetains
  <2>0. DOMAIN hw = {"adc", "lo", "img", "filter"}
    BY DEF IInv, Shape
  <2> USE DEF TunerRetains, devVars
  <2>1. ASSUME NEW name, NEW value, NEW marks, Request(name, value, marks),
               name \in {"frequency", "sideband_mode"} => "freq" \in marks
        PROVE  FALSE
    <3>1. /\ changing' = changing \cup marks /\ UNCHANGED <<adc, hw>>
          /\ request' = [request EXCEPT ![name] = value]
      BY <2>1 DEF Request
    <3>2. name \notin {"frequency", "sideband_mode"}
      BY <2>1, <3>1
    <3>3. request'.frequency = request.frequency /\ request'.sideband_mode = request.sideband_mode
      BY <3>1, <3>2 DEF IInv, Shape
    <3> QED BY <3>1, <3>3
  <2>2. ~Set
    BY <2>1 DEF Set, set_conversion_mode, set_buffer_size, set_sample_rate, set_decimation_mode,
                set_undersampling_mode, set_adc_limit, set_sideband, set_frequency, set_bandpass,
                set_bandpass_table
  <2>3. ~(apply_changes \/ stream_data \/ stop_streaming)
    BY DEF apply_changes, stream_data, Call, stop_streaming
  <2>4. ~apply_rate_change
    BY DEF apply_rate_change, Skip, RateFails, RateUnset, ChangeRate, RateApplied
  <2>5. ASSUME FreqUnchanged PROVE SkipsSideband
    <3>1. /\ changing' = changing \ {"freq"} /\ UNCHANGED <<request, adc, tuner, hw>>
          /\ TunerIdle \/ Tuned
      BY <2>5 DEF FreqUnchanged, FreqApplied
    <3>2. ~TunerIdle /\ hw.img # request.sideband_mode
      BY <3>1 DEF TunerIdle
    <3>3. tuner.valid /\ hw.lo = Lo(request, adc)
      BY <3>1, <3>2 DEF Tuned, IInv, KnownMatchesHardware
    <3> QED BY <2>5, <3>1, <3>2, <3>3 DEF SkipsSideband
  <2>6. ~(apply_freq_change /\ ~FreqUnchanged)
    <3>1. ~(Skip("freq", "bandpass") \/ FreqFails \/ TuneFails)
      BY DEF Skip, FreqFails, TuneFails, TuneFailsWith, Retunes, At
    <3>2. ~ChangeFreq
      <4> SUFFICES ASSUME ChangeFreq PROVE FALSE
        OBVIOUS
      <4>1. /\ UNCHANGED <<request, adc>>
            /\ hw' = [hw EXCEPT !.lo = Lo(request, adc), !.img = request.sideband_mode]
        BY DEF ChangeFreq, FreqApplied
      <4>2. hw'.img = request'.sideband_mode
        BY <2>0, <4>1
      <4> QED BY <4>2
    <3> QED BY <3>1, <3>2 DEF apply_freq_change
  <2>7. ~apply_bandpass_change
    <3> SUFFICES ASSUME apply_bandpass_change PROVE FALSE
      OBVIOUS
    <3>1. /\ changing' \in {changing, changing \ {"bandpass"}} /\ UNCHANGED <<request, adc>>
          /\ hw' = hw \/ \E f : hw' = [hw EXCEPT !.filter = f]
      BY DEF apply_bandpass_change, SkipBandpass, BandpassUnchanged, ChangeBandpass, FilterFails,
             BandpassApplied
    <3>2. hw'.img = hw.img
      BY <2>0, <3>1
    <3> QED BY <3>1, <3>2
  <2>8. ~(StartFails \/ start_transfer)
    <3> SUFFICES ASSUME StartFails \/ start_transfer PROVE FALSE
      OBVIOUS
    <3>1. /\ UNCHANGED <<request, changing, adc>>
          /\ hw' = hw \/ \E f : hw' = [hw EXCEPT !.adc = f]
      BY DEF StartFails, start_transfer
    <3>2. hw'.img = hw.img
      BY <2>0, <3>1
    <3> QED BY <3>1, <3>2
  <2> QED BY <2>2, <2>3, <2>4, <2>5, <2>6, <2>7, <2>8 DEF Next
<1>4. Spec => TunerRetains /\ [][TunerRetains /\ ~TunerRetains' => SkipsSideband]_vars
  BY <1>2, <1>3, IInvHolds, PTL DEF Spec
<1> QED BY <1>1, <1>4

-----------------------------------------------------------------------------
(* Sizes. Nothing is asked of the width of unsigned: a product that wraps  *)
(* is smaller than it should be, and so is what is made of it.             *)

\* The least d for which no stage is added exists, DecimationMax at the latest.
LEMMA AutoDecimationNat ==
  ASSUME NEW rate, NEW limit
  PROVE  AutoDecimation(rate, limit) \in Nat
<1> DEFINE S == {d \in 0 .. DecimationMax : ~AddsStage(rate, limit, d)}
           m == Least(S)
<1>1. DecimationMax \in Nat /\ ~AddsStage(rate, limit, DecimationMax)
  BY ConfigAssumption DEF AddsStage
<1>2. m \in S /\ \A y \in S : m <= y
  <2>1. S \in SUBSET Nat /\ S # {}
    BY <1>1
  <2> HIDE DEF S
  <2> QED BY <2>1, LeastElement
<1> HIDE DEF m
<1>3. /\ m \in 0 .. DecimationMax /\ ~AddsStage(rate, limit, m)
      /\ \A e \in 0 .. m - 1 : AddsStage(rate, limit, e)
  <2>1. ASSUME NEW e \in 0 .. m - 1, ~AddsStage(rate, limit, e) PROVE FALSE
    <3>1. e \in S /\ ~(m <= e)
      BY <1>1, <1>2, <2>1
    <3> QED BY <1>2, <3>1
  <2> QED BY <1>2, <2>1
<1>4. AutoDecimation(rate, limit) \in 0 .. DecimationMax
  BY <1>3 DEF AutoDecimation
<1> QED BY <1>1, <1>4

\* So does the greatest number of stages that fit.
LEMMA ExplicitDecimationNat ==
  ASSUME NEW rate, NEW limit, NEW mode \in Nat
  PROVE  ExplicitDecimation(rate, limit, mode) \in Nat
<1> DEFINE most == IF mode >= DecimationMax THEN DecimationMax ELSE mode
           S == {k \in 0 .. most : most - k = 0 \/ Fits(rate, limit, most - k)}
           m == Least(S)
<1>1. most \in Nat
  BY ConfigAssumption
<1>2. ExplicitDecimation(rate, limit, mode) =
        CHOOSE d \in 0 .. most :
          (d = 0 \/ Fits(rate, limit, d)) /\ \A e \in d + 1 .. most : ~Fits(rate, limit, e)
  BY DEF ExplicitDecimation
<1> HIDE DEF most
<1>3. m \in S /\ \A y \in S : m <= y
  <2>1. most \in S /\ S \in SUBSET Nat
    BY <1>1
  <2> HIDE DEF S
  <2> QED BY <2>1, LeastElement
<1> HIDE DEF m
<1> DEFINE d == most - m
<1>4. d \in 0 .. most /\ (d = 0 \/ Fits(rate, limit, d))
  BY <1>1, <1>3
<1>5. ASSUME NEW e \in d + 1 .. most, Fits(rate, limit, e) PROVE FALSE
  <2>1. most - e \in 0 .. most /\ most - (most - e) = e /\ ~(m <= most - e)
    BY <1>1, <1>3, <1>5
  <2>2. most - e \in S
    BY <1>5, <2>1
  <2> QED BY <1>3, <2>1, <2>2
<1> HIDE DEF d
<1>6. ExplicitDecimation(rate, limit, mode) \in 0 .. most
  BY <1>2, <1>4, <1>5
<1> QED BY <1>1, <1>6

\* How many ADC samples make a user sample tells the conversion mode.
LEMMA AdcPerUserMode ==
  ASSUME NEW q \in Requests
  PROVE  AdcPerUser(q) \in Nat \ {0} /\ (Baseband(q) <=> AdcPerUser(q) # 1)
<1>1. CASE ~Baseband(q)
  BY <1>1 DEF AdcPerUser
<1>2. CASE Baseband(q)
  <2>1. PostDecimation(q) \in Nat
    <3>1. q.decimation_mode \in Nat \cup {AUTO}
      BY DEF Requests
    <3> QED BY <1>2, <3>1, AutoDecimationNat, ExplicitDecimationNat DEF PostDecimation
  <2>2. AdcPerUser(q) = 2 ^ (PostDecimation(q) + 1)
    BY <1>2 DEF AdcPerUser
  <2> DEFINE n == PostDecimation(q)
             x == 2 ^ n
  <2>3. 2 ^ (n + 1) = 2 * x /\ x \in Nat \ {0}
    BY <2>1, PowersOfTwo
  <2> HIDE DEF n, x
  <2> QED BY <1>2, <2>2, <2>3 DEF n
<1> QED BY <1>1, <1>2

\* A transfer holds no more ADC samples than make a user buffer.
LEMMA TransferFits ==
  ASSUME NEW q \in Requests
  PROVE  BlocksPerTransfer(q) * SPB <= q.buffer_size * AdcPerUser(q)
<1> DEFINE x == q.buffer_size * AdcPerUser(q)
           w == 2 ^ W
           y == x % w
           n == y \div SPB
           m == MaxTransfer \div BPB
           b == BlockBytes(n)
<1>1. x \in Nat
  <2>1. q.buffer_size \in Nat /\ AdcPerUser(q) \in Nat
    BY AdcPerUserMode DEF Requests
  <2> QED BY <2>1
<1>2. w \in Nat \ {0}
  BY ConfigAssumption, PowersOfTwo
<1>3. BlocksPerTransfer(q) = IF b > MaxTransfer THEN m ELSE n
  BY DEF BlocksPerTransfer, BlocksPerBuffer
<1>4. b = (n * BPB) % w
  BY DEF BlockBytes
<1> HIDE DEF x, w, b
<1>5. x \div w \in Nat /\ y \in Nat /\ x = (x \div w) * w + y
  BY <1>1, <1>2, DivMod
<1>6. y <= x
  <2>1. (x \div w) * w \in Nat
    BY <1>2, <1>5
  <2> QED BY <1>1, <1>5, <2>1
<1>7. SPB \in Nat \ {0} /\ BPB \in Nat \ {0} /\ MaxTransfer \in Nat
  BY ConfigAssumption
<1> HIDE DEF y
<1>8. n \in Nat /\ n * SPB \in Nat /\ n * SPB <= y
  <2>1. n \in Nat /\ y % SPB \in Nat /\ y = n * SPB + (y % SPB)
    BY <1>5, <1>7, DivMod
  <2> HIDE DEF n
  <2>2. n * SPB \in Nat
    BY <1>7, <2>1
  <2> QED BY <1>5, <2>1, <2>2
<1> HIDE DEF n
<1>9. m \in Nat /\ m * BPB <= MaxTransfer
  <2>1. m \in Nat /\ MaxTransfer % BPB \in Nat /\ MaxTransfer = m * BPB + (MaxTransfer % BPB)
    BY <1>7, DivMod
  <2> HIDE DEF m
  <2>2. m * BPB \in Nat
    BY <1>7, <2>1
  <2> QED BY <1>7, <2>1, <2>2
<1> HIDE DEF m
<1>10. CASE b > MaxTransfer
  <2>1. b <= n * BPB
    <3> DEFINE z == n * BPB
    <3>1. z \in Nat
      BY <1>7, <1>8
    <3> HIDE DEF z
    <3>2. z \div w \in Nat /\ z % w \in Nat /\ z = (z \div w) * w + (z % w)
      BY <1>2, <3>1, DivMod
    <3>3. (z \div w) * w \in Nat
      BY <1>2, <3>2
    <3>4. z % w <= z
      BY <3>1, <3>2, <3>3
    <3> QED BY <1>4, <3>4 DEF z
  <2>2. m <= n
    <3>1. SUFFICES ASSUME n <= m PROVE m <= n
      BY <1>8, <1>9
    <3>2. n * BPB \in Nat /\ n * BPB <= m * BPB /\ m * BPB \in Nat
      BY <1>7, <1>8, <1>9, <3>1, Multiples
    <3>3. b \in Nat
      BY <1>2, <1>4, <3>2, DivMod
    <3> QED BY <1>7, <1>9, <1>10, <2>1, <3>2, <3>3
  <2>3. m * SPB \in Nat /\ m * SPB <= n * SPB
    BY <1>7, <1>8, <1>9, <2>2, Multiples
  <2>4. m * SPB <= x
    BY <1>1, <1>5, <1>6, <1>8, <2>3
  <2> QED BY <1>3, <1>10, <2>4 DEF x
<1>11. CASE ~(b > MaxTransfer)
  <2>1. n * SPB <= x
    BY <1>1, <1>5, <1>6, <1>8
  <2> QED BY <1>3, <1>11, <2>1 DEF x
<1> QED BY <1>10, <1>11

\* What a valid configuration was computed from. A stream starts from one that
\* is up to date, and neither the sizes it depends on nor the configuration
\* change while it runs.
Computed ==
  /\ request \in Requests
  /\ adc.valid =>
       request.sample_rate # 0 /\ \E t \in DOMAIN AdcClock : adc.frequency = AdcClock[t]
  /\ stage \in {"freq", "bandpass", "start"} => "rate" \notin changing

SizeInv == Computed /\ BufferHoldsTransfer

LEMMA InitSizeInv == Init => SizeInv
<1> SUFFICES ASSUME Init PROVE SizeInv
  OBVIOUS
<1>1. /\ request.conversion_mode = "BASEBAND" /\ request.sideband_mode = "LOWER"
      /\ request.undersampling_mode = 1 /\ request.decimation_mode = AUTO
      /\ request.sample_rate = 0 /\ request.frequency = 0
      /\ request.adc_limit \in AdcLimits /\ request.buffer_size \in BufferSizes
      /\ request.bandpass \in {b \in Bandpasses : b[1] <= b[2]}
      /\ request = [conversion_mode |-> request.conversion_mode,
                    sideband_mode |-> request.sideband_mode,
                    undersampling_mode |-> request.undersampling_mode,
                    decimation_mode |-> request.decimation_mode,
                    sample_rate |-> request.sample_rate, frequency |-> request.frequency,
                    adc_limit |-> request.adc_limit, buffer_size |-> request.buffer_size,
                    bandpass |-> request.bandpass]
  BY DEF Init
<1>2. request.bandpass \in {b \in Int \X Int : b[1] <= b[2]}
  BY <1>1, ConfigAssumption
<1>3. request \in Requests
  BY <1>1, <1>2, ConfigAssumption DEF Requests
<1> QED BY <1>3 DEF Init, SizeInv, Computed, BufferHoldsTransfer

\* A setter, as far as the sizes go.
LEMMA RequestSizes ==
  ASSUME SizeInv, NEW name \in DOMAIN request, NEW value, NEW marks, Request(name, value, marks),
         [request EXCEPT ![name] = value] \in Requests,
         name = "sample_rate" => value # 0,
         name \in {"conversion_mode", "buffer_size"} => ~streaming
  PROVE  SizeInv'
<1>1. /\ UNCHANGED <<adc, streaming, stage>> /\ stage = "idle"
      /\ request' = [request EXCEPT ![name] = value]
  BY DEF Request, devVars, callVars
<1>2. /\ name # "sample_rate" => request'.sample_rate = request.sample_rate
      /\ name = "sample_rate" => request'.sample_rate = value
      /\ name # "conversion_mode" => request'.conversion_mode = request.conversion_mode
      /\ name # "buffer_size" => request'.buffer_size = request.buffer_size
  BY <1>1 DEF SizeInv, Computed, Requests
<1>3. Computed'
  BY <1>1, <1>2 DEF SizeInv, Computed
<1>4. BufferHoldsTransfer'
  BY <1>1, <1>2 DEF SizeInv, BufferHoldsTransfer, Baseband
<1> QED BY <1>3, <1>4 DEF SizeInv

LEMMA SetSizes ==
  ASSUME SizeInv, Set
  PROVE  SizeInv'
<1>0. request \in Requests
  BY DEF SizeInv, Computed
<1>00. DOMAIN request = {"conversion_mode", "sideband_mode", "undersampling_mode",
                         "decimation_mode", "sample_rate", "frequency", "adc_limit",
                         "buffer_size", "bandpass"}
  BY <1>0 DEF Requests
<1>1. ASSUME NEW mode \in {"LOWIF_REAL", "BASEBAND"}, set_conversion_mode(mode) PROVE SizeInv'
  <2>1. [request EXCEPT !.conversion_mode = mode] \in Requests
    BY <1>0, <1>1 DEF Requests
  <2> QED BY <1>00, <1>1, <2>1, RequestSizes DEF set_conversion_mode
<1>2. ASSUME NEW size \in BufferSizes, set_buffer_size(size) PROVE SizeInv'
  <2>1. [request EXCEPT !.buffer_size = size] \in Requests
    BY <1>0, <1>2, ConfigAssumption DEF Requests
  <2> QED BY <1>00, <1>2, <2>1, RequestSizes DEF set_buffer_size
<1>3. ASSUME NEW rate \in Rates, set_sample_rate(rate) PROVE SizeInv'
  <2>1. [request EXCEPT !.sample_rate = rate] \in Requests /\ rate # 0
    BY <1>0, <1>3, ConfigAssumption DEF Requests
  <2> QED BY <1>00, <1>3, <2>1, RequestSizes DEF set_sample_rate
<1>4. ASSUME NEW mode \in Decimations, set_decimation_mode(mode) PROVE SizeInv'
  <2>1. [request EXCEPT !.decimation_mode = mode] \in Requests
    BY <1>0, <1>4, ConfigAssumption DEF Requests
  <2> QED BY <1>00, <1>4, <2>1, RequestSizes DEF set_decimation_mode
<1>5. ASSUME NEW mode \in Undersamplings, set_undersampling_mode(mode) PROVE SizeInv'
  <2>1. [request EXCEPT !.undersampling_mode = mode] \in Requests
    BY <1>0, <1>5, ConfigAssumption DEF Requests
  <2> QED BY <1>00, <1>5, <2>1, RequestSizes DEF set_undersampling_mode
<1>6. ASSUME NEW limit \in AdcLimits, set_adc_limit(limit) PROVE SizeInv'
  <2>1. [request EXCEPT !.adc_limit = limit] \in Requests
    BY <1>0, <1>6, ConfigAssumption DEF Requests
  <2> QED BY <1>00, <1>6, <2>1, RequestSizes DEF set_adc_limit
<1>7. ASSUME NEW mode \in {"LOWER", "UPPER"}, set_sideband(mode) PROVE SizeInv'
  <2>1. [request EXCEPT !.sideband_mode = mode] \in Requests
    BY <1>0, <1>7 DEF Requests
  <2> QED BY <1>00, <1>7, <2>1, RequestSizes DEF set_sideband
<1>8. ASSUME NEW freq \in Frequencies, set_frequency(freq) PROVE SizeInv'
  <2>1. [request EXCEPT !.frequency = freq] \in Requests
    BY <1>0, <1>8, ConfigAssumption DEF Requests
  <2> QED BY <1>00, <1>8, <2>1, RequestSizes DEF set_frequency
<1>9. ASSUME NEW b \in Bandpasses, set_bandpass(b[1], b[2]) PROVE SizeInv'
  <2> DEFINE v == IF b[1] > b[2] THEN <<b[2], b[1]>> ELSE <<b[1], b[2]>>
  <2>1. v \in {p \in Int \X Int : p[1] <= p[2]}
    <3>1. b[1] \in Int /\ b[2] \in Int
      BY ConfigAssumption
    <3> QED BY <3>1
  <2>2. Request("bandpass", v, {"bandpass"})
    BY <1>9 DEF set_bandpass
  <2> HIDE DEF v
  <2>3. [request EXCEPT !.bandpass = v] \in Requests
    BY <1>0, <2>1 DEF Requests
  <2> QED BY <1>00, <2>2, <2>3, RequestSizes
<1>10. ASSUME NEW t, set_bandpass_table(t) PROVE SizeInv'
  BY <1>10 DEF set_bandpass_table, callVars, SizeInv, Computed, BufferHoldsTransfer, Baseband
<1> QED
  BY <1>1, <1>2, <1>3, <1>4, <1>5, <1>6, <1>7, <1>8, <1>9, <1>10 DEF Set

\* Only one step computes sizes, and only one starts a stream.
LEMMA NextSizeInv == IInv /\ SizeInv /\ [Next]_vars => SizeInv'
<1> SUFFICES ASSUME IInv, SizeInv, [Next]_vars PROVE SizeInv'
  OBVIOUS
<1>1. ASSUME UNCHANGED <<request, adc, streaming>>,
             stage' \in {"freq", "bandpass", "start"} => "rate" \notin changing'
      PROVE  SizeInv'
  BY <1>1 DEF SizeInv, Computed, BufferHoldsTransfer, Baseband
<1>2. CASE UNCHANGED vars
  BY <1>1, <1>2 DEF vars, devVars, callVars, SizeInv, Computed
<1>3. CASE apply_changes \/ stream_data
  BY <1>1, <1>3 DEF apply_changes, stream_data, Call, devVars
<1>4. CASE ChangeRate
  <2>1. /\ ~streaming /\ request.sample_rate # 0 /\ Target(request) \in DOMAIN AdcClock
        /\ adc' = AdcConfig(request) /\ "rate" \notin changing' /\ UNCHANGED <<request, streaming>>
    BY <1>4 DEF ChangeRate, RateAvailable, RateApplied
  <2>2. adc'.frequency = AdcClock[Target(request)]
    BY <2>1 DEF AdcConfig
  <2> QED BY <2>1, <2>2 DEF SizeInv, Computed, BufferHoldsTransfer
<1>5. CASE apply_rate_change /\ ~ChangeRate
  BY <1>1, <1>5 DEF apply_rate_change, Skip, RateFails, RateUnset, RateApplied, Return, At,
                    devVars, SizeInv, Computed
<1>6. CASE apply_freq_change
  BY <1>1, <1>6 DEF apply_freq_change, Skip, FreqFails, FreqUnchanged, FreqApplied, ChangeFreq,
                    Retunes, TuneFails, TuneFailsWith, Return, At, devVars, SizeInv, Computed
<1>7. CASE apply_bandpass_change
  BY <1>1, <1>7 DEF apply_bandpass_change, SkipBandpass, BandpassUnchanged, BandpassApplied,
                    ChangeBandpass, FilterFails, Return, At, devVars, SizeInv, Computed
<1>8. CASE StartFails
  BY <1>1, <1>8 DEF StartFails, Return, devVars
<1>9. CASE start_transfer
  <2>1. /\ stage = "start" /\ adc.valid /\ stage' = "idle" /\ UNCHANGED <<request, adc>>
    BY <1>9 DEF start_transfer, Return
  <2>2. request \in Requests /\ request.sample_rate # 0 /\ "rate" \notin changing
    BY <2>1 DEF SizeInv, Computed
  <2>3. adc = AdcConfig(request)
    BY <2>2 DEF IInv, NothingForgotten
  <2>4. /\ adc.adc_samples_per_transfer = BlocksPerTransfer(request) * SPB
        /\ adc.adc_samples_per_user_sample = AdcPerUser(request)
    BY <2>3 DEF AdcConfig
  <2>5. BufferHoldsTransfer'
    BY <2>1, <2>2, <2>4, AdcPerUserMode, TransferFits DEF BufferHoldsTransfer, Baseband
  <2> QED BY <2>1, <2>5 DEF SizeInv, Computed
<1>10. CASE stop_streaming
  BY <1>10 DEF stop_streaming, callVars, SizeInv, Computed, BufferHoldsTransfer
<1> QED
  BY <1>2, <1>3, <1>4, <1>5, <1>6, <1>7, <1>8, <1>9, <1>10, SetSizes DEF Next

LEMMA SizeInvHolds == Spec => []SizeInv
<1> QED BY InitSizeInv, NextSizeInv, IInvHolds, PTL DEF Spec

\* As long as a stream runs, a transfer's worth of samples fits a user buffer,
\* and the DSP chain is the one of the conversion mode: for any rates, limits,
\* buffer sizes and decimation, and also where a 32-bit product has wrapped.
THEOREM BufferHoldsTransferHolds == Spec => []BufferHoldsTransfer
<1>1. SizeInv => BufferHoldsTransfer
  BY DEF SizeInv
<1> QED BY <1>1, SizeInvHolds, PTL

-----------------------------------------------------------------------------
(* The spectrum.                                                           *)

\* A quarter of the slowest ADC clock there is, about 4 kHz (adc.h: the CCO's
\* 275 MHz, divided by 2 * 32 * 256), is more than a step of the PLL, some
\* hundred Hz (pg2sdr__find_pll_parameters).
ClockAboveStep == \A t \in DOMAIN AdcClock : AdcClock[t] >= 4 * LoStep

\* Then the LO is on the side of the frequency that the sideband asks for,
\* whatever the PLL rounds it to.
LEMMA LoSide ==
  ASSUME NEW q \in Requests, NEW a, a.frequency \in Nat, a.frequency >= 4 * LoStep,
         Baseband(q)
  PROVE  Lo(q, a) > q.frequency <=> q.sideband_mode = "LOWER"
<1> DEFINE u == q.undersampling_mode - 1
           h == a.frequency \div 2
           k == a.frequency \div 4
           d == u * h + k
<1>1. u \in Nat /\ q.frequency \in Int /\ q.sideband_mode \in {"LOWER", "UPPER"}
  BY DEF Requests
<1>2. LoStep \in Nat \ {0}
  BY ConfigAssumption
<1>3. h \in Nat /\ k \in Nat /\ k >= LoStep
  BY <1>2
<1>4. LoDistance(q, a) = d
  BY DEF LoDistance, UndersamplingOffset
<1> HIDE DEF u, h, k
<1>5. u * h \in Nat
  BY <1>1, <1>3
<1>6. d \in Nat /\ d >= LoStep
  BY <1>2, <1>3, <1>5
<1> HIDE DEF d
<1> DEFINE x == LoTarget(q, a)
           r == x % LoStep
<1>7. x = IF q.sideband_mode = "UPPER" THEN q.frequency - d ELSE q.frequency + d
  BY <1>1, <1>4, <1>6 DEF LoTarget, LoOffset
<1>8. x \in Int
  BY <1>1, <1>6, <1>7
<1> HIDE DEF x
<1>9. r \in 0 .. LoStep - 1
  BY <1>2, <1>8
<1>10. Lo(q, a) = x - r
  BY DEF Lo, x
<1> HIDE DEF r
<1> QED BY <1>1, <1>2, <1>6, <1>7, <1>8, <1>9, <1>10

\* With nothing left to apply, convert_adc_blocks un-inverts the spectrum exactly
\* when the LO and the undersampling have inverted it.
THEOREM SpectrumUprightHolds ==
  ASSUME ClockAboveStep
  PROVE  Spec => []SpectrumUpright
<1>1. IInv /\ SizeInv => SpectrumUpright
  <2> SUFFICES ASSUME IInv, SizeInv, streaming, changing = {}, Baseband(request),
                      request.frequency # 0
               PROVE  InvertedSpectrum(request) <=>
                        (hw.lo > request.frequency) # (request.undersampling_mode % 2 = 0)
    BY DEF SpectrumUpright
  <2>1. adc.valid
    BY DEF IInv, StreamKeepsClock
  <2>2. hw.lo = Lo(request, adc)
    BY <2>1 DEF IInv, NothingForgotten
  <2>3. request \in Requests
    BY DEF SizeInv, Computed
  <2>4. PICK t \in DOMAIN AdcClock : adc.frequency = AdcClock[t]
    BY <2>1 DEF SizeInv, Computed
  <2>5. adc.frequency \in Nat /\ adc.frequency >= 4 * LoStep
    BY <2>4, ConfigAssumption DEF ClockAboveStep
  <2>6. hw.lo > request.frequency <=> request.sideband_mode = "LOWER"
    BY <2>2, <2>3, <2>5, LoSide
  <2> QED BY <2>6 DEF InvertedSpectrum
<1> QED BY <1>1, IInvHolds, SizeInvHolds, PTL

-----------------------------------------------------------------------------
(* Types, and the filter that is selected: the CHOOSE of every operator    *)
(* finds something, so that nothing is left of the arithmetic but numbers. *)

LEMMA PostDecimationNat ==
  ASSUME NEW q \in Requests
  PROVE  PostDecimation(q) \in Nat
<1>1. q.decimation_mode \in Nat \cup {AUTO}
  BY DEF Requests
<1> QED BY <1>1, AutoDecimationNat, ExplicitDecimationNat DEF PostDecimation

LEMMA TransferNat ==
  ASSUME NEW q \in Requests
  PROVE  BlocksPerTransfer(q) \in Nat /\ BlockBytes(BlocksPerTransfer(q)) \in Nat
<1> DEFINE x == q.buffer_size * AdcPerUser(q)
           w == 2 ^ W
           n == (x % w) \div SPB
           m == MaxTransfer \div BPB
<1>1. x \in Nat
  <2>1. q.buffer_size \in Nat /\ AdcPerUser(q) \in Nat
    BY AdcPerUserMode DEF Requests
  <2> QED BY <2>1
<1>2. /\ w \in Nat \ {0} /\ SPB \in Nat \ {0}
      /\ BPB \in Nat \ {0} /\ MaxTransfer \in Nat
  BY ConfigAssumption, PowersOfTwo
<1>3. BlocksPerTransfer(q) \in {m, n} /\ \A k : BlockBytes(k) = (k * BPB) % w
  BY DEF BlocksPerTransfer, BlocksPerBuffer, BlockBytes
<1> HIDE DEF x, w
<1>4. x % w \in Nat
  BY <1>1, <1>2, DivMod
<1>5. n \in Nat /\ m \in Nat
  BY <1>2, <1>4, DivMod
<1> HIDE DEF n, m
<1>6. ASSUME NEW k \in Nat PROVE BlockBytes(k) \in Nat
  <2> DEFINE b == k * BPB
  <2>1. b \in Nat
    BY <1>2
  <2> HIDE DEF b
  <2>2. b % w \in Nat
    BY <1>2, <2>1, DivMod
  <2> QED BY <1>3, <2>2 DEF b
<1> QED BY <1>3, <1>5, <1>6

LEMMA AdcConfigType ==
  ASSUME NEW q \in Requests, Target(q) \in DOMAIN AdcClock
  PROVE  AdcConfig(q) \in AdcConfigs
<1>1. AdcClock[Target(q)] \in Nat
  BY ConfigAssumption
<1>2. AdcPerUser(q) \in Nat /\ PostDecimation(q) \in Nat
  BY AdcPerUserMode, PostDecimationNat
<1> DEFINE n == BlocksPerTransfer(q)
<1>3. n \in Nat /\ BlockBytes(n) \in Nat
  BY TransferNat
<1> HIDE DEF n
<1>4. n * SPB \in Nat
  BY <1>3, ConfigAssumption
<1> QED BY <1>1, <1>2, <1>3, <1>4 DEF AdcConfig, AdcConfigs, n

\* What the wanted band and the offsets are made of.
LEMMA IfType ==
  ASSUME NEW q \in Requests, NEW a \in AdcConfigs
  PROVE  UndersamplingOffset(q, a) \in Nat /\ LoDistance(q, a) \in Nat /\ CenterIf(q, a) \in Nat
<1> DEFINE u == q.undersampling_mode - 1
           h == a.frequency \div 2
           k == a.frequency \div 4
<1>1. u \in Nat /\ h \in Nat /\ k \in Nat
  BY DEF Requests, AdcConfigs
<1>2. UndersamplingOffset(q, a) = u * h /\ LoDistance(q, a) \in {u * h + k, u * h + 0}
  BY DEF UndersamplingOffset, LoDistance
<1> HIDE DEF u, h, k
<1>3. u * h \in Nat
  BY <1>1
<1> QED BY <1>1, <1>2, <1>3 DEF CenterIf

LEMMA LoType ==
  ASSUME NEW q \in Requests, NEW a \in AdcConfigs
  PROVE  Lo(q, a) \in Int
<1> DEFINE x == LoTarget(q, a)
           r == x % LoStep
<1>1. q.frequency \in Int /\ LoDistance(q, a) \in Nat
  BY IfType DEF Requests
<1>2. x \in Int
  BY <1>1 DEF LoTarget, LoOffset
<1>3. Lo(q, a) = x - r
  BY DEF Lo
<1> HIDE DEF x
<1>4. r \in Int
  BY <1>2, ConfigAssumption
<1> QED BY <1>2, <1>3, <1>4

LEMMA PositiveType ==
  ASSUME NEW x \in Int
  PROVE  Positive(x) \in Nat
BY DEF Positive

LEMMA WantedBandType ==
  ASSUME NEW q \in Requests, NEW a \in AdcConfigs
  PROVE  WantedBand(q, a) \in Int \X Int
<1> DEFINE nyquist == UndersamplingOffset(q, a)
           half == a.frequency \div 2
           center == CenterIf(q, a)
           l == IF q.sideband_mode = "UPPER" THEN center + q.bandpass[1] ELSE center - q.bandpass[2]
           h == IF q.sideband_mode = "UPPER" THEN center + q.bandpass[2] ELSE center - q.bandpass[1]
           low == nyquist + Positive(l - nyquist)
           high == nyquist + half - Positive(nyquist + half - h)
           m == MinWidth \div 2
<1>1. nyquist \in Int /\ center \in Int
  BY IfType
<1>2. half \in Int /\ m \in Int
  BY ConfigAssumption DEF AdcConfigs
<1>3. q.bandpass[1] \in Int /\ q.bandpass[2] \in Int
  BY DEF Requests
<1>4. WantedBand(q, a) \in {<<low, high>>,
                            <<(IF low < high THEN low ELSE high) - m,
                              (IF low < high THEN high ELSE low) + m>>}
  BY DEF WantedBand
<1> HIDE DEF nyquist, half, center, m
<1>5. l \in Int /\ h \in Int
  BY <1>1, <1>3
<1> HIDE DEF l, h
<1>6. low \in Int /\ high \in Int
  <2>1. Positive(l - nyquist) \in Int /\ Positive(nyquist + half - h) \in Int
    BY <1>1, <1>2, <1>5, PositiveType
  <2> QED BY <1>1, <1>2, <2>1
<1> HIDE DEF low, high
<1> QED BY <1>2, <1>4, <1>6

\* The penalty, of any entry for any band, can be compared.
LEMMA PenaltyType ==
  ASSUME NEW f, f.lower_corner \in Int, f.upper_corner \in Int, f.ripple \in Int,
         NEW band \in Int \X Int, NEW nl \in Int, NEW nh \in Int
  PROVE  FilterPenalty(f, band, nl, nh) \in Int
<1> DEFINE lower == f.lower_corner + 2 * Positive(nl - f.lower_corner)
           upper == f.upper_corner - 2 * Positive(f.upper_corner - nh)
           p == f.ripple * (band[2] - band[1])
<1>1. band[1] \in Int /\ band[2] \in Int
  OBVIOUS
<1>2. lower \in Int /\ upper \in Int
  <2>1. Positive(nl - f.lower_corner) \in Int /\ Positive(f.upper_corner - nh) \in Int
    BY PositiveType
  <2> QED BY <2>1
<1>3. p \in Int
  BY <1>1
<1>4. FilterPenalty(f, band, nl, nh) =
        Positive(band[1] - f.lower_corner) + Positive(f.upper_corner - band[2])
        + 4 * (Positive(lower - band[1]) + Positive(band[2] - upper)) + p
  BY DEF FilterPenalty
<1> HIDE DEF lower, upper, p
<1>5. /\ Positive(band[1] - f.lower_corner) \in Int /\ Positive(f.upper_corner - band[2]) \in Int
      /\ Positive(lower - band[1]) \in Int /\ Positive(band[2] - upper) \in Int
  BY <1>1, <1>2, PositiveType
<1> QED BY <1>3, <1>4, <1>5

\* pg2sdr__select_bandpass_filter picks an entry of the table, and none is better.
LEMMA SelectFilterIsBest ==
  ASSUME NEW t \in Tables, NEW band \in Int \X Int, NEW nl \in Int, NEW nh \in Int
  PROVE  /\ SelectFilter(t, band, nl, nh) \in DOMAIN t
         /\ \A j \in DOMAIN t : FilterPenalty(t[SelectFilter(t, band, nl, nh)], band, nl, nh)
                                  <= FilterPenalty(t[j], band, nl, nh)
<1> DEFINE n == Len(t)
           penalty(i) == FilterPenalty(t[i], band, nl, nh)
           g == [i \in 1 .. n |-> penalty(i)]
           s == SelectFilter(t, band, nl, nh)
           IsFirst(i) == /\ \A j \in 1 .. n : penalty(i) <= penalty(j)
                         /\ \A j \in 1 .. i - 1 : penalty(i) < penalty(j)
<1>1. n \in Nat \ {0} /\ DOMAIN t = 1 .. n
  BY ConfigAssumption
<1>2. s = CHOOSE i \in 1 .. n : IsFirst(i)
  BY DEF SelectFilter
<1>3. ASSUME NEW i \in 1 .. n PROVE penalty(i) \in Int
  <2>1. t[i].lower_corner \in Int /\ t[i].upper_corner \in Int /\ t[i].ripple \in Int
    BY <1>1, ConfigAssumption
  <2> QED BY <2>1, PenaltyType
<1> HIDE DEF n, penalty, s
<1>4. g \in [1 .. n -> Int]
  BY <1>3
<1>5. PICK i \in 1 .. n : (\A j \in 1 .. n : g[i] <= g[j]) /\ \A j \in 1 .. i - 1 : g[i] < g[j]
  BY <1>1, <1>4, FirstLeast
<1>6. IsFirst(i)
  <2>1. \A j \in 1 .. i - 1 : j \in 1 .. n
    BY <1>1
  <2> QED BY <1>5, <2>1
<1>7. s \in 1 .. n /\ IsFirst(s)
  BY <1>2, <1>6
<1> QED BY <1>1, <1>7 DEF penalty, s
\* The penalty of an entry for what is asked for.
Penalty(q, a, f) ==
  LET nyquist == UndersamplingOffset(q, a)
  IN FilterPenalty(f, WantedBand(q, a), nyquist, nyquist + a.frequency \div 2)

LEMMA FilterForIsBest ==
  ASSUME NEW q \in Requests, NEW a \in AdcConfigs, NEW t \in Tables
  PROVE  /\ FilterFor(q, a, t) \in DOMAIN t
         /\ \A j \in DOMAIN t : Penalty(q, a, t[FilterFor(q, a, t)]) <= Penalty(q, a, t[j])
<1> DEFINE nl == UndersamplingOffset(q, a)
           nh == nl + a.frequency \div 2
           band == WantedBand(q, a)
<1>1. nl \in Int /\ nh \in Int
  BY IfType DEF AdcConfigs
<1>2. band \in Int \X Int
  BY WantedBandType
<1>3. FilterFor(q, a, t) = SelectFilter(t, band, nl, nh)
  BY DEF FilterFor
<1>4. \A f : Penalty(q, a, f) = FilterPenalty(f, band, nl, nh)
  BY DEF Penalty
<1> HIDE DEF nl, nh, band
<1> QED BY <1>1, <1>2, <1>3, <1>4, SelectFilterIsBest

LEMMA InitTypeOK == Init => TypeOK
<1> SUFFICES ASSUME Init PROVE TypeOK
  OBVIOUS
<1>1. request \in Requests
  BY InitSizeInv DEF SizeInv, Computed
<1>2. adc \in AdcConfigs /\ tuner \in [valid : BOOLEAN, lo : Int]
  BY DEF Init, AdcConfigs, Unlocked
<1> QED BY <1>1, <1>2 DEF Init, TypeOK

LEMMA NextTypeOK == TypeOK /\ SizeInv' /\ [Next]_vars => TypeOK'
<1> SUFFICES ASSUME TypeOK, SizeInv', [Next]_vars PROVE TypeOK'
  OBVIOUS
<1>0. request' \in Requests
  BY DEF SizeInv, Computed
<1> DEFINE Stages == {"idle", "rate", "freq", "bandpass", "start"}
           Flags == {"rate", "freq", "bandpass"}
           Tuners == [valid : BOOLEAN, lo : Int]
           SameTuner == UNCHANGED <<adc, tuner, table, entry, hw>>
           Calls == changing' \subseteq Flags /\ stage' \in Stages /\ starting' \in BOOLEAN
                    /\ streaming' \in BOOLEAN
\* A step that leaves the device's configuration alone.
<1>1. ASSUME SameTuner, Calls PROVE TypeOK'
  BY <1>0, <1>1 DEF TypeOK
<1>2. CASE UNCHANGED vars
  BY <1>1, <1>2 DEF vars, devVars, callVars, TypeOK
<1>3. CASE Set
  <2>1. ASSUME NEW name, NEW value, NEW marks \in SUBSET Flags, Request(name, value, marks)
        PROVE  TypeOK'
    BY <1>1, <2>1 DEF Request, devVars, callVars, TypeOK
  <2>2. ASSUME NEW t \in Tables, set_bandpass_table(t) PROVE TypeOK'
    BY <1>0, <2>2 DEF set_bandpass_table, callVars, TypeOK
  <2> QED
    BY <1>3, <2>1, <2>2
    DEF Set, set_conversion_mode, set_buffer_size, set_sample_rate, set_decimation_mode,
        set_undersampling_mode, set_adc_limit, set_sideband, set_frequency, set_bandpass
<1>4. CASE apply_changes \/ stream_data
  BY <1>1, <1>4 DEF apply_changes, stream_data, Call, devVars, TypeOK
<1>5. CASE ChangeRate
  <2>1. Target(request) \in DOMAIN AdcClock /\ adc' = AdcConfig(request) /\ RateApplied
    BY <1>5 DEF ChangeRate, RateAvailable
  <2>2. UNCHANGED hw /\ changing' \subseteq Flags
    BY <2>1 DEF RateApplied, TypeOK
  <2>3. adc' \in AdcConfigs
    BY <2>1, AdcConfigType DEF TypeOK
  <2> QED BY <1>0, <2>1, <2>2, <2>3 DEF RateApplied, TypeOK
<1>6. CASE apply_rate_change /\ ~ChangeRate
  BY <1>1, <1>6 DEF apply_rate_change, Skip, RateFails, RateUnset, RateApplied, Return, devVars, TypeOK
<1>7. CASE apply_freq_change
  <2>1. Lo(request, adc) \in Int
    BY LoType DEF TypeOK
  <2>2. tuner' \in Tuners
    <3>1. tuner' \in {tuner, [valid |-> TRUE, lo |-> Lo(request, adc)], [tuner EXCEPT !.valid = FALSE]}
      BY <1>7 DEF apply_freq_change, Skip, FreqFails, FreqUnchanged, ChangeFreq, TuneFails,
                  TuneFailsWith, devVars
    <3>2. [valid |-> TRUE, lo |-> Lo(request, adc)] \in Tuners
      BY <2>1
    <3>3. tuner \in Tuners /\ [tuner EXCEPT !.valid = FALSE] \in Tuners
      BY DEF TypeOK
    <3> QED BY <3>1, <3>2, <3>3
  <2>3. DOMAIN hw' = DOMAIN hw
    BY <1>7 DEF apply_freq_change, Skip, FreqFails, FreqUnchanged, ChangeFreq, TuneFails, TuneFailsWith
  <2>4. Calls /\ UNCHANGED <<adc, table, entry>>
    BY <1>7 DEF apply_freq_change, Skip, FreqFails, FreqUnchanged, FreqApplied, ChangeFreq,
                TuneFails, TuneFailsWith, Return, devVars, TypeOK
  <2> QED BY <1>0, <2>2, <2>3, <2>4 DEF TypeOK
<1>8. CASE apply_bandpass_change
  <2>1. Selected \in DOMAIN table
    BY FilterForIsBest DEF TypeOK, Selected
  <2>2. entry' \in {NULL, entry, Selected} /\ DOMAIN hw' = DOMAIN hw
    BY <1>8 DEF apply_bandpass_change, SkipBandpass, BandpassUnchanged, ChangeBandpass,
                FilterFails, devVars
  <2>3. Calls /\ UNCHANGED <<adc, tuner, table>>
    BY <1>8 DEF apply_bandpass_change, SkipBandpass, BandpassUnchanged, BandpassApplied,
                ChangeBandpass, FilterFails, Return, devVars, TypeOK
  <2> QED BY <1>0, <2>1, <2>2, <2>3 DEF TypeOK
<1>9. CASE StartFails \/ start_transfer
  <2>1. DOMAIN hw' = DOMAIN hw
    BY <1>9 DEF StartFails, start_transfer
  <2>2. Calls /\ UNCHANGED <<adc, tuner, table, entry>>
    BY <1>9 DEF StartFails, start_transfer, Return, devVars, TypeOK
  <2> QED BY <1>0, <2>1, <2>2 DEF TypeOK
<1>10. CASE stop_streaming
  BY <1>1, <1>10 DEF stop_streaming, callVars, TypeOK
<1> QED
  BY <1>2, <1>3, <1>4, <1>5, <1>6, <1>7, <1>8, <1>9, <1>10 DEF Next

\* Type correctness, for frequencies and sizes without bounds.
THEOREM TypeCorrect == Spec => []TypeOK
<1>1. TypeOK /\ SizeInv /\ SizeInv' /\ [Next]_vars => TypeOK'
  BY NextTypeOK
<1> QED BY <1>1, InitTypeOK, SizeInvHolds, PTL DEF Spec

\* The hardware's filter is one of the table's with the least penalty.
FilterIsBest ==
  changing \cap {"rate", "bandpass"} = {} /\ adc.valid /\ entry # NULL =>
    \E i \in DOMAIN table :
      /\ hw.filter = table[i].settings
      /\ \A j \in DOMAIN table : Penalty(request, adc, table[i]) <= Penalty(request, adc, table[j])

\* With nothing left to apply no entry of the table suits what was asked for last
\* better than the one the tuner filters with, whatever tables were set, and
\* whatever requests and failed writes led here.
THEOREM BestFilterHolds == Spec => []FilterIsBest
<1>1. IInv /\ TypeOK => FilterIsBest
  <2> SUFFICES ASSUME IInv, TypeOK, changing \cap {"rate", "bandpass"} = {}, adc.valid, entry # NULL
               PROVE  \E i \in DOMAIN table :
                        /\ hw.filter = table[i].settings
                        /\ \A j \in DOMAIN table :
                             Penalty(request, adc, table[i]) <= Penalty(request, adc, table[j])
    BY DEF FilterIsBest
  <2>1. hw.filter = table[FilterFor(request, adc, table)].settings
    BY DEF IInv, NothingForgotten
  <2>2. request \in Requests /\ adc \in AdcConfigs /\ table \in Tables
    BY DEF TypeOK
  <2> QED BY <2>1, <2>2, FilterForIsBest
<1> QED BY <1>1, IInvHolds, TypeCorrect, PTL
=============================================================================
