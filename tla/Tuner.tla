-------------------------------- MODULE Tuner --------------------------------
(***************************************************************************)
(* The tuner driver, src/src/tuner.c, at the level of registers: gains,    *)
(* bandpass filter and PLL are settings of fields that share registers,    *)
(* each written by a change set of its own, any of which may be written in *)
(* part when it fails.                                                     *)
(*                                                                         *)
(* Frequencies are integers in a unit of the model's choice. The fraction  *)
(* of the PLL's feedback divider has FracBits bits.                        *)
(***************************************************************************)
EXTENDS Gain

CONSTANTS
  Filters,       \* settings pg2sdr__tuner_set_bandpass may be given
  Frequencies,   \* LO frequencies asked for
  Xtal,          \* dev->tuner_xtal
  RefDivAbove,   \* the 24e6 of pg2sdr__find_pll_parameters
  FracBits,      \* the 18 of its sigma-delta numerator
  VcoMin, VcoMax,         \* VCO_MIN, and where the tuner may still lock
  DacScale, DacPerScale,  \* 0.0318e-6, as a fraction
  PowerOn        \* register contents the tuner may power up with

FilterFields == {"IFFILT_HPF_CORNER", "IFFILT_Q", "IFFILT_NARROW", "IFFILT_FINE_LPF", "IFFILT_COARSE_LPF"}

ASSUME TunerAssumption ==
  /\ Filters \subseteq [FilterFields -> Nat]
  /\ Frequencies \subseteq Nat \ {0} /\ Xtal \in Nat \ {0} /\ RefDivAbove \in Nat
  /\ FracBits \in 4 .. 18
  /\ VcoMin \in Nat /\ VcoMax \in Nat /\ DacScale \in Nat /\ DacPerScale \in Nat \ {0}
  /\ PowerOn \subseteq [Registers -> SUBSET Byte]

VARIABLES
  filter,   \* the settings of dev->current_bandpass_entry, or <<>>
  pll,      \* dev->tuner_pll_config, with the frequency it was made for
  new,      \* new_config of apply_freq_change
  sideband, \* dev->sideband_mode
  step,     \* what pg2sdr__start_pll does next: "configure", "lock", "clock";
            \* or "idle"
  current   \* the VCO current to try for a lock

pllVars == <<pll, new, step, current>>
tunerVars == <<filter, pll, new, sideband, step, current>>

-----------------------------------------------------------------------------
(* pg2sdr__find_pll_parameters.                                            *)

Reference == IF Xtal > RefDivAbove THEN Xtal \div 2 ELSE Xtal

Seldiv(requested) ==
  CHOOSE d \in {2, 4, 8, 16, 32, 64} :
    /\ requested * d >= VcoMin \/ d = 64
    /\ \A e \in {2, 4, 8, 16, 32, 64} : e < d => requested * e < VcoMin

\* Half of required_vco; the feedback divider is this by pll_ref.
HalfVco(requested) == requested * (Seldiv(requested) \div 2)
InRange(requested) == HalfVco(requested) \in 13 * Reference .. 269 * Reference - 1

\* The numerator, its two lowest bits 01, kept away from 0, 1/2 and 1. Mutant:
\* rounding up to 1 is forgotten.
SdmNoCarry(raw) ==
  LET n == raw - (raw % 4) + 1
  IN IF n < 8 \/ n > 2 ^ FracBits - 8 THEN <<0, 0>>
     ELSE IF n > 2 ^ (FracBits - 1) - 8 /\ n <= 2 ^ (FracBits - 1) THEN <<0, 2 ^ (FracBits - 1) - 8>>
     ELSE IF n > 2 ^ (FracBits - 1) /\ n < 2 ^ (FracBits - 1) + 8 THEN <<0, 2 ^ (FracBits - 1) + 8>>
     ELSE <<0, n>>

Sdm(raw) ==
  LET n == raw - (raw % 4) + 1
      half == 2 ^ (FracBits - 1)
  IN IF n < 8 THEN <<0, 0>>
     ELSE IF n > 2 ^ FracBits - 8 THEN <<1, 0>>
     ELSE IF n > half - 8 /\ n <= half THEN <<0, half - 8>>
     ELSE IF n > half /\ n < half + 8 THEN <<0, half + 8>>
     ELSE <<0, n>>

PllParameters(requested) ==
  LET half == HalfVco(requested)
      sdm == Sdm(((half % Reference) * 2 ^ FracBits) \div Reference + 1)
  IN [valid |-> TRUE, refdiv |-> Xtal > RefDivAbove, seldiv |-> Seldiv(requested),
      feedback_n |-> half \div Reference + sdm[1], feedback_sdm |-> sdm[2] \div 4,
      requested |-> requested]

\* actual_vco, to the unit below.
ActualVco(p) == 2 * (Reference * p.feedback_n + (Reference * p.feedback_sdm) \div 2 ^ (FracBits - 2))

\* VCO_DAC is clamped to its range only after it was converted to uint8_t,
\* undefined for a negative number. Here for the builds that wrap or saturate.
VcoDacs(p) ==
  LET dac == (ActualVco(p) * DacScale + DacPerScale \div 2) \div DacPerScale - 49
  IN IF dac < 0 THEN {0, 63} ELSE {IF dac > 63 THEN 63 ELSE dac}

Divider(n) == [N_I2C |-> (n - 13) \div 4, S_I2C |-> (n - 13) % 4]

NoPll == [valid |-> FALSE]

\* The first of vco_currents; the others follow downwards.
MaxCurrent == 4

\* pg2sdr__configure_pll_settings.
PllChanges(p, dac) ==
  [N_I2C |-> Divider(p.feedback_n).N_I2C, S_I2C |-> Divider(p.feedback_n).S_I2C,
   IMG_R |-> IF sideband = "UPPER" THEN 1 ELSE 0,
   PW_LDO_A |-> 1, PW_LDO_D |-> 2, PWD_SDM |-> IF p.feedback_sdm = 0 THEN 1 ELSE 0,
   SEL_DIV |-> CHOOSE i \in 0 .. 5 : 2 ^ (i + 1) = p.seldiv, REF_DIV2 |-> IF p.refdiv THEN 1 ELSE 0,
   SDM_IN_LSB |-> p.feedback_sdm % 256, SDM_IN_MSB |-> p.feedback_sdm \div 256,
   PLL_AUTO_CLK |-> 0, VCO_CURRENT |-> MaxCurrent, VCO_MODE |-> 1, VCO_DAC |-> dac]

LiveFields ==
  FilterFields \cup {GainField[s] : s \in Stages}
  \cup {"N_I2C", "S_I2C", "IMG_R", "PW_LDO_A", "PW_LDO_D", "PWD_SDM", "SEL_DIV", "REF_DIV2",
        "SDM_IN_LSB", "SDM_IN_MSB", "PLL_AUTO_CLK", "VCO_CURRENT", "VCO_MODE", "VCO_DAC"}
FixedValue == [f \in Fields \ LiveFields |-> InitialValue[f]]
FixedMask == [reg \in Registers |-> Mask(FixedValue, reg)]
FixedBits == [reg \in Registers |-> NewBits(FixedValue, reg)]

-----------------------------------------------------------------------------
\* The calls of module Gain.
GainCall == step = "idle" /\ GainNext /\ UNCHANGED tunerVars

\* pg2sdr__tuner_set_bandpass and the lines of apply_bandpass_change around it.
\* Mutant: the filter is taken to be what it was when the write fails.
set_bandpass_unnoticed(settings) ==
  /\ step = "idle"
  /\ settings # filter
  /\ \/ WriteChanges(settings) /\ filter' = settings
     \/ WriteFails(settings) /\ UNCHANGED filter
  /\ UNCHANGED <<gainVars, pllVars, sideband>>

set_bandpass(settings) ==
  /\ step = "idle"
  /\ settings # filter
  /\ \/ WriteChanges(settings) /\ filter' = settings
     \/ WriteFails(settings) /\ filter' = <<>>
  /\ UNCHANGED <<gainVars, pllVars, sideband>>

set_sideband ==
  /\ step = "idle"
  /\ sideband' = IF sideband = "LOWER" THEN "UPPER" ELSE "LOWER"
  /\ UNCHANGED <<gainVars, regs, faults, filter, pllVars>>

\* tuner_pll_config_equal compares the settings, not what was asked for.
SamePll(p, q) ==
  p.valid /\ q.valid /\ [p EXCEPT !.requested = 0] = [q EXCEPT !.requested = 0]

\* apply_freq_change up to pg2sdr__start_pll.
Tune(requested) ==
  /\ step = "idle"
  /\ InRange(requested)
  /\ LET p == PllParameters(requested)
     IN IF SamePll(p, pll)
        THEN UNCHANGED <<new, step>>
        ELSE new' = p /\ step' = "configure"
  /\ UNCHANGED <<gainVars, regs, faults, filter, pll, sideband, current>>

\* An error of start_pll: nobody knows what the PLL does. Mutant: it is taken
\* to do what it did before.
TuneFailsUnnoticed == step' = "idle" /\ UNCHANGED pll

TuneFails == step' = "idle" /\ pll' = NoPll

Configure ==
  /\ step = "configure"
  /\ \E dac \in VcoDacs(new) :
       \/ WriteChanges(PllChanges(new, dac)) /\ step' = "lock" /\ UNCHANGED pll
       \/ WriteFails(PllChanges(new, dac)) /\ TuneFails
  /\ current' = MaxCurrent
  /\ UNCHANGED <<gainVars, filter, new, sideband>>

\* The VCO's frequency as the registers have it, and whether the PLL can lock.
RegisterVco ==
  2 * (Reference * (13 + 4 * Value(regs, "N_I2C") + Value(regs, "S_I2C"))
       + (Reference * (Value(regs, "SDM_IN_MSB") * 256 + Value(regs, "SDM_IN_LSB"))) \div 2 ^ (FracBits - 2))
CanLock == RegisterVco \in VcoMin .. VcoMax

\* One pg2sdr__ctrl_update_tuner_lock: the device sets the VCO current, and
\* waits for the lock. The lowest current is the last to be tried.
Lock ==
  /\ step = "lock"
  /\ \/ /\ WriteChanges([VCO_CURRENT |-> current])
        /\ \/ CanLock /\ step' = "clock" /\ UNCHANGED <<pll, current>>
           \/ current > 0 /\ current' = current - 1 /\ UNCHANGED <<pll, step>>
           \/ current = 0 /\ TuneFails /\ UNCHANGED current
     \/ WriteFails([VCO_CURRENT |-> current]) /\ TuneFails /\ UNCHANGED current
  /\ UNCHANGED <<gainVars, filter, new, sideband>>

Clock ==
  /\ step = "clock"
  /\ \/ WriteChanges([PLL_AUTO_CLK |-> 2]) /\ step' = "idle" /\ pll' = new
     \/ WriteFails([PLL_AUTO_CLK |-> 2]) /\ TuneFails
  /\ UNCHANGED <<gainVars, filter, new, sideband, current>>

TunerNext ==
  \/ GainCall
  \/ \E settings \in Filters : set_bandpass(settings)
  \/ set_sideband
  \/ \E f \in Frequencies : Tune(f)
  \/ Configure \/ Lock \/ Clock

-----------------------------------------------------------------------------
(* Properties.                                                             *)

\* What the library believes is set is what the registers hold, although gain
\* steps, filter, image rejection and power bits share registers and any write
\* may end half way: the gain step of a stage, unless a write of it failed and
\* has not been repeated, and the filter.
SettingsKept ==
  /\ \A s \in Stages \ in_doubt : Holds(regs, GainField[s], gains[s])
  /\ filter # <<>> => \A f \in FilterFields : Holds(regs, f, filter[f])

\* A PLL that is known to be set is: locked, where the registers say, and at
\* most a few steps of the sigma-delta modulator (kept clear of 0, 1/2 and 1)
\* off the frequency asked for.
TunedAsAsked ==
  pll.valid =>
    LET steps == Value(regs, "SDM_IN_MSB") * 256 + Value(regs, "SDM_IN_LSB")
        n == 13 + 4 * Value(regs, "N_I2C") + Value(regs, "S_I2C")
        off == (HalfVco(pll.requested) - Reference * n) * 2 ^ (FracBits - 2) - Reference * steps
    IN /\ CanLock
       /\ 2 ^ (Value(regs, "SEL_DIV") + 1) = Seldiv(pll.requested)
       /\ Holds(regs, "PWD_SDM", IF steps = 0 THEN 1 ELSE 0)
       /\ off \in -3 * Reference .. 3 * Reference

\* The bits of the fields set once and for all when the device is opened, the
\* reserved ones in particular, keep what was written, whatever the tuner had
\* in them when it was powered up and whatever is written around them.
FixedFieldsKept ==
  \A reg \in Registers : regs[reg] \cap FixedMask[reg] = FixedBits[reg]
=============================================================================
