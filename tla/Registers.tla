----------------------------- MODULE Registers -----------------------------
(***************************************************************************)
(* The tuner's registers, include/internal/tuner-regs.h, and the change    *)
(* sets of src/src/tuner.c they are written with. A register is the set of *)
(* its bits that are 1; a change set is what set_tuner_bits is called with *)
(* on an empty one, a function from fields to values.                      *)
(***************************************************************************)
EXTENDS Integers

TUNER_REG_COUNT == 32
FirstRegister == 5      \* those before it are read only
Registers == FirstRegister .. TUNER_REG_COUNT - 1
Byte == 0 .. 7

Bits(msb, lsb) == lsb .. msb
Bit(i) == {i}

\* The fields of each register, from FirstRegister.
Layout ==
  << [PWD_LT |-> Bit(7), R5_RESERVED_6_0 |-> Bit(6), PWD_LNA1 |-> Bit(5), LNA_GAIN_MODE |-> Bit(4),
      LNA_GAIN |-> Bits(3, 0)],
     [PWD_PDET1 |-> Bit(7), PWD_PDET2 |-> Bit(6), FILT_3DB |-> Bit(5), R6_RESERVED_4_1 |-> Bit(4),
      R6_RESERVED_3_0 |-> Bit(3), PW_LNA |-> Bits(2, 0)],
     [IMG_R |-> Bit(7), PW_MIX |-> Bit(6), PW0_MIX |-> Bit(5), MIXGAIN_MODE |-> Bit(4),
      MIX_GAIN |-> Bits(3, 0)],
     [PW_AMP |-> Bit(7), PW0_AMP |-> Bit(6), IMR_G_PATH |-> Bit(5), IMR_G |-> Bits(4, 0)],
     [PWD_IFFILT |-> Bit(7), PW1_IFFILT |-> Bit(6), IMR_P_PATH |-> Bit(5), IMR_P |-> Bits(4, 0)],
     [PW_FILT |-> Bit(7), FILTER_CUR |-> Bits(6, 5), IFFILT_Q |-> Bit(4),
      IFFILT_FINE_LPF |-> Bits(3, 0)],
     [IFFILT_NARROW |-> Bit(7), IFFILT_COARSE_LPF |-> Bits(6, 5), CALIBRATION_TRIGGER |-> Bit(4),
      IFFILT_HPF_CORNER |-> Bits(3, 0)],
     [PWD_ADC |-> Bit(7), PW_VGA |-> Bit(6), R12_RESERVED_5_1 |-> Bit(5), VGA_GAIN_MODE |-> Bit(4),
      VGA_GAIN |-> Bits(3, 0)],
     [LNA_VTH_H |-> Bits(7, 4), LNA_VTH_L |-> Bits(3, 0)],
     [MIX_VTH_H |-> Bits(7, 4), MIX_VTH_L |-> Bits(3, 0)],
     [FLT_EXT_WIDEST |-> Bit(7), R15_RESERVED_6_0 |-> Bit(6), R15_RESERVED_5_1 |-> Bit(5),
      CLK_OUT_DIS |-> Bit(4), RING_DISABLE |-> Bit(3), R15_RESERVED_2_0 |-> Bit(2),
      CLK_AGC_DIS |-> Bit(1), R15_RESERVED_0_0 |-> Bit(0)],
     [SEL_DIV |-> Bits(7, 5), REF_DIV2 |-> Bit(4), XTAL_DRIVE |-> Bit(3), DET1_CAP |-> Bit(2),
      CAPX |-> Bits(1, 0)],
     [PW_LDO_A |-> Bits(7, 6), CP_CURRENT |-> Bits(5, 3), R17_RESERVED_2_0 |-> Bit(2),
      R17_RESERVED_1_0 |-> Bit(1), R17_RESERVED_0_0 |-> Bit(0)],
     [VCO_CURRENT |-> Bits(7, 5), SDM_DITHER_DIS |-> Bit(4), PWD_SDM |-> Bit(3),
      R18_RESERVED_2_0 |-> Bit(2), R18_RESERVED_1_0 |-> Bit(1), R18_RESERVED_0_0 |-> Bit(0)],
     [R18_RESERVED_7_0 |-> Bit(7), VCO_MODE |-> Bit(6), VCO_DAC |-> Bits(5, 0)],
     [S_I2C |-> Bits(7, 6), N_I2C |-> Bits(5, 0)],
     [SDM_IN_LSB |-> Bits(7, 0)],
     [SDM_IN_MSB |-> Bits(7, 0)],
     [PW_LDO_D |-> Bits(7, 6), DIV_BUF_CUR |-> Bits(5, 4), OPEN_D |-> Bit(3),
      R23_RESERVED_2_1 |-> Bit(2), R23_RESERVED_1_0 |-> Bit(1), R23_RESERVED_0_0 |-> Bit(0)],
     [R24_RESERVED_7_0 |-> Bit(7), R24_RESERVED_6_1 |-> Bit(6), RING_SE23 |-> Bit(5),
      PW_RING |-> Bit(4), RING_N |-> Bits(3, 0)],
     [PW_RFFILT |-> Bit(7), RFFILT_CURRENT |-> Bits(6, 5), SW_AGC |-> Bit(4),
      R25_RESERVED_3_1 |-> Bit(3), R25_RESERVED_2_1 |-> Bit(2), RING_SELDIV |-> Bits(1, 0)],
     [RFMUX |-> Bits(7, 6), AGC_CLOCK |-> Bits(5, 4), PLL_AUTO_CLK |-> Bits(3, 2),
      RFFILT |-> Bits(1, 0)],
     [TF_NCH |-> Bits(7, 4), TF_LP |-> Bits(3, 0)],
     [PDET3_GAIN |-> Bits(7, 4), R28_RESERVED_3_0 |-> Bit(3), DISCHARGE_MODE |-> Bit(2),
      RF_SOURCE |-> Bit(1), R28_RESERVED_0_0 |-> Bit(0)],
     [DETECT_BW |-> Bits(7, 6), PDET1_GAIN |-> Bits(5, 3), PDET2_GAIN |-> Bits(2, 0)],
     [SW_PDET |-> Bit(7), FILTER_EXT |-> Bit(6), PDET_CLK |-> Bits(5, 0)],
     [LT_ATT |-> Bit(7), R31_RESERVED_6_1 |-> Bit(6), R31_RESERVED_5_0 |-> Bit(5),
      R31_RESERVED_4_0 |-> Bit(4), R31_RESERVED_3_0 |-> Bit(3), R31_RESERVED_2_0 |-> Bit(2),
      RING_ATT |-> Bits(1, 0)] >>

FieldsOf(reg) == DOMAIN Layout[reg - FirstRegister + 1]
Fields == UNION {FieldsOf(reg) : reg \in Registers}
RegisterOf == [f \in Fields |-> CHOOSE reg \in Registers : f \in FieldsOf(reg)]
BitsOf == [f \in Fields |-> Layout[RegisterOf[f] - FirstRegister + 1][f]]

\* pg2sdr__init_tuner writes every field, and 0 to all but these.
NonZero ==
  [PWD_LT |-> 1, LNA_GAIN_MODE |-> 1, FILT_3DB |-> 1, R6_RESERVED_4_1 |-> 1, PW_LNA |-> 2,
   PW_MIX |-> 1, PW0_MIX |-> 1, PW_AMP |-> 1, PW0_AMP |-> 1, PW1_IFFILT |-> 1, PW_FILT |-> 1,
   FILTER_CUR |-> 3, IFFILT_HPF_CORNER |-> 15, PWD_ADC |-> 1, PW_VGA |-> 1,
   R12_RESERVED_5_1 |-> 1, LNA_VTH_H |-> 5, LNA_VTH_L |-> 3, MIX_VTH_H |-> 7, MIX_VTH_L |-> 5,
   R15_RESERVED_5_1 |-> 1, CLK_OUT_DIS |-> 1, RING_DISABLE |-> 1, REF_DIV2 |-> 1, DET1_CAP |-> 1,
   VCO_CURRENT |-> 4, PWD_SDM |-> 1, DIV_BUF_CUR |-> 3, R23_RESERVED_2_1 |-> 1,
   R24_RESERVED_6_1 |-> 1, PW_RFFILT |-> 1, RFFILT_CURRENT |-> 2, R25_RESERVED_3_1 |-> 1,
   R25_RESERVED_2_1 |-> 1, RFMUX |-> 1, AGC_CLOCK |-> 2, PDET3_GAIN |-> 5, DISCHARGE_MODE |-> 1,
   DETECT_BW |-> 2, PDET1_GAIN |-> 4, PDET2_GAIN |-> 6, PDET_CLK |-> 10, LT_ATT |-> 1,
   R31_RESERVED_6_1 |-> 1]
InitialValue == [f \in Fields |-> IF f \in DOMAIN NonZero THEN NonZero[f] ELSE 0]

-----------------------------------------------------------------------------
Lsb == [f \in Fields |-> CHOOSE i \in BitsOf[f] : \A j \in BitsOf[f] : i <= j]

\* A value shifted into its field. What does not fit is masked off.
Encode(f, value) == {i \in BitsOf[f] : (value \div 2 ^ (i - Lsb[f])) % 2 = 1}

Holds(regs, f, value) == regs[RegisterOf[f]] \cap BitsOf[f] = Encode(f, value)

\* The number in a field.
Value(regs, f) ==
  LET sum[i \in -1 .. 7] ==
        IF i = -1 THEN 0
        ELSE sum[i - 1] + IF i \in regs[RegisterOf[f]] \cap BitsOf[f] THEN 2 ^ (i - Lsb[f]) ELSE 0
  IN sum[7]

\* current_mask and current_value of a register.
Mask(cs, reg) == UNION {BitsOf[f] : f \in DOMAIN cs \cap FieldsOf(reg)}
NewBits(cs, reg) == UNION {Encode(f, cs[f]) : f \in DOMAIN cs \cap FieldsOf(reg)}

\* pg2sdr__prepare_tuner_payload_from_change_set: from the first register with
\* a change to the last, those in between included, their mask empty.
Payload(cs) ==
  LET changed == {RegisterOf[f] : f \in DOMAIN cs}
  IN {reg \in Registers : (\E first \in changed : first <= reg) /\ \E last \in changed : last >= reg}

\* The device writes the registers of the payload in order, with the bits that
\* are not in the mask as they are: all of them if it succeeds, those before
\* some register if it does not. Mutant: a payload without masks.
WriteUnmasked(regs, cs, end) ==
  LET payload == {reg \in Payload(cs) : reg < end}
  IN [reg \in Registers |-> IF reg \in payload THEN NewBits(cs, reg) ELSE regs[reg]]

WriteUpTo(regs, cs, end) ==
  LET payload == {reg \in Payload(cs) : reg < end}
  IN [reg \in Registers |->
        IF reg \in payload THEN (regs[reg] \ Mask(cs, reg)) \cup NewBits(cs, reg) ELSE regs[reg]]

Write(regs, cs) == WriteUpTo(regs, cs, TUNER_REG_COUNT)
PartialWrites(regs, cs) ==
  {WriteUpTo(regs, cs, end) : end \in Payload(cs) \cup {TUNER_REG_COUNT}}
=============================================================================
