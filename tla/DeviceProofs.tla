---------------------------- MODULE DeviceProofs ----------------------------
(***************************************************************************)
(* Theorems about module Device, for any tables, gains, filters,           *)
(* frequencies, firmware versions and failures.                            *)
(***************************************************************************)
EXTENDS Device, NaturalFacts, TLAPS

-----------------------------------------------------------------------------
(* What build_device has taken at each point of it.                        *)

Points == {"none", "usb", "claim", "versions", "power", "tuner", "tables", "open"}

Held ==
  /\ dev \in Points /\ handle \in BOOLEAN
  /\ handle <=> dev \notin {"none", "usb"}
  /\ dev \in {"none", "usb", "claim"} => interface # "device"
  /\ dev = "none" => memory \subseteq {"strings"}
  /\ memory \subseteq {"strings", "device", "gain_table", "bandpass_table"}

HeldInv == NothingLeaks /\ Held

LEMMA InitHeldInv == DeviceInit => HeldInv
BY DEF DeviceInit, HeldInv, NothingLeaks, Held, Points

LEMMA NextHeldInv == HeldInv /\ [DeviceNext]_device_vars => HeldInv'
<1> SUFFICES ASSUME HeldInv, [DeviceNext]_device_vars PROVE HeldInv'
  OBVIOUS
<1> USE DEF HeldInv, NothingLeaks, Held, Points
<1>1. CASE Allocate
  BY <1>1 DEF Allocate, Then
<1>2. CASE OpenUsb
  BY <1>2 DEF OpenUsb, Then
<1>3. CASE Claim
  BY <1>3 DEF Claim, Then
<1>4. CASE CheckVersions \/ PowerReset \/ InitTuner
  BY <1>4 DEF CheckVersions, PowerReset, InitTuner, Then
<1>5. CASE SetTables
  BY <1>5 DEF SetTables, Then
<1>6. CASE OpenFails
  BY <1>6 DEF OpenFails, Cleanup
<1>7. CASE Close
  BY <1>7 DEF Close
<1>8. CASE OpenDevice \/ UNCHANGED device_vars
  <2>1. UNCHANGED <<dev, memory, handle, interface>>
    BY <1>8 DEF OpenDevice, device_vars, lifeVars
  <2> QED BY <2>1
<1>9. CASE OtherProgram
  BY <1>9 DEF OtherProgram
<1> QED
  BY <1>1, <1>2, <1>3, <1>4, <1>5, <1>6, <1>7, <1>8, <1>9 DEF DeviceNext

\* At whichever step build_device fails, in whatever state another program has
\* left the tuner and the interface, neither memory nor the handle nor the claim
\* is left behind (device.c, cleanup and cleanup_nomutex); and the steps that talk
\* to the device have both the handle and the claim.
THEOREM NothingLeaksHolds == DeviceSpec => []NothingLeaks
<1>1. HeldInv => NothingLeaks
  BY DEF HeldInv
<1> QED BY <1>1, InitHeldInv, NextHeldInv, PTL DEF DeviceSpec

-----------------------------------------------------------------------------
(* The total gain table: what qsort makes of it, and the scan that stops    *)
(* early.                                                                  *)

GainAt(t, i) == t[i].gain_db
Usable(t) ==
  /\ t \in Seq(Entries) /\ Len(t) > 0
  /\ \A i \in 1 .. Len(t), j \in 1 .. Len(t) : i <= j => GainAt(t, i) <= GainAt(t, j)

LEMMA EntryGain ==
  ASSUME NEW t \in Seq(Entries), NEW i \in 1 .. Len(t)
  PROVE  t[i] \in Entries /\ GainAt(t, i) \in Int /\ t[i].steps \in [Stages -> Steps]
<1>1. t[i] \in Entries
  OBVIOUS
<1> QED BY <1>1 DEF Entries, GainAt

\* No entry has less gain than the one before it: none has less than any before.
LEMMA AdjacentToPairwise ==
  ASSUME NEW t \in Seq(Entries),
         \A i \in 1 .. Len(t) - 1 : GainAt(t, i) <= GainAt(t, i + 1),
         NEW i \in 1 .. Len(t), NEW j \in 1 .. Len(t), i <= j
  PROVE  GainAt(t, i) <= GainAt(t, j)
<1> DEFINE Less == {k \in i .. Len(t) : GainAt(t, k) < GainAt(t, i)}
<1>1. CASE Less = {}
  <2>1. ~(GainAt(t, j) < GainAt(t, i))
    BY <1>1
  <2> QED BY <2>1, EntryGain
<1>2. CASE Less # {}
  <2>1. Less \in SUBSET Nat
    OBVIOUS
  <2> DEFINE k == Least(Less)
  <2>2. k \in Less /\ \A l \in Less : k <= l
    BY <1>2, <2>1, LeastElement
  <2> HIDE DEF k
  <2>3. /\ k \in 1 .. Len(t) /\ i < k /\ k - 1 \in i .. Len(t)
        /\ k - 1 \in 1 .. Len(t) - 1 /\ k - 1 \notin Less
    BY <2>2, EntryGain
  <2>4. GainAt(t, k - 1) <= GainAt(t, k)
    BY <2>3
  <2>5. GainAt(t, k) < GainAt(t, i) /\ ~(GainAt(t, k - 1) < GainAt(t, i))
    BY <2>2, <2>3
  <2>6. k - 1 \in 1 .. Len(t)
    BY <2>3
  <2>7. GainAt(t, k) \in Int /\ GainAt(t, k - 1) \in Int /\ GainAt(t, i) \in Int
    BY <2>3, <2>6, EntryGain
  <2> QED BY ONLY <2>4, <2>5, <2>7
<1> QED BY <1>1, <1>2

LEMMA SortedIsUsable ==
  ASSUME NEW t \in GainTables, NEW s \in Sorted(t)
  PROVE  Usable(s)
<1>1. t \in Seq(Entries) /\ Len(t) > 0
  BY GainAssumption
<1>2. PICK p \in [1 .. Len(t) -> 1 .. Len(t)] :
        /\ \A i \in 1 .. Len(t) - 1 : t[p[i]].gain_db <= t[p[i + 1]].gain_db
        /\ s = [i \in 1 .. Len(t) |-> t[p[i]]]
  BY DEF Sorted
<1>3. s \in Seq(Entries) /\ Len(s) = Len(t)
  <2>1. \A i \in 1 .. Len(t) : t[p[i]] \in Entries
    BY <1>1
  <2>2. s \in [1 .. Len(t) -> Entries] /\ Len(t) \in Nat
    BY <1>1, <1>2, <2>1
  <2> QED BY ONLY <2>2
<1>4. \A i \in 1 .. Len(s) - 1 : GainAt(s, i) <= GainAt(s, i + 1)
  BY <1>2, <1>3 DEF GainAt
<1> QED BY <1>1, <1>3, <1>4, AdjacentToPairwise DEF Usable

LEMMA DistanceFacts ==
  ASSUME NEW x \in Int, NEW y \in Int
  PROVE  Distance(x, y) \in Nat
BY DEF Distance

\* The scan looks at an entry that is the nearest it has seen, and the first of these.
LEMMA NearestSeen ==
  ASSUME NEW t, Usable(t), NEW db \in Int
  PROVE  LET seen == {i \in 1 .. Len(t) : \A j \in 2 .. i - 1 : GainAt(t, j) <= db}
         IN /\ Nearest(t, db) \in seen
            /\ \A j \in seen :
                 Distance(GainAt(t, Nearest(t, db)), db) <= Distance(GainAt(t, j), db)
<1> DEFINE seen == {i \in 1 .. Len(t) : \A j \in 2 .. i - 1 : GainAt(t, j) <= db}
           far(i) == Distance(GainAt(t, i), db)
           FirstNearest(i) == /\ \A j \in seen : far(i) <= far(j)
                              /\ \A j \in seen : j < i => far(i) < far(j)
<1>1. \A i \in seen : i \in Nat /\ far(i) \in Nat
  <2> SUFFICES ASSUME NEW i \in seen PROVE i \in Nat /\ far(i) \in Nat
    OBVIOUS
  <2>1. i \in 1 .. Len(t) /\ i \in Nat
    BY DEF Usable
  <2>2. GainAt(t, i) \in Int
    BY <2>1, EntryGain DEF Usable
  <2> QED BY <2>1, <2>2, DistanceFacts
<1>2. 1 \in seen
  BY DEF Usable
<1> DEFINE Distances == {far(i) : i \in seen}
           least == Least(Distances)
<1>3. least \in Distances /\ \A y \in Distances : least <= y
  <2>1. Distances \in SUBSET Nat /\ Distances # {}
    BY <1>1, <1>2
  <2> HIDE DEF Distances
  <2> QED BY <2>1, LeastElement
<1> DEFINE Best == {i \in seen : far(i) = least}
           first == Least(Best)
<1>4. first \in Best /\ \A y \in Best : first <= y
  <2>1. Best \in SUBSET Nat /\ Best # {}
    BY <1>1, <1>3
  <2> HIDE DEF Best
  <2> QED BY <2>1, LeastElement
<1>5. first \in seen /\ far(first) = least
  BY <1>4
<1> HIDE DEF first, least
<1>6. \A j \in seen : least <= far(j) /\ (j < first => far(j) # least)
  <2> SUFFICES ASSUME NEW j \in seen
               PROVE  least <= far(j) /\ (j < first => far(j) # least)
    OBVIOUS
  <2>1. least <= far(j)
    BY <1>3
  <2>2. ASSUME j < first, far(j) = least PROVE FALSE
    <3>1. j \in Best
      BY <2>2
    <3> QED BY <1>1, <1>4, <1>5, <2>2, <3>1
  <2> QED BY <2>1, <2>2
<1>7. FirstNearest(first)
  BY <1>1, <1>5, <1>6
<1>8. Nearest(t, db) = CHOOSE i \in seen : FirstNearest(i)
  BY DEF Nearest, GainAt
<1> HIDE DEF seen, far, FirstNearest
<1>9. Nearest(t, db) \in seen /\ FirstNearest(Nearest(t, db))
  BY <1>5, <1>7, <1>8
<1> QED BY <1>9 DEF seen, far, FirstNearest

\* It need not look any further: the first entry it leaves out comes after one that has
\* more gain than asked for, and the others have no less.
LEMMA NearestOfAll ==
  ASSUME NEW t, Usable(t), NEW db \in Int
  PROVE  /\ Nearest(t, db) \in 1 .. Len(t)
         /\ \A i \in 1 .. Len(t) :
              Distance(GainAt(t, Nearest(t, db)), db) <= Distance(GainAt(t, i), db)
<1> DEFINE seen == {i \in 1 .. Len(t) : \A j \in 2 .. i - 1 : GainAt(t, j) <= db}
           far(i) == Distance(GainAt(t, i), db)
           n == Nearest(t, db)
<1>1. n \in seen /\ \A j \in seen : far(n) <= far(j)
  BY NearestSeen
<1> HIDE DEF n
<1>2. ASSUME NEW i \in 1 .. Len(t) PROVE far(n) <= far(i)
  <2>1. CASE i \in seen
    BY <1>1, <2>1
  <2>2. CASE i \notin seen
    <3> DEFINE More == {j \in 2 .. i - 1 : ~(GainAt(t, j) <= db)}
               m == Least(More)
    <3>1. m \in More /\ \A y \in More : m <= y
      <4>1. More \in SUBSET Nat /\ More # {}
        BY <2>2
      <4> HIDE DEF More
      <4> QED BY <4>1, LeastElement
    <3> HIDE DEF m
    <3>2. m \in 1 .. Len(t) /\ m < i /\ ~(GainAt(t, m) <= db)
      BY <3>1 DEF Usable
    <3>3. \A j \in 2 .. m - 1 : GainAt(t, j) <= db
      <4> SUFFICES ASSUME NEW j \in 2 .. m - 1, ~(GainAt(t, j) <= db) PROVE FALSE
        OBVIOUS
      <4>1. j \in More
        BY <3>1
      <4> QED BY <3>1, <4>1
    <3>4. m \in seen
      BY <3>2, <3>3
    <3>5. GainAt(t, m) <= GainAt(t, i)
      BY <3>2 DEF Usable
    <3>6. far(m) <= far(i)
      BY <3>2, <3>5, EntryGain DEF Usable, Distance
    <3>7. far(n) \in Nat /\ far(m) \in Nat /\ far(i) \in Nat
      BY <1>1, <3>2, EntryGain, DistanceFacts DEF Usable
    <3> QED BY <1>1, <3>4, <3>6, <3>7
  <2> QED BY <2>1, <2>2
<1> QED BY <1>1, <1>2 DEF n

-----------------------------------------------------------------------------
(* The invariant of gain control.                                          *)

Tables == Usable(gain_table) /\ entry \in {NULL} \cup 1 .. Len(gain_table)

GainInv == Tables /\ EntryMatchesStages

LEMMA InitGainInv == DeviceInit => GainInv
<1> SUFFICES ASSUME DeviceInit PROVE GainInv
  OBVIOUS
<1>1. DefaultGainTable \in GainTables
  BY GainAssumption DEF DefaultGainTable
<1> QED BY <1>1, SortedIsUsable DEF DeviceInit, Initial, GainInv, Tables, EntryMatchesStages

\* The calls of module Gain.
LEMMA GainStep ==
  ASSUME GainInv, GainNext
  PROVE  GainInv'
<1> USE DEF GainInv, Tables, EntryMatchesStages, NULL
<1>1. ASSUME NEW s \in Stages, NEW g, SetStage(s, g) PROVE GainInv'
  BY <1>1 DEF SetStage, TunerSetGains, TunerSetGainsFails
<1>2. ASSUME NEW db \in Gains, set_total_gain_db(db) PROVE GainInv'
  <2> DEFINE nearest == Nearest(gain_table, db)
             want == gain_table[nearest].steps
  <2>1. nearest \in 1 .. Len(gain_table)
    BY NearestOfAll, GainAssumption
  <2>2. want \in [Stages -> Steps]
    BY <2>1, EntryGain DEF Usable
  <2>3. UNCHANGED gain_table
    BY <1>2 DEF set_total_gain_db
  <2>4. CASE TunerSetGains(want) /\ entry' = nearest
    <3>1. gains' = want
      BY <2>2, <2>4 DEF TunerSetGains
    <3> QED BY <2>1, <2>3, <2>4, <3>1
  <2>5. CASE TunerSetGainsFails(want) /\ UNCHANGED entry
    BY <2>3, <2>5 DEF TunerSetGainsFails
  <2> QED BY <1>2, <2>4, <2>5 DEF set_total_gain_db
<1>3. ASSUME NEW t \in GainTables, set_gain_table(t) PROVE GainInv'
  BY <1>3, SortedIsUsable DEF set_gain_table
<1>4. ASSUME NEW s \in Stages, NEW t \in StageTables, set_stage_table(s, t) PROVE GainInv'
  BY <1>4 DEF set_stage_table
<1> QED BY <1>1, <1>2, <1>3, <1>4 DEF GainNext, set_gain, set_gain_db

LEMMA NextGainInv == GainInv /\ [DeviceNext]_device_vars => GainInv'
<1> SUFFICES ASSUME GainInv, [DeviceNext]_device_vars PROVE GainInv'
  OBVIOUS
<1>1. CASE UNCHANGED gainVars
  BY <1>1 DEF gainVars, GainInv, Tables, EntryMatchesStages
<1>2. CASE OpenDevice
  <2>1. UNCHANGED gainVars \/ GainNext
    BY <1>2 DEF OpenDevice, TunerNext, GainCall, set_bandpass, set_sideband, Tune,
       Configure, Lock, Clock
  <2> QED BY <1>1, <2>1, GainStep
<1>3. CASE Close
  <2>1. DefaultGainTable \in GainTables
    BY GainAssumption DEF DefaultGainTable
  <2> QED BY <1>3, <2>1, SortedIsUsable DEF Close, Freed, GainInv, Tables, EntryMatchesStages
<1>4. CASE UNCHANGED device_vars
  BY <1>1, <1>4 DEF device_vars
<1> QED
  BY <1>1, <1>2, <1>3, <1>4 DEF DeviceNext, Allocate, OpenUsb, Claim, CheckVersions,
     PowerReset, InitTuner, SetTables, OpenFails, OtherProgram

LEMMA GainInvHolds == DeviceSpec => []GainInv
<1> QED BY InitGainInv, NextGainInv, PTL DEF DeviceSpec

\* For every table, sorted in whichever way qsort does it, and every gain asked for,
\* pg2sdr_set_total_gain_db picks an entry that no other is nearer than, although its
\* scan ends early.
THEOREM NearestIsNearestHolds == DeviceSpec => []NearestIsNearest
<1>1. GainInv => NearestIsNearest
  <2> SUFFICES ASSUME GainInv, NEW db \in Gains, NEW i \in DOMAIN gain_table
               PROVE  Distance(gain_table[Nearest(gain_table, db)].gain_db, db)
                        <= Distance(gain_table[i].gain_db, db)
    BY DEF NearestIsNearest
  <2>1. Usable(gain_table) /\ i \in 1 .. Len(gain_table)
    BY DEF GainInv, Tables, Usable
  <2> QED BY <2>1, NearestOfAll, GainAssumption DEF GainAt
<1> QED BY <1>1, GainInvHolds, PTL

-----------------------------------------------------------------------------
(* The registers. What the layout says is a matter of looking at it.       *)

FieldNames ==
  /\ FieldsOf(5) = {"PWD_LT", "R5_RESERVED_6_0", "PWD_LNA1", "LNA_GAIN_MODE", "LNA_GAIN"}
  /\ FieldsOf(6) = {"PWD_PDET1", "PWD_PDET2", "FILT_3DB", "R6_RESERVED_4_1", "R6_RESERVED_3_0",
       "PW_LNA"}
  /\ FieldsOf(7) = {"IMG_R", "PW_MIX", "PW0_MIX", "MIXGAIN_MODE", "MIX_GAIN"}
  /\ FieldsOf(8) = {"PW_AMP", "PW0_AMP", "IMR_G_PATH", "IMR_G"}
  /\ FieldsOf(9) = {"PWD_IFFILT", "PW1_IFFILT", "IMR_P_PATH", "IMR_P"}
  /\ FieldsOf(10) = {"PW_FILT", "FILTER_CUR", "IFFILT_Q", "IFFILT_FINE_LPF"}
  /\ FieldsOf(11) = {"IFFILT_NARROW", "IFFILT_COARSE_LPF", "CALIBRATION_TRIGGER",
       "IFFILT_HPF_CORNER"}
  /\ FieldsOf(12) = {"PWD_ADC", "PW_VGA", "R12_RESERVED_5_1", "VGA_GAIN_MODE", "VGA_GAIN"}
  /\ FieldsOf(13) = {"LNA_VTH_H", "LNA_VTH_L"}
  /\ FieldsOf(14) = {"MIX_VTH_H", "MIX_VTH_L"}
  /\ FieldsOf(15) = {"FLT_EXT_WIDEST", "R15_RESERVED_6_0", "R15_RESERVED_5_1", "CLK_OUT_DIS",
       "RING_DISABLE", "R15_RESERVED_2_0", "CLK_AGC_DIS", "R15_RESERVED_0_0"}
  /\ FieldsOf(16) = {"SEL_DIV", "REF_DIV2", "XTAL_DRIVE", "DET1_CAP", "CAPX"}
  /\ FieldsOf(17) = {"PW_LDO_A", "CP_CURRENT", "R17_RESERVED_2_0", "R17_RESERVED_1_0",
       "R17_RESERVED_0_0"}
  /\ FieldsOf(18) = {"VCO_CURRENT", "SDM_DITHER_DIS", "PWD_SDM", "R18_RESERVED_2_0",
       "R18_RESERVED_1_0", "R18_RESERVED_0_0"}
  /\ FieldsOf(19) = {"R18_RESERVED_7_0", "VCO_MODE", "VCO_DAC"}
  /\ FieldsOf(20) = {"S_I2C", "N_I2C"}
  /\ FieldsOf(21) = {"SDM_IN_LSB"}
  /\ FieldsOf(22) = {"SDM_IN_MSB"}
  /\ FieldsOf(23) = {"PW_LDO_D", "DIV_BUF_CUR", "OPEN_D", "R23_RESERVED_2_1",
       "R23_RESERVED_1_0", "R23_RESERVED_0_0"}
  /\ FieldsOf(24) = {"R24_RESERVED_7_0", "R24_RESERVED_6_1", "RING_SE23", "PW_RING", "RING_N"}
  /\ FieldsOf(25) = {"PW_RFFILT", "RFFILT_CURRENT", "SW_AGC", "R25_RESERVED_3_1",
       "R25_RESERVED_2_1", "RING_SELDIV"}
  /\ FieldsOf(26) = {"RFMUX", "AGC_CLOCK", "PLL_AUTO_CLK", "RFFILT"}
  /\ FieldsOf(27) = {"TF_NCH", "TF_LP"}
  /\ FieldsOf(28) = {"PDET3_GAIN", "R28_RESERVED_3_0", "DISCHARGE_MODE", "RF_SOURCE",
       "R28_RESERVED_0_0"}
  /\ FieldsOf(29) = {"DETECT_BW", "PDET1_GAIN", "PDET2_GAIN"}
  /\ FieldsOf(30) = {"SW_PDET", "FILTER_EXT", "PDET_CLK"}
  /\ FieldsOf(31) = {"LT_ATT", "R31_RESERVED_6_1", "R31_RESERVED_5_0", "R31_RESERVED_4_0",
       "R31_RESERVED_3_0", "R31_RESERVED_2_0", "RING_ATT"}

LEMMA NamesOfFields == FieldNames
<1> USE DEF FieldsOf, Layout, FirstRegister
<1>1. FieldsOf(5) = {"PWD_LT", "R5_RESERVED_6_0", "PWD_LNA1", "LNA_GAIN_MODE", "LNA_GAIN"}
  OBVIOUS
<1>2. FieldsOf(6) = {"PWD_PDET1", "PWD_PDET2", "FILT_3DB", "R6_RESERVED_4_1", "R6_RESERVED_3_0",
       "PW_LNA"}
  OBVIOUS
<1>3. FieldsOf(7) = {"IMG_R", "PW_MIX", "PW0_MIX", "MIXGAIN_MODE", "MIX_GAIN"}
  OBVIOUS
<1>4. FieldsOf(8) = {"PW_AMP", "PW0_AMP", "IMR_G_PATH", "IMR_G"}
  OBVIOUS
<1>5. FieldsOf(9) = {"PWD_IFFILT", "PW1_IFFILT", "IMR_P_PATH", "IMR_P"}
  OBVIOUS
<1>6. FieldsOf(10) = {"PW_FILT", "FILTER_CUR", "IFFILT_Q", "IFFILT_FINE_LPF"}
  OBVIOUS
<1>7. FieldsOf(11) = {"IFFILT_NARROW", "IFFILT_COARSE_LPF", "CALIBRATION_TRIGGER",
       "IFFILT_HPF_CORNER"}
  OBVIOUS
<1>8. FieldsOf(12) = {"PWD_ADC", "PW_VGA", "R12_RESERVED_5_1", "VGA_GAIN_MODE", "VGA_GAIN"}
  OBVIOUS
<1>9. FieldsOf(13) = {"LNA_VTH_H", "LNA_VTH_L"}
  OBVIOUS
<1>10. FieldsOf(14) = {"MIX_VTH_H", "MIX_VTH_L"}
  OBVIOUS
<1>11. FieldsOf(15) = {"FLT_EXT_WIDEST", "R15_RESERVED_6_0", "R15_RESERVED_5_1", "CLK_OUT_DIS",
       "RING_DISABLE", "R15_RESERVED_2_0", "CLK_AGC_DIS", "R15_RESERVED_0_0"}
  OBVIOUS
<1>12. FieldsOf(16) = {"SEL_DIV", "REF_DIV2", "XTAL_DRIVE", "DET1_CAP", "CAPX"}
  OBVIOUS
<1>13. FieldsOf(17) = {"PW_LDO_A", "CP_CURRENT", "R17_RESERVED_2_0", "R17_RESERVED_1_0",
       "R17_RESERVED_0_0"}
  OBVIOUS
<1>14. FieldsOf(18) = {"VCO_CURRENT", "SDM_DITHER_DIS", "PWD_SDM", "R18_RESERVED_2_0",
       "R18_RESERVED_1_0", "R18_RESERVED_0_0"}
  OBVIOUS
<1>15. FieldsOf(19) = {"R18_RESERVED_7_0", "VCO_MODE", "VCO_DAC"}
  OBVIOUS
<1>16. FieldsOf(20) = {"S_I2C", "N_I2C"}
  OBVIOUS
<1>17. FieldsOf(21) = {"SDM_IN_LSB"}
  OBVIOUS
<1>18. FieldsOf(22) = {"SDM_IN_MSB"}
  OBVIOUS
<1>19. FieldsOf(23) = {"PW_LDO_D", "DIV_BUF_CUR", "OPEN_D", "R23_RESERVED_2_1",
       "R23_RESERVED_1_0", "R23_RESERVED_0_0"}
  OBVIOUS
<1>20. FieldsOf(24) = {"R24_RESERVED_7_0", "R24_RESERVED_6_1", "RING_SE23", "PW_RING", "RING_N"}
  OBVIOUS
<1>21. FieldsOf(25) = {"PW_RFFILT", "RFFILT_CURRENT", "SW_AGC", "R25_RESERVED_3_1",
       "R25_RESERVED_2_1", "RING_SELDIV"}
  OBVIOUS
<1>22. FieldsOf(26) = {"RFMUX", "AGC_CLOCK", "PLL_AUTO_CLK", "RFFILT"}
  OBVIOUS
<1>23. FieldsOf(27) = {"TF_NCH", "TF_LP"}
  OBVIOUS
<1>24. FieldsOf(28) = {"PDET3_GAIN", "R28_RESERVED_3_0", "DISCHARGE_MODE", "RF_SOURCE",
       "R28_RESERVED_0_0"}
  OBVIOUS
<1>25. FieldsOf(29) = {"DETECT_BW", "PDET1_GAIN", "PDET2_GAIN"}
  OBVIOUS
<1>26. FieldsOf(30) = {"SW_PDET", "FILTER_EXT", "PDET_CLK"}
  OBVIOUS
<1>27. FieldsOf(31) = {"LT_ATT", "R31_RESERVED_6_1", "R31_RESERVED_5_0", "R31_RESERVED_4_0",
       "R31_RESERVED_3_0", "R31_RESERVED_2_0", "RING_ATT"}
  OBVIOUS
<1> HIDE DEF FieldsOf, Layout, FirstRegister
<1> QED BY <1>1, <1>2, <1>3, <1>4, <1>5, <1>6, <1>7, <1>8, <1>9, <1>10, <1>11, <1>12, <1>13, <1>14,
       <1>15, <1>16, <1>17, <1>18, <1>19, <1>20, <1>21, <1>22, <1>23, <1>24, <1>25, <1>26, <1>27 DEF FieldNames

\* The fields of a register do not overlap.
Apart(reg) ==
  \A f, g \in FieldsOf(reg) :
    f # g => Layout[reg - FirstRegister + 1][f] \cap Layout[reg - FirstRegister + 1][g] = {}

LEMMA FieldsApart == \A reg \in Registers : Apart(reg)
<1> USE DEF Apart, FieldsOf, Layout, FirstRegister, Bit, Bits
<1>1. Apart(5)
  OBVIOUS
<1>2. Apart(6)
  OBVIOUS
<1>3. Apart(7)
  OBVIOUS
<1>4. Apart(8)
  OBVIOUS
<1>5. Apart(9)
  OBVIOUS
<1>6. Apart(10)
  OBVIOUS
<1>7. Apart(11)
  OBVIOUS
<1>8. Apart(12)
  OBVIOUS
<1>9. Apart(13)
  OBVIOUS
<1>10. Apart(14)
  OBVIOUS
<1>11. Apart(15)
  OBVIOUS
<1>12. Apart(16)
  OBVIOUS
<1>13. Apart(17)
  OBVIOUS
<1>14. Apart(18)
  OBVIOUS
<1>15. Apart(19)
  OBVIOUS
<1>16. Apart(20)
  OBVIOUS
<1>17. Apart(21)
  OBVIOUS
<1>18. Apart(22)
  OBVIOUS
<1>19. Apart(23)
  OBVIOUS
<1>20. Apart(24)
  OBVIOUS
<1>21. Apart(25)
  OBVIOUS
<1>22. Apart(26)
  OBVIOUS
<1>23. Apart(27)
  OBVIOUS
<1>24. Apart(28)
  OBVIOUS
<1>25. Apart(29)
  OBVIOUS
<1>26. Apart(30)
  OBVIOUS
<1>27. Apart(31)
  OBVIOUS
<1> HIDE DEF Apart, FieldsOf, Layout, FirstRegister
<1> QED BY <1>1, <1>2, <1>3, <1>4, <1>5, <1>6, <1>7, <1>8, <1>9, <1>10, <1>11, <1>12, <1>13, <1>14,
       <1>15, <1>16, <1>17, <1>18, <1>19, <1>20, <1>21, <1>22, <1>23, <1>24, <1>25, <1>26, <1>27
    DEF Registers, TUNER_REG_COUNT, FirstRegister

\* No two registers have a field of the same name.
Own(reg) == \A f \in FieldsOf(reg) : \A other \in Registers : f \in FieldsOf(other) => other = reg

LEMMA FieldsOwn == \A reg \in Registers : Own(reg)
<1> USE NamesOfFields DEF Own, FieldNames, Registers, TUNER_REG_COUNT, FirstRegister
<1>1. Own(5) /\ Own(6) /\ Own(7) /\ Own(8) /\ Own(9) /\ Own(10) /\ Own(11) /\ Own(12) /\ Own(13)
  OBVIOUS
<1>2. Own(14) /\ Own(15) /\ Own(16) /\ Own(17) /\ Own(18) /\ Own(19) /\ Own(20) /\ Own(21) /\
     Own(22)
  OBVIOUS
<1>3. Own(23) /\ Own(24) /\ Own(25) /\ Own(26) /\ Own(27) /\ Own(28) /\ Own(29) /\ Own(30) /\
     Own(31)
  OBVIOUS
<1> HIDE NamesOfFields DEF FieldNames, Own
<1> QED BY <1>1, <1>2, <1>3

\* A field is in the register it is said to be in.
LEMMA FieldPlace ==
  ASSUME NEW f \in Fields
  PROVE  RegisterOf[f] \in Registers /\ f \in FieldsOf(RegisterOf[f])
<1>1. \E reg \in Registers : f \in FieldsOf(reg)
  BY DEF Fields
<1>2. RegisterOf[f] = CHOOSE reg \in Registers : f \in FieldsOf(reg)
  BY DEF RegisterOf
<1> QED BY <1>1, <1>2

\* And in no other.
LEMMA FieldHome ==
  ASSUME NEW reg \in Registers, NEW f \in FieldsOf(reg)
  PROVE  f \in Fields /\ RegisterOf[f] = reg
<1>1. f \in Fields
  BY DEF Fields
<1>2. RegisterOf[f] \in Registers /\ f \in FieldsOf(RegisterOf[f])
  BY <1>1, FieldPlace
<1> QED BY <1>1, <1>2, FieldsOwn DEF Own

\* Two fields of a register share no bit.
LEMMA BitsApart ==
  ASSUME NEW f \in Fields, NEW g \in Fields, f # g, RegisterOf[f] = RegisterOf[g]
  PROVE  BitsOf[f] \cap BitsOf[g] = {}
<1> DEFINE reg == RegisterOf[f]
<1>1. reg \in Registers /\ f \in FieldsOf(reg) /\ g \in FieldsOf(reg)
  BY FieldPlace
<1>2. /\ BitsOf[f] = Layout[reg - FirstRegister + 1][f]
      /\ BitsOf[g] = Layout[reg - FirstRegister + 1][g]
  BY DEF BitsOf
<1> HIDE DEF reg
<1> QED BY <1>1, <1>2, FieldsApart DEF Apart

\* A write that succeeds sets the fields it was given.
LEMMA WriteSets ==
  ASSUME NEW rs, NEW cs, DOMAIN cs \subseteq Fields, NEW f \in DOMAIN cs
  PROVE  Holds(Write(rs, cs), f, cs[f])
<1> DEFINE reg == RegisterOf[f]
<1>1. reg \in Registers /\ f \in FieldsOf(reg) /\ f \in Fields
  BY FieldPlace
<1>2. reg \in Payload(cs) /\ reg < TUNER_REG_COUNT
  <2>1. reg < TUNER_REG_COUNT /\ reg <= reg
    BY <1>1 DEF Registers, TUNER_REG_COUNT, FirstRegister
  <2> QED BY <1>1, <2>1 DEF Payload
<1>3. Write(rs, cs)[reg] = (rs[reg] \ Mask(cs, reg)) \cup NewBits(cs, reg)
  BY <1>1, <1>2 DEF Write, WriteUpTo
<1>4. BitsOf[f] \subseteq Mask(cs, reg)
  BY <1>1 DEF Mask
<1>5. Encode(f, cs[f]) \subseteq NewBits(cs, reg) /\ Encode(f, cs[f]) \subseteq BitsOf[f]
  BY <1>1 DEF NewBits, Encode
<1>6. ASSUME NEW i \in NewBits(cs, reg), i \in BitsOf[f] PROVE i \in Encode(f, cs[f])
  <2>1. PICK g \in DOMAIN cs \cap FieldsOf(reg) : i \in Encode(g, cs[g])
    BY DEF NewBits
  <2>2. i \in BitsOf[g] /\ g \in Fields /\ RegisterOf[g] = reg
    BY <1>1, <2>1, FieldHome DEF Encode
  <2> QED BY <1>1, <1>6, <2>1, <2>2, BitsApart
<1>7. Write(rs, cs)[reg] \cap BitsOf[f] = Encode(f, cs[f])
  BY <1>3, <1>4, <1>5, <1>6
<1> QED BY <1>7 DEF Holds

\* And what it was not given stays, however far it gets.
LEMMA WriteKeeps ==
  ASSUME NEW rs, NEW cs, DOMAIN cs \subseteq Fields, NEW end, NEW f \in Fields \ DOMAIN cs, NEW v,
         Holds(rs, f, v)
  PROVE  Holds(WriteUpTo(rs, cs, end), f, v)
<1> DEFINE reg == RegisterOf[f]
           w == WriteUpTo(rs, cs, end)
<1>1. reg \in Registers /\ f \in FieldsOf(reg)
  BY FieldPlace
<1>2. w[reg] = rs[reg] \/ w[reg] = (rs[reg] \ Mask(cs, reg)) \cup NewBits(cs, reg)
  BY <1>1 DEF WriteUpTo
<1>3. ASSUME NEW g \in DOMAIN cs \cap FieldsOf(reg) PROVE BitsOf[g] \cap BitsOf[f] = {}
  <2>1. g \in Fields /\ RegisterOf[g] = reg
    BY <1>1, FieldHome
  <2> QED BY <2>1, BitsApart
<1>4. Mask(cs, reg) \cap BitsOf[f] = {} /\ NewBits(cs, reg) \cap BitsOf[f] = {}
  BY <1>3 DEF Mask, NewBits, Encode
<1> HIDE DEF w
<1>5. w[reg] \cap BitsOf[f] = rs[reg] \cap BitsOf[f]
  BY <1>2, <1>4
<1> QED BY <1>5 DEF Holds, w

\* What the library sets while a device is open.
GainFields == {"LNA_GAIN", "MIX_GAIN", "VGA_GAIN"}
PllFields ==
  {"N_I2C", "S_I2C", "IMG_R", "PW_LDO_A", "PW_LDO_D", "PWD_SDM", "SEL_DIV", "REF_DIV2",
   "SDM_IN_LSB", "SDM_IN_MSB", "PLL_AUTO_CLK", "VCO_CURRENT", "VCO_MODE", "VCO_DAC"}

\* Gains, filter and PLL have fields of their own.
LEMMA LiveFieldsAre ==
  /\ LiveFields = FilterFields \cup GainFields \cup PllFields
  /\ \A s \in Stages : GainField[s] \in GainFields
  /\ \A s \in Stages, u \in Stages : GainField[s] = GainField[u] => s = u
  /\ FilterFields \cap GainFields = {} /\ FilterFields \cap PllFields = {}
  /\ GainFields \cap PllFields = {}
BY DEF LiveFields, FilterFields, GainFields, PllFields, GainField, Stages

LEMMA LiveFieldsExist == FilterFields \cup GainFields \cup PllFields \subseteq Fields
<1>1. \A reg \in 5 .. 31 : FieldsOf(reg) \subseteq Fields
  BY DEF Fields, Registers, FirstRegister, TUNER_REG_COUNT
<1>2. FilterFields \subseteq FieldsOf(10) \cup FieldsOf(11)
  BY NamesOfFields DEF FieldNames, FilterFields
<1>3. GainFields \subseteq FieldsOf(5) \cup FieldsOf(7) \cup FieldsOf(12)
  BY NamesOfFields DEF FieldNames, GainFields
<1>4. PllFields \subseteq FieldsOf(7) \cup FieldsOf(16) \cup FieldsOf(17) \cup FieldsOf(18)
        \cup FieldsOf(19) \cup FieldsOf(20) \cup FieldsOf(21) \cup FieldsOf(22)
        \cup FieldsOf(23) \cup FieldsOf(26)
  BY NamesOfFields DEF FieldNames, PllFields
<1> QED BY <1>1, <1>2, <1>3, <1>4

-----------------------------------------------------------------------------
(* The settings and the registers.                                          *)

FixedHeld(rs) == \A f \in Fields \ LiveFields : Holds(rs, f, InitialValue[f])

\* Until the tuner is initialised the library believes nothing of it but that the gains are 0.
Fresh == gains = [s \in Stages |-> 0] /\ in_doubt = {} /\ filter = <<>>

Ready == dev \in {"tables", "open"}
RegInv ==
  /\ dev # "open" => Fresh
  /\ Ready => SettingsKept /\ FixedHeld(regs)

\* Fields that each hold their value make up a register that does.
LEMMA FixedFields ==
  ASSUME FixedHeld(regs)
  PROVE  FixedFieldsKept
<1> SUFFICES ASSUME NEW reg \in Registers
             PROVE  regs[reg] \cap Mask(FixedValue, reg) = NewBits(FixedValue, reg)
  BY DEF FixedFieldsKept, FixedMask, FixedBits
<1>1. DOMAIN FixedValue = Fields \ LiveFields
  BY DEF FixedValue
<1>2. ASSUME NEW f \in DOMAIN FixedValue \cap FieldsOf(reg)
      PROVE  regs[reg] \cap BitsOf[f] = Encode(f, FixedValue[f])
  <2>1. RegisterOf[f] = reg
    BY FieldHome
  <2>2. Holds(regs, f, InitialValue[f]) /\ FixedValue[f] = InitialValue[f]
    BY <1>1 DEF FixedHeld, FixedValue
  <2> QED BY <2>1, <2>2 DEF Holds
<1> QED BY <1>2 DEF Mask, NewBits

\* A write that succeeds and one that fails both get to some register.
LEMMA Reach ==
  ASSUME NEW cs, WriteChanges(cs) \/ WriteFails(cs)
  PROVE  \E end : regs' = WriteUpTo(regs, cs, end)
BY DEF WriteChanges, WriteFails, Write, PartialWrites

\* A write of other fields disturbs none that holds its value.
LEMMA Undisturbed ==
  ASSUME NEW cs, DOMAIN cs \subseteq Fields, WriteChanges(cs) \/ WriteFails(cs),
         NEW f \in Fields \ DOMAIN cs, NEW v, Holds(regs, f, v)
  PROVE  Holds(regs', f, v)
<1>1. PICK end : regs' = WriteUpTo(regs, cs, end)
  BY Reach
<1> QED BY <1>1, WriteKeeps

LEMMA FixedUndisturbed ==
  ASSUME NEW cs, DOMAIN cs \subseteq LiveFields, WriteChanges(cs) \/ WriteFails(cs),
         FixedHeld(regs)
  PROVE  FixedHeld(regs')
<1>1. DOMAIN cs \subseteq Fields
  BY LiveFieldsAre, LiveFieldsExist
<1> QED BY <1>1, Undisturbed DEF FixedHeld

\* A stage's change is the step that was asked of it, in its own field.
LEMMA ChangesAre ==
  ASSUME NEW want, DOMAIN want \subseteq Stages
  PROVE  /\ DOMAIN Changes(want) = {GainField[s] : s \in Differs(want)}
         /\ DOMAIN Changes(want) \subseteq GainFields
         /\ \A s \in Differs(want) :
              GainField[s] \in DOMAIN Changes(want) /\ Changes(want)[GainField[s]] = want[s]
         /\ \A s \in Stages \ Differs(want) : GainField[s] \notin DOMAIN Changes(want)
<1>1. Differs(want) \subseteq Stages
  BY DEF Differs
<1>2. DOMAIN Changes(want) = {GainField[s] : s \in Differs(want)}
  BY DEF Changes
<1>3. ASSUME NEW s \in Differs(want) PROVE Changes(want)[GainField[s]] = want[s]
  <2> DEFINE u == CHOOSE u \in Stages : GainField[u] = GainField[s]
  <2>1. u \in Stages /\ GainField[u] = GainField[s]
    BY <1>1
  <2>2. u = s
    BY <1>1, <2>1, LiveFieldsAre
  <2>3. Changes(want)[GainField[s]] = want[u]
    BY DEF Changes
  <2> QED BY <2>2, <2>3
<1> QED BY <1>1, <1>2, <1>3, LiveFieldsAre

\* The gains, whether their write succeeds or stops anywhere.
LEMMA GainsKept ==
  ASSUME NEW want, DOMAIN want \subseteq Stages, SettingsKept, FixedHeld(regs),
         TunerSetGains(want) \/ TunerSetGainsFails(want), UNCHANGED filter
  PROVE  SettingsKept' /\ FixedHeld(regs')
<1> DEFINE cs == Changes(want)
<1>1. WriteChanges(cs) \/ WriteFails(cs)
  BY DEF TunerSetGains, TunerSetGainsFails
<1>2. /\ DOMAIN cs \subseteq Fields /\ DOMAIN cs \subseteq LiveFields
      /\ FilterFields \subseteq Fields \ DOMAIN cs
      /\ \A s \in Stages : GainField[s] \in Fields
  BY ChangesAre, LiveFieldsAre, LiveFieldsExist
<1>3. FixedHeld(regs')
  BY <1>1, <1>2, FixedUndisturbed
<1>4. ASSUME filter' # <<>>, NEW f \in FilterFields PROVE Holds(regs', f, filter'[f])
  <2>1. Holds(regs, f, filter[f])
    BY <1>4 DEF SettingsKept
  <2> QED BY <1>1, <1>2, <2>1, Undisturbed
<1>5. ASSUME NEW s \in Stages \ Differs(want), s \notin in_doubt
      PROVE  Holds(regs', GainField[s], gains[s])
  <2>1. Holds(regs, GainField[s], gains[s])
    BY <1>5 DEF SettingsKept
  <2>2. GainField[s] \in Fields \ DOMAIN cs
    BY <1>2, ChangesAre
  <2> QED BY <1>1, <1>2, <2>1, <2>2, Undisturbed
<1>6. ASSUME NEW s \in Stages \ in_doubt' PROVE Holds(regs', GainField[s], gains'[s])
  <2>1. CASE TunerSetGains(want)
    <3>1. /\ regs' = Write(regs, cs) /\ in_doubt' = in_doubt \ Differs(want)
          /\ gains'[s] = IF s \in DOMAIN want THEN want[s] ELSE gains[s]
      BY <2>1 DEF TunerSetGains, WriteChanges
    <3>2. CASE s \in Differs(want)
      <4>1. gains'[s] = want[s]
        BY <3>1, <3>2 DEF Differs
      <4>2. cs[GainField[s]] = want[s] /\ GainField[s] \in DOMAIN cs
        BY ONLY DOMAIN want \subseteq Stages, <3>2, ChangesAre
      <4> HIDE DEF cs
      <4>3. Holds(Write(regs, cs), GainField[s], cs[GainField[s]])
        BY <1>2, <4>2, WriteSets
      <4> QED BY <3>1, <4>1, <4>2, <4>3
    <3>3. CASE s \notin Differs(want)
      <4>1. gains'[s] = gains[s] /\ s \notin in_doubt
        BY <3>1, <3>3, <1>6 DEF Differs
      <4> QED BY <1>5, <3>3, <4>1
    <3> QED BY <3>2, <3>3
  <2>2. CASE TunerSetGainsFails(want)
    <3>1. s \notin Differs(want) /\ s \notin in_doubt /\ gains' = gains
      BY <2>2, <1>6 DEF TunerSetGainsFails
    <3> QED BY <1>5, <3>1
  <2> QED BY <2>1, <2>2
<1>7. \A s \in Stages \ in_doubt' : Holds(regs', GainField[s], gains'[s])
  BY <1>6
<1>8. filter' # <<>> => \A f \in FilterFields : Holds(regs', f, filter'[f])
  BY <1>4
<1> QED BY <1>3, <1>7, <1>8 DEF SettingsKept

\* A write of fields that are neither gains nor of the filter.
LEMMA OthersKept ==
  ASSUME NEW cs, DOMAIN cs \subseteq PllFields, WriteChanges(cs) \/ WriteFails(cs),
         SettingsKept, FixedHeld(regs), UNCHANGED <<gains, in_doubt, filter>>
  PROVE  SettingsKept' /\ FixedHeld(regs')
<1>1. /\ DOMAIN cs \subseteq Fields /\ DOMAIN cs \subseteq LiveFields
      /\ FilterFields \subseteq Fields \ DOMAIN cs
      /\ \A s \in Stages : GainField[s] \in Fields \ DOMAIN cs
  BY LiveFieldsAre, LiveFieldsExist
<1>2. FixedHeld(regs')
  BY <1>1, FixedUndisturbed
<1>3. \A s \in Stages \ in_doubt' : Holds(regs', GainField[s], gains'[s])
  BY <1>1, Undisturbed DEF SettingsKept
<1>4. filter' # <<>> => \A f \in FilterFields : Holds(regs', f, filter'[f])
  BY <1>1, Undisturbed DEF SettingsKept
<1> QED BY <1>2, <1>3, <1>4 DEF SettingsKept

\* The filter is what was written, or nobody knows.
LEMMA FilterKept ==
  ASSUME NEW settings \in Filters, set_bandpass(settings), SettingsKept, FixedHeld(regs)
  PROVE  SettingsKept' /\ FixedHeld(regs')
<1>1. DOMAIN settings = FilterFields
  BY TunerAssumption
<1>2. WriteChanges(settings) \/ WriteFails(settings)
  BY DEF set_bandpass
<1>3. UNCHANGED <<gains, in_doubt>>
  BY DEF set_bandpass, gainVars
<1>4. /\ DOMAIN settings \subseteq Fields /\ DOMAIN settings \subseteq LiveFields
      /\ \A s \in Stages : GainField[s] \in Fields \ DOMAIN settings
  BY <1>1, LiveFieldsAre, LiveFieldsExist
<1>5. FixedHeld(regs')
  BY <1>2, <1>4, FixedUndisturbed
<1>6. \A s \in Stages \ in_doubt' : Holds(regs', GainField[s], gains'[s])
  BY <1>2, <1>3, <1>4, Undisturbed DEF SettingsKept
<1>7. ASSUME filter' # <<>>, NEW f \in FilterFields PROVE Holds(regs', f, filter'[f])
  <2>1. regs' = Write(regs, settings) /\ filter' = settings
    BY <1>7 DEF set_bandpass, WriteChanges
  <2> QED BY <1>1, <1>4, <2>1, WriteSets
<1> QED BY <1>5, <1>6, <1>7 DEF SettingsKept

\* Nothing is written and nothing believed anew.
LEMMA NothingWritten ==
  ASSUME SettingsKept, FixedHeld(regs), UNCHANGED <<regs, gains, in_doubt, filter>>
  PROVE  SettingsKept' /\ FixedHeld(regs')
BY DEF SettingsKept

LEMMA GainCallKept ==
  ASSUME GainInv, GainCall, SettingsKept, FixedHeld(regs)
  PROVE  SettingsKept' /\ FixedHeld(regs')
<1>0. UNCHANGED filter
  BY DEF GainCall, tunerVars
<1>1. ASSUME NEW s \in Stages, NEW g, SetStage(s, g) PROVE SettingsKept' /\ FixedHeld(regs')
  BY <1>0, <1>1, GainsKept DEF SetStage
<1>2. ASSUME NEW db \in Gains, set_total_gain_db(db) PROVE SettingsKept' /\ FixedHeld(regs')
  <2> DEFINE nearest == Nearest(gain_table, db)
             want == gain_table[nearest].steps
  <2>1. nearest \in 1 .. Len(gain_table)
    BY NearestOfAll, GainAssumption DEF GainInv, Tables
  <2>2. DOMAIN want \subseteq Stages
    BY <2>1, EntryGain DEF GainInv, Tables, Usable
  <2>3. TunerSetGains(want) \/ TunerSetGainsFails(want)
    BY <1>2 DEF set_total_gain_db
  <2> HIDE DEF want
  <2> QED BY <1>0, <2>2, <2>3, GainsKept
<1>3. ASSUME NEW t \in GainTables, set_gain_table(t) PROVE SettingsKept' /\ FixedHeld(regs')
  BY <1>0, <1>3, NothingWritten DEF set_gain_table
<1>4. ASSUME NEW s \in Stages, NEW t \in StageTables, set_stage_table(s, t)
      PROVE  SettingsKept' /\ FixedHeld(regs')
  BY <1>0, <1>4, NothingWritten DEF set_stage_table
<1> QED BY <1>1, <1>2, <1>3, <1>4 DEF GainCall, GainNext, set_gain, set_gain_db

\* The PLL's change set is written whatever it says, and so are the VCO current and the
\* clock of the locking loop.
LEMMA PllKept ==
  ASSUME Configure \/ Lock \/ Clock, SettingsKept, FixedHeld(regs)
  PROVE  SettingsKept' /\ FixedHeld(regs')
<1>1. UNCHANGED <<gains, in_doubt, filter>>
  BY DEF Configure, Lock, Clock, gainVars
<1>2. ASSUME NEW p, NEW dac PROVE DOMAIN PllChanges(p, dac) \subseteq PllFields
  BY DEF PllChanges, Divider, PllFields
<1>3. \E cs : DOMAIN cs \subseteq PllFields /\ (WriteChanges(cs) \/ WriteFails(cs))
  <2>1. CASE Configure
    BY <1>2, <2>1 DEF Configure
  <2>2. CASE Lock
    <3>1. DOMAIN [VCO_CURRENT |-> current] \subseteq PllFields
      BY DEF PllFields
    <3> QED BY <2>2, <3>1 DEF Lock
  <2>3. CASE Clock
    <3>1. DOMAIN [PLL_AUTO_CLK |-> 2] \subseteq PllFields
      BY DEF PllFields
    <3> QED BY <2>3, <3>1 DEF Clock
  <2> QED BY <2>1, <2>2, <2>3
<1> QED BY <1>1, <1>3, OthersKept

\* What initialising the tuner writes is what a new device is taken to be set to.
LEMMA TunerInitialised ==
  ASSUME InitTuner, Fresh
  PROVE  SettingsKept' /\ FixedHeld(regs')
<1>1. regs' = Write(regs, InitialValue) /\ UNCHANGED <<gains, in_doubt, filter>>
  BY DEF InitTuner, WriteChanges, gainVars, tunerVars
<1>2. DOMAIN InitialValue = Fields
  BY DEF InitialValue
<1>3. FixedHeld(regs')
  BY <1>1, <1>2, WriteSets DEF FixedHeld
<1>4. ASSUME NEW s \in Stages PROVE Holds(regs', GainField[s], gains'[s])
  <2>1. GainField[s] \in GainFields /\ GainField[s] \in Fields
    BY LiveFieldsAre, LiveFieldsExist
  <2>2. GainField[s] \notin DOMAIN NonZero
    BY <2>1 DEF GainFields, NonZero
  <2>3. InitialValue[GainField[s]] = 0 /\ gains'[s] = 0
    BY <1>1, <2>1, <2>2 DEF InitialValue, Fresh
  <2>4. Holds(regs', GainField[s], InitialValue[GainField[s]])
    BY <1>1, <1>2, <2>1, WriteSets
  <2> QED BY <2>3, <2>4
<1>5. filter' = <<>>
  BY <1>1 DEF Fresh
<1> QED BY <1>3, <1>4, <1>5 DEF SettingsKept

LEMMA InitRegInv == DeviceInit => RegInv
BY DEF DeviceInit, Initial, RegInv, Fresh, Ready

LEMMA NextRegInv == HeldInv /\ GainInv /\ RegInv /\ [DeviceNext]_device_vars => RegInv'
<1> SUFFICES ASSUME HeldInv, GainInv, RegInv, [DeviceNext]_device_vars PROVE RegInv'
  OBVIOUS
<1>1. CASE Allocate \/ OpenUsb \/ Claim \/ CheckVersions \/ PowerReset
  <2>1. UNCHANGED <<gains, in_doubt, filter>> /\ dev # "open" /\ dev' \notin {"tables", "open"}
    BY <1>1 DEF Allocate, OpenUsb, Claim, CheckVersions, PowerReset, Then, gainVars, tunerVars
  <2> QED BY <2>1 DEF RegInv, Fresh, Ready
<1>2. CASE InitTuner
  <2>1. UNCHANGED <<gains, in_doubt, filter>> /\ dev # "open" /\ dev' = "tables"
    BY <1>2 DEF InitTuner, Then, gainVars, tunerVars
  <2> QED BY <1>2, <2>1, TunerInitialised DEF RegInv, Fresh
<1>3. CASE SetTables
  <2>1. UNCHANGED <<regs, gains, in_doubt, filter>> /\ dev = "tables" /\ dev' = "open"
    BY <1>3 DEF SetTables, Then, gainVars, tunerVars
  <2> QED BY <2>1, NothingWritten DEF RegInv, Ready
<1>4. CASE OpenFails
  <2>1. UNCHANGED <<gains, in_doubt, filter>> /\ dev # "open" /\ dev' = "none"
    BY <1>4 DEF OpenFails, Cleanup, gainVars, tunerVars
  <2> QED BY <2>1 DEF RegInv, Fresh, Ready
<1>5. CASE Close
  BY <1>5 DEF Close, Freed, RegInv, Fresh, Ready
<1>6. CASE OpenDevice
  <2>1. dev = "open" /\ dev' = "open" /\ SettingsKept /\ FixedHeld(regs)
    BY <1>6 DEF OpenDevice, lifeVars, RegInv, Ready
  <2>2. SettingsKept' /\ FixedHeld(regs')
    <3>1. CASE GainCall
      BY <2>1, <3>1, GainCallKept
    <3>2. ASSUME NEW settings \in Filters, set_bandpass(settings)
          PROVE  SettingsKept' /\ FixedHeld(regs')
      BY <2>1, <3>2, FilterKept
    <3>3. CASE set_sideband \/ \E f \in Frequencies : Tune(f)
      <4>1. UNCHANGED <<regs, gains, in_doubt, filter>>
        BY <3>3 DEF set_sideband, Tune, gainVars
      <4> QED BY <2>1, <4>1, NothingWritten
    <3>4. CASE Configure \/ Lock \/ Clock
      BY <2>1, <3>4, PllKept
    <3> QED BY <1>6, <3>1, <3>2, <3>3, <3>4 DEF OpenDevice, TunerNext
  <2> QED BY <2>1, <2>2 DEF RegInv
<1>7. CASE OtherProgram
  <2>1. UNCHANGED <<dev, gains, in_doubt, filter>> /\ ~Ready
    BY <1>7 DEF OtherProgram, gainVars, tunerVars, HeldInv, NothingLeaks, Ready
  <2> QED BY <2>1 DEF RegInv, Fresh, Ready
<1>8. CASE UNCHANGED device_vars
  <2>1. UNCHANGED <<dev, regs, gains, in_doubt, filter>>
    BY <1>8 DEF device_vars, gainVars, tunerVars, lifeVars
  <2> QED BY <2>1, NothingWritten DEF RegInv, Fresh, Ready
<1> QED
  BY <1>1, <1>2, <1>3, <1>4, <1>5, <1>6, <1>7, <1>8 DEF DeviceNext

\* The gain steps and the filter the library believes in are in the registers of an open
\* device, and the fields set once and for all are as they were set, whatever the tuner
\* held when it was opened, whatever else is written to registers they share, and at
\* whichever register a write fails (tuner.c, set_tuner_bits and the change sets; the
\* in-between registers of a payload are written with an empty mask).
THEOREM SettingsInRegistersHolds == DeviceSpec => []SettingsInRegisters
<1>1. RegInv => SettingsInRegisters
  BY FixedFields DEF RegInv, Ready, SettingsInRegisters, Opened
<1>2. DeviceSpec => []HeldInv
  BY InitHeldInv, NextHeldInv, PTL DEF DeviceSpec
<1> QED BY <1>1, <1>2, InitRegInv, NextRegInv, GainInvHolds, PTL DEF DeviceSpec

\* While an entry of the gain table is taken to be in use, the steps the library
\* keeps are the entry's, and so is what the tuner's registers hold for every
\* stage whose last write did not fail: there pg2sdr_set_total_gain_db may skip
\* the write. Nothing is said of a stage whose last write failed; the skip can be
\* wrong for it.
THEOREM EntryInUseHolds == DeviceSpec => []EntryInUse
<1>1. GainInv /\ SettingsInRegisters => EntryInUse
  BY DEF GainInv, EntryMatchesStages, EntryInTuner, SettingsInRegisters, SettingsKept,
         EntryInUse, Opened
<1> QED BY <1>1, GainInvHolds, SettingsInRegistersHolds, PTL

-----------------------------------------------------------------------------
(* What a field's bits say: the number in a field that holds a value.       *)

\* The sum that makes a number of a field's bits, one bit after the other.
Term(rs, f, i) == IF i \in rs[RegisterOf[f]] \cap BitsOf[f] THEN 2 ^ (i - Lsb[f]) ELSE 0

LEMMA SumOfBits ==
  ASSUME NEW rs, NEW f, \A i \in 0 .. 7 : Term(rs, f, i) \in Nat
  PROVE  \E g \in [0 .. 8 -> Nat] :
           /\ g[0] = 0 /\ \A i \in 0 .. 7 : g[i + 1] = g[i] + Term(rs, f, i)
           /\ Value(rs, f) = g[8]
<1> DEFINE Body(s) == [i \in -1 .. 7 |-> IF i = -1 THEN 0 ELSE s[i - 1] + Term(rs, f, i)]
           inc == [i \in 1 .. 8 |-> [x \in Nat |-> x + Term(rs, f, i - 1)]]
<1>1. inc \in [1 .. 8 -> [Nat -> Nat]]
  OBVIOUS
<1>2. \E g \in [0 .. 8 -> Nat] : g[0] = 0 /\ \A i \in 1 .. 8 : g[i] = inc[i][g[i - 1]]
  <2> DEFINE n == 8
  <2>1. n \in Nat /\ 0 \in Nat /\ inc \in [1 .. n -> [Nat -> Nat]]
    BY <1>1
  <2> HIDE DEF inc, n
  <2>2. \E g \in [0 .. n -> Nat] : g[0] = 0 /\ \A i \in 1 .. n : g[i] = inc[i][g[i - 1]]
    BY <2>1, RecursiveFunction
  <2> QED BY <2>2 DEF n
<1>3. PICK g \in [0 .. 8 -> Nat] : g[0] = 0 /\ \A i \in 1 .. 8 : g[i] = inc[i][g[i - 1]]
  BY <1>2
<1>4. ASSUME NEW i \in 0 .. 7 PROVE g[i + 1] = g[i] + Term(rs, f, i)
  <2>1. i + 1 \in 1 .. 8 /\ (i + 1) - 1 = i /\ i \in 0 .. 8
    OBVIOUS
  <2>2. g[i + 1] = inc[i + 1][g[i]] /\ g[i] \in Nat
    BY <1>3, <2>1
  <2>3. inc[i + 1] = [x \in Nat |-> x + Term(rs, f, i)]
    BY <2>1
  <2> QED BY <2>2, <2>3
<1> DEFINE h == [i \in -1 .. 7 |-> g[i + 1]]
           sum == CHOOSE s : s = Body(s)
<1>5. h = Body(h)
  <2> SUFFICES ASSUME NEW i \in -1 .. 7 PROVE h[i] = IF i = -1 THEN 0 ELSE h[i - 1] + Term(rs, f, i)
    OBVIOUS
  <2>1. CASE i = -1
    BY <1>3, <2>1
  <2>2. CASE i # -1
    <3>1. i \in 0 .. 7 /\ i - 1 \in -1 .. 7 /\ (i - 1) + 1 = i
      BY <2>2
    <3> QED BY <1>4, <2>2, <3>1
  <2> QED BY <2>1, <2>2
<1>6. sum = Body(sum)
  <2> HIDE DEF h, Body
  <2> QED BY <1>5
<1>7. Value(rs, f) = sum[7]
  BY DEF Value, Term
<1> HIDE DEF sum
\* There is no other such sum.
<1>8. sum[7] = g[8]
  <2> DEFINE S == {i \in 0 .. 8 : sum[i - 1] = g[i]}
  <2>1. S \in SUBSET (0 .. 8) /\ 0 \in S
    <3>1. sum[0 - 1] = 0
      BY <1>6
    <3> QED BY <1>3, <3>1
  <2>2. ASSUME NEW i \in S, i < 8 PROVE i + 1 \in S
    <3>1. i \in 0 .. 7 /\ i + 1 \in 0 .. 8 /\ (i + 1) - 1 = i /\ i # -1 /\ i \in -1 .. 7
          /\ sum[i - 1] = g[i]
      BY <2>2
    <3> HIDE DEF S
    <3>2. sum[i] = sum[i - 1] + Term(rs, f, i)
      BY <1>6, <3>1
    <3>3. sum[(i + 1) - 1] = g[i + 1]
      BY <1>4, <3>1, <3>2
    <3> QED BY <3>1, <3>3 DEF S
  <2> HIDE DEF S
  <2>3. 8 \in S
    <3>1. 8 \in Nat
      OBVIOUS
    <3>2. S = 0 .. 8
      BY <2>1, <2>2, <3>1, BoundedInduction
    <3> QED BY <3>2
  <2> QED BY <2>3 DEF S
<1> QED BY <1>3, <1>4, <1>7, <1>8

Place(f, lsb, msb) == BitsOf[f] = lsb .. msb
Modulus(lsb, msb) == 2 ^ (msb - lsb + 1)

\* A field that holds a value has for its number as many digits of the value as it has bits.
LEMMA ValueOfHeld ==
  ASSUME NEW rs, NEW f \in Fields, NEW lsb \in Nat, NEW msb \in Nat, lsb <= msb, msb <= 7,
         Place(f, lsb, msb), NEW v \in Nat, Holds(rs, f, v)
  PROVE  Value(rs, f) = v % Modulus(lsb, msb)
<1> DEFINE w == msb - lsb + 1
<1>0. w \in Nat \ {0} /\ lsb + w <= 8 /\ BitsOf[f] = lsb .. lsb + w - 1
  BY DEF Place
<1> HIDE DEF w
<1>1. Lsb[f] = lsb
  <2> DEFINE c == CHOOSE i \in lsb .. lsb + w - 1 : \A j \in lsb .. lsb + w - 1 : i <= j
  <2>1. Lsb[f] = c
    BY <1>0 DEF Lsb
  <2>2. lsb \in lsb .. lsb + w - 1 /\ \A j \in lsb .. lsb + w - 1 : lsb <= j
    BY <1>0
  <2>3. c \in lsb .. lsb + w - 1 /\ \A j \in lsb .. lsb + w - 1 : c <= j
    BY <2>2
  <2> HIDE DEF c
  <2>4. c = lsb
    BY <2>2, <2>3
  <2> QED BY <2>1, <2>4
<1>2. ASSUME NEW i \in 0 .. 7
      PROVE  Term(rs, f, i) = IF lsb <= i /\ i < lsb + w /\ (v \div 2 ^ (i - lsb)) % 2 = 1
                              THEN 2 ^ (i - lsb) ELSE 0
  <2>1. i \in BitsOf[f] <=> lsb <= i /\ i < lsb + w
    BY <1>0
  <2> QED BY <1>1, <2>1 DEF Term, Holds, Encode
<1>3. ASSUME NEW i \in 0 .. 7 PROVE Term(rs, f, i) \in Nat
  <2>1. CASE lsb <= i
    <3>1. 2 ^ (i - lsb) \in Nat
      BY <2>1, PowersOfTwo
    <3> QED BY <1>2, <3>1
  <2>2. CASE ~(lsb <= i)
    BY <1>2, <2>2
  <2> QED BY <2>1, <2>2
<1>4. PICK g \in [0 .. 8 -> Nat] :
        /\ g[0] = 0 /\ \A i \in 0 .. 7 : g[i + 1] = g[i] + Term(rs, f, i)
        /\ Value(rs, f) = g[8]
  BY <1>3, SumOfBits
<1>5. g[8] = v % 2 ^ w
  <2>1. SumsDigits(g, v, lsb, w)
    BY <1>2, <1>4 DEF SumsDigits
  <2>2. lsb \in Nat /\ w \in Nat /\ lsb + w <= 8 /\ g[0] = 0
    BY <1>0, <1>4
  <2> QED BY ONLY v \in Nat, g \in [0 .. 8 -> Nat], <2>1, <2>2, DigitsInByte
<1> QED BY <1>4, <1>5 DEF w, Modulus

-----------------------------------------------------------------------------
(* The arithmetic of the PLL.                                               *)

\* The fraction of the feedback divider is counted in sixteenths at least.
LEMMA FractionBits ==
  \E h \in Nat \ {0} :
    /\ 2 ^ FracBits = 16 * h /\ 2 ^ (FracBits - 1) = 8 * h /\ 2 ^ (FracBits - 2) = 4 * h
    /\ h <= 16384
<1> DEFINE b == FracBits - 4  h == 2 ^ b
<1>1. b \in 0 .. 14 /\ FracBits = b + 4
  BY TunerAssumption
<1> HIDE DEF b
<1>2. \A i \in Nat : 2 ^ i \in Nat \ {0} /\ 2 ^ (i + 1) = 2 * 2 ^ i
  BY PowersOfTwo
<1>3. /\ h \in Nat \ {0} /\ 2 ^ (b + 1) = 2 * h
  BY <1>1, <1>2
<1>4. 2 ^ (b + 2) = 4 * h
  <2>1. (b + 1) + 1 = b + 2 /\ b + 1 \in Nat
    BY <1>1
  <2>2. 2 ^ ((b + 1) + 1) = 2 * 2 ^ (b + 1)
    BY <1>2, <2>1
  <2> QED BY <1>3, <2>1, <2>2
<1>5. 2 ^ (b + 3) = 8 * h
  <2>1. (b + 2) + 1 = b + 3 /\ b + 2 \in Nat
    BY <1>1
  <2>2. 2 ^ ((b + 2) + 1) = 2 * 2 ^ (b + 2)
    BY <1>2, <2>1
  <2> QED BY <1>3, <1>4, <2>1, <2>2
<1>6. 2 ^ (b + 4) = 16 * h
  <2>1. (b + 3) + 1 = b + 4 /\ b + 3 \in Nat
    BY <1>1
  <2>2. 2 ^ ((b + 3) + 1) = 2 * 2 ^ (b + 3)
    BY <1>2, <2>1
  <2> QED BY <1>3, <1>5, <2>1, <2>2
<1>7. FracBits - 1 = b + 3 /\ FracBits - 2 = b + 2
  BY <1>1
<1>8. h <= 16384
  <2> DEFINE r == 14 - b
             S == {i \in 0 .. r : h <= 2 ^ (b + i)}
  <2>1. r \in Nat /\ b + r = 14 /\ b + 0 = b
    BY <1>1
  <2> HIDE DEF r
  <2>2. S \in SUBSET (0 .. r) /\ 0 \in S
    BY <1>3, <2>1
  <2>3. ASSUME NEW i \in S, i < r PROVE i + 1 \in S
    <3>1. b + i \in Nat /\ (b + i) + 1 = b + (i + 1) /\ i + 1 \in 0 .. r /\ h <= 2 ^ (b + i)
      BY <1>1, <2>1, <2>3
    <3>2. 2 ^ ((b + i) + 1) = 2 * 2 ^ (b + i) /\ 2 ^ (b + i) \in Nat
      BY <1>2, <3>1
    <3> QED BY <1>3, <3>1, <3>2
  <2> HIDE DEF S
  <2>4. r \in S
    <3>1. S = 0 .. r
      BY <2>1, <2>2, <2>3, BoundedInduction
    <3> QED BY <2>1, <3>1
  <2>5. h <= 2 ^ 14
    BY <2>1, <2>4 DEF S
  <2>6. 2 ^ 14 = 16384
    OBVIOUS
  <2> QED BY <2>5, <2>6
<1> QED BY <1>1, <1>3, <1>4, <1>5, <1>6, <1>7, <1>8

\* The numerator of the modulator, rounded to 4 and kept clear of 0, 1/2 and 1, is at most
\* two of its steps off, and a step less at the most.
LEMMA SdmSteps ==
  ASSUME NEW h \in Nat \ {0}, 2 ^ FracBits = 16 * h, 2 ^ (FracBits - 1) = 8 * h,
         NEW raw \in 1 .. 16 * h
  PROVE  /\ Sdm(raw)[1] \in {0, 1} /\ Sdm(raw)[2] \div 4 \in 0 .. 4 * h - 1
         /\ Sdm(raw)[1] = 1 => Sdm(raw)[2] \div 4 = 0
         /\ Sdm(raw)[1] * (4 * h) + Sdm(raw)[2] \div 4 \in (raw \div 4) - 1 .. (raw \div 4) + 2
<1> DEFINE k == raw \div 4  n == 4 * k + 1
<1>1. k \in Nat /\ 4 * k <= raw /\ raw < 4 * k + 4 /\ raw - (raw % 4) + 1 = n /\ raw \in Nat
  OBVIOUS
<1>2. Sdm(raw) = IF n < 8 THEN <<0, 0>>
                 ELSE IF n > 16 * h - 8 THEN <<1, 0>>
                 ELSE IF n > 8 * h - 8 /\ n <= 8 * h THEN <<0, 8 * h - 8>>
                 ELSE IF n > 8 * h /\ n < 8 * h + 8 THEN <<0, 8 * h + 8>>
                 ELSE <<0, n>>
  BY <1>1 DEF Sdm
<1>3. k <= 4 * h
  BY <1>1
<1> HIDE DEF k
<1>4. CASE n < 8
  <2>1. Sdm(raw) = <<0, 0>> /\ k <= 1
    BY <1>1, <1>2, <1>4
  <2> QED BY <1>1, <2>1 DEF k
<1>5. CASE ~(n < 8) /\ n > 16 * h - 8
  <2>1. Sdm(raw) = <<1, 0>> /\ k >= 4 * h - 2
    BY <1>1, <1>2, <1>5
  <2> QED BY <1>1, <1>3, <2>1 DEF k
<1>6. CASE ~(n < 8) /\ ~(n > 16 * h - 8) /\ n > 8 * h - 8 /\ n <= 8 * h
  <2>1. Sdm(raw) = <<0, 8 * h - 8>> /\ k >= 2 * h - 2 /\ k <= 2 * h - 1
    BY <1>1, <1>2, <1>6
  <2>2. h >= 2
    BY <1>1, <1>6, <2>1
  <2>3. (8 * h - 8) \div 4 = 2 * h - 2
    BY <2>2
  <2> QED BY <1>1, <2>1, <2>2, <2>3 DEF k
<1>7. CASE ~(n < 8) /\ ~(n > 16 * h - 8) /\ n > 8 * h /\ n < 8 * h + 8
  <2>1. Sdm(raw) = <<0, 8 * h + 8>> /\ k >= 2 * h /\ k <= 2 * h + 1
    BY <1>1, <1>2, <1>7
  <2>2. h >= 2
    BY <1>1, <1>7, <2>1
  <2>3. (8 * h + 8) \div 4 = 2 * h + 2
    BY <2>2
  <2> QED BY <1>1, <2>1, <2>2, <2>3 DEF k
<1>8. CASE /\ ~(n < 8) /\ ~(n > 16 * h - 8) /\ ~(n > 8 * h - 8 /\ n <= 8 * h)
           /\ ~(n > 8 * h /\ n < 8 * h + 8)
  <2>1. Sdm(raw) = <<0, n>> /\ k <= 4 * h - 1
    BY <1>1, <1>2, <1>8
  <2>2. n \div 4 = k
    BY <1>1
  <2> QED BY <1>1, <2>1, <2>2 DEF k
<1> QED BY <1>4, <1>5, <1>6, <1>7, <1>8

\* The output divider is one of the six there are.
LEMMA SeldivIs ==
  ASSUME NEW f \in Nat
  PROVE  Seldiv(f) \in {2, 4, 8, 16, 32, 64}
<1> DEFINE Ds == {2, 4, 8, 16, 32, 64}
           Fits(d) == /\ f * d >= VcoMin \/ d = 64
                      /\ \A e \in Ds : e < d => f * e < VcoMin
<1>0. VcoMin \in Nat
  BY TunerAssumption
<1>1. \E d \in Ds : Fits(d)
  <2>1. CASE f * 2 >= VcoMin
    <3>1. Fits(2)
      BY <2>1
    <3> QED BY <3>1
  <2>2. CASE ~(f * 2 >= VcoMin) /\ f * 4 >= VcoMin
    <3>1. Fits(4)
      BY <1>0, <2>2
    <3> QED BY <3>1
  <2>3. CASE ~(f * 4 >= VcoMin) /\ f * 8 >= VcoMin
    <3>1. Fits(8)
      BY <1>0, <2>3
    <3> QED BY <3>1
  <2>4. CASE ~(f * 8 >= VcoMin) /\ f * 16 >= VcoMin
    <3>1. Fits(16)
      BY <1>0, <2>4
    <3> QED BY <3>1
  <2>5. CASE ~(f * 16 >= VcoMin) /\ f * 32 >= VcoMin
    <3>1. Fits(32)
      BY <1>0, <2>5
    <3> QED BY <3>1
  <2>6. CASE ~(f * 32 >= VcoMin)
    <3>1. Fits(64)
      BY <1>0, <2>6
    <3> QED BY <3>1
  <2> QED BY <2>1, <2>2, <2>3, <2>4, <2>5, <2>6
<1>2. Seldiv(f) = CHOOSE d \in Ds : Fits(d)
  BY DEF Seldiv
<1> HIDE DEF Ds, Fits
<1>3. Seldiv(f) \in Ds
  BY <1>1, <1>2
<1> QED BY <1>3 DEF Ds

\* The frequencies a PLL can be set up for, and how far off it is: a divider of n and
\* steps of the fraction, in units of Reference / 2 ^ (FracBits - 2).
Asked == {f \in Frequencies : InRange(f)}
Off(f, n, steps) == (HalfVco(f) - Reference * n) * 2 ^ (FracBits - 2) - Reference * steps

GoodParameters(f, p) ==
  /\ p.valid /\ p.requested = f /\ p.seldiv = Seldiv(f)
  /\ p.feedback_n \in Nat /\ 13 <= p.feedback_n /\ p.feedback_n <= 269
  /\ p.feedback_sdm \in Nat /\ p.feedback_sdm < 65536
  /\ p.feedback_n = 269 => p.feedback_sdm = 0
  /\ Off(f, p.feedback_n, p.feedback_sdm) \in -3 * Reference .. 3 * Reference

\* What pg2sdr__find_pll_parameters finds.
LEMMA PllParametersAre ==
  ASSUME NEW f \in Asked
  PROVE  GoodParameters(f, PllParameters(f))
<1> DEFINE R == Reference
           half == HalfVco(f)
           a == half \div R
           x == half % R
           F == 2 ^ FracBits
           q == (x * F) \div R
           p == PllParameters(f)
<1>1. f \in Nat /\ R \in Nat /\ half \in 13 * R .. 269 * R - 1
  <2>1. Xtal \in Nat /\ Xtal \div 2 \in Nat
    BY TunerAssumption
  <2> QED BY <2>1, TunerAssumption DEF Asked, InRange, Reference
<1>2. half \in Nat /\ R \in Nat \ {0}
  BY <1>1
<1> HIDE DEF R, half
<1>3. a \in Nat /\ 13 <= a /\ a <= 268 /\ x \in Nat /\ x < R /\ half = a * R + x
  <2>1. a \in Nat /\ x \in Nat /\ x < R /\ half = a * R + x
    BY <1>2, DivMod
  <2>2. 13 * R <= half /\ half < 269 * R
    BY <1>1, <1>2
  <2> HIDE DEF a, x
  <2>3. a >= 13
    <3>1. CASE a <= 12
      <4>1. a * R <= 12 * R
        BY <1>2, <2>1, <3>1, Multiples
      <4> QED BY <1>2, <2>1, <2>2, <4>1
    <3> QED BY <2>1, <3>1
  <2>4. a <= 268
    <3>1. CASE a >= 269
      <4>1. 269 * R <= a * R
        BY <1>2, <2>1, <3>1, Multiples
      <4> QED BY <1>2, <2>1, <2>2, <4>1
    <3> QED BY <2>1, <3>1
  <2> QED BY <2>1, <2>3, <2>4
<1>4. PICK h \in Nat \ {0} :
        /\ F = 16 * h /\ 2 ^ (FracBits - 1) = 8 * h /\ 2 ^ (FracBits - 2) = 4 * h
        /\ h <= 16384
  BY FractionBits
<1> HIDE DEF F, a, x
<1>5. /\ q \in Nat /\ q + 1 \in 1 .. 16 * h
      /\ q * R <= x * F /\ x * F < q * R + R
  <2>1. x * F \in Nat
    BY <1>3, <1>4
  <2>2. q \in Nat /\ (x * F) % R \in Nat /\ (x * F) % R < R /\ x * F = q * R + ((x * F) % R)
    BY <1>2, <2>1, DivMod
  <2>3. x * F + F <= R * F
    <3>1. x + 1 <= R /\ x + 1 \in Nat
      BY <1>2, <1>3
    <3>2. (x + 1) * F <= R * F
      BY <1>2, <1>4, <3>1, Multiples
    <3> QED BY <1>3, <1>4, <3>2
  <2>4. q < F
    <3> HIDE DEF q
    <3>1. CASE q >= F
      <4>1. F * R <= q * R
        BY <1>2, <1>4, <2>2, <3>1, Multiples
      <4> QED BY <1>2, <1>4, <2>1, <2>2, <2>3, <4>1
    <3> QED BY <1>4, <2>2, <3>1
  <2> HIDE DEF q
  <2> QED BY <1>2, <1>4, <2>1, <2>2, <2>4
<1> HIDE DEF q
<1> DEFINE raw == q + 1
           c == Sdm(raw)[1]
           s == Sdm(raw)[2] \div 4
           k == raw \div 4
<1>6. /\ c \in {0, 1} /\ s \in 0 .. 4 * h - 1 /\ (c = 1 => s = 0)
      /\ c * (4 * h) + s \in k - 1 .. k + 2
  <2>1. raw \in 1 .. 16 * h
    BY <1>5
  <2> HIDE DEF raw
  <2> QED BY <1>4, <2>1, SdmSteps DEF F
<1>7. k \in Nat /\ 4 * k <= q + 1 /\ q + 1 <= 4 * k + 3
  BY <1>5
<1>8. /\ p.valid /\ p.requested = f /\ p.seldiv = Seldiv(f)
      /\ p.feedback_n = a + c /\ p.feedback_sdm = s
  BY DEF PllParameters, R, half, F, a, x, q
<1> HIDE DEF p, c, s, k
<1>9. /\ p.feedback_n \in Nat /\ 13 <= p.feedback_n /\ p.feedback_n <= 269
      /\ p.feedback_sdm \in Nat /\ p.feedback_sdm < 65536
      /\ (p.feedback_n = 269 => p.feedback_sdm = 0)
  <2>1. a + c \in Nat /\ 13 <= a + c /\ a + c <= 269 /\ (a + c = 269 => c = 1)
    BY <1>3, <1>6
  <2>2. s \in Nat /\ s < 65536
    BY <1>4, <1>6
  <2> QED BY <1>6, <1>8, <2>1, <2>2
<1>10. Off(f, p.feedback_n, p.feedback_sdm) \in -3 * R .. 3 * R
  <2> DEFINE m == c * (4 * h) + s
             o == (half - R * (a + c)) * (4 * h) - R * s
  <2>1. Off(f, p.feedback_n, p.feedback_sdm) = o
    BY <1>4, <1>8 DEF Off, R, half
  <2>2. m \in Int /\ k - 1 <= m /\ m <= k + 2 /\ c \in Nat /\ s \in Nat /\ a \in Nat
    BY <1>3, <1>4, <1>6, <1>7
  <2>3. o = x * (4 * h) - R * m
    <3>1. half - R * (a + c) = x - R * c
      BY <1>2, <1>3, <2>2
    <3>2. (x - R * c) * (4 * h) = x * (4 * h) - R * (c * (4 * h))
      BY <1>2, <1>3, <1>4, <2>2
    <3> QED BY <1>2, <1>3, <1>4, <2>2, <3>1, <3>2
  <2> HIDE DEF o, m
  <2>4. 4 * (x * (4 * h)) = x * F
    BY <1>3, <1>4
  <2>5. /\ x * (4 * h) \in Nat /\ R * m \in Int /\ R * k \in Nat
        /\ R * k - R <= R * m /\ R * m <= R * k + 2 * R
    <3>1. x * (4 * h) \in Nat /\ R * m \in Int /\ R * k \in Nat
      BY <1>2, <1>3, <1>4, <1>7, <2>2
    <3>2. R * (m - (k - 1)) >= 0 /\ R * ((k + 2) - m) >= 0
      <4>1. m - (k - 1) \in Nat /\ (k + 2) - m \in Nat
        BY <1>7, <2>2
      <4> QED BY <1>2, <4>1
    <3>3. R * (m - (k - 1)) = R * m - R * k + R /\ R * ((k + 2) - m) = R * k + 2 * R - R * m
      BY <1>2, <1>7, <2>2
    <3> QED BY <1>2, <3>1, <3>2, <3>3
  <2>6. 4 * (R * k) <= q * R + R /\ q * R + R <= 4 * (R * k) + 3 * R
    <3>1. R * ((q + 1) - 4 * k) >= 0 /\ R * ((4 * k + 3) - (q + 1)) >= 0
      <4>1. (q + 1) - 4 * k \in Nat /\ (4 * k + 3) - (q + 1) \in Nat
        BY <1>5, <1>7
      <4> QED BY <1>2, <4>1
    <3>2. /\ R * ((q + 1) - 4 * k) = q * R + R - 4 * (R * k)
          /\ R * ((4 * k + 3) - (q + 1)) = 4 * (R * k) + 3 * R - (q * R + R)
      BY <1>2, <1>5, <1>7
    <3>3. q * R \in Nat /\ R * k \in Nat
      BY <1>2, <1>5, <1>7
    <3> QED BY <1>2, <3>1, <3>2, <3>3
  <2>7. o \in Int /\ -3 * R <= o /\ o <= 3 * R
    <3>1. q * R \in Nat /\ x * F \in Nat
      BY <1>2, <1>3, <1>4, <1>5
    <3> QED BY <1>2, <1>5, <2>3, <2>4, <2>5, <2>6, <3>1
  <2> QED BY <1>2, <2>1, <2>7
<1> QED BY <1>8, <1>9, <1>10 DEF p, R, GoodParameters

-----------------------------------------------------------------------------
(* The PLL's settings, written and read back.                               *)

\* Six bits and two make up a feedback divider, but for 269.
LEMMA DividerFits ==
  ASSUME NEW n \in Nat, 13 <= n, n <= 269
  PROVE  /\ (n - 13) \div 4 \in Nat /\ (n - 13) % 4 \in Nat
         /\ 13 + 4 * (((n - 13) \div 4) % 64) + (((n - 13) % 4) % 4) = IF n = 269 THEN 13 ELSE n
<1> DEFINE m == n - 13  a == m \div 4  b == m % 4
<1>1. m \in Nat /\ m <= 256 /\ n = m + 13 /\ 4 \in Nat \ {0}
  OBVIOUS
<1> HIDE DEF m
<1>2. a \in Nat /\ b \in Nat /\ b < 4 /\ m = a * 4 + b
  BY <1>1, DivMod
<1> HIDE DEF a, b
<1>3. a <= 64 /\ (m = 256 => a = 64 /\ b = 0) /\ (m # 256 => a < 64)
  BY <1>1, <1>2
<1>4. b % 4 = b
  BY <1>2
<1>5. 13 + 4 * (a % 64) + (b % 4) = IF n = 269 THEN 13 ELSE n
  <2>1. CASE m = 256
    <3>1. a = 64 /\ b = 0
      BY <1>3, <2>1
    <3> QED BY <1>1, <1>4, <2>1, <3>1
  <2>2. CASE m # 256
    <3>1. a % 64 = a
      BY <1>2, <1>3, <2>2, SmallMod
    <3> QED BY <1>1, <1>2, <1>4, <2>2, <3>1
  <2> QED BY <2>1, <2>2
<1>6. a = (n - 13) \div 4 /\ b = (n - 13) % 4
  BY DEF a, b, m
<1> HIDE DEF a, b
<1> QED BY <1>2, <1>5, <1>6

\* Two bytes make up a fraction.
LEMMA TwoBytes ==
  ASSUME NEW s \in Nat, s < 65536
  PROVE  /\ s % 256 \in Nat /\ s \div 256 \in Nat
         /\ ((s \div 256) % 256) * 256 + ((s % 256) % 256) = s
<1> DEFINE a == s \div 256  b == s % 256
<1>1. a \in Nat /\ b \in Nat /\ b < 256 /\ s = a * 256 + b
  <2>1. s \in Nat /\ 256 \in Nat \ {0}
    OBVIOUS
  <2> QED BY <2>1, DivMod
<1>2. a < 256
  BY <1>1
<1> HIDE DEF a, b
<1>3. a % 256 = a /\ b % 256 = b
  <2>1. 256 \in Nat \ {0}
    OBVIOUS
  <2> QED BY <1>1, <1>2, <2>1, SmallMod
<1>4. (a % 256) * 256 + (b % 256) = s
  BY <1>1, <1>3
<1> QED BY <1>1, <1>4 DEF a, b

\* Where the numbers of the PLL are.
LEMMA PllFieldBits ==
  /\ Place("N_I2C", 0, 5) /\ Place("S_I2C", 6, 7) /\ Place("SEL_DIV", 5, 7)
  /\ Place("SDM_IN_LSB", 0, 7) /\ Place("SDM_IN_MSB", 0, 7)
<1>1. 20 \in Registers /\ 21 \in Registers /\ 22 \in Registers /\ 16 \in Registers
  BY DEF Registers, TUNER_REG_COUNT, FirstRegister
<1>2. /\ "N_I2C" \in FieldsOf(20) /\ "S_I2C" \in FieldsOf(20) /\ "SDM_IN_LSB" \in FieldsOf(21)
      /\ "SDM_IN_MSB" \in FieldsOf(22) /\ "SEL_DIV" \in FieldsOf(16)
  BY NamesOfFields DEF FieldNames
<1>3. ASSUME NEW reg \in Registers, NEW f \in FieldsOf(reg)
      PROVE  BitsOf[f] = Layout[reg - FirstRegister + 1][f]
  BY FieldHome DEF BitsOf
<1>4. /\ Layout[20 - FirstRegister + 1]["N_I2C"] = 0 .. 5
      /\ Layout[20 - FirstRegister + 1]["S_I2C"] = 6 .. 7
      /\ Layout[21 - FirstRegister + 1]["SDM_IN_LSB"] = 0 .. 7
      /\ Layout[22 - FirstRegister + 1]["SDM_IN_MSB"] = 0 .. 7
      /\ Layout[16 - FirstRegister + 1]["SEL_DIV"] = 5 .. 7
  <2> USE DEF Layout, FirstRegister, Bits
  <2>1. Layout[20 - FirstRegister + 1]["N_I2C"] = 0 .. 5
    OBVIOUS
  <2>2. Layout[20 - FirstRegister + 1]["S_I2C"] = 6 .. 7
    OBVIOUS
  <2>3. Layout[21 - FirstRegister + 1]["SDM_IN_LSB"] = 0 .. 7
    OBVIOUS
  <2>4. Layout[22 - FirstRegister + 1]["SDM_IN_MSB"] = 0 .. 7
    OBVIOUS
  <2>5. Layout[16 - FirstRegister + 1]["SEL_DIV"] = 5 .. 7
    OBVIOUS
  <2> HIDE DEF Layout, FirstRegister, Bits
  <2> QED BY <2>1, <2>2, <2>3, <2>4, <2>5
<1> QED BY <1>1, <1>2, <1>3, <1>4 DEF Place

\* The fields that say where the PLL runs, and what the settings put into them.
Tuning == {"N_I2C", "S_I2C", "PWD_SDM", "SEL_DIV", "SDM_IN_LSB", "SDM_IN_MSB"}
SelDiv(p) == CHOOSE i \in 0 .. 5 : 2 ^ (i + 1) = p.seldiv
TuningOf(p) ==
  [N_I2C |-> (p.feedback_n - 13) \div 4, S_I2C |-> (p.feedback_n - 13) % 4,
   PWD_SDM |-> IF p.feedback_sdm = 0 THEN 1 ELSE 0, SEL_DIV |-> SelDiv(p),
   SDM_IN_LSB |-> p.feedback_sdm % 256, SDM_IN_MSB |-> p.feedback_sdm \div 256]
Written(rs, p) == \A f \in Tuning : Holds(rs, f, TuningOf(p)[f])

NumberN(rs) == 13 + 4 * Value(rs, "N_I2C") + Value(rs, "S_I2C")
NumberSdm(rs) == Value(rs, "SDM_IN_MSB") * 256 + Value(rs, "SDM_IN_LSB")

\* The registers give back the settings they were written from, but for a divider of 269,
\* which is too much for its field and comes out as 13.
LEMMA ReadBack ==
  ASSUME NEW rs, NEW f \in Asked, NEW p, GoodParameters(f, p), Written(rs, p)
  PROVE  /\ NumberN(rs) = IF p.feedback_n = 269 THEN 13 ELSE p.feedback_n
         /\ NumberSdm(rs) = p.feedback_sdm
         /\ 2 ^ (Value(rs, "SEL_DIV") + 1) = Seldiv(f)
<1> DEFINE n == p.feedback_n
           s == p.feedback_sdm
<1>1. /\ n \in Nat /\ 13 <= n /\ n <= 269 /\ s \in Nat /\ s < 65536
  BY DEF GoodParameters
<1>2. \A g \in Tuning : g \in Fields /\ Holds(rs, g, TuningOf(p)[g])
  BY LiveFieldsExist DEF Written, Tuning, PllFields
<1>3. f \in Nat
  BY TunerAssumption DEF Asked
<1>4. /\ Holds(rs, "N_I2C", (n - 13) \div 4) /\ Holds(rs, "S_I2C", (n - 13) % 4)
      /\ Holds(rs, "SDM_IN_LSB", s % 256) /\ Holds(rs, "SDM_IN_MSB", s \div 256)
      /\ Holds(rs, "SEL_DIV", SelDiv(p))
  BY <1>2 DEF Tuning, TuningOf, n, s
<1>5. Modulus(0, 5) = 64 /\ Modulus(6, 7) = 4 /\ Modulus(0, 7) = 256 /\ Modulus(5, 7) = 8
  <2>1. /\ 2 ^ (5 - 0 + 1) = 64 /\ 2 ^ (7 - 6 + 1) = 4 /\ 2 ^ (7 - 0 + 1) = 256
        /\ 2 ^ (7 - 5 + 1) = 8
    OBVIOUS
  <2> QED BY <2>1 DEF Modulus
<1> HIDE DEF n, s
<1>6. /\ (n - 13) \div 4 \in Nat /\ (n - 13) % 4 \in Nat
      /\ 13 + 4 * (((n - 13) \div 4) % 64) + (((n - 13) % 4) % 4) = IF n = 269 THEN 13 ELSE n
  BY <1>1, DividerFits
<1>7. /\ s % 256 \in Nat /\ s \div 256 \in Nat
      /\ ((s \div 256) % 256) * 256 + ((s % 256) % 256) = s
  BY <1>1, TwoBytes
<1>8. ASSUME NEW g \in Fields, NEW lsb \in Nat, NEW msb \in Nat, lsb <= msb, msb <= 7,
             Place(g, lsb, msb), NEW v \in Nat, Holds(rs, g, v)
      PROVE  Value(rs, g) = v % Modulus(lsb, msb)
  BY <1>8, ValueOfHeld
<1>9. /\ Value(rs, "N_I2C") = ((n - 13) \div 4) % 64
      /\ Value(rs, "S_I2C") = ((n - 13) % 4) % 4
      /\ Value(rs, "SDM_IN_LSB") = (s % 256) % 256
      /\ Value(rs, "SDM_IN_MSB") = (s \div 256) % 256
  <2>1. /\ "N_I2C" \in Fields /\ "S_I2C" \in Fields
        /\ "SDM_IN_LSB" \in Fields /\ "SDM_IN_MSB" \in Fields
    BY <1>2 DEF Tuning
  <2>2. Value(rs, "N_I2C") = ((n - 13) \div 4) % Modulus(0, 5)
    BY <1>4, <1>6, <1>8, <2>1, PllFieldBits
  <2>3. Value(rs, "S_I2C") = ((n - 13) % 4) % Modulus(6, 7)
    BY <1>4, <1>6, <1>8, <2>1, PllFieldBits
  <2>4. /\ Value(rs, "SDM_IN_LSB") = (s % 256) % Modulus(0, 7)
        /\ Value(rs, "SDM_IN_MSB") = (s \div 256) % Modulus(0, 7)
    BY <1>4, <1>7, <1>8, <2>1, PllFieldBits
  <2> QED BY <1>5, <2>2, <2>3, <2>4
<1>10. SelDiv(p) \in 0 .. 5 /\ 2 ^ (SelDiv(p) + 1) = Seldiv(f)
  <2>1. Seldiv(f) \in {2, 4, 8, 16, 32, 64}
    BY <1>3, SeldivIs
  <2>2. /\ 2 ^ (0 + 1) = 2 /\ 2 ^ (1 + 1) = 4 /\ 2 ^ (2 + 1) = 8 /\ 2 ^ (3 + 1) = 16
        /\ 2 ^ (4 + 1) = 32 /\ 2 ^ (5 + 1) = 64
    OBVIOUS
  <2>3. \E i \in 0 .. 5 : 2 ^ (i + 1) = Seldiv(f)
    BY <2>1, <2>2
  <2>4. \E i \in 0 .. 5 : 2 ^ (i + 1) = p.seldiv
    <3>1. p.seldiv = Seldiv(f)
      BY DEF GoodParameters
    <3> QED BY <2>3, <3>1
  <2>5. SelDiv(p) \in 0 .. 5 /\ 2 ^ (SelDiv(p) + 1) = p.seldiv
    BY <2>4 DEF SelDiv
  <2>6. p.seldiv = Seldiv(f)
    BY DEF GoodParameters
  <2> QED BY <2>5, <2>6
<1>11. Value(rs, "SEL_DIV") = SelDiv(p)
  <2>1. "SEL_DIV" \in Fields /\ SelDiv(p) \in Nat
    BY <1>2, <1>10 DEF Tuning
  <2>2. Value(rs, "SEL_DIV") = SelDiv(p) % Modulus(5, 7)
    BY <1>4, <1>8, <2>1, PllFieldBits
  <2>3. SelDiv(p) % 8 = SelDiv(p)
    BY <1>10, SmallMod
  <2> QED BY <1>5, <2>2, <2>3
<1>12. NumberN(rs) = IF n = 269 THEN 13 ELSE n
  BY <1>6, <1>9 DEF NumberN
<1>13. NumberSdm(rs) = s
  BY <1>7, <1>9 DEF NumberSdm
<1> QED BY <1>10, <1>11, <1>12, <1>13 DEF n, s

-----------------------------------------------------------------------------
(* The PLL.                                                                 *)

\* The settings of a PLL that pg2sdr__find_pll_parameters may have found.
Params(p) == \E f \in Asked : p = PllParameters(f)

PllInv ==
  /\ step \in {"idle", "configure", "lock", "clock"}
  /\ dev # "open" => step = "idle" /\ pll = NoPll
  /\ pll = NoPll \/ Params(pll)
  /\ step # "idle" => Params(new)
  /\ step = "idle" /\ pll # NoPll => Written(regs, pll) /\ CanLock
  /\ step \in {"lock", "clock"} => Written(regs, new)
  /\ step = "clock" => CanLock

\* Whether the PLL can lock is a matter of the fields of Tuning alone.
LEMMA CanLockKept ==
  ASSUME NEW p, Params(p), Written(regs, p), Written(regs', p)
  PROVE  CanLock' <=> CanLock
<1>1. PICK f \in Asked : p = PllParameters(f)
  BY DEF Params
<1>2. GoodParameters(f, p)
  BY <1>1, PllParametersAre
<1>3. NumberN(regs') = NumberN(regs) /\ NumberSdm(regs') = NumberSdm(regs)
  <2> DEFINE n == IF p.feedback_n = 269 THEN 13 ELSE p.feedback_n
  <2>1. ASSUME NEW rs, Written(rs, p) PROVE NumberN(rs) = n /\ NumberSdm(rs) = p.feedback_sdm
    BY <1>2, <2>1, ReadBack
  <2> HIDE DEF n
  <2> QED BY <2>1
<1>4. /\ RegisterVco = 2 * (Reference * NumberN(regs)
                            + (Reference * NumberSdm(regs)) \div 2 ^ (FracBits - 2))
      /\ RegisterVco' = 2 * (Reference * NumberN(regs')
                             + (Reference * NumberSdm(regs')) \div 2 ^ (FracBits - 2))
  BY DEF RegisterVco, NumberN, NumberSdm
<1> QED BY <1>3, <1>4 DEF CanLock

LEMMA WrittenKept ==
  ASSUME NEW cs, DOMAIN cs \subseteq Fields \ Tuning, WriteChanges(cs) \/ WriteFails(cs),
         NEW p, Written(regs, p)
  PROVE  Written(regs', p)
<1>1. Tuning \subseteq Fields \ DOMAIN cs /\ DOMAIN cs \subseteq Fields
  BY LiveFieldsExist DEF Tuning, PllFields
<1> QED BY <1>1, Undisturbed DEF Written

\* The whole change set of the PLL puts its settings into the registers.
LEMMA PllWritten ==
  ASSUME NEW p, NEW dac, WriteChanges(PllChanges(p, dac))
  PROVE  Written(regs', p)
<1> DEFINE cs == PllChanges(p, dac)
<1>1. DOMAIN cs \subseteq Fields
  BY LiveFieldsExist DEF PllChanges, PllFields
<1>2. ASSUME NEW f \in Tuning PROVE f \in DOMAIN cs /\ cs[f] = TuningOf(p)[f]
  <2>1. /\ "N_I2C" \in DOMAIN cs /\ cs["N_I2C"] = TuningOf(p)["N_I2C"]
        /\ "S_I2C" \in DOMAIN cs /\ cs["S_I2C"] = TuningOf(p)["S_I2C"]
    BY DEF PllChanges, Divider, TuningOf
  <2>2. /\ "PWD_SDM" \in DOMAIN cs /\ cs["PWD_SDM"] = TuningOf(p)["PWD_SDM"]
        /\ "SEL_DIV" \in DOMAIN cs
    BY DEF PllChanges, TuningOf
  <2>4. cs["SEL_DIV"] = SelDiv(p) /\ TuningOf(p)["SEL_DIV"] = SelDiv(p)
    <3>1. cs["SEL_DIV"] = SelDiv(p)
      BY Zenon DEF PllChanges, SelDiv
    <3>2. TuningOf(p)["SEL_DIV"] = SelDiv(p)
      BY DEF TuningOf
    <3> QED BY <3>1, <3>2
  <2>3. /\ "SDM_IN_LSB" \in DOMAIN cs /\ cs["SDM_IN_LSB"] = TuningOf(p)["SDM_IN_LSB"]
        /\ "SDM_IN_MSB" \in DOMAIN cs /\ cs["SDM_IN_MSB"] = TuningOf(p)["SDM_IN_MSB"]
    BY DEF PllChanges, TuningOf
  <2> HIDE DEF cs
  <2> QED BY <2>1, <2>2, <2>3, <2>4 DEF Tuning
<1>3. regs' = Write(regs, cs)
  BY DEF WriteChanges
<1> HIDE DEF cs
<1>4. ASSUME NEW f \in Tuning PROVE Holds(regs', f, TuningOf(p)[f])
  BY <1>1, <1>2, <1>3, WriteSets
<1> QED BY <1>4 DEF Written

\* A step that leaves what is known of the PLL alone, and its fields.
LEMMA PllUndisturbed ==
  ASSUME PllInv, UNCHANGED <<dev, pll, new, step>>,
         \A p : Written(regs, p) => Written(regs', p)
  PROVE  PllInv'
<1>1. CASE step = "idle" /\ pll # NoPll
  <2>1. Params(pll) /\ Written(regs, pll) /\ CanLock
    BY <1>1 DEF PllInv
  <2>2. Written(regs', pll)
    BY <2>1
  <2>3. CanLock'
    BY <2>1, <2>2, CanLockKept
  <2> QED BY <1>1, <2>1, <2>2, <2>3 DEF PllInv
<1>2. CASE step = "idle" /\ pll = NoPll
  BY <1>2 DEF PllInv
<1>3. CASE step = "clock"
  <2>1. Params(new) /\ Written(regs, new) /\ CanLock
    BY <1>3 DEF PllInv
  <2>2. Written(regs', new)
    BY <2>1
  <2>3. CanLock'
    BY <2>1, <2>2, CanLockKept
  <2> QED BY <1>3, <2>1, <2>2, <2>3 DEF PllInv
<1>4. CASE step = "lock"
  <2>1. Params(new) /\ Written(regs', new)
    BY <1>4 DEF PllInv
  <2> QED BY <1>4, <2>1 DEF PllInv
<1>5. CASE step = "configure"
  BY <1>5 DEF PllInv
<1> QED BY <1>1, <1>2, <1>3, <1>4, <1>5 DEF PllInv

LEMMA GainCallPll ==
  ASSUME GainInv, GainCall, PllInv, UNCHANGED dev
  PROVE  PllInv'
<1>0. UNCHANGED <<pll, new, step>>
  BY DEF GainCall, tunerVars
<1>1. ASSUME NEW want, DOMAIN want \subseteq Stages, TunerSetGains(want) \/ TunerSetGainsFails(want)
      PROVE  PllInv'
  <2> DEFINE cs == Changes(want)
  <2>1. DOMAIN cs \subseteq Fields \ Tuning
    <3>1. DOMAIN cs \subseteq GainFields
      BY <1>1, ChangesAre
    <3>2. GainFields \cap Tuning = {}
      BY DEF GainFields, Tuning
    <3> QED BY <3>1, <3>2, LiveFieldsExist
  <2>2. WriteChanges(cs) \/ WriteFails(cs)
    BY <1>1 DEF TunerSetGains, TunerSetGainsFails
  <2> HIDE DEF cs
  <2>3. \A p : Written(regs, p) => Written(regs', p)
    BY <2>1, <2>2, WrittenKept
  <2> QED BY <1>0, <2>3, PllUndisturbed
<1>2. ASSUME NEW s \in Stages, NEW g, SetStage(s, g) PROVE PllInv'
  <2>1. DOMAIN [x \in {s} |-> g] \subseteq Stages
    OBVIOUS
  <2> QED BY <1>1, <1>2, <2>1 DEF SetStage
<1>3. ASSUME NEW db \in Gains, set_total_gain_db(db) PROVE PllInv'
  <2> DEFINE nearest == Nearest(gain_table, db)
             want == gain_table[nearest].steps
  <2>1. nearest \in 1 .. Len(gain_table)
    BY NearestOfAll, GainAssumption DEF GainInv, Tables
  <2>2. DOMAIN want \subseteq Stages
    BY <2>1, EntryGain DEF GainInv, Tables, Usable
  <2>3. TunerSetGains(want) \/ TunerSetGainsFails(want)
    BY <1>3 DEF set_total_gain_db
  <2> HIDE DEF want
  <2> QED BY <1>1, <2>2, <2>3
<1>4. CASE UNCHANGED regs
  BY <1>0, <1>4, PllUndisturbed
<1> QED
  BY <1>2, <1>3, <1>4 DEF GainCall, GainNext, set_gain, set_gain_db, set_gain_table,
     set_stage_table

LEMMA StartPll ==
  ASSUME Configure \/ Lock \/ Clock, PllInv, dev = "open", UNCHANGED dev
  PROVE  PllInv'
<1>1. Params(new) /\ new' = new
  BY DEF PllInv, Configure, Lock, Clock
<1>2. CASE TuneFails
  BY <1>1, <1>2 DEF TuneFails, PllInv
<1>3. CASE Configure /\ ~TuneFails
  <2>1. PICK dac : WriteChanges(PllChanges(new, dac)) /\ step' = "lock" /\ UNCHANGED pll
    BY <1>3 DEF Configure
  <2>2. Written(regs', new)
    BY <2>1, PllWritten
  <2> QED BY <1>1, <2>1, <2>2 DEF PllInv
<1>4. CASE Lock /\ ~TuneFails
  <2> DEFINE cs == [VCO_CURRENT |-> current]
  <2>1. WriteChanges(cs) /\ step = "lock" /\ UNCHANGED pll /\ Written(regs, new)
        /\ ((CanLock /\ step' = "clock") \/ step' = "lock")
    BY <1>4 DEF Lock, PllInv
  <2>2. DOMAIN cs \subseteq Fields \ Tuning
    BY LiveFieldsExist DEF PllFields, Tuning
  <2> HIDE DEF cs
  <2>3. Written(regs', new)
    BY <2>1, <2>2, WrittenKept
  <2>4. CanLock => CanLock'
    BY <1>1, <2>1, <2>3, CanLockKept
  <2> QED BY <1>1, <2>1, <2>3, <2>4 DEF PllInv
<1>5. CASE Clock /\ ~TuneFails
  <2> DEFINE cs == [PLL_AUTO_CLK |-> 2]
  <2>1. WriteChanges(cs) /\ step = "clock" /\ step' = "idle" /\ pll' = new
        /\ Written(regs, new) /\ CanLock
    BY <1>5 DEF Clock, PllInv
  <2>2. DOMAIN cs \subseteq Fields \ Tuning
    BY LiveFieldsExist DEF PllFields, Tuning
  <2> HIDE DEF cs
  <2>3. Written(regs', new)
    BY <2>1, <2>2, WrittenKept
  <2>4. CanLock'
    BY <1>1, <2>1, <2>3, CanLockKept
  <2> QED BY <1>1, <2>1, <2>3, <2>4 DEF PllInv
<1> QED BY <1>2, <1>3, <1>4, <1>5

LEMMA InitPllInv == DeviceInit => PllInv
BY DEF DeviceInit, Initial, PllInv

LEMMA NextPllInv == HeldInv /\ GainInv /\ PllInv /\ [DeviceNext]_device_vars => PllInv'
<1> SUFFICES ASSUME HeldInv, GainInv, PllInv, [DeviceNext]_device_vars PROVE PllInv'
  OBVIOUS
<1>1. CASE UNCHANGED tunerVars /\ dev # "open"
  BY <1>1 DEF tunerVars, PllInv
<1>2. CASE Close
  BY <1>2 DEF Close, Freed, PllInv
<1>3. CASE OpenDevice
  <2>1. dev = "open" /\ UNCHANGED dev
    BY <1>3 DEF OpenDevice, lifeVars
  <2>2. CASE GainCall
    BY <2>1, <2>2, GainCallPll
  <2>3. ASSUME NEW settings \in Filters, set_bandpass(settings) PROVE PllInv'
    <3>1. DOMAIN settings = FilterFields
      BY TunerAssumption
    <3>2. FilterFields \subseteq Fields \ Tuning
      <4>1. FilterFields \cap Tuning = {}
        BY DEF FilterFields, Tuning
      <4> QED BY <4>1, LiveFieldsExist
    <3>3. /\ WriteChanges(settings) \/ WriteFails(settings)
          /\ UNCHANGED <<pll, new, step>>
      BY <2>3 DEF set_bandpass, pllVars
    <3>4. \A p : Written(regs, p) => Written(regs', p)
      BY <3>1, <3>2, <3>3, WrittenKept
    <3> QED BY <2>1, <3>3, <3>4, PllUndisturbed
  <2>4. CASE set_sideband
    <3>1. UNCHANGED <<regs, pll, new, step>>
      BY <2>4 DEF set_sideband, pllVars
    <3> QED BY <2>1, <3>1, PllUndisturbed
  <2>5. ASSUME NEW f \in Frequencies, Tune(f) PROVE PllInv'
    <3>1. f \in Asked /\ UNCHANGED <<regs, pll>>
      BY <2>5 DEF Tune, Asked
    <3>2. CASE UNCHANGED <<new, step>>
      BY <2>1, <3>1, <3>2, PllUndisturbed
    <3>3. CASE new' = PllParameters(f) /\ step' = "configure"
      <4>1. Params(new')
        BY <3>1, <3>3 DEF Params
      <4> QED BY <2>1, <3>1, <3>3, <4>1 DEF PllInv
    <3> QED BY <2>5, <3>2, <3>3 DEF Tune
  <2>6. CASE Configure \/ Lock \/ Clock
    BY <2>1, <2>6, StartPll
  <2> QED BY <1>3, <2>2, <2>3, <2>4, <2>5, <2>6 DEF OpenDevice, TunerNext
<1>4. CASE UNCHANGED device_vars
  <2>1. UNCHANGED <<dev, regs, pll, new, step>>
    BY <1>4 DEF device_vars, tunerVars, lifeVars
  <2> QED BY <2>1, PllUndisturbed
<1>5. DeviceNext => Close \/ OpenDevice \/ (UNCHANGED tunerVars /\ dev # "open")
  BY DEF DeviceNext, Allocate, OpenUsb, Claim, CheckVersions, PowerReset, InitTuner, SetTables,
     OpenFails, OtherProgram, Then, HeldInv, NothingLeaks
<1> QED BY <1>1, <1>2, <1>3, <1>4, <1>5

\* A PLL that is known to be set and is not being set is the one asked for: it can lock,
\* its divider of the output is the one chosen, the fraction is switched off exactly when
\* there is none, and it is at most three steps of the fraction off the frequency (tuner.c,
\* pg2sdr__find_pll_parameters, pg2sdr__start_pll). A divider of 269, which the rounding
\* of the fraction can produce, does not fit its registers and comes out as 13; a tuner
\* that can lock there would run at a wrong frequency. With the code's VCO_MIN, 1.75 GHz,
\* it cannot for any reference below 67 MHz, and the reference is a crystal of at most
\* 24 MHz or half of one above.
THEOREM PllInRegistersHolds ==
  ASSUME 26 * Reference < VcoMin
  PROVE  DeviceSpec => []PllInRegisters
<1>1. PllInv => PllInRegisters
  <2> SUFFICES ASSUME PllInv, dev = "open", step = "idle", pll.valid PROVE TunedAsAsked
    BY DEF PllInRegisters, Opened, TunedAsAsked
  <2>1. Params(pll) /\ Written(regs, pll) /\ CanLock
    BY DEF PllInv, NoPll
  <2>2. PICK f \in Asked : pll = PllParameters(f)
    BY <2>1 DEF Params
  <2>3. GoodParameters(f, pll)
    BY <2>2, PllParametersAre
  <2> DEFINE n == NumberN(regs)
             s == NumberSdm(regs)
  <2>4. /\ n = IF pll.feedback_n = 269 THEN 13 ELSE pll.feedback_n
        /\ s = pll.feedback_sdm
        /\ 2 ^ (Value(regs, "SEL_DIV") + 1) = Seldiv(f)
    BY <2>1, <2>3, ReadBack
  <2>5. RegisterVco = 2 * (Reference * n + (Reference * s) \div 2 ^ (FracBits - 2))
    BY DEF RegisterVco, NumberN, NumberSdm
  <2> HIDE DEF n, s
  <2>6. pll.feedback_n # 269
    <3> SUFFICES ASSUME pll.feedback_n = 269 PROVE FALSE
      OBVIOUS
    <3>1. n = 13 /\ s = 0
      BY <2>3, <2>4 DEF GoodParameters
    <3>2. Reference \in Nat
      BY TunerAssumption DEF Reference
    <3>3. (Reference * s) \div 2 ^ (FracBits - 2) = 0
      <4>1. PICK h \in Nat \ {0} : 2 ^ (FracBits - 2) = 4 * h
        BY FractionBits
      <4>2. Reference * s = 0 /\ 4 * h \in Nat \ {0}
        BY <3>1, <3>2
      <4>3. 0 \div (4 * h) = 0
        BY <4>2
      <4> QED BY <4>1, <4>2, <4>3
    <3>4. RegisterVco = 26 * Reference
      BY <2>5, <3>1, <3>2, <3>3
    <3>5. RegisterVco >= VcoMin
      BY <2>1, TunerAssumption, <3>2, <3>4 DEF CanLock
    <3> QED BY <3>2, <3>4, <3>5, TunerAssumption
  <2>7. n = pll.feedback_n /\ Off(f, n, s) \in -3 * Reference .. 3 * Reference
    BY <2>3, <2>4, <2>6 DEF GoodParameters
  <2>8. Holds(regs, "PWD_SDM", IF s = 0 THEN 1 ELSE 0)
    BY <2>1, <2>4 DEF Written, Tuning, TuningOf
  <2>9. pll.requested = f
    BY <2>3 DEF GoodParameters
  <2> QED BY <2>1, <2>4, <2>7, <2>8, <2>9 DEF TunedAsAsked, Off, n, s, NumberN, NumberSdm
<1>2. DeviceSpec => []HeldInv
  BY InitHeldInv, NextHeldInv, PTL DEF DeviceSpec
<1> QED BY <1>1, <1>2, InitPllInv, NextPllInv, GainInvHolds, PTL DEF DeviceSpec
=============================================================================
