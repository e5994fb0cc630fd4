------------------------------ MODULE MCDevice ------------------------------
EXTENDS Device, TLC

StepsOf(l, m, v) == [s \in Stages |-> CASE s = "lna" -> l [] s = "mix" -> m [] s = "vga" -> v]
Entry(db, l, m, v) == [gain_db |-> db, steps |-> StepsOf(l, m, v)]

\* Unsorted.
MCGainTables == { <<Entry(5, 1, 1, 0), Entry(0, 0, 0, 1), Entry(3, 1, 1, 1)>> }
MCStageTables == {(0 :> 3 @@ 1 :> -1)}
MCGains == {2, 5}

\* Two that differ in every field.
MCFilters ==
  { [IFFILT_HPF_CORNER |-> 15, IFFILT_Q |-> 1, IFFILT_NARROW |-> 0, IFFILT_FINE_LPF |-> 5, IFFILT_COARSE_LPF |-> 3],
    [IFFILT_HPF_CORNER |-> 8, IFFILT_Q |-> 0, IFFILT_NARROW |-> 1, IFFILT_FINE_LPF |-> 10, IFFILT_COARSE_LPF |-> 0] }

\* In units of 10 kHz. 980 and 1092 MHz are those of the firmware selftest; the
\* others are next to an integer divider, next to half of one, below what the
\* VCO can do, and above it, where the divider is rounded up to 269.
MCFrequencies == {98000, 109200, 100799, 100080, 2000, 387359}

MCPowerOn == {[reg \in Registers |-> {}], [reg \in Registers |-> Byte]}
MCVersions == {[version |-> 9, compat |-> 7], [version |-> 9, compat |-> 10]}
=============================================================================
