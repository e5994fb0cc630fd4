-------------------------------- MODULE Gain --------------------------------
(***************************************************************************)
(* Gain control, src/src/gain.c with pg2sdr__tuner_set_gains of tuner.c.   *)
(* The three stages of the tuner have a gain step each. The library keeps  *)
(* the steps it has set, writes only those that differ, and, when the gain *)
(* was set as a total, remembers which entry of the gain table it was.     *)
(*                                                                         *)
(* Every call runs from beginning to end with dev->mutex held: a call is   *)
(* one step here.                                                          *)
(***************************************************************************)
EXTENDS Registers, Sequences

CONSTANTS
  MaxStep,      \* the 15 of gain steps 0 .. 15
  Gains,        \* gains in dB a user asks for
  GainTables,   \* total gain tables a user may set, in any order
  StageTables,  \* and tables of the gain of each step of a stage
  MaxFaults     \* how many writes to the tuner, and other calls, may fail

Stages == {"lna", "mix", "vga"}
Steps == 0 .. MaxStep
NULL == 0       \* no current_gain_entry

Entries == [gain_db : Int, steps : [Stages -> Steps]]

ASSUME GainAssumption ==
  /\ MaxStep \in 0 .. 15
  /\ Gains \subseteq Int
  /\ GainTables # {} /\ GainTables \subseteq Seq(Entries) \ {<<>>}
  /\ StageTables \subseteq [Steps -> Int]
  /\ MaxFaults \in Nat

VARIABLES
  regs,        \* the registers of the tuner
  gains,       \* dev->lna_gain, mix_gain, vga_gain
  gain_table,  \* dev->gain_table
  stage_table, \* dev->lna_table, mix_table, vga_table
  entry,       \* index of dev->current_gain_entry in gain_table, or NULL
  in_doubt,    \* stages whose last write failed
  faults       \* how many calls have failed

gainVars == <<gains, gain_table, stage_table, entry, in_doubt>>

GainField == [lna |-> "LNA_GAIN", mix |-> "MIX_GAIN", vga |-> "VGA_GAIN"]

-----------------------------------------------------------------------------
Distance(x, y) == IF x < y THEN y - x ELSE x - y

\* generic_set_gain_db: the first of the nearest steps.
NearestStep(t, db) ==
  CHOOSE g \in Steps :
    /\ \A h \in Steps : Distance(t[g], db) <= Distance(t[h], db)
    /\ \A h \in 0 .. g - 1 : Distance(t[g], db) < Distance(t[h], db)

\* The scan of pg2sdr_set_total_gain_db: it ends with the first entry after
\* the first that has more gain than asked for. Mutant: or before it.
NearestShort(t, db) ==
  LET seen == {i \in 1 .. Len(t) : i = 1 \/ \A j \in 2 .. i : t[j].gain_db <= db}
  IN CHOOSE i \in seen :
       /\ \A j \in seen : Distance(t[i].gain_db, db) <= Distance(t[j].gain_db, db)
       /\ \A j \in seen : j < i => Distance(t[i].gain_db, db) < Distance(t[j].gain_db, db)

Nearest(t, db) ==
  LET seen == {i \in 1 .. Len(t) : \A j \in 2 .. i - 1 : t[j].gain_db <= db}
  IN CHOOSE i \in seen :
       /\ \A j \in seen : Distance(t[i].gain_db, db) <= Distance(t[j].gain_db, db)
       /\ \A j \in seen : j < i => Distance(t[i].gain_db, db) < Distance(t[j].gain_db, db)

\* What qsort may make of a table: equal gains may come out in either order.
Sorted(t) ==
  {[i \in 1 .. Len(t) |-> t[p[i]]] :
     p \in {q \in [1 .. Len(t) -> 1 .. Len(t)] :
              /\ \A i, j \in 1 .. Len(t) : q[i] = q[j] => i = j
              /\ \A i \in 1 .. Len(t) - 1 : t[q[i]].gain_db <= t[q[i + 1]].gain_db}}

\* A write of a change set, and one that fails when some of it may have been
\* written.
Fails == faults < MaxFaults /\ faults' = faults + 1
WriteChanges(changes) == regs' = Write(regs, changes) /\ UNCHANGED faults
WriteFails(changes) == Fails /\ regs' \in PartialWrites(regs, changes)

-----------------------------------------------------------------------------
(* pg2sdr__tuner_set_gains: want gives the steps of some of the stages.    *)

Differs(want) == {s \in DOMAIN want : want[s] # gains[s]}
Changes(want) ==
  [f \in {GainField[s] : s \in Differs(want)} |-> want[CHOOSE s \in Stages : GainField[s] = f]]

TunerSetGains(want) ==
  /\ WriteChanges(Changes(want))
  /\ gains' = [s \in Stages |-> IF s \in DOMAIN want THEN want[s] ELSE gains[s]]
  /\ in_doubt' = in_doubt \ Differs(want)

TunerSetGainsFails(want) ==
  /\ Differs(want) # {}
  /\ WriteFails(Changes(want))
  /\ in_doubt' = in_doubt \cup Differs(want)
  /\ UNCHANGED gains

\* generic_set_gain on one stage. Mutant: current_gain_entry stays.
SetStageKeepsEntry(s, g) ==
  /\ TunerSetGains([x \in {s} |-> g]) \/ TunerSetGainsFails([x \in {s} |-> g])
  /\ UNCHANGED <<entry, gain_table, stage_table>>

SetStage(s, g) ==
  /\ \/ TunerSetGains([x \in {s} |-> g]) /\ entry' = NULL
     \/ TunerSetGainsFails([x \in {s} |-> g]) /\ UNCHANGED entry
  /\ UNCHANGED <<gain_table, stage_table>>

set_gain(s, g) == SetStage(s, g)
set_gain_db(s, db) == SetStage(s, NearestStep(stage_table[s], db))

\* The entry in use already is not written again.
set_total_gain_db(db) ==
  LET nearest == Nearest(gain_table, db)
      want == gain_table[nearest].steps
  IN /\ entry # nearest
     /\ \/ TunerSetGains(want) /\ entry' = nearest
        \/ TunerSetGainsFails(want) /\ UNCHANGED entry
     /\ UNCHANGED <<gain_table, stage_table>>

\* pg2sdr_set_gain_tables, which replaces the total gain table and any of the
\* stages' tables: one such table here. A call that replaces several is several
\* of these steps in a row; it fails when there is no memory for the total gain
\* table, when it has replaced the others.
set_gain_table(t) ==
  /\ gain_table' \in Sorted(t)
  /\ entry' = NULL
  /\ UNCHANGED <<regs, gains, stage_table, in_doubt, faults>>

set_stage_table(s, t) ==
  /\ stage_table' = [stage_table EXCEPT ![s] = t]
  /\ UNCHANGED <<regs, gains, gain_table, entry, in_doubt, faults>>

GainNext ==
  \/ \E s \in Stages, g \in Steps : set_gain(s, g)
  \/ \E s \in Stages, db \in Gains : set_gain_db(s, db)
  \/ \E db \in Gains : set_total_gain_db(db)
  \/ \E t \in GainTables : set_gain_table(t)
  \/ \E s \in Stages, t \in StageTables : set_stage_table(s, t)

-----------------------------------------------------------------------------
(* Properties.                                                             *)

\* While a gain table entry is taken to be in use, the steps kept for the stages
\* are its steps: the getters of the total gain and of the stages agree.
EntryMatchesStages == entry # NULL => gains = gain_table[entry].steps

\* And the tuner has them: pg2sdr_set_total_gain_db may skip the write. A stage
\* whose last write failed is excepted, for there the code is wrong: the write
\* may have reached the tuner, yet the entry stays in use (generic_set_gain) and
\* the kept step is the old one (pg2sdr__tuner_set_gains), so that the skip
\* leaves the wrong gain and the getters do not tell.
EntryInTuner ==
  entry # NULL =>
    \A s \in Stages \ in_doubt : Holds(regs, GainField[s], gain_table[entry].steps[s])

\* pg2sdr_set_total_gain_db picks an entry no other is nearer than, although
\* it stops scanning the table, sorted by qsort, part of the way.
NearestIsNearest ==
  \A db \in Gains, i \in DOMAIN gain_table :
    Distance(gain_table[Nearest(gain_table, db)].gain_db, db) <= Distance(gain_table[i].gain_db, db)
=============================================================================
