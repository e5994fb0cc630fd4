------------------------------- MODULE Device -------------------------------
(***************************************************************************)
(* The life of a pg2sdr_device, src/src/device.c: build_device takes       *)
(* memory, a USB handle and the interface, and initialises the tuner; any  *)
(* step may fail, and what has been taken must be given back. An open      *)
(* device offers what modules Gain and Tuner say. Another program may hold *)
(* the interface, and leave the tuner in any state.                        *)
(***************************************************************************)
EXTENDS Tuner

CONSTANTS Versions,      \* firmware versions: what they are and are compatible with
          LibraryVersion, LibraryCompat  \* PG2_CURRENT_VERSION, PG2_COMPAT_VERSION

ASSUME DeviceAssumption ==
  /\ Versions \subseteq [version : Nat, compat : Nat]
  /\ LibraryVersion \in Nat /\ LibraryCompat \in Nat

VARIABLES
  dev,       \* where build_device is, "open" or "none"
  memory,    \* what is allocated for the device
  handle,    \* is dev->usb_handle open?
  interface, \* who has claimed interface 0: "device", "other" or "nobody"
  firmware   \* what the device runs

lifeVars == <<dev, memory, handle, interface, firmware>>
device_vars == <<regs, faults, gainVars, tunerVars, lifeVars>>

DefaultGainTable == CHOOSE t \in GainTables : TRUE

\* The settings of a device nobody has open: in the code there are none.
Initial ==
  /\ gains = [s \in Stages |-> 0] /\ entry = NULL /\ in_doubt = {}
  /\ gain_table \in Sorted(DefaultGainTable)
  /\ stage_table \in [Stages -> StageTables]
  /\ filter = <<>> /\ pll = NoPll /\ new = NoPll /\ sideband = "LOWER" /\ step = "idle"
  /\ current = MaxCurrent

DeviceInit ==
  /\ Initial
  /\ regs \in PowerOn
  /\ faults = 0
  /\ dev = "none" /\ memory = {} /\ handle = FALSE
  /\ interface \in {"nobody", "other"}
  /\ firmware \in Versions

-----------------------------------------------------------------------------
\* The struct is gone, and what it said; the next open starts from nothing.
Freed ==
  /\ gains' = [s \in Stages |-> 0] /\ entry' = NULL /\ in_doubt' = {}
  /\ gain_table' \in Sorted(DefaultGainTable)
  /\ stage_table' \in [Stages -> StageTables]
  /\ filter' = <<>> /\ pll' = NoPll /\ new' = NoPll /\ sideband' = "LOWER" /\ step' = "idle"
  /\ current' = MaxCurrent

\* The labels cleanup and cleanup_nomutex; closing a handle releases what it
\* has claimed. Mutant: the handle is not closed.
CleanupKeepsHandle == dev' = "none" /\ memory' = {} /\ UNCHANGED <<handle, interface>>

Cleanup ==
  /\ dev' = "none"
  /\ memory' = {}
  /\ handle' = FALSE
  /\ interface' = IF interface = "device" THEN "nobody" ELSE interface

\* The steps of build_device. The strings of the caller are its to free.
Then(here, next) == dev = here /\ dev' = next

Allocate ==
  /\ Then("none", "usb")
  /\ memory' = {"strings", "device"}
  /\ UNCHANGED <<regs, faults, gainVars, tunerVars, handle, interface, firmware>>

OpenUsb ==
  /\ Then("usb", "claim")
  /\ handle' = TRUE
  /\ UNCHANGED <<regs, faults, gainVars, tunerVars, memory, interface, firmware>>

\* libusb_set_configuration and libusb_claim_interface.
Claim ==
  /\ Then("claim", "versions")
  /\ interface = "nobody"
  /\ interface' = "device"
  /\ UNCHANGED <<regs, faults, gainVars, tunerVars, memory, handle, firmware>>

Compatible(v) == LibraryVersion >= v.compat /\ v.version >= LibraryCompat

\* Comms check, metadata, versions, status, and the settings of a new device.
CheckVersions ==
  /\ Then("versions", "power")
  /\ Compatible(firmware)
  /\ UNCHANGED <<regs, faults, gainVars, tunerVars, memory, handle, interface, firmware>>

\* pg2sdr__init_tuner: the RF section is powered off and on.
PowerReset ==
  /\ Then("power", "tuner")
  /\ regs' \in PowerOn
  /\ UNCHANGED <<faults, gainVars, tunerVars, memory, handle, interface, firmware>>

InitTuner ==
  /\ Then("tuner", "tables")
  /\ WriteChanges(InitialValue)
  /\ UNCHANGED <<gainVars, tunerVars, memory, handle, interface, firmware>>

\* The default tables.
SetTables ==
  /\ Then("tables", "open")
  /\ memory' = memory \cup {"gain_table", "bandpass_table"}
  /\ UNCHANGED <<regs, faults, gainVars, tunerVars, handle, interface, firmware>>

OpenFails ==
  /\ dev \notin {"none", "open"}
  /\ \/ dev # "tuner" /\ Fails /\ UNCHANGED regs
     \/ dev = "tuner" /\ WriteFails(InitialValue)
     \/ dev = "claim" /\ interface = "other" /\ UNCHANGED <<faults, regs>>
     \/ dev = "versions" /\ ~Compatible(firmware) /\ UNCHANGED <<faults, regs>>
  /\ Cleanup
  /\ UNCHANGED <<gainVars, tunerVars, firmware>>

\* pg2sdr_close_device; failing to power the RF section off is not an error.
\* Both strings are lost.
Close ==
  /\ dev = "open" /\ step = "idle"
  /\ dev' = "none"
  /\ memory' = memory \ {"device", "gain_table", "bandpass_table"}
  /\ handle' = FALSE
  /\ interface' = "nobody"
  /\ regs' \in PowerOn
  /\ Freed
  /\ UNCHANGED <<faults, firmware>>

OpenDevice == dev = "open" /\ TunerNext /\ UNCHANGED lifeVars

\* Another program claims and releases the interface, or updates the firmware.
OtherProgram ==
  /\ interface # "device"
  /\ interface' \in {"nobody", "other"}
  /\ regs' \in PowerOn
  /\ firmware' \in Versions
  /\ UNCHANGED <<faults, gainVars, tunerVars, dev, memory, handle>>

DeviceNext ==
  \/ Allocate \/ OpenUsb \/ Claim \/ CheckVersions \/ PowerReset \/ InitTuner \/ SetTables
  \/ OpenFails \/ Close \/ OpenDevice \/ OtherProgram

DeviceSpec == DeviceInit /\ [][DeviceNext]_device_vars

-----------------------------------------------------------------------------
(* Properties.                                                             *)

Opened(property) == dev = "open" => property

\* An open device's registers hold the settings the library believes in,
\* whatever the last program or the power left in them, and however often it
\* was opened before (SettingsKept); and what was set once and for all stays
\* (FixedFieldsKept).
SettingsInRegisters == Opened(SettingsKept /\ FixedFieldsKept)

\* The PLL runs as it is known to (TunedAsAsked), between calls.
PllInRegisters == Opened(step = "idle" => TunedAsAsked)

\* The gain entry an open device is taken to use is the one its tuner is set to,
\* in every stage whose last write did not fail, whatever tables were replaced
\* and stages set by themselves since (EntryMatchesStages, EntryInTuner).
EntryInUse == Opened(EntryMatchesStages /\ EntryInTuner)

\* However build_device fails, or when the device is closed, it leaves neither
\* memory nor the handle nor the claim behind, the two strings of a device
\* that was open excepted; and it works with a device only if it has the claim.
NothingLeaks ==
  /\ dev = "none" => ~handle /\ interface # "device" /\ memory \subseteq {"strings"}
  /\ dev \in {"versions", "power", "tuner", "tables", "open"} => interface = "device" /\ handle
=============================================================================
