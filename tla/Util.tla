-------------------------------- MODULE Util --------------------------------
(***************************************************************************)
(* The commands of pg2-util that load, write and verify firmware, reset    *)
(* and put a stick into standby: src/cli/pg2-util. One runs at a time, and *)
(* every control transfer it makes may fail. A load makes the stick vanish *)
(* from the bus, and a libusb hotplug callback tells when it, or another   *)
(* one, arrives. Firmware.tla adds the self-test, which loads firmware the *)
(* same way but goes on with the next stick when one fails.                *)
(***************************************************************************)
EXTENDS Stick, FiniteSetsExt

CONSTANT Commands   \* what a user may run

\* What each subcommand accepts. Port 0 is no -p option; -s narrows the choice of
\* a stick the same way.
Options(name, images, dryrun, force_erase, wait) ==
  [name : {name}, image : images, port : Ports \cup {0},
   dryrun : dryrun, force_erase : force_erase, wait : wait]

No == {FALSE}
subcommand_load == Options("load", Images, No, No, No)
subcommand_write == Options("write", Images, BOOLEAN, BOOLEAN, No)
subcommand_verify == Options("verify", Images, No, No, No)
subcommand_reset == Options("reset", {"none"}, No, No, BOOLEAN)
subcommand_standby == Options("standby", {"none"}, No, No, No)
subcommand_selftest == Options("selftest", Images \cup {"none"}, No, No, No)

subcommands ==
  subcommand_load \cup subcommand_write \cup subcommand_verify \cup
  subcommand_reset \cup subcommand_standby \cup subcommand_selftest

ASSUME UtilAssumption == Commands \subseteq subcommands

VARIABLES
  cmd,      \* the command that runs, or ran last
  pc,       \* what it does next, or "idle"
  dev,      \* its libusb_device: a stick, "gone" once that has left the bus,
            \* or "none"
  handle,   \* is it open? "closed", "open" or, with interface 0, "claimed"
  hotplug,  \* firmware_hotplug_state: the port, device and maybe_device; and
            \* which stick was there, or <<>>
  block,    \* blocks sent
  sector,   \* the sector to be written
  flash_sector, \* what the tool thinks its pages hold
  modified, \* have pages been written?
  test,     \* of the self-test: the sticks to do, the step, whether the tuner
            \* was detected, all_pass of this stick and success so far; or <<>>
  result    \* how the last command has ended: EXIT_SUCCESS or EXIT_FAILURE

toolVars == <<cmd, pc, dev, handle, hotplug, block, sector, flash_sector, modified, test, result>>
loadVars == <<hotplug, block>>
writeVars == <<sector, flash_sector, modified>>
outVars == <<test, result>>

Writing == cmd.name \in {"write", "verify"}

UtilInit ==
  /\ cmd \in Commands /\ pc = "idle" /\ dev = "none" /\ handle = "closed"
  /\ hotplug = <<>> /\ block = 0
  /\ sector = 0 /\ flash_sector = <<>> /\ modified = FALSE
  /\ test = <<>> /\ result = "none"

-----------------------------------------------------------------------------
(* A device leaves the bus or arrives on it.                               *)

Forget(d, device) == IF device = d THEN "gone" ELSE device
DeviceLeft(d) ==
  /\ dev' = Forget(d, dev)
  /\ hotplug' = IF hotplug = <<>> THEN <<>>
                ELSE [hotplug EXCEPT !.device = Forget(d, @), !.maybe_device = Forget(d, @)]
  /\ test' = IF test = <<>> THEN <<>> ELSE [test EXCEPT !.todo = {Forget(d, e) : e \in @}]

\* hotplug_callback: the latest device on the port, the first on another one.
\* Mutant: any will do.
CallbackAnyPort(d, port) ==
  hotplug' = IF hotplug = <<>> THEN <<>> ELSE [hotplug EXCEPT !.device = d]

Callback(d, port) ==
  hotplug' = IF hotplug = <<>> THEN <<>>
             ELSE IF port = hotplug.port THEN [hotplug EXCEPT !.device = d]
             ELSE IF hotplug.maybe_device = "none" THEN [hotplug EXCEPT !.maybe_device = d]
             ELSE hotplug

Arrives(d) ==
  /\ Boot(d)
  /\ IF runs'[d] = "hung" THEN UNCHANGED hotplug ELSE Callback(d, where'[d])
  /\ UNCHANGED <<cmd, pc, dev, handle, block, writeVars, outVars>>

IsUnplugged(d) ==
  /\ Unplug(d)
  /\ DeviceLeft(d)
  /\ UNCHANGED <<cmd, pc, handle, block, writeVars, result>>

OtherClaims(d) ==
  /\ Fault
  /\ runs[d] \in Images /\ user[d] = "nobody"
  /\ ~(dev = d /\ handle = "claimed")
  /\ user' = [user EXCEPT ![d] = "other"]
  /\ active' = [active EXCEPT ![d] = Powered]
  /\ UNCHANGED <<flash, staged, runs, where, switch, toolVars>>

-----------------------------------------------------------------------------
(* Beginning and end of a command.                                         *)

\* The labels cleanup.
Finish(outcome) ==
  /\ pc' = "idle" /\ result' = outcome
  /\ dev' = "none" /\ handle' = "closed" /\ hotplug' = <<>> /\ block' = 0
  /\ sector' = 0 /\ flash_sector' = <<>> /\ modified' = FALSE
  /\ test' = <<>>
  /\ UNCHANGED cmd

\* A step has failed: the command has, except for the self-test, which goes on
\* with the next stick.
Failure ==
  IF test = <<>> THEN Finish("FAILURE")
  ELSE /\ pc' = "next"
       /\ test' = [test EXCEPT !.success = FALSE]
       /\ dev' = "none" /\ handle' = "closed" /\ hotplug' = <<>> /\ block' = 0
       /\ UNCHANGED <<cmd, writeVars, result>>

\* A file that image_read refuses ends the command here.
Run(c) ==
  /\ pc = "idle"
  /\ cmd' = c
  /\ pc' = "search" /\ result' = "none"
  /\ UNCHANGED <<stickVars, dev, handle, loadVars, writeVars, test>>

\* Any transfer may fail, or the user interrupt the command.
Fails ==
  /\ pc \notin {"idle", "standby", "next", "test", "cleanup"}
  /\ Fault
  /\ Failure
  /\ UNCHANGED <<flash, staged, runs, where, switch, active, user>>

Interrupted ==
  /\ pc # "idle"
  /\ Fault
  /\ Finish("FAILURE")
  /\ UNCHANGED <<flash, staged, runs, where, switch, active, user>>

\* pg2sdr__discover_matching, for Pro Sticks and any in recovery mode. Mutant:
\* for those that run.
FoundRunning == {d \in Devices : runs[d] \in Images /\ cmd.port \in {0, where[d]}}

Found == {d \in Devices : OnBus(d) /\ cmd.port \in {0, where[d]}}

\* device_search has to find exactly one device. One in recovery mode cannot be
\* reset or put into standby, and is loaded before its flash is written.
Search ==
  /\ pc = "search" /\ cmd.name # "selftest"
  /\ LET found == {d \in Found : cmd.name \in {"reset", "standby"} => ~Recovery(d)}
     IN IF Cardinality(found) # 1 THEN Finish("FAILURE")
        ELSE \E d \in found :
               /\ dev' = d
               /\ pc' = IF cmd.name = "load" \/ Recovery(d) THEN "load_open" ELSE "open"
               /\ UNCHANGED <<cmd, handle, loadVars, writeVars, outVars>>
  /\ UNCHANGED stickVars

\* device_open, which may have to claim the interface. Mutant: it never does.
OpenUnclaimed(claim, next) ==
  /\ handle' = "open" /\ pc' = next
  /\ UNCHANGED <<cmd, dev, loadVars, writeVars, outVars>>

Open(claim, next) ==
  IF claim /\ user[dev] # "nobody" THEN Failure
  ELSE /\ handle' = IF claim THEN "claimed" ELSE "open"
       /\ pc' = next
       /\ UNCHANGED <<cmd, dev, loadVars, writeVars, outVars>>

OpenToLoad ==
  /\ pc = "load_open" /\ dev \in Devices
  /\ Open(TRUE, "load")
  /\ UNCHANGED stickVars

FirstStep ==
  CASE cmd.name = "write" -> "scan"
    [] cmd.name = "reset" -> IF cmd.wait THEN "prepare" ELSE "reset"
    [] OTHER -> cmd.name

\* The device that is written, verified, reset or put into standby. Only a dry
\* run and a reset do not claim the interface.
OpenDevice ==
  /\ pc = "open" /\ dev \in Devices
  /\ Open(cmd.name # "reset" /\ ~cmd.dryrun, FirstStep)
  /\ UNCHANGED stickVars

-----------------------------------------------------------------------------
(* dfu_load and mem_load.                                                  *)

\* One block of dfu_download_bytes, and the status after it, or of
\* load_image_bytes.
Load ==
  /\ pc = "load" /\ dev \in Devices
  /\ staged' = [staged EXCEPT ![dev][block + 1] = cmd.image]
  /\ block' = block + 1
  /\ pc' = IF block' < Blocks THEN "load" ELSE "prepare"
  /\ UNCHANGED <<flash, runs, where, switch, active, user, faults, cmd, dev, handle, hotplug, writeVars, outVars>>

hotplug_prepare ==
  /\ pc = "prepare" /\ dev \in Devices
  /\ hotplug' = [port |-> where[dev], was |-> dev, device |-> "none", maybe_device |-> "none"]
  /\ pc' = IF cmd.name = "reset" THEN "reset" ELSE "start"
  /\ UNCHANGED <<stickVars, cmd, dev, handle, block, writeVars, outVars>>

\* dfu_manifest, load_image_end, pg2sdr__ctrl_reset: the device leaves the bus.
\* Whatever error the last transfer to it ends with, the DFU loader may not know
\* whether it did.
Restart(d, to) ==
  /\ Leaves(d, to)
  /\ dev' = "gone"
  /\ UNCHANGED <<flash, staged, where, switch, faults>>

Start ==
  /\ pc = "start" /\ dev \in Devices
  /\ \/ Restart(dev, "loaded")
     \/ Recovery(dev) /\ Fault
        /\ UNCHANGED <<flash, staged, runs, where, switch, active, user, dev>>
  /\ handle' = "closed" /\ pc' = "await"
  /\ UNCHANGED <<cmd, loadVars, writeVars, outVars>>

Reset ==
  /\ pc = "reset" /\ dev \in Devices
  /\ IF cmd.wait
     THEN /\ Restart(dev, "reset") /\ handle' = "closed" /\ pc' = "await"
          /\ UNCHANGED <<cmd, loadVars, writeVars, outVars>>
     ELSE /\ Leaves(dev, "reset") /\ UNCHANGED <<flash, staged, where, switch, faults>>
          /\ Finish("SUCCESS")

\* The end of hotplug_await, with the device it has settled for, which may be
\* gone again.
Arrived(device) ==
  \/ /\ device = "gone" \/ Recovery(device)
     /\ Failure
  \/ /\ ~Recovery(device)
     /\ IF cmd.name \in {"load", "reset"} THEN Finish("SUCCESS")
        ELSE /\ dev' = device
             /\ pc' = IF Writing THEN "open" ELSE "connect"
             /\ hotplug' = <<>> /\ block' = 0
             /\ UNCHANGED <<cmd, handle, writeVars, outVars>>

Await ==
  /\ pc = "await"
  /\ hotplug.device # "none"
  /\ Arrived(hotplug.device)
  /\ UNCHANGED stickVars

\* Three seconds have passed. That they do before a device boots is a fault.
Timeout ==
  /\ pc = "await"
  /\ hotplug.device = "none"
  /\ IF \E d \in Devices : runs[d] \in {"reset", "loaded"} THEN Fault ELSE UNCHANGED faults
  /\ IF hotplug.maybe_device = "none" THEN Failure ELSE Arrived(hotplug.maybe_device)
  /\ UNCHANGED <<flash, staged, runs, where, switch, active, user>>

-----------------------------------------------------------------------------
(* write_image and verify_image.                                           *)

SectorsOf(image) == {p \div SectorPages : p \in DOMAIN ImagePages[image]}

\* Has a page that is to change something written in it? Mutant: is it the
\* image that has?
NeedsEraseWrong(content, s) ==
  \E p \in PagesOf(s) : content[p] # Padded(cmd.image)[p] /\ Padded(cmd.image)[p] = "erased"

NeedsErase(content, s) ==
  \E p \in PagesOf(s) : content[p] # Padded(cmd.image)[p] /\ content[p] # "erased"

\* The sector is read page by page.
Scan ==
  /\ pc = "scan" /\ dev \in Devices
  /\ flash_sector' = [p \in PagesOf(sector) |-> flash[dev][p]]
  /\ pc' = IF cmd.force_erase \/ NeedsErase(flash_sector', sector) THEN "erase" ELSE "pages"
  /\ UNCHANGED <<stickVars, cmd, dev, handle, loadVars, sector, modified, outVars>>

SetPages(pages, content) ==
  flash' = [flash EXCEPT ![dev] = [p \in Pages |-> IF p \in pages THEN content ELSE @[p]]]

\* flash_erase_sector, or the dry run's. The tool does not read the sector back:
\* an erase that reports success is taken to have erased it. Mutant: always
\* flash_erase_sector.
EraseSectorAnyway ==
  /\ pc = "erase" /\ dev \in Devices
  /\ SetPages(PagesOf(sector), "erased")
  /\ flash_sector' = [p \in PagesOf(sector) |-> "erased"]
  /\ pc' = "pages"
  /\ UNCHANGED <<staged, runs, where, switch, active, user, faults, cmd, dev, handle, loadVars, sector, modified, outVars>>

EraseSector ==
  /\ pc = "erase" /\ dev \in Devices
  /\ IF cmd.dryrun THEN UNCHANGED flash ELSE SetPages(PagesOf(sector), "erased")
  /\ flash_sector' = [p \in PagesOf(sector) |-> "erased"]
  /\ pc' = "pages"
  /\ UNCHANGED <<staged, runs, where, switch, active, user, faults, cmd, dev, handle, loadVars, sector, modified, outVars>>

\* Fails half way.
EraseFails ==
  /\ pc = "erase" /\ dev \in Devices /\ ~cmd.dryrun
  /\ Fault
  /\ SetPages(PagesOf(sector), "garbage")
  /\ Finish("FAILURE")
  /\ UNCHANGED <<staged, runs, where, switch, active, user>>

ToWrite == {p \in PagesOf(sector) : flash_sector[p] # Padded(cmd.image)[p]}

\* What the flash makes of a page written over what it held.
Written(p) == IF flash[dev][p] = "erased" THEN Padded(cmd.image)[p] ELSE "merged"

\* The next page that differs is written. The flash may not take it, and not
\* tell.
WritePage ==
  /\ pc = "pages" /\ dev \in Devices
  /\ ToWrite # {}
  /\ LET p == Min(ToWrite)
     IN /\ \/ /\ IF cmd.dryrun THEN UNCHANGED flash ELSE SetPages({p}, Written(p))
              /\ UNCHANGED faults
           \/ ~cmd.dryrun /\ Fault /\ SetPages({p}, "garbage")
        /\ flash_sector' = [flash_sector EXCEPT ![p] = Padded(cmd.image)[p]]
  /\ modified' = TRUE
  /\ UNCHANGED <<staged, runs, where, switch, active, user, cmd, pc, dev, handle, loadVars, sector, outVars>>

WriteFails ==
  /\ pc = "pages" /\ dev \in Devices /\ ~cmd.dryrun
  /\ ToWrite # {}
  /\ Fault
  /\ SetPages({Min(ToWrite)}, "garbage")
  /\ Finish("FAILURE")
  /\ UNCHANGED <<staged, runs, where, switch, active, user>>

\* After the last sector do_write_verify verifies what has been written.
\* Mutant: it does not.
SectorDoneUnverified ==
  /\ pc = "pages" /\ ToWrite = {}
  /\ IF sector + 1 \in SectorsOf(cmd.image)
     THEN /\ sector' = sector + 1 /\ pc' = "scan"
          /\ UNCHANGED <<cmd, dev, handle, loadVars, flash_sector, modified, outVars>>
     ELSE Finish("SUCCESS")
  /\ UNCHANGED stickVars

SectorDone ==
  /\ pc = "pages" /\ ToWrite = {}
  /\ IF sector + 1 \in SectorsOf(cmd.image)
     THEN /\ sector' = sector + 1 /\ pc' = "scan"
          /\ UNCHANGED <<cmd, dev, handle, loadVars, flash_sector, modified, outVars>>
     ELSE IF modified /\ ~cmd.dryrun
     THEN /\ pc' = "verify"
          /\ UNCHANGED <<cmd, dev, handle, loadVars, writeVars, outVars>>
     ELSE Finish("SUCCESS")
  /\ UNCHANGED stickVars

Verify ==
  /\ pc = "verify" /\ dev \in Devices
  /\ Finish(IF Holds(flash[dev], cmd.image) THEN "SUCCESS" ELSE "FAILURE")
  /\ UNCHANGED stickVars

-----------------------------------------------------------------------------
\* do_standby: both commands are sent, whether the first fails or not. Mutant:
\* only the second counts.
StandbySecondCounts ==
  /\ pc = "standby" /\ dev \in Devices
  /\ \E failed \in SUBSET Powered :
       /\ active' = [active EXCEPT ![dev] = @ \cap failed]
       /\ IF failed = {} THEN UNCHANGED faults ELSE Fault
       /\ Finish(IF "rf" \in failed THEN "FAILURE" ELSE "SUCCESS")
  /\ UNCHANGED <<flash, staged, runs, where, switch, user>>

Standby ==
  /\ pc = "standby" /\ dev \in Devices
  /\ \E failed \in SUBSET Powered :
       /\ active' = [active EXCEPT ![dev] = @ \cap failed]
       /\ IF failed = {} THEN UNCHANGED faults ELSE Fault
       /\ Finish(IF failed = {} THEN "SUCCESS" ELSE "FAILURE")
  /\ UNCHANGED <<flash, staged, runs, where, switch, user>>

\* Every transfer fails when the device is gone.
DeviceGone ==
  /\ pc \notin {"idle", "await", "next"}
  /\ dev = "gone"
  /\ pc = "pages" => ToWrite # {}
  /\ Failure
  /\ UNCHANGED stickVars

ToolStep ==
  \/ DeviceGone \/ Search \/ OpenToLoad \/ OpenDevice
  \/ Load \/ hotplug_prepare \/ Start \/ Reset \/ Await \/ Timeout
  \/ Scan \/ EraseSector \/ WritePage \/ SectorDone \/ Verify \/ Standby

ToolFails == Fails \/ Interrupted \/ EraseFails \/ WriteFails
=============================================================================
