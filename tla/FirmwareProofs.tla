--------------------------- MODULE FirmwareProofs ---------------------------
(***************************************************************************)
(* Theorems about module Firmware, for any sticks, images, commands, sizes *)
(* of the flash and number of faults: what pg2-util never does to a stick. *)
(***************************************************************************)
EXTENDS Firmware, NaturalFacts, TLAPS

-----------------------------------------------------------------------------
(* Facts about the operators of the model.                                 *)

LEMMA MinInSet ==
  ASSUME NEW S \in SUBSET Nat, S # {}
  PROVE  Min(S) \in S
BY LeastElement DEF Min, Least

\* What the command line parser makes of the options.
LEMMA CommandFacts ==
  ASSUME NEW c \in Commands
  PROVE  /\ c.name \in {"load", "write", "verify", "reset", "standby", "selftest"}
         /\ c.dryrun \in BOOLEAN /\ c.force_erase \in BOOLEAN
         /\ c.name # "write" => c.dryrun = FALSE
         /\ c.name \in {"load", "write", "verify"} => c.image \in Images
BY UtilAssumption DEF subcommands, subcommand_load, subcommand_write, subcommand_verify,
   subcommand_reset, subcommand_standby, subcommand_selftest, Options, No

LEMMA FirstSector == ASSUME NEW image \in Images PROVE 0 \in SectorsOf(image)
<1>1. PICK last \in Pages : DOMAIN ImagePages[image] = 0 .. last
  BY StickAssumption
<1>2. last \in Nat
  BY <1>1, StickAssumption DEF Pages
<1>3. 0 \in DOMAIN ImagePages[image]
  BY <1>1, <1>2
<1>4. 0 \div SectorPages = 0
  BY StickAssumption
<1> QED BY <1>3, <1>4 DEF SectorsOf

-----------------------------------------------------------------------------
(* The inductive invariant.                                                *)

Shape ==
  /\ cmd \in Commands
  /\ DOMAIN flash = Devices /\ DOMAIN active = Devices /\ DOMAIN user = Devices
  /\ pc \in {"erase", "pages"} => DOMAIN flash_sector = PagesOf(sector)

\* How far a command can get, and when the self-test's variables are in use.
Progress ==
  /\ pc \in {"scan", "erase", "pages"} => cmd.name = "write"
  /\ pc = "verify" => Writing
  /\ pc = "standby" => cmd.name = "standby"
  /\ pc = "open" => cmd.name \in {"write", "verify", "reset", "standby"}
  /\ pc \in {"connect", "next", "test", "cleanup"} => cmd.name = "selftest"
  /\ pc \in {"load_open", "load", "prepare", "start", "reset", "await"} => cmd.name # "standby"
  /\ pc = "idle" \/ cmd.name # "selftest" => test = <<>>

\* Between devices none is claimed; a claim is the tool's alone; and no step that
\* changes a stick is reached without it, but a reset, and dry runs, which change
\* nothing.
Claims ==
  /\ pc \in {"idle", "search", "load_open", "open", "connect", "await", "next"} =>
       handle # "claimed"
  /\ handle = "claimed" /\ dev \in Devices => user[dev] = "nobody"
  /\ pc \in {"load", "start", "standby", "test", "cleanup"} => handle = "claimed"
  /\ pc = "prepare" => cmd.name = "reset" \/ handle = "claimed"
  /\ pc \in {"scan", "erase", "pages"} => cmd.dryrun \/ handle = "claimed"

\* The sector at hand is the image's.
InImage ==
  /\ pc \in {"scan", "erase", "pages"} => sector \in SectorsOf(cmd.image)
  /\ pc \notin {"scan", "erase", "pages", "verify"} => sector = 0

\* What the tool believes of the sector: a sector is erased for a reason, and the
\* pages that are still to be written are erased.
Believed ==
  dev \in Devices /\ ~cmd.dryrun =>
    /\ pc = "erase" =>
         cmd.force_erase \/ \E p \in PagesOf(sector) : flash[dev][p] # Padded(cmd.image)[p]
    /\ pc = "pages" =>
         \A p \in ToWrite : flash[dev][p] = "erased" /\ flash_sector[p] = "erased"

IInv == Shape /\ Progress /\ Claims /\ InImage /\ Believed

LEMMA InitIInv == Init => IInv
BY DEF Init, StickInit, UtilInit, IInv, Shape, Progress, Claims, InImage, Believed

-----------------------------------------------------------------------------
(* Every step preserves the invariant.                                     *)

\* The end of a command, well or badly.
LEMMA FinishIInv ==
  ASSUME IInv, NEW outcome, Finish(outcome),
         DOMAIN flash' = Devices, DOMAIN active' = Devices, DOMAIN user' = Devices
  PROVE  IInv'
<1>1. Shape' /\ Progress'
  BY DEF IInv, Shape, Progress, Finish, Writing
<1>2. Claims' /\ InImage' /\ Believed'
  BY StickAssumption DEF Claims, InImage, Believed, Finish
<1> QED BY <1>1, <1>2 DEF IInv

LEMMA FailureIInv ==
  ASSUME IInv, Failure,
         DOMAIN flash' = Devices, DOMAIN active' = Devices, DOMAIN user' = Devices
  PROVE  IInv'
<1>1. CASE test = <<>>
  BY <1>1, FinishIInv DEF Failure
<1>2. CASE test # <<>>
  <2>1. pc # "idle" /\ cmd.name = "selftest"
    BY <1>2 DEF IInv, Progress
  <2>2. sector = 0
    BY <2>1 DEF IInv, Progress, InImage, Writing
  <2>3. /\ pc' = "next" /\ dev' = "none" /\ handle' = "closed"
        /\ UNCHANGED <<cmd, sector, flash_sector>>
    BY <1>2 DEF Failure, writeVars
  <2> QED BY <2>1, <2>2, <2>3, StickAssumption
       DEF IInv, Shape, Progress, Claims, InImage, Believed, Writing
<1> QED BY <1>1, <1>2

\* A command begins and looks for its stick.
LEMMA BeginIInv ==
  ASSUME IInv, \/ \E c \in Commands : Run(c)
               \/ Search \/ SelftestSearch \/ NextStick
  PROVE  IInv'
<1>1. ASSUME NEW c \in Commands, Run(c) PROVE IInv'
  BY <1>1 DEF Run, stickVars, writeVars, IInv, Shape, Progress, Claims, InImage, Believed, Writing
<1>2. CASE Search
  <2>1. CASE Finish("FAILURE")
    BY <1>2, <2>1, FinishIInv DEF Search, stickVars, IInv, Shape
  <2>2. CASE ~Finish("FAILURE")
    BY <1>2, <2>2, CommandFacts DEF Search, stickVars, writeVars, outVars, IInv, Shape,
       Progress, Claims, InImage, Believed, Writing, Recovery, Found
  <2> QED BY <2>1, <2>2
<1>3. CASE SelftestSearch
  <2>1. CASE Finish("FAILURE")
    BY <1>3, <2>1, FinishIInv DEF SelftestSearch, stickVars, IInv, Shape
  <2>2. CASE ~Finish("FAILURE")
    BY <1>3, <2>2 DEF SelftestSearch, stickVars, writeVars, IInv, Shape, Progress, Claims,
       InImage, Believed, Writing
  <2> QED BY <2>1, <2>2
<1>4. CASE NextStick
  <2>1. /\ pc = "next" /\ pc' \in {"next", "connect", "load_open"}
        /\ UNCHANGED <<stickVars, cmd, handle, writeVars>>
    BY <1>4 DEF NextStick
  <2> QED BY <2>1 DEF stickVars, writeVars, IInv, Shape, Progress, Claims, InImage, Believed, Writing
<1> QED BY <1>1, <1>2, <1>3, <1>4

\* A device is opened: the claim is taken, or the command fails.
LEMMA OpenIInv ==
  ASSUME IInv, OpenToLoad \/ OpenDevice \/ Connect
  PROVE  IInv'
<1> USE DEF stickVars, writeVars, outVars, loadVars, IInv, Shape, Progress, Claims, InImage,
        Believed, Writing
<1>1. CASE Failure
  BY <1>1, FailureIInv DEF OpenToLoad, OpenDevice, Connect
<1>2. CASE OpenToLoad /\ ~Failure
  BY <1>2 DEF OpenToLoad, Open
<1>3. CASE OpenDevice /\ ~Failure
  <2>1. /\ pc = "open" /\ pc' = FirstStep
        /\ UNCHANGED <<stickVars, cmd, dev, writeVars, outVars>>
        /\ handle' = IF cmd.name # "reset" /\ ~cmd.dryrun THEN "claimed" ELSE "open"
        /\ handle' = "claimed" => user[dev] = "nobody"
    BY <1>3 DEF OpenDevice, Open
  <2>2. \/ cmd.name = "write" /\ pc' = "scan" /\ 0 \in SectorsOf(cmd.image)
        \/ cmd.name = "reset" /\ pc' \in {"prepare", "reset"}
        \/ cmd.name \in {"verify", "standby"} /\ pc' = cmd.name /\ cmd.dryrun = FALSE
    BY <2>1, CommandFacts, FirstSector DEF FirstStep
  <2> QED BY <2>1, <2>2, CommandFacts
<1>4. CASE Connect /\ ~Failure
  BY <1>4 DEF Connect, Open
<1> QED BY <1>1, <1>2, <1>3, <1>4

\* Firmware is sent to the stick, which leaves the bus and comes back.
LEMMA LoadIInv ==
  ASSUME IInv, Load \/ hotplug_prepare \/ Start \/ Reset \/ Await \/ Timeout
  PROVE  IInv'
<1> USE DEF stickVars, writeVars, outVars, loadVars, IInv, Shape, Progress, Claims, InImage,
        Believed, Writing
<1>1. CASE Load
  BY <1>1 DEF Load
<1>2. CASE hotplug_prepare
  BY <1>2, StickAssumption DEF hotplug_prepare
<1>3. CASE Start
  BY <1>3, StickAssumption DEF Start, Restart, Leaves
<1>4. CASE Reset
  <2>1. CASE cmd.wait
    BY <1>4, <2>1, StickAssumption, CommandFacts DEF Reset, Restart, Leaves
  <2>2. CASE ~cmd.wait
    <3>1. Finish("SUCCESS") /\ flash' = flash
      BY <1>4, <2>2 DEF Reset
    <3>2. DOMAIN active' = Devices /\ DOMAIN user' = Devices
      BY <1>4, <2>2 DEF Reset, Leaves
    <3> QED BY <3>1, <3>2, FinishIInv
  <2> QED BY <2>1, <2>2
<1>5. ASSUME pc = "await", NEW device, Arrived(device),
             UNCHANGED <<flash, active, user>>
      PROVE  IInv'
  <2>1. CASE Failure
    BY <1>5, <2>1, FailureIInv
  <2>2. CASE Finish("SUCCESS")
    BY <1>5, <2>2, FinishIInv
  <2>3. CASE ~Failure /\ ~Finish("SUCCESS")
    <3>1. /\ pc' = IF Writing THEN "open" ELSE "connect"
          /\ cmd.name \notin {"load", "reset"}
          /\ UNCHANGED <<cmd, handle, writeVars, outVars>>
      BY <1>5, <2>3 DEF Arrived
    <3> QED BY <1>5, <3>1, CommandFacts
  <2> QED BY <2>1, <2>2, <2>3
<1>6. CASE Await
  BY <1>5, <1>6 DEF Await
<1>7. CASE Timeout
  BY <1>5, <1>7, FailureIInv DEF Timeout
<1> QED BY <1>1, <1>2, <1>3, <1>4, <1>6, <1>7

-----------------------------------------------------------------------------
(* The flash is written.                                                   *)

LEMMA ScanIInv ==
  ASSUME IInv, Scan
  PROVE  IInv'
<1>1. /\ pc = "scan" /\ dev \in Devices /\ pc' \in {"erase", "pages"}
      /\ UNCHANGED <<stickVars, cmd, dev, handle, sector, test>>
      /\ flash_sector' = [p \in PagesOf(sector) |-> flash[dev][p]]
      /\ pc' = "erase" <=> cmd.force_erase \/ NeedsErase(flash_sector', sector)
  BY CommandFacts DEF Scan, outVars, IInv, Shape
<1>2. Shape' /\ Progress' /\ Claims' /\ InImage'
  BY <1>1 DEF stickVars, IInv, Shape, Progress, Claims, InImage
<1>3. Believed'
  BY <1>1 DEF stickVars, Believed, NeedsErase, ToWrite
<1> QED BY <1>2, <1>3 DEF IInv

LEMMA EraseSectorIInv ==
  ASSUME IInv, EraseSector
  PROVE  IInv'
<1>1. /\ pc = "erase" /\ dev \in Devices /\ pc' = "pages"
      /\ UNCHANGED <<active, user, cmd, dev, handle, sector, test>>
      /\ flash_sector' = [p \in PagesOf(sector) |-> "erased"]
      /\ \/ cmd.dryrun /\ flash' = flash
         \/ ~cmd.dryrun /\ SetPages(PagesOf(sector), "erased")
  BY DEF EraseSector, outVars
<1>2. DOMAIN flash' = Devices
  BY <1>1 DEF SetPages, IInv, Shape
<1>3. Shape' /\ Progress' /\ Claims' /\ InImage'
  BY <1>1, <1>2 DEF IInv, Shape, Progress, Claims, InImage
<1>4. ~cmd.dryrun => \A p \in PagesOf(sector) : flash'[dev][p] = "erased"
  BY <1>1 DEF SetPages, PagesOf, IInv, Shape
<1>5. Believed'
  BY <1>1, <1>4 DEF Believed, ToWrite
<1> QED BY <1>3, <1>5 DEF IInv

\* The page written is one of the sector, erased before.
LEMMA NextPage ==
  ASSUME IInv, pc = "pages", dev \in Devices, ToWrite # {}
  PROVE  /\ Min(ToWrite) \in ToWrite
         /\ ~cmd.dryrun => flash[dev][Min(ToWrite)] = "erased"
<1>1. ToWrite \in SUBSET Nat
  BY StickAssumption DEF ToWrite, PagesOf, Pages
<1>2. Min(ToWrite) \in ToWrite
  BY <1>1, MinInSet
<1> QED BY <1>2 DEF IInv, Believed

LEMMA WritePageIInv ==
  ASSUME IInv, WritePage
  PROVE  IInv'
<1> DEFINE p == Min(ToWrite)
<1>1. p \in ToWrite
  BY NextPage DEF WritePage
<1>2. /\ pc = "pages" /\ dev \in Devices
      /\ UNCHANGED <<active, user, cmd, pc, dev, handle, sector, test>>
      /\ flash_sector' = [flash_sector EXCEPT ![p] = Padded(cmd.image)[p]]
      /\ flash' = flash \/ \E content : SetPages({p}, content)
  BY DEF WritePage, outVars
<1>3. DOMAIN flash' = Devices /\ \A q \in Pages : q # p => flash'[dev][q] = flash[dev][q]
  BY <1>2 DEF SetPages, IInv, Shape
<1>4. DOMAIN flash_sector' = DOMAIN flash_sector
  BY <1>2
<1>5. Shape' /\ Progress' /\ Claims' /\ InImage'
  BY <1>2, <1>3, <1>4 DEF IInv, Shape, Progress, Claims, InImage
<1>6. \A q \in ToWrite' : q \in ToWrite /\ q # p /\ q \in Pages /\ flash_sector'[q] = flash_sector[q]
  BY <1>1, <1>2 DEF ToWrite, PagesOf, IInv, Shape
<1>7. Believed'
  BY <1>2, <1>3, <1>6 DEF Believed, IInv
<1> QED BY <1>5, <1>7 DEF IInv

LEMMA WriteIInv ==
  ASSUME IInv, Scan \/ EraseSector \/ WritePage \/ SectorDone \/ Verify \/ Standby
  PROVE  IInv'
<1>1. CASE SectorDone
  <2>1. CASE Finish("SUCCESS")
    BY <1>1, <2>1, FinishIInv DEF SectorDone, stickVars, IInv, Shape
  <2>2. CASE ~Finish("SUCCESS")
    <3>1. /\ pc = "pages" /\ UNCHANGED <<stickVars, cmd, dev, handle, test>>
          /\ \/ pc' = "scan" /\ sector' \in SectorsOf(cmd.image)
             \/ pc' = "verify" /\ sector' = sector /\ ~cmd.dryrun
      BY <1>1, <2>2 DEF SectorDone, outVars, writeVars
    <3> QED BY <3>1 DEF stickVars, IInv, Shape, Progress, Claims, InImage, Believed, Writing
  <2> QED BY <2>1, <2>2
<1>2. CASE Verify
  BY <1>2, FinishIInv DEF Verify, stickVars, IInv, Shape
<1>3. CASE Standby
  BY <1>3, FinishIInv DEF Standby, IInv, Shape
<1> QED BY <1>1, <1>2, <1>3, ScanIInv, EraseSectorIInv, WritePageIInv

-----------------------------------------------------------------------------
(* The self-test, failures, and the world around.                          *)

LEMMA SelftestIInv ==
  ASSUME IInv, AllDone \/ TestStep \/ Cleanup
  PROVE  IInv'
<1> USE DEF writeVars, IInv, Shape, Progress, Claims, InImage, Believed, Writing
<1>1. CASE AllDone
  BY <1>1, FinishIInv DEF AllDone, stickVars
<1>2. CASE TestStep
  <2>1. /\ pc = "test" /\ pc' \in {"test", "cleanup"} /\ dev \in Devices
        /\ UNCHANGED <<user, cmd, dev, handle, writeVars>>
    BY <1>2 DEF TestStep
  <2>2. DOMAIN flash' = Devices /\ DOMAIN active' = Devices
    BY <1>2 DEF TestStep, Leaves_flash, Overwritten, Leaves_active
  <2> QED BY <2>1, <2>2
<1>3. CASE Cleanup
  <2>1. DOMAIN active' = Devices
    BY <1>3 DEF Cleanup
  <2> QED BY <1>3, <2>1, StickAssumption DEF Cleanup
<1> QED BY <1>1, <1>2, <1>3

LEMMA FailsIInv ==
  ASSUME IInv, ToolFails \/ DeviceGone
  PROVE  IInv'
<1>1. DOMAIN flash' = Devices /\ DOMAIN active' = Devices /\ DOMAIN user' = Devices
  BY DEF ToolFails, Fails, Interrupted, EraseFails, WriteFails, SetPages, DeviceGone,
     stickVars, IInv, Shape
<1> QED BY <1>1, FinishIInv, FailureIInv
     DEF ToolFails, Fails, Interrupted, EraseFails, WriteFails, DeviceGone

LEMMA AroundIInv ==
  ASSUME IInv, NEW d \in Devices, Arrives(d) \/ Around(d) \/ IsUnplugged(d) \/ OtherClaims(d)
  PROVE  IInv'
<1> USE DEF writeVars, outVars, toolVars, IInv, Shape, Progress, Claims, InImage, Believed, Writing, ToWrite
<1>1. CASE Arrives(d)
  BY <1>1 DEF Arrives, Boot
<1>2. CASE Around(d)
  <2>1. /\ UNCHANGED <<toolVars, flash>> /\ DOMAIN active' = Devices
        /\ user' = user \/ user' = [user EXCEPT ![d] = "nobody"]
    BY <1>2 DEF Around, Plug, Revive, SwitchBack, OtherReleases
  <2> QED BY <2>1
<1>3. CASE IsUnplugged(d)
  <2>1. /\ UNCHANGED <<cmd, pc, handle, writeVars, flash>>
        /\ DOMAIN active' = Devices /\ user' = [user EXCEPT ![d] = "nobody"]
        /\ dev' = dev \/ dev' \notin Devices
        /\ test = <<>> => test' = <<>>
    BY <1>3, StickAssumption DEF IsUnplugged, Unplug, Leaves, DeviceLeft, Forget
  <2> QED BY <2>1
<1>4. CASE OtherClaims(d)
  <2>1. /\ UNCHANGED <<toolVars, flash>> /\ DOMAIN active' = Devices
        /\ user' = [user EXCEPT ![d] = "other"]
        /\ ~(dev = d /\ handle = "claimed")
    BY <1>4 DEF OtherClaims
  <2> QED BY <2>1
<1> QED BY <1>1, <1>2, <1>3, <1>4

LEMMA NextIInv == IInv /\ [Next]_vars => IInv'
<1> SUFFICES ASSUME IInv, [Next]_vars PROVE IInv'
  OBVIOUS
<1>1. CASE UNCHANGED vars
  BY <1>1 DEF vars, stickVars, toolVars, IInv, Shape, Progress, Claims, InImage, Believed,
     Writing, ToWrite
<1> QED BY <1>1, BeginIInv, OpenIInv, LoadIInv, WriteIInv, SelftestIInv, FailsIInv, AroundIInv
     DEF Next, Tool, ToolStep, SelftestStep

LEMMA IInvHolds == Spec => []IInv
<1> QED BY InitIInv, NextIInv, PTL DEF Spec

-----------------------------------------------------------------------------
(* What a step changes on a stick.                                         *)

\* Every disjunct but those that write leaves the flash alone.
LEMMA FlashChanges ==
  ASSUME IInv, [Next]_vars, NEW d \in Devices, flash'[d] # flash[d]
  PROVE  /\ d = dev /\ handle = "claimed"
         /\ \A p \in Pages :
              flash'[d][p] # flash[d][p] =>
                \/ pc = "test" /\ p \in PagesOf(TEST_SECTOR)
                \/ pc = "erase" /\ ~cmd.dryrun /\ p \in PagesOf(sector)
                \/ pc = "pages" /\ ~cmd.dryrun /\ p \in ToWrite
<1>1. DOMAIN flash = Devices
  BY DEF IInv, Shape
<1>2. CASE EraseSector \/ EraseFails
  <2>1. /\ pc = "erase" /\ dev \in Devices
        /\ flash' = flash \/ (~cmd.dryrun /\ \E content : SetPages(PagesOf(sector), content))
    BY <1>2 DEF EraseSector, EraseFails
  <2>2. /\ d = dev /\ ~cmd.dryrun
        /\ \A p \in Pages : flash'[d][p] # flash[d][p] => p \in PagesOf(sector)
    BY <1>1, <2>1 DEF SetPages
  <2> QED BY <2>1, <2>2 DEF IInv, Claims
<1>3. CASE WritePage \/ WriteFails
  <2>1. /\ pc = "pages" /\ dev \in Devices /\ ToWrite # {}
        /\ \/ flash' = flash
           \/ ~cmd.dryrun /\ \E content : SetPages({Min(ToWrite)}, content)
    BY <1>3 DEF WritePage, WriteFails
  <2>2. Min(ToWrite) \in ToWrite
    BY <2>1, NextPage
  <2>3. /\ d = dev /\ ~cmd.dryrun
        /\ \A p \in Pages : flash'[d][p] # flash[d][p] => p = Min(ToWrite)
    BY <1>1, <2>1 DEF SetPages
  <2> QED BY <2>1, <2>2, <2>3 DEF IInv, Claims
<1>4. CASE TestStep
  <2>1. /\ pc = "test" /\ dev \in Devices
        /\ flash' = flash \/ \E content : flash' = Overwritten(content)
    BY <1>4 DEF TestStep, Leaves_flash
  <2>2. /\ d = dev
        /\ \A p \in Pages : flash'[d][p] # flash[d][p] => p \in PagesOf(TEST_SECTOR)
    BY <1>1, <2>1 DEF Overwritten
  <2> QED BY <2>1, <2>2 DEF IInv, Claims
<1>5. CASE UNCHANGED flash
  BY <1>5
<1>6. ASSUME NEW c \in Commands, Run(c) PROVE UNCHANGED flash
  BY <1>6 DEF Run, stickVars
<1>7. ASSUME NEW e \in Devices, Arrives(e) \/ Around(e) \/ IsUnplugged(e) \/ OtherClaims(e)
      PROVE  UNCHANGED flash
  BY <1>7 DEF Arrives, Boot, Around, Plug, Revive, SwitchBack, OtherReleases, IsUnplugged,
     Unplug, OtherClaims
<1>8. CASE SelftestSearch \/ NextStick \/ AllDone \/ Connect \/ Cleanup
  BY <1>5, <1>8 DEF SelftestSearch, NextStick, AllDone, Connect, Cleanup, stickVars
<1>9. CASE Fails \/ Interrupted
  BY <1>5, <1>9 DEF Fails, Interrupted
<1>10. CASE DeviceGone \/ Search \/ OpenToLoad \/ OpenDevice \/ Load \/ hotplug_prepare
  BY <1>5, <1>10 DEF DeviceGone, Search, OpenToLoad, OpenDevice, Load, hotplug_prepare, stickVars
<1>11. CASE Start \/ Reset \/ Await \/ Timeout
  BY <1>5, <1>11 DEF Start, Reset, Restart, Await, Timeout, stickVars
<1>12. CASE Scan \/ SectorDone \/ Verify \/ Standby
  BY <1>5, <1>12 DEF Scan, SectorDone, Verify, Standby, stickVars
<1>13. CASE UNCHANGED vars
  BY <1>5, <1>13 DEF vars, stickVars
<1> QED
  BY <1>2, <1>3, <1>4, <1>5, <1>6, <1>7, <1>8, <1>9, <1>10, <1>11, <1>12, <1>13
  DEF Next, Tool, ToolStep, SelftestStep, ToolFails

-----------------------------------------------------------------------------
(* What the tool knows of the bus.                                         *)

Away == {"rom", "hung", "off", "reset", "loaded"}
Addresses == Devices \cup {"none", "gone"}
Parts == {"todo", "step", "detected", "all_pass", "success"}

\* The self-test's sticks are on the bus, and the one it loads is done with.
Selftesting ==
  /\ pc \in {"idle", "search"} => test = <<>>
  /\ pc \notin {"idle", "search"} /\ cmd.name = "selftest" => DOMAIN test = Parts
  /\ test # <<>> =>
       /\ \A d \in test.todo \cap Devices : OnBus(d)
       /\ pc \in {"load_open", "load", "prepare", "start"} => dev \notin test.todo \cap Devices
  /\ pc = "reset" => cmd.name = "reset"

\* hotplug_prepare has been called, and hotplug_await has not returned.
Expecting == pc \in {"start", "await"} \/ (pc = "reset" /\ cmd.wait)

\* A stick the tool has a device of is on the bus, and the one that came up on the
\* port is still there. As long as none has, the stick that was there does not run
\* on it.
Watched ==
  hotplug # <<>> =>
    /\ pc \in {"start", "reset", "await"}
    /\ hotplug \in [port : Ports, was : Devices, device : Addresses, maybe_device : Addresses]
    /\ dev \in Devices =>
         /\ dev = hotplug.was
         /\ pc # "await" => dev \notin {hotplug.device, hotplug.maybe_device}
    /\ hotplug.device \in Devices => OnBus(hotplug.device) /\ where[hotplug.device] = hotplug.port
    /\ hotplug.maybe_device \in Devices => OnBus(hotplug.maybe_device)
    /\ pc = "await" /\ hotplug.device = "none" =>
         ~(runs[hotplug.was] \in Images /\ where[hotplug.was] = hotplug.port)

Bus ==
  /\ runs \in [Devices -> Images \cup Away] /\ where \in [Devices -> Ports]
  /\ dev \in Devices => OnBus(dev)
  /\ Expecting => hotplug # <<>>

BusInv == Bus /\ Selftesting /\ Watched

LEMMA InitBusInv == Init => BusInv
BY StickAssumption
DEF Init, StickInit, UtilInit, BusInv, Bus, Selftesting, Watched, Expecting, Away, Images

\* A record is not the empty tuple.
LEMMA SelftestRecord == DOMAIN test = Parts => test # <<>>
BY DEF Parts

LEMMA RestartedIsAway ==
  ASSUME NEW d \in Devices, BusInv, runs' = [runs EXCEPT ![d] = "reset"] \/
         runs' = [runs EXCEPT ![d] = "loaded"] \/ runs' = [runs EXCEPT ![d] = "off"]
  PROVE  /\ runs' \in [Devices -> Images \cup Away] /\ ~OnBus(d)'
         /\ runs'[d] \notin Images
         /\ \A e \in Devices \ {d} : runs'[e] = runs[e] /\ (OnBus(e)' <=> OnBus(e))
BY StickAssumption DEF BusInv, Bus, OnBus, Away

\* The end of a command, and of one that fails.
LEMMA FinishBus ==
  ASSUME BusInv, NEW outcome, Finish(outcome),
         runs' \in [Devices -> Images \cup Away], UNCHANGED where
  PROVE  BusInv'
BY StickAssumption DEF Finish, BusInv, Bus, Selftesting, Watched, Expecting

LEMMA FailureBus ==
  ASSUME IInv, BusInv, Failure, UNCHANGED <<runs, where>>
  PROVE  BusInv'
<1>1. CASE test = <<>>
  BY <1>1, FinishBus DEF Failure, BusInv, Bus
<1>2. CASE test # <<>>
  <2>1. /\ pc' = "next" /\ dev' = "none" /\ hotplug' = <<>> /\ UNCHANGED cmd
        /\ test' = [test EXCEPT !.success = FALSE]
    BY <1>2 DEF Failure
  <2>2. DOMAIN test = Parts /\ cmd.name = "selftest"
    BY <1>2 DEF IInv, Progress, BusInv, Selftesting
  <2>3. DOMAIN test' = Parts /\ test'.todo = test.todo
    BY <2>1, <2>2 DEF Parts
  <2> QED BY <1>2, <2>1, <2>2, <2>3, StickAssumption
       DEF BusInv, Bus, Selftesting, Watched, Expecting, OnBus
<1> QED BY <1>1, <1>2

\* A command begins and chooses its stick.
LEMMA BeginBus ==
  ASSUME IInv, BusInv, \/ \E c \in Commands : Run(c)
                       \/ Search \/ SelftestSearch \/ NextStick
  PROVE  BusInv'
<1> USE DEF stickVars, outVars, loadVars, BusInv, Bus, Selftesting, Watched, Expecting, OnBus
<1>1. ASSUME NEW c \in Commands, Run(c) PROVE BusInv'
  BY <1>1 DEF Run
<1>2. CASE Search
  <2>1. CASE Finish("FAILURE")
    BY <1>2, <2>1, FinishBus DEF Search
  <2>2. CASE ~Finish("FAILURE")
    <3>1. /\ pc = "search" /\ pc' \in {"load_open", "open"} /\ cmd.name # "selftest"
          /\ dev' \in Devices /\ OnBus(dev')
          /\ UNCHANGED <<stickVars, cmd, hotplug, test>>
      BY <1>2, <2>2 DEF Search, Found
    <3> QED BY <3>1
  <2> QED BY <2>1, <2>2
<1>3. CASE SelftestSearch
  <2>1. CASE Finish("FAILURE")
    BY <1>3, <2>1, FinishBus DEF SelftestSearch
  <2>2. CASE ~Finish("FAILURE")
    <3>1. /\ pc = "search" /\ pc' = "next"
          /\ UNCHANGED <<stickVars, cmd, dev, hotplug>>
          /\ test' = [todo |-> Found, step |-> 1, detected |-> FALSE, all_pass |-> TRUE, success |-> TRUE]
      BY <1>3, <2>2 DEF SelftestSearch
    <3>2. DOMAIN test' = Parts /\ test'.todo = Found
      BY <3>1 DEF Parts
    <3> QED BY <3>1, <3>2 DEF Found
  <2> QED BY <2>1, <2>2
<1>4. CASE NextStick
  <2>1. PICK d \in test.todo :
          /\ test'.todo = test.todo \ {d} /\ DOMAIN test' = Parts
          /\ \/ UNCHANGED <<pc, dev>>
             \/ dev' = d /\ pc' \in {"connect", "load_open"}
    BY <1>4 DEF NextStick, Parts
  <2>2. pc = "next" /\ UNCHANGED <<stickVars, cmd, hotplug>> /\ cmd.name = "selftest"
    BY <1>4 DEF NextStick, IInv, Progress
  <2>3. DOMAIN test = Parts
    BY <2>2
  <2> QED BY <2>1, <2>2, <2>3, SelftestRecord
<1> QED BY <1>1, <1>2, <1>3, <1>4

\* Steps between, which neither look for sticks nor restart them.
LEMMA BetweenBus ==
  ASSUME IInv, BusInv, UNCHANGED <<runs, where, cmd, hotplug>>, dev' = dev \/ dev' = "none",
         \/ test' = test
         \/ DOMAIN test = Parts /\ DOMAIN test' = Parts /\ test'.todo = test.todo,
         hotplug = <<>>, pc \notin {"idle", "search"}, pc' \notin {"idle", "search", "start", "await"},
         pc' = "reset" => cmd.name = "reset" /\ ~cmd.wait,
         \/ pc' \notin {"load_open", "load", "prepare"}
         \/ pc \in {"load_open", "load", "prepare"}
         \/ cmd.name # "selftest"
  PROVE  BusInv'
<1>1. test # <<>> => DOMAIN test = Parts /\ cmd.name = "selftest"
  BY DEF IInv, Progress, BusInv, Selftesting
<1>2. test' # <<>> => test # <<>> /\ test'.todo = test.todo
  BY SelftestRecord
<1> QED
  BY <1>1, <1>2, StickAssumption DEF BusInv, Bus, Selftesting, Watched, Expecting, OnBus

LEMMA OpenBus ==
  ASSUME IInv, BusInv, OpenToLoad \/ OpenDevice \/ Connect
  PROVE  BusInv'
<1> USE DEF stickVars, outVars, loadVars
<1>1. CASE Failure
  BY <1>1, FailureBus DEF OpenToLoad, OpenDevice, Connect
<1>2. CASE ~Failure
  <2>1. /\ pc \in {"load_open", "open", "connect"} /\ hotplug = <<>>
        /\ UNCHANGED <<runs, where, cmd, hotplug, dev, test>>
        /\ pc = "load_open" => pc' = "load"
        /\ pc = "connect" => pc' = "test"
        /\ pc = "open" => pc' = FirstStep
    BY <1>2 DEF OpenToLoad, OpenDevice, Connect, Open, BusInv, Watched
  <2>2. pc = "open" =>
          \/ pc' = "scan" \/ pc' \in {"verify", "standby"}
          \/ cmd.name = "reset" /\ cmd.wait /\ pc' = "prepare"
          \/ cmd.name = "reset" /\ ~cmd.wait /\ pc' = "reset"
    BY <2>1 DEF FirstStep, IInv, Progress
  <2> QED BY <2>1, <2>2, BetweenBus
<1> QED BY <1>1, <1>2

\* The stick is watched for, sent away and waited for.
LEMMA LoadBus ==
  ASSUME IInv, BusInv, Load \/ hotplug_prepare \/ Start \/ Reset
  PROVE  BusInv'
<1>0. \A image : image \in Images => image \notin Away
  BY StickAssumption DEF Away
<1>1. CASE Load
  BY <1>1, BetweenBus DEF Load, outVars, BusInv, Watched
<1>2. CASE hotplug_prepare
  <2>1. /\ pc = "prepare" /\ dev \in Devices /\ pc' \in {"reset", "start"}
        /\ UNCHANGED <<runs, where, cmd, dev, test>>
        /\ pc' = "reset" => cmd.name = "reset"
        /\ hotplug' = [port |-> where[dev], was |-> dev, device |-> "none", maybe_device |-> "none"]
    BY <1>2 DEF hotplug_prepare, stickVars, outVars
  <2>2. /\ hotplug' \in [port : Ports, was : Devices, device : Addresses, maybe_device : Addresses]
        /\ hotplug' # <<>> /\ hotplug'.was = dev
        /\ hotplug'.device = "none" /\ hotplug'.maybe_device = "none"
    BY <2>1 DEF Addresses, BusInv, Bus
  <2> QED BY <2>1, <2>2, StickAssumption
       DEF BusInv, Bus, Selftesting, Watched, Expecting, OnBus
<1>3. ASSUME pc \in {"start", "reset"}, dev \in Devices, hotplug # <<>>,
             NEW to \in {"loaded", "reset"}, Restart(dev, to), pc' = "await",
             UNCHANGED <<cmd, hotplug, test>>
      PROVE  BusInv'
  <2>1. runs' = [runs EXCEPT ![dev] = to] /\ dev' = "gone" /\ where' = where
    BY <1>3 DEF Restart, Leaves
  <2>2. /\ runs' \in [Devices -> Images \cup Away] /\ runs'[dev] \notin Images
        /\ \A e \in Devices \ {dev} : runs'[e] = runs[e] /\ (OnBus(e)' <=> OnBus(e))
    BY <1>3, <2>1, RestartedIsAway
  <2>3. dev = hotplug.was /\ dev \notin {hotplug.device, hotplug.maybe_device}
    BY <1>3 DEF BusInv, Watched
  <2>4. test # <<>> => dev \notin test.todo
    BY <1>3 DEF IInv, Progress, BusInv, Selftesting
  <2>5. Bus' /\ Selftesting'
    BY <1>3, <2>1, <2>2, <2>4, StickAssumption DEF BusInv, Bus, Selftesting, Expecting
  <2>6. Watched'
    BY <1>3, <2>1, <2>2, <2>3, StickAssumption DEF BusInv, Watched
  <2> QED BY <2>5, <2>6 DEF BusInv
<1>4. CASE Start
  <2>1. /\ pc = "start" /\ dev \in Devices /\ pc' = "await" /\ hotplug # <<>>
        /\ UNCHANGED <<cmd, hotplug, test>>
    BY <1>4 DEF Start, loadVars, outVars, BusInv, Bus, Expecting
  <2>2. CASE Restart(dev, "loaded")
    BY <1>3, <2>1, <2>2
  <2>3. CASE ~Restart(dev, "loaded")
    <3>1. UNCHANGED <<runs, where, dev>> /\ runs[dev] = "rom"
      BY <1>4, <2>3 DEF Start, Recovery
    <3> QED BY <2>1, <3>1, StickAssumption
         DEF BusInv, Bus, Selftesting, Watched, Expecting, OnBus
  <2> QED BY <2>2, <2>3
<1>5. CASE Reset
  <2>1. CASE cmd.wait
    BY <1>3, <1>5, <2>1 DEF Reset, loadVars, outVars, BusInv, Bus, Expecting
  <2>2. CASE ~cmd.wait
    <3>1. Finish("SUCCESS") /\ dev \in Devices /\ runs' = [runs EXCEPT ![dev] = "reset"] /\ where' = where
      BY <1>5, <2>2 DEF Reset, Leaves
    <3> QED BY <3>1, RestartedIsAway, FinishBus
  <2> QED BY <2>1, <2>2
<1> QED BY <1>1, <1>2, <1>4, <1>5

LEMMA AwaitBus ==
  ASSUME IInv, BusInv, Await \/ Timeout
  PROVE  BusInv'
<1>1. ASSUME pc = "await", NEW device \in {hotplug.device, hotplug.maybe_device},
             device # "none", Arrived(device), UNCHANGED <<runs, where>>
      PROVE  BusInv'
  <2>1. CASE Failure
    BY <1>1, <2>1, FailureBus
  <2>2. CASE Finish("SUCCESS")
    BY <1>1, <2>2, FinishBus DEF BusInv, Bus
  <2>3. CASE ~Failure /\ ~Finish("SUCCESS")
    <3>1. /\ dev' = device /\ hotplug' = <<>> /\ pc' \in {"open", "connect"}
          /\ UNCHANGED <<cmd, test>>
      BY <1>1, <2>3 DEF Arrived, outVars
    <3>2. device \in Devices => OnBus(device)
      BY <1>1 DEF BusInv, Bus, Watched, Expecting
    <3> QED BY <1>1, <3>1, <3>2 DEF BusInv, Bus, Selftesting, Watched, Expecting, OnBus
  <2> QED BY <2>1, <2>2, <2>3
<1>2. CASE Await
  BY <1>1, <1>2 DEF Await, stickVars
<1>3. CASE Timeout
  BY <1>1, <1>3, FailureBus DEF Timeout
<1> QED BY <1>2, <1>3

\* A command does what it is to do with its stick.
LEMMA WorkBus ==
  ASSUME IInv, BusInv,
         \/ Scan \/ EraseSector \/ WritePage \/ SectorDone \/ Verify \/ Standby
         \/ AllDone \/ TestStep \/ Cleanup
  PROVE  BusInv'
<1> USE DEF stickVars, outVars, loadVars
<1>1. ASSUME NEW outcome, Finish(outcome), UNCHANGED <<runs, where>> PROVE BusInv'
  BY <1>1, FinishBus DEF BusInv, Bus
<1>2. hotplug # <<>> => pc \in {"start", "reset", "await"}
  BY DEF BusInv, Watched
<1>3. CASE Scan \/ EraseSector \/ WritePage
  <2>1. /\ pc \in {"scan", "erase", "pages"} /\ pc' \in {"erase", "pages"}
        /\ UNCHANGED <<runs, where, cmd, hotplug, dev, test>>
    BY <1>3 DEF Scan, EraseSector, WritePage
  <2> QED BY <1>2, <2>1, BetweenBus
<1>4. CASE SectorDone
  <2>1. \/ Finish("SUCCESS")
        \/ pc' \in {"scan", "verify"} /\ UNCHANGED <<cmd, hotplug, dev, test>>
    BY <1>4 DEF SectorDone
  <2>2. pc = "pages" /\ UNCHANGED <<runs, where>>
    BY <1>4 DEF SectorDone
  <2> QED BY <1>1, <1>2, <2>1, <2>2, BetweenBus
<1>5. CASE Verify \/ Standby \/ AllDone
  BY <1>1, <1>5 DEF Verify, Standby, AllDone
<1>6. CASE TestStep \/ Cleanup
  <2>1. /\ pc \in {"test", "cleanup"} /\ pc' \in {"test", "cleanup", "next"}
        /\ UNCHANGED <<runs, where, cmd, hotplug>>
        /\ dev' = dev \/ dev' = "none"
    BY <1>6 DEF TestStep, Cleanup
  <2>2. DOMAIN test = Parts
    BY <2>1 DEF IInv, Progress, BusInv, Selftesting
  <2>3. DOMAIN test' = Parts /\ test'.todo = test.todo
    BY <1>6, <2>2 DEF TestStep, Cleanup, Parts
  <2> QED BY <1>2, <2>1, <2>2, <2>3, BetweenBus
<1> QED BY <1>3, <1>4, <1>5, <1>6

LEMMA FailsBus ==
  ASSUME IInv, BusInv, ToolFails \/ DeviceGone
  PROVE  BusInv'
BY FailureBus, FinishBus
DEF ToolFails, Fails, Interrupted, EraseFails, WriteFails, DeviceGone, stickVars, BusInv, Bus

\* What the rest of the world does to a stick.
LEMMA ArrivesBus ==
  ASSUME IInv, BusInv, NEW d \in Devices, Arrives(d)
  PROVE  BusInv'
<1>1. /\ runs[d] \in {"reset", "loaded"} /\ ~OnBus(d)
      /\ \E what \in BootsTo(d) : runs' = [runs EXCEPT ![d] = what]
      /\ where' \in [Devices -> Ports] /\ \A e \in Devices \ {d} : where'[e] = where[e]
      /\ UNCHANGED <<cmd, pc, dev, test>>
  <2>1. /\ runs[d] \in {"reset", "loaded"}
        /\ \E what \in BootsTo(d) : runs' = [runs EXCEPT ![d] = what]
        /\ where' = where \/ \E port \in FreePorts(d) : where' = [where EXCEPT ![d] = port]
        /\ UNCHANGED <<cmd, pc, dev, test>>
    BY DEF Arrives, Boot, outVars
  <2>2. ~OnBus(d)
    BY <2>1, StickAssumption DEF OnBus
  <2>3. where' \in [Devices -> Ports] /\ \A e \in Devices \ {d} : where'[e] = where[e]
    BY <2>1 DEF FreePorts, BusInv, Bus
  <2> QED BY <2>1, <2>2, <2>3
<1>2. BootsTo(d) \subseteq Images \cup {"rom", "hung"}
  <2>1. ASSUME NEW image, staged[d] = [b \in 1 .. Blocks |-> image] PROVE staged[d][1] = image
    BY <2>1, StickAssumption
  <2> QED BY <2>1 DEF BootsTo
<1>3. /\ runs' \in [Devices -> Images \cup Away]
      /\ runs'[d] # "hung" => OnBus(d)'
      /\ \A e \in Devices \ {d} : runs'[e] = runs[e] /\ (OnBus(e)' <=> OnBus(e))
  BY <1>1, <1>2 DEF BusInv, Bus, OnBus, Away
<1>4. \A e \in Devices : OnBus(e) => e # d /\ OnBus(e)' /\ where'[e] = where[e]
  BY <1>1, <1>3
<1>5. Selftesting'
  BY <1>1, <1>4 DEF BusInv, Selftesting
<1>6. Bus'
  <2>1. hotplug # <<>> => hotplug' # <<>>
    <3>1. CASE hotplug # <<>>
      <4>1. "port" \in DOMAIN hotplug /\ (hotplug' = hotplug \/ DOMAIN hotplug' = DOMAIN hotplug)
        BY <3>1 DEF BusInv, Watched, Arrives, Callback
      <4> QED BY <3>1, <4>1
    <3> QED BY <3>1
  <2> QED BY <1>1, <1>3, <1>4, <2>1 DEF BusInv, Bus, Expecting
<1>7. Watched'
  <2>1. CASE hotplug = <<>>
    BY <2>1 DEF Arrives, Callback, Watched
  <2>2. CASE hotplug # <<>>
    <3> DEFINE h == hotplug
    <3>1. /\ h \in [port : Ports, was : Devices, device : Addresses, maybe_device : Addresses]
          /\ d \in Addresses /\ d # "none"
      BY <2>2, StickAssumption DEF BusInv, Watched, Addresses
    <3>2. dev \in Devices => dev # d
      BY <1>1 DEF BusInv, Bus
    <3>3. CASE runs'[d] = "hung" /\ hotplug' = hotplug
      BY <1>1, <1>3, <1>4, <2>2, <3>3, StickAssumption DEF BusInv, Watched
    <3>4. CASE OnBus(d)' /\ where'[d] = h.port /\ hotplug' = [h EXCEPT !.device = d]
      BY <1>1, <1>4, <2>2, <3>1, <3>2, <3>4 DEF BusInv, Watched
    <3>5. CASE OnBus(d)' /\ where'[d] # h.port /\ hotplug' = [h EXCEPT !.maybe_device = d]
      BY <1>1, <1>3, <1>4, <2>2, <3>1, <3>2, <3>5 DEF BusInv, Watched
    <3>6. CASE OnBus(d)' /\ where'[d] # h.port /\ hotplug' = h
      BY <1>1, <1>3, <1>4, <2>2, <3>1, <3>2, <3>6 DEF BusInv, Watched
    <3> QED BY <1>3, <2>2, <3>3, <3>4, <3>5, <3>6 DEF Arrives, Callback
  <2> QED BY <2>1, <2>2
<1> QED BY <1>5, <1>6, <1>7 DEF BusInv

LEMMA UnpluggedBus ==
  ASSUME IInv, BusInv, NEW d \in Devices, IsUnplugged(d)
  PROVE  BusInv'
<1>1. /\ runs' = [runs EXCEPT ![d] = "off"] /\ UNCHANGED <<where, cmd, pc>>
      /\ dev' = (IF dev = d THEN "gone" ELSE dev)
  BY DEF IsUnplugged, Unplug, Leaves, DeviceLeft, Forget
<1>2. /\ runs' \in [Devices -> Images \cup Away] /\ runs'[d] \notin Images
      /\ \A e \in Devices \ {d} : runs'[e] = runs[e] /\ (OnBus(e)' <=> OnBus(e))
  BY <1>1, RestartedIsAway
<1>3. \A x : (IF x = d THEN "gone" ELSE x) \in Devices => x \in Devices \ {d}
  BY StickAssumption
<1>4. Selftesting'
  <2>1. CASE test = <<>>
    BY <1>1, <2>1 DEF IsUnplugged, DeviceLeft, BusInv, Selftesting
  <2>2. CASE test # <<>>
    <3>1. test' = [test EXCEPT !.todo = {Forget(d, e) : e \in @}]
      BY <2>2 DEF IsUnplugged, DeviceLeft
    <3>2. DOMAIN test = Parts
      BY <2>2 DEF IInv, Progress, BusInv, Selftesting
    <3>3. DOMAIN test' = Parts /\ test'.todo \cap Devices \subseteq (test.todo \cap Devices) \ {d}
      BY <1>3, <3>1, <3>2 DEF Parts, Forget
    <3> QED BY <1>1, <1>2, <1>3, <2>2, <3>2, <3>3 DEF BusInv, Selftesting
  <2> QED BY <2>1, <2>2
<1>5. CASE hotplug = <<>>
  <2>1. hotplug' = <<>>
    BY <1>5 DEF IsUnplugged, DeviceLeft
  <2> QED BY <1>1, <1>2, <1>3, <1>4, <1>5, <2>1 DEF BusInv, Bus, Watched, Expecting
<1>6. CASE hotplug # <<>>
  <2> DEFINE h == hotplug
             F(x) == IF x = d THEN "gone" ELSE x
  <2>1. /\ h \in [port : Ports, was : Devices, device : Addresses, maybe_device : Addresses]
        /\ hotplug' = [h EXCEPT !.device = F(@), !.maybe_device = F(@)]
    BY <1>6 DEF BusInv, Watched, IsUnplugged, DeviceLeft, Forget
  <2>2. \A x \in Addresses : F(x) \in Addresses
    BY DEF Addresses
  <2>3. /\ hotplug' \in [port : Ports, was : Devices, device : Addresses, maybe_device : Addresses]
        /\ hotplug'.port = h.port /\ hotplug'.was = h.was
        /\ hotplug'.device = F(h.device) /\ hotplug'.maybe_device = F(h.maybe_device)
        /\ hotplug' # <<>>
    <3>1. h.device \in Addresses /\ h.maybe_device \in Addresses
      BY <2>1
    <3>2. F(h.device) \in Addresses /\ F(h.maybe_device) \in Addresses
      BY <2>2, <3>1
    <3> HIDE DEF F
    <3>3. hotplug' = [h EXCEPT !.device = F(h.device), !.maybe_device = F(h.maybe_device)]
      BY <2>1 DEF F
    <3>4. DOMAIN hotplug' = {"port", "was", "device", "maybe_device"}
      BY <2>1, <3>3
    <3>5. /\ hotplug' \in [port : Ports, was : Devices, device : Addresses, maybe_device : Addresses]
          /\ hotplug'.port = h.port /\ hotplug'.was = h.was
          /\ hotplug'.device = F(h.device) /\ hotplug'.maybe_device = F(h.maybe_device)
      BY <2>1, <3>2, <3>3
    <3> QED BY <3>4, <3>5
  <2>4. Bus'
    BY <1>1, <1>2, <1>3, <2>3 DEF BusInv, Bus
  <2>5. Watched'
    BY <1>1, <1>2, <1>3, <1>6, <2>3, StickAssumption DEF BusInv, Watched
  <2> QED BY <1>4, <2>4, <2>5 DEF BusInv
<1> QED BY <1>5, <1>6

LEMMA AroundBus ==
  ASSUME IInv, BusInv, NEW d \in Devices, Around(d) \/ OtherClaims(d)
  PROVE  BusInv'
<1>1. UNCHANGED toolVars
  BY DEF Around, OtherClaims
<1>2. \/ UNCHANGED <<runs, where>>
      \/ /\ runs[d] \in {"off", "hung"} /\ runs' = [runs EXCEPT ![d] = "reset"]
         /\ where' \in [Devices -> Ports] /\ \A e \in Devices \ {d} : where'[e] = where[e]
  BY DEF Around, OtherClaims, Plug, Revive, SwitchBack, OtherReleases, FreePorts, BusInv, Bus
<1>3. runs[d] \in {"off", "hung"} => ~OnBus(d)
  BY StickAssumption DEF OnBus
<1>4. CASE UNCHANGED <<runs, where>>
  BY <1>1, <1>4 DEF toolVars, BusInv, Bus, Selftesting, Watched, Expecting, OnBus
<1>5. CASE ~UNCHANGED <<runs, where>>
  <2>1. /\ runs' \in [Devices -> Images \cup Away] /\ runs'[d] \notin Images
        /\ \A e \in Devices \ {d} : runs'[e] = runs[e] /\ (OnBus(e)' <=> OnBus(e))
    BY <1>2, <1>5, RestartedIsAway
  <2>2. \A e \in Devices : OnBus(e) => e # d /\ OnBus(e)' /\ where'[e] = where[e]
    BY <1>2, <1>3, <1>5, <2>1
  <2> QED BY <1>1, <1>2, <1>5, <2>1, <2>2 DEF toolVars, BusInv, Bus, Selftesting, Watched, Expecting
<1> QED BY <1>4, <1>5

LEMMA NextBusInv == IInv /\ BusInv /\ [Next]_vars => BusInv'
<1> SUFFICES ASSUME IInv, BusInv, [Next]_vars PROVE BusInv'
  OBVIOUS
<1>1. CASE UNCHANGED vars
  BY <1>1 DEF vars, stickVars, toolVars, BusInv, Bus, Selftesting, Watched, Expecting, OnBus
<1> QED BY <1>1, BeginBus, OpenBus, LoadBus, AwaitBus, WorkBus, FailsBus, ArrivesBus,
     UnpluggedBus, AroundBus DEF Next, Tool, ToolStep, SelftestStep

LEMMA BusInvHolds == Spec => []BusInv
<1> QED BY InitBusInv, NextBusInv, IInvHolds, PTL DEF Spec

-----------------------------------------------------------------------------
(* Another program uses a stick.                                           *)

\* It runs firmware, then.
InUse == \A d \in Devices : user[d] = "other" => runs[d] \in Images

Kept(d) == user'[d] = user[d] /\ active'[d] = active[d] /\ runs'[d] = runs[d]

\* A stick is powered up or down, or started again, by whoever has the claim; or
\* its other user ends, it is unplugged, or it is reset.
LEMMA UseChanges ==
  ASSUME IInv, BusInv, InUse, [Next]_vars, NEW d \in Devices, user[d] = "other"
  PROVE  \/ Kept(d) \/ OtherReleases(d) \/ Unplug(d)
         \/ cmd.name = "reset" /\ dev = d /\ Leaves(d, "reset")
<1>1. /\ DOMAIN active = Devices /\ DOMAIN user = Devices /\ DOMAIN runs = Devices
      /\ runs[d] \notin Away
  BY StickAssumption DEF IInv, Shape, BusInv, Bus, InUse, Away
<1>2. CASE Standby \/ TestStep \/ Cleanup
  <2>1. dev \in Devices /\ handle = "claimed" /\ dev # d
    BY <1>2 DEF Standby, TestStep, Cleanup, IInv, Claims
  <2>2. /\ active' = active \/ \E a : active' = [active EXCEPT ![dev] = a]
        /\ UNCHANGED <<user, runs>>
    BY <1>2 DEF Standby, TestStep, Cleanup, Leaves_active
  <2> QED BY <1>1, <2>1, <2>2 DEF Kept
<1>3. ASSUME NEW e, NEW to, Leaves(e, to), e # d PROVE Kept(d)
  BY <1>1, <1>3 DEF Leaves, Kept
<1>4. CASE UNCHANGED <<active, user, runs>>
  BY <1>4 DEF Kept
<1>5. ASSUME NEW c \in Commands, Run(c) PROVE UNCHANGED <<active, user, runs>>
  BY <1>5 DEF Run, stickVars
<1>6. ASSUME NEW e \in Devices, Arrives(e) \/ Around(e) \/ OtherClaims(e)
      PROVE  Kept(d) \/ OtherReleases(d)
  <2>1. CASE Arrives(e)
    BY <1>1, <2>1 DEF Arrives, Boot, Away, Kept
  <2>2. CASE Around(e)
    BY <1>1, <2>2 DEF Around, Plug, Revive, SwitchBack, OtherReleases, Away, Kept
  <2>3. CASE OtherClaims(e)
    BY <1>1, <2>3 DEF OtherClaims, Kept
  <2> QED BY <1>6, <2>1, <2>2, <2>3
<1>7. ASSUME NEW e \in Devices, IsUnplugged(e) PROVE Kept(d) \/ Unplug(d)
  BY <1>3, <1>7 DEF IsUnplugged, Unplug
<1>8. CASE SelftestSearch \/ NextStick \/ AllDone \/ Connect
  BY <1>4, <1>8 DEF SelftestSearch, NextStick, AllDone, Connect, stickVars
<1>9. CASE ToolFails
  BY <1>4, <1>9 DEF ToolFails, Fails, Interrupted, EraseFails, WriteFails
<1>10. CASE DeviceGone \/ Search \/ OpenToLoad \/ OpenDevice \/ Load \/ hotplug_prepare
  BY <1>4, <1>10 DEF DeviceGone, Search, OpenToLoad, OpenDevice, Load, hotplug_prepare, stickVars
<1>11. CASE Start
  <2>1. dev \in Devices /\ dev # d
    BY <1>11 DEF Start, IInv, Claims
  <2> QED BY <1>3, <1>4, <1>11, <2>1 DEF Start, Restart
<1>12. CASE Reset
  <2>1. cmd.name = "reset" /\ Leaves(dev, "reset")
    BY <1>12 DEF Reset, Restart, BusInv, Selftesting
  <2> QED BY <1>3, <2>1
<1>13. CASE Await \/ Timeout
  BY <1>4, <1>13 DEF Await, Timeout, stickVars
<1>14. CASE Scan \/ EraseSector \/ WritePage \/ SectorDone \/ Verify
  BY <1>4, <1>14 DEF Scan, EraseSector, WritePage, SectorDone, Verify, stickVars
<1>15. CASE UNCHANGED vars
  BY <1>4, <1>15 DEF vars, stickVars
<1> QED
  BY <1>2, <1>4, <1>5, <1>6, <1>7, <1>8, <1>9, <1>10, <1>11, <1>12, <1>13, <1>14, <1>15
  DEF Next, Tool, ToolStep, SelftestStep

\* Only OtherClaims begins such a use, of a stick that runs.
LEMMA UseBegins ==
  ASSUME IInv, BusInv, [Next]_vars, NEW d \in Devices, user[d] # "other", user'[d] = "other"
  PROVE  runs'[d] \in Images
<1>1. DOMAIN user = Devices
  BY DEF IInv, Shape
<1>2. ASSUME NEW e, user' = user \/ user' = [user EXCEPT ![e] = "nobody"] PROVE FALSE
  BY <1>1, <1>2
<1>3. ASSUME NEW c \in Commands, Run(c) PROVE FALSE
  BY <1>2, <1>3 DEF Run, stickVars
<1>4. ASSUME NEW e \in Devices, Arrives(e) \/ Around(e) \/ IsUnplugged(e) PROVE FALSE
  BY <1>2, <1>4 DEF Arrives, Boot, Around, Plug, Revive, SwitchBack, OtherReleases,
                    IsUnplugged, Unplug, Leaves
<1>5. ASSUME NEW e \in Devices, OtherClaims(e) PROVE runs'[d] \in Images
  BY <1>1, <1>5 DEF OtherClaims
<1>6. CASE SelftestStep
  BY <1>2, <1>6 DEF SelftestStep, SelftestSearch, NextStick, AllDone, Connect, TestStep, Cleanup,
                    stickVars
<1>7. CASE ToolFails
  BY <1>2, <1>7 DEF ToolFails, Fails, Interrupted, EraseFails, WriteFails
<1>8. CASE DeviceGone \/ Search \/ OpenToLoad \/ OpenDevice \/ Load \/ hotplug_prepare
  BY <1>2, <1>8 DEF DeviceGone, Search, OpenToLoad, OpenDevice, Load, hotplug_prepare, stickVars
<1>9. CASE Start \/ Reset \/ Await \/ Timeout
  BY <1>2, <1>9 DEF Start, Reset, Restart, Leaves, Await, Timeout, stickVars
<1>10. CASE Scan \/ EraseSector \/ WritePage \/ SectorDone \/ Verify \/ Standby
  BY <1>2, <1>10 DEF Scan, EraseSector, WritePage, SectorDone, Verify, Standby, stickVars
<1>11. CASE UNCHANGED vars
  BY <1>2, <1>11 DEF vars, stickVars
<1> QED
  BY <1>3, <1>4, <1>5, <1>6, <1>7, <1>8, <1>9, <1>10, <1>11 DEF Next, Tool, ToolStep

LEMMA InUseHolds == Spec => []InUse
<1>1. Init => InUse
  BY DEF Init, StickInit, InUse
<1>2. IInv /\ BusInv /\ InUse /\ [Next]_vars => InUse'
  <2> SUFFICES ASSUME IInv, BusInv, InUse, [Next]_vars, NEW d \in Devices, user'[d] = "other"
               PROVE  runs'[d] \in Images
    BY DEF InUse
  <2>1. CASE user[d] # "other"
    BY <2>1, UseBegins
  <2>2. CASE user[d] = "other"
    <3>1. user'[d] # "nobody" /\ DOMAIN user = Devices
      BY DEF IInv, Shape
    <3>2. Kept(d)
      BY <2>2, <3>1, UseChanges DEF OtherReleases, Unplug, Leaves
    <3> QED BY <2>2, <3>2 DEF Kept, InUse
  <2> QED BY <2>1, <2>2
<1> QED BY <1>1, <1>2, IInvHolds, BusInvHolds, PTL DEF Spec

-----------------------------------------------------------------------------
(* What a write finds in the flash.                                        *)

\* As long as nothing has been written: the sectors that are done hold the image,
\* and the tool knows the one at hand.
Unmodified ==
  dev \in Devices /\ ~cmd.dryrun /\ ~modified /\ pc \in {"scan", "erase", "pages"} =>
    /\ \A p \in DOMAIN ImagePages[cmd.image] :
         p \div SectorPages < sector => flash[dev][p] = ImagePages[cmd.image][p]
    /\ pc = "pages" => \A p \in PagesOf(sector) : flash_sector[p] = flash[dev][p]

\* The pages of an image, and the sectors they lie in.
LEMMA ImageFacts ==
  ASSUME NEW image \in Images
  PROVE  /\ DOMAIN ImagePages[image] \subseteq Pages
         /\ SectorsOf(image) \subseteq Nat
         /\ \A p \in DOMAIN ImagePages[image] : \A s \in Nat :
              s <= p \div SectorPages => s \in SectorsOf(image)
<1>1. PICK last \in Pages : DOMAIN ImagePages[image] = 0 .. last
  BY StickAssumption
<1>2. SectorPages \in Nat \ {0} /\ Sectors \in Nat \ {0} /\ Sectors * SectorPages \in Nat
  BY StickAssumption
<1>3. last \in Nat /\ 0 .. last \subseteq Pages
  BY <1>1, <1>2 DEF Pages
<1>4. \A p \in Nat : p \div SectorPages \in Nat
  BY <1>2, DivMod
<1>5. ASSUME NEW p \in 0 .. last, NEW s \in Nat, s <= p \div SectorPages
      PROVE  s \in SectorsOf(image)
  <2> DEFINE q == s * SectorPages
  <2>1. /\ p \in Nat /\ p \div SectorPages \in Nat /\ p % SectorPages \in Nat
        /\ p = (p \div SectorPages) * SectorPages + (p % SectorPages)
    BY <1>2, <1>3, DivMod
  <2>2. q \in Nat /\ q <= (p \div SectorPages) * SectorPages
    BY <1>2, <1>5, <2>1, Multiples
  <2>3. (p \div SectorPages) * SectorPages \in Nat
    BY <1>2, <2>1
  <2>4. q <= p
    BY <2>1, <2>2, <2>3
  <2>5. q \in 0 .. last
    BY <1>3, <1>5, <2>1, <2>2, <2>4
  <2>6. (s * SectorPages + 0) \div SectorPages = s
    BY <1>2, Division
  <2>7. q \div SectorPages = s
    BY <2>2, <2>6
  <2> QED BY <1>1, <2>5, <2>7 DEF SectorsOf
<1> QED BY <1>1, <1>3, <1>4, <1>5 DEF SectorsOf

\* A sector in which nothing is left to be written holds its part of the image.
LEMMA SectorHolds ==
  ASSUME IInv, Unmodified, pc = "pages", ToWrite = {}, dev \in Devices, ~cmd.dryrun, ~modified
  PROVE  \A p \in DOMAIN ImagePages[cmd.image] :
           p \div SectorPages <= sector => flash[dev][p] = ImagePages[cmd.image][p]
<1>1. cmd \in Commands /\ cmd.image \in Images /\ sector \in SectorsOf(cmd.image)
  BY CommandFacts DEF IInv, Shape, Progress, InImage
<1>2. sector \in Nat
  BY <1>1, ImageFacts
<1> SUFFICES ASSUME NEW p \in DOMAIN ImagePages[cmd.image], p \div SectorPages <= sector
             PROVE  flash[dev][p] = ImagePages[cmd.image][p]
  OBVIOUS
<1>3. p \in Pages /\ p \in Nat
  BY <1>1, ImageFacts DEF Pages
<1>4. p \div SectorPages \in Nat
  BY <1>3, StickAssumption, DivMod
<1>5. CASE p \div SectorPages < sector
  BY <1>5 DEF Unmodified
<1>6. CASE p \div SectorPages = sector
  <2>1. p \in PagesOf(sector)
    BY <1>3, <1>6 DEF PagesOf
  <2>2. flash_sector[p] = Padded(cmd.image)[p] /\ flash_sector[p] = flash[dev][p]
    BY <2>1 DEF ToWrite, Unmodified
  <2> QED BY <1>3, <2>2 DEF Padded
<1> QED BY <1>2, <1>4, <1>5, <1>6

\* Writing steps.
LEMMA WriteUnmodified ==
  ASSUME IInv, Unmodified, Scan \/ EraseSector \/ WritePage \/ SectorDone
  PROVE  Unmodified'
<1>1. CASE Scan
  <2>1. /\ pc = "scan" /\ UNCHANGED <<flash, cmd, dev, sector, modified>>
        /\ flash_sector' = [p \in PagesOf(sector) |-> flash[dev][p]]
    BY <1>1 DEF Scan, stickVars
  <2> QED BY <2>1 DEF Unmodified
<1>2. CASE EraseSector
  <2>1. /\ pc = "erase" /\ dev \in Devices /\ UNCHANGED <<cmd, dev, sector, modified>>
        /\ flash_sector' = [p \in PagesOf(sector) |-> "erased"]
        /\ ~cmd.dryrun => SetPages(PagesOf(sector), "erased")
    BY <1>2 DEF EraseSector
  <2> SUFFICES ASSUME ~cmd.dryrun, ~modified PROVE Unmodified'
    BY <2>1 DEF Unmodified
  <2>2. \A p \in Pages : flash'[dev][p] = IF p \in PagesOf(sector) THEN "erased" ELSE flash[dev][p]
    BY <2>1 DEF SetPages, IInv, Shape
  <2>3. cmd.image \in Images /\ sector \in Nat
    BY <2>1, CommandFacts, ImageFacts DEF IInv, Shape, Progress, InImage
  <2>4. ASSUME NEW p \in DOMAIN ImagePages[cmd.image], p \div SectorPages < sector
        PROVE  flash'[dev][p] = ImagePages[cmd.image][p]
    <3>1. p \in Pages /\ p \notin PagesOf(sector)
      BY <2>3, <2>4, ImageFacts DEF PagesOf
    <3> QED BY <2>1, <2>2, <2>4, <3>1 DEF Unmodified
  <2> QED BY <2>1, <2>2, <2>4 DEF Unmodified, PagesOf
<1>3. CASE WritePage
  BY <1>3 DEF WritePage, Unmodified
<1>4. CASE SectorDone
  <2>1. CASE Finish("SUCCESS")
    BY <2>1 DEF Finish, Unmodified
  <2>2. CASE ~Finish("SUCCESS")
    <3>1. /\ pc = "pages" /\ ToWrite = {} /\ pc' \in {"scan", "verify"}
          /\ UNCHANGED <<flash, cmd, dev, modified>>
          /\ pc' = "scan" => sector' = sector + 1
      BY <1>4, <2>2 DEF SectorDone, stickVars, writeVars
    <3> SUFFICES ASSUME pc' = "scan", dev \in Devices, ~cmd.dryrun, ~modified,
                        NEW p \in DOMAIN ImagePages[cmd.image], p \div SectorPages < sector + 1
                 PROVE  flash[dev][p] = ImagePages[cmd.image][p]
      BY <3>1 DEF Unmodified
    <3>2. cmd.image \in Images /\ sector \in Nat
      BY <3>1, CommandFacts, ImageFacts DEF IInv, Shape, Progress, InImage
    <3>3. p \in Nat
      BY <3>2, ImageFacts DEF Pages
    <3>4. p \div SectorPages \in Nat
      BY <3>3, StickAssumption, DivMod
    <3> QED BY <3>1, <3>2, <3>4, SectorHolds
  <2> QED BY <2>1, <2>2
<1> QED BY <1>1, <1>2, <1>3, <1>4

LEMMA NextUnmodified == IInv /\ Unmodified /\ [Next]_vars => Unmodified'
<1> SUFFICES ASSUME IInv, Unmodified, [Next]_vars PROVE Unmodified'
  OBVIOUS
<1>1. CASE pc' \notin {"scan", "erase", "pages"}
  BY <1>1 DEF Unmodified
<1>2. CASE Scan \/ EraseSector \/ WritePage \/ SectorDone
  BY <1>2, WriteUnmodified
<1>3. CASE OpenDevice /\ pc' \in {"scan", "erase", "pages"}
  <2>1. pc' = "scan" /\ sector' = 0 /\ UNCHANGED cmd
    BY <1>3 DEF OpenDevice, Open, FirstStep, Failure, Finish, writeVars, IInv, Progress, InImage
  <2>2. cmd.image \in Images
    <3>1. pc = "open" /\ pc' = FirstStep /\ cmd \in Commands
      BY <1>3, <2>1 DEF OpenDevice, Open, Failure, Finish, IInv, Shape
    <3>2. cmd.name = "write"
      BY <2>1, <3>1 DEF FirstStep, IInv, Progress
    <3> QED BY <3>1, <3>2, CommandFacts
  <2>3. \A p \in DOMAIN ImagePages[cmd.image] : p \in Nat
    BY <2>2, ImageFacts DEF Pages
  <2>4. \A p \in DOMAIN ImagePages[cmd.image] : p \div SectorPages \in Nat
    BY <2>3, StickAssumption, DivMod
  <2> QED BY <2>1, <2>4 DEF Unmodified
<1>4. ASSUME UNCHANGED <<cmd, pc, writeVars>>, dev' \in Devices => dev' = dev,
             handle = "claimed" /\ dev' = dev => flash' = flash
      PROVE  Unmodified'
  BY <1>4 DEF writeVars, Unmodified, IInv, Claims
<1>5. ASSUME NEW d \in Devices, Arrives(d) \/ Around(d) \/ IsUnplugged(d) \/ OtherClaims(d)
      PROVE  Unmodified'
  <2>1. UNCHANGED <<cmd, pc, writeVars, flash>> /\ (dev' \in Devices => dev' = dev)
    BY <1>5, StickAssumption DEF Arrives, Boot, Around, Plug, Revive, SwitchBack, OtherReleases,
       IsUnplugged, Unplug, DeviceLeft, Forget, OtherClaims, toolVars, writeVars
  <2> QED BY <1>4, <2>1
<1>6. CASE UNCHANGED vars
  BY <1>4, <1>6 DEF vars, stickVars, toolVars, writeVars
<1>7. CASE \/ Verify \/ Standby \/ AllDone \/ TestStep \/ Cleanup \/ ToolFails \/ DeviceGone
           \/ Load \/ hotplug_prepare \/ Start \/ Reset \/ Await \/ Timeout
           \/ Search \/ SelftestSearch \/ NextStick \/ OpenToLoad \/ Connect
  <2>1. pc' \notin {"scan", "erase", "pages"}
    BY <1>7 DEF Verify, Standby, AllDone, TestStep, Cleanup, ToolFails, Fails, Interrupted,
       EraseFails, WriteFails, DeviceGone, Load, hotplug_prepare, Start, Reset, Await, Timeout,
       Arrived, Search, SelftestSearch, NextStick, OpenToLoad, Connect, Open, Failure, Finish
  <2> QED BY <1>1, <2>1
<1>8. ASSUME NEW c \in Commands, Run(c) PROVE Unmodified'
  BY <1>1, <1>8 DEF Run
<1> QED BY <1>1, <1>2, <1>3, <1>5, <1>6, <1>7, <1>8 DEF Next, Tool, ToolStep, SelftestStep

LEMMA InitUnmodified == Init => Unmodified
BY DEF Init, UtilInit, Unmodified

-----------------------------------------------------------------------------
(* Which steps there are at a point of a command.                          *)

\* While the tool waits, only the end of the waiting gives it another stick.
LEMMA AwaitingOnly ==
  ASSUME [Next]_vars, pc = "await", dev' \in Devices, dev' # dev
  PROVE  Await \/ Timeout
<1>1. ASSUME NEW d \in Devices, Arrives(d) \/ Around(d) \/ IsUnplugged(d) \/ OtherClaims(d)
      PROVE  FALSE
  BY <1>1, StickAssumption DEF Arrives, Around, IsUnplugged, DeviceLeft, Forget, OtherClaims, toolVars
<1>2. ASSUME NEW outcome, Finish(outcome) \/ Failure PROVE FALSE
  BY <1>2, StickAssumption DEF Finish, Failure
<1>3. ~ToolFails
  BY <1>2 DEF ToolFails, Fails, Interrupted, EraseFails, WriteFails
<1> QED
  BY <1>1, <1>3 DEF vars, toolVars, Next, Run, Tool, ToolStep, SelftestStep, DeviceGone, Search,
     OpenToLoad, OpenDevice, Load, hotplug_prepare, Start, Reset, Scan, EraseSector, WritePage,
     SectorDone, Verify, Standby, SelftestSearch, NextStick, AllDone, Connect, TestStep, Cleanup

\* The ways to succeed.
LEMMA Succeeding ==
  ASSUME IInv, BusInv, [Next]_vars, pc # "idle", pc' = "idle", result' = "SUCCESS"
  PROVE  \/ Verify \/ (SectorDone /\ Finish("SUCCESS"))
         \/ Standby /\ pc = "standby" /\ cmd.name = "standby"
         \/ cmd.name \in {"load", "reset", "selftest"}
<1>1. ASSUME Finish("FAILURE") \/ Failure PROVE FALSE
  BY <1>1 DEF Finish, Failure
<1>2. ASSUME NEW d \in Devices, Arrives(d) \/ Around(d) \/ IsUnplugged(d) \/ OtherClaims(d)
      PROVE  FALSE
  BY <1>2 DEF Arrives, Around, IsUnplugged, OtherClaims, toolVars
<1>3. ~ToolFails /\ ~DeviceGone
  BY <1>1 DEF ToolFails, Fails, Interrupted, EraseFails, WriteFails, DeviceGone
<1>4. ASSUME NEW device, Arrived(device), pc = "await"
      PROVE  cmd.name \in {"load", "reset"}
  BY <1>1, <1>4 DEF Arrived
<1>5. Await \/ Timeout => cmd.name \in {"load", "reset"}
  BY <1>1, <1>4 DEF Await, Timeout
<1>6. Search => FALSE
  BY <1>1 DEF Search
<1>7. OpenToLoad \/ OpenDevice \/ Connect => FALSE
  BY <1>1 DEF OpenToLoad, OpenDevice, Connect, Open, FirstStep, IInv, Progress
<1>8. Reset => cmd.name = "reset"
  BY DEF Reset, BusInv, Selftesting
<1> QED
  BY <1>2, <1>3, <1>5, <1>6, <1>7, <1>8
  DEF vars, toolVars, Next, Run, Tool, ToolStep, SelftestStep, Load, hotplug_prepare, Start,
      Scan, EraseSector, WritePage, SectorDone, Standby, SelftestSearch, NextStick, AllDone,
      TestStep, Cleanup, IInv, Progress

\* The ways to go on after the self-test of a stick.
LEMMA CleaningOnly ==
  ASSUME [Next]_vars, pc = "cleanup", pc' = "next"
  PROVE  Cleanup \/ Failure
<1>1. ASSUME NEW d \in Devices, Arrives(d) \/ Around(d) \/ IsUnplugged(d) \/ OtherClaims(d)
      PROVE  FALSE
  BY <1>1 DEF Arrives, Around, IsUnplugged, OtherClaims, toolVars
<1>2. ~ToolFails
  BY DEF ToolFails, Fails, Interrupted, EraseFails, WriteFails, Finish
<1> QED
  BY <1>1, <1>2 DEF vars, toolVars, Next, Run, Tool, ToolStep, SelftestStep, DeviceGone, Search,
     OpenToLoad, OpenDevice, Load, hotplug_prepare, Start, Reset, Await, Timeout, Scan,
     EraseSector, WritePage, SectorDone, Verify, Standby, SelftestSearch, NextStick, AllDone,
     Connect, TestStep

-----------------------------------------------------------------------------
(* The theorems.                                                           *)

\* Whenever another program claims a stick, pg2-util leaves its flash, its power and
\* its firmware alone until that program ends: everything that touches them is done
\* with interface 0 claimed. A reset alone is not, and takes away no stick but its
\* own.
THEOREM InUseUntouchedHolds == Spec => InUseUntouched
<1>1. IInv /\ BusInv /\ InUse /\ [Next]_vars =>
        [\A d \in Devices : user[d] = "other" =>
           /\ flash'[d] = flash[d]
           /\ \/ user'[d] = "other" /\ active'[d] = active[d] /\ runs'[d] = runs[d]
              \/ OtherReleases(d)
              \/ Unplug(d)
              \/ cmd.name = "reset" /\ dev = d /\ Leaves(d, "reset")]_vars
  <2> SUFFICES ASSUME IInv, BusInv, InUse, [Next]_vars, NEW d \in Devices, user[d] = "other"
               PROVE  /\ flash'[d] = flash[d]
                      /\ \/ user'[d] = "other" /\ active'[d] = active[d] /\ runs'[d] = runs[d]
                         \/ OtherReleases(d)
                         \/ Unplug(d)
                         \/ cmd.name = "reset" /\ dev = d /\ Leaves(d, "reset")
    OBVIOUS
  <2>1. flash'[d] = flash[d]
    BY FlashChanges DEF IInv, Claims
  <2> QED BY <2>1, UseChanges DEF Kept
<1> QED BY <1>1, IInvHolds, BusInvHolds, InUseHolds, PTL DEF Spec, InUseUntouched

\* write_image never writes a page that is not erased, after whatever interrupted
\* commands have left in the flash: its assertion is true of the flash itself, not
\* only of the copy of the sector it looks at.
THEOREM WritesErasedHolds == Spec => WritesErased
<1>1. IInv /\ [Next]_vars =>
        [\A d \in Devices, p \in Pages :
           pc = "pages" /\ flash'[d][p] # flash[d][p] => flash[d][p] = "erased"]_vars
  BY FlashChanges DEF IInv, Believed
<1> QED BY <1>1, IInvHolds, PTL DEF Spec, WritesErased

\* Nothing but a write that is no dry run changes firmware, and it changes only
\* sectors of its image in which something differs or that it is told to erase; the
\* self-test changes its own sector only, which no image reaches.
THEOREM FlashSparedHolds == Spec => FlashSpared
<1>1. IInv /\ [Next]_vars =>
        [\A d \in Devices, p \in Pages :
           flash'[d][p] # flash[d][p] =>
             LET s == p \div SectorPages
             IN \/ cmd.name = "selftest" /\ s = TEST_SECTOR
                \/ /\ cmd.name = "write" /\ ~cmd.dryrun /\ s \in SectorsOf(cmd.image)
                   /\ cmd.force_erase \/ \E q \in PagesOf(s) : flash[d][q] # Padded(cmd.image)[q]]_vars
  <2> SUFFICES ASSUME IInv, [Next]_vars, NEW d \in Devices, NEW p \in Pages,
                      flash'[d][p] # flash[d][p]
               PROVE  LET s == p \div SectorPages
                      IN \/ cmd.name = "selftest" /\ s = TEST_SECTOR
                         \/ /\ cmd.name = "write" /\ ~cmd.dryrun /\ s \in SectorsOf(cmd.image)
                            /\ cmd.force_erase \/ \E q \in PagesOf(s) : flash[d][q] # Padded(cmd.image)[q]
    OBVIOUS
  <2>1. d = dev
    BY FlashChanges
  <2>2. CASE pc = "test" /\ p \in PagesOf(TEST_SECTOR)
    BY <2>2 DEF PagesOf, IInv, Progress
  <2>3. CASE pc = "erase" /\ ~cmd.dryrun /\ p \in PagesOf(sector)
    BY <2>1, <2>3 DEF PagesOf, IInv, Progress, InImage, Believed
  <2>4. CASE pc = "pages" /\ ~cmd.dryrun /\ p \in ToWrite
    <3>1. p \div SectorPages = sector /\ p \in PagesOf(sector)
      BY <2>4 DEF ToWrite, PagesOf
    <3>2. flash[d][p] = flash_sector[p] /\ flash_sector[p] # Padded(cmd.image)[p]
      BY <2>1, <2>4 DEF ToWrite, IInv, Believed
    <3> QED BY <2>4, <3>1, <3>2 DEF IInv, Progress, InImage
  <2> QED BY <2>2, <2>3, <2>4, FlashChanges
<1> QED BY <1>1, IInvHolds, PTL DEF Spec, FlashSpared

\* After a load the tool goes on with the stick that came up on the port, or with
\* another one if the stick it loaded does not run there: hotplug_callback, which
\* cannot tell sticks apart, and the timeout of hotplug_await never prefer a wrong one.
THEOREM OwnDeviceHolds == Spec => OwnDevice
<1>1. IInv /\ BusInv /\ [Next]_vars =>
        [pc = "await" /\ dev' \in Devices \ {hotplug.was} =>
           \/ where[dev'] = hotplug.port
           \/ ~(runs[hotplug.was] \in Images /\ where[hotplug.was] = hotplug.port)]_vars
  <2> SUFFICES ASSUME IInv, BusInv, [Next]_vars, pc = "await", dev' \in Devices, dev' # hotplug.was
               PROVE  \/ where[dev'] = hotplug.port
                      \/ ~(runs[hotplug.was] \in Images /\ where[hotplug.was] = hotplug.port)
    OBVIOUS
  <2>1. hotplug # <<>> /\ dev' # dev
    BY DEF BusInv, Bus, Watched, Expecting
  <2>2. Await \/ Timeout
    BY <2>1, AwaitingOnly
  <2>3. ASSUME NEW device, Arrived(device) PROVE dev' = device
    BY <2>3, StickAssumption DEF Arrived, Failure, Finish
  <2>4. CASE Await
    BY <2>1, <2>3, <2>4 DEF Await, BusInv, Watched
  <2>5. CASE Timeout
    BY <2>1, <2>5 DEF Timeout, BusInv, Watched
  <2> QED BY <2>2, <2>4, <2>5
<1> QED BY <1>1, IInvHolds, BusInvHolds, PTL DEF Spec, OwnDevice

\* A write that is no dry run, and a verify, succeed only if the flash holds the
\* image: a write that has found nothing to do has looked at every sector, and any
\* other reads back what it has written.
THEOREM SuccessMeansImageHolds == Spec => SuccessMeansImage
<1>1. IInv /\ BusInv /\ Unmodified /\ [Next]_vars =>
        [pc # "idle" /\ pc' = "idle" /\ result' = "SUCCESS" /\ dev \in Devices
           /\ (cmd.name = "verify" \/ (cmd.name = "write" /\ ~cmd.dryrun))
         => Holds(flash[dev], cmd.image)]_vars
  <2> SUFFICES ASSUME IInv, BusInv, Unmodified, [Next]_vars,
                      pc # "idle", pc' = "idle", result' = "SUCCESS", dev \in Devices,
                      cmd.name = "verify" \/ (cmd.name = "write" /\ ~cmd.dryrun)
               PROVE  Holds(flash[dev], cmd.image)
    OBVIOUS
  <2>1. Verify \/ (SectorDone /\ Finish("SUCCESS"))
    BY Succeeding DEF IInv, Progress
  <2>2. CASE Verify
    BY <2>2 DEF Verify, Finish
  <2>3. CASE SectorDone /\ Finish("SUCCESS")
    <3>1. pc = "pages" /\ ToWrite = {} /\ cmd.name = "write" /\ ~cmd.dryrun
      BY <2>3 DEF SectorDone, IInv, Progress
    <3>2. sector + 1 \notin SectorsOf(cmd.image) /\ ~modified
      BY <2>3, <3>1 DEF SectorDone, Finish
    <3>3. cmd.image \in Images /\ sector \in Nat
      BY <3>1, CommandFacts, ImageFacts DEF IInv, Shape, InImage
    <3>4. ASSUME NEW p \in DOMAIN ImagePages[cmd.image] PROVE p \div SectorPages <= sector
      <4>1. p \in Nat /\ p \div SectorPages \in Nat
        BY <3>3, ImageFacts, StickAssumption, DivMod DEF Pages
      <4>2. ~(sector + 1 <= p \div SectorPages)
        BY <3>2, <3>3, ImageFacts
      <4> QED BY <3>3, <4>1, <4>2
    <3> QED BY <3>1, <3>2, <3>4, SectorHolds DEF Holds
  <2> QED BY <2>1, <2>2, <2>3
<1> QED
  BY <1>1, InitUnmodified, NextUnmodified, IInvHolds, BusInvHolds, PTL DEF Spec, SuccessMeansImage

\* What standby, or the self-test of a stick, reports to have passed is powered
\* down: both of the commands have been tried and neither has failed.
THEOREM QuietHolds == Spec => Quiet
<1>1. IInv /\ BusInv /\ [Next]_vars =>
        [/\ (pc = "standby" /\ result' = "SUCCESS" /\ pc' = "idle" => active'[dev] = {})
         /\ (pc = "cleanup" /\ pc' = "next" /\ test'.success => active'[dev] = {})]_vars
  <2> SUFFICES ASSUME IInv, BusInv, [Next]_vars
               PROVE  /\ pc = "standby" /\ result' = "SUCCESS" /\ pc' = "idle" => active'[dev] = {}
                      /\ pc = "cleanup" /\ pc' = "next" /\ test'.success => active'[dev] = {}
    OBVIOUS
  <2>1. ASSUME pc = "standby", result' = "SUCCESS", pc' = "idle" PROVE active'[dev] = {}
    <3>1. Standby
      BY <2>1, Succeeding DEF IInv, Progress, Verify, SectorDone
    <3> QED BY <2>1, <3>1 DEF Standby, Finish, IInv, Shape
  <2>2. ASSUME pc = "cleanup", pc' = "next", test'.success PROVE active'[dev] = {}
    <3>1. DOMAIN test = Parts /\ test # <<>>
      BY <2>2, SelftestRecord DEF IInv, Progress, BusInv, Selftesting
    <3>2. CASE Cleanup
      <4>1. PICK failed \in SUBSET (Powered \cup {"led"}) :
              /\ IF test.all_pass THEN active' = [active EXCEPT ![dev] = @ \cap failed]
                                  ELSE UNCHANGED active
              /\ test' = [test EXCEPT !.success = @ /\ test.all_pass /\ failed = {}]
        BY <3>2 DEF Cleanup
      <4>2. test'.success = (test.success /\ test.all_pass /\ failed = {})
        BY <3>1, <4>1 DEF Parts
      <4>3. test.all_pass /\ failed = {} /\ dev \in Devices
        BY <2>2, <3>2, <4>2 DEF Cleanup
      <4> QED BY <4>1, <4>3 DEF IInv, Shape
    <3>3. CASE Failure
      <4>1. test' = [test EXCEPT !.success = FALSE]
        BY <3>1, <3>3 DEF Failure
      <4> QED BY <2>2, <3>1, <4>1 DEF Parts
    <3> QED BY <2>2, <3>2, <3>3, CleaningOnly
  <2> QED BY <2>1, <2>2
<1> QED BY <1>1, IInvHolds, BusInvHolds, PTL DEF Spec, Quiet
=============================================================================
