------------------------------ MODULE Firmware ------------------------------
(***************************************************************************)
(* pg2-util on a bus with several sticks: the self-test of                 *)
(* src/cli/pg2-util/selftest.c, which goes through all the sticks it       *)
(* finds, the other commands from Util.tla, and the user, who runs them.   *)
(***************************************************************************)
EXTENDS Util

CONSTANTS Own, Wanted  \* the stick the user looks after, and the image for it

\* The sector the self-test overwrites, at 0x0FF000.
TEST_SECTOR == Sectors - 1

\* image_read takes no image that could reach it. A sector is part of an image
\* for something that is in it.
ASSUME FirmwareAssumption ==
  /\ Own \in Devices /\ Wanted \in Images
  /\ \A image \in Images :
       /\ TEST_SECTOR \notin SectorsOf(image)
       /\ \A s \in SectorsOf(image) : \E p \in PagesOf(s) : Padded(image)[p] # "erased"

vars == <<stickVars, toolVars>>

Init == StickInit /\ UtilInit

-----------------------------------------------------------------------------
(* The self-test.                                                          *)

SelftestSearch ==
  /\ pc = "search" /\ cmd.name = "selftest"
  /\ IF Found = {} THEN Finish("FAILURE")
     ELSE /\ test' = [todo |-> Found, step |-> 1, detected |-> FALSE, all_pass |-> TRUE, success |-> TRUE]
          /\ pc' = "next"
          /\ UNCHANGED <<cmd, dev, handle, loadVars, writeVars, result>>
  /\ UNCHANGED stickVars

\* The next stick runs the firmware it has, or is loaded with what was given.
NextStick ==
  /\ pc = "next"
  /\ \E d \in test.todo :
       LET connects == IF d = "gone" THEN FALSE ELSE ~(Recovery(d) /\ cmd.image = "none")
       IN /\ test' = [todo |-> test.todo \ {d}, step |-> 1, detected |-> FALSE, all_pass |-> TRUE,
                      success |-> test.success /\ connects]
          /\ IF connects
             THEN /\ dev' = d
                  /\ pc' = IF cmd.image = "none" THEN "connect" ELSE "load_open"
             ELSE UNCHANGED <<pc, dev>>
  /\ UNCHANGED <<stickVars, cmd, handle, loadVars, writeVars, result>>

AllDone ==
  /\ pc = "next" /\ test.todo = {}
  /\ Finish(IF test.success THEN "SUCCESS" ELSE "FAILURE")
  /\ UNCHANGED stickVars

\* selftest_connect.
Connect ==
  /\ pc = "connect" /\ dev \in Devices
  /\ Open(TRUE, "test")
  /\ UNCHANGED stickVars

\* What a step may leave in the flash and powered, having passed or failed.
Overwritten(content) ==
  [flash EXCEPT ![dev] = [p \in Pages |-> IF p \in PagesOf(TEST_SECTOR) THEN content ELSE @[p]]]

Leaves_flash(ok) ==
  IF test.step # 2 THEN {flash}
  ELSE IF ok THEN {Overwritten("pattern")}
  ELSE {flash} \cup {Overwritten(content) : content \in {"erased", "pattern", "garbage"}}

Leaves_active(ok) ==
  LET powered == [active EXCEPT ![dev] = @ \cup IF test.step = 3 THEN {"rf"}
                                                 ELSE IF test.step \in 6 .. 8 THEN {"adc"} ELSE {}]
  IN IF ok THEN {powered} ELSE {powered, active}

\* The two tests of a frequency need a tuner that was detected: require_passed.
Skipped == test.step \in {4, 5} /\ ~test.detected

\* What a test measures is right, unless something goes wrong.
Passes(ok) == IF ok THEN UNCHANGED faults ELSE Fault

\* Clocks, flash, tuner, two frequencies and three ADC rates.
TestStep ==
  /\ pc = "test" /\ dev \in Devices
  /\ pc' = IF test.step < 8 THEN "test" ELSE "cleanup"
  /\ \/ /\ Skipped
        /\ test' = [test EXCEPT !.step = @ + 1]
        /\ UNCHANGED <<flash, active, faults>>
     \/ /\ ~Skipped
        /\ \E ok \in BOOLEAN :
             /\ Passes(ok)
             /\ flash' \in Leaves_flash(ok)
             /\ active' \in Leaves_active(ok)
             /\ test' = [test EXCEPT !.step = @ + 1, !.all_pass = @ /\ ok,
                                     !.detected = @ \/ (test.step = 3 /\ ok)]
  /\ UNCHANGED <<staged, runs, where, switch, user, cmd, dev, handle, loadVars, writeVars, result>>

\* selftest_cleanup powers down what has passed, and then sets the LED.
Cleanup ==
  /\ pc = "cleanup" /\ dev \in Devices
  /\ \E failed \in SUBSET (Powered \cup {"led"}) :
       /\ IF failed = {} THEN UNCHANGED faults ELSE Fault
       /\ IF test.all_pass THEN active' = [active EXCEPT ![dev] = @ \cap failed] ELSE UNCHANGED active
       /\ test' = [test EXCEPT !.success = @ /\ test.all_pass /\ failed = {}]
  /\ pc' = "next" /\ dev' = "none" /\ handle' = "closed"
  /\ UNCHANGED <<flash, staged, runs, where, switch, user, cmd, loadVars, writeVars, result>>

SelftestStep == SelftestSearch \/ NextStick \/ AllDone \/ Connect \/ TestStep \/ Cleanup

-----------------------------------------------------------------------------

Tool == ToolStep \/ SelftestStep

\* The user connects, power cycles and revives a stick, and other programs use
\* it.
Around(d) ==
  \/ Plug(d) /\ UNCHANGED toolVars
  \/ Revive(d) /\ UNCHANGED toolVars
  \/ SwitchBack(d) /\ UNCHANGED toolVars
  \/ OtherReleases(d) /\ UNCHANGED toolVars

Next ==
  \/ \E c \in Commands : Run(c)
  \/ Tool
  \/ ToolFails
  \/ \E d \in Devices : Arrives(d) \/ Around(d) \/ IsUnplugged(d) \/ OtherClaims(d)

\* The command with which the user would repair the stick.
Repair(c) ==
  /\ c.name = "write" /\ c.image = Wanted /\ ~c.dryrun /\ ~c.force_erase
  /\ c.port = where[Own]

\* libusb delivers what arrives and its transfers end; the user does not leave
\* the stick alone until it is repaired; other programs end.
Fairness ==
  /\ WF_vars(Tool)
  /\ WF_vars(\E c \in Commands : Repair(c) /\ Run(c))
  /\ \A d \in Devices :
       WF_vars(Arrives(d)) /\ WF_vars(Plug(d) /\ UNCHANGED toolVars) /\ WF_vars(Around(d))

Spec == Init /\ [][Next]_vars /\ Fairness

-----------------------------------------------------------------------------
(* Properties.                                                             *)

\* The assertion of write_image, about the flash itself: only erased pages are
\* written, so that what the page is to hold is not merged with what it held,
\* after whatever an earlier, interrupted command has left there.
WritesErased ==
  [][\A d \in Devices, p \in Pages : pc = "pages" /\ flash'[d][p] # flash[d][p] => flash[d][p] = "erased"]_vars

\* A write or verify that reports success leaves the device with an image that
\* is there, byte for byte, though the flash may silently have failed to take it.
SuccessMeansImage ==
  [][pc # "idle" /\ pc' = "idle" /\ result' = "SUCCESS" /\ dev \in Devices
       /\ (cmd.name = "verify" \/ (cmd.name = "write" /\ ~cmd.dryrun))
     => Holds(flash[dev], cmd.image)]_vars

\* What is not for a command to change stays: only a write that is no dry run
\* changes firmware, and none but the sectors of its image that need it; the
\* self-test keeps to its sector, also for the sticks it reaches by a load.
FlashSpared ==
  [][\A d \in Devices, p \in Pages :
       flash'[d][p] # flash[d][p] =>
         LET s == p \div SectorPages
         IN \/ cmd.name = "selftest" /\ s = TEST_SECTOR
            \/ /\ cmd.name = "write" /\ ~cmd.dryrun /\ s \in SectorsOf(cmd.image)
               /\ cmd.force_erase \/ \E q \in PagesOf(s) : flash[d][q] # Padded(cmd.image)[q]]_vars

\* Whenever another program has claimed a stick, its flash stays, and the stick
\* keeps its firmware, its power and that program's claim, until the program ends
\* or the stick is unplugged. Only a reset takes it away, and only the stick it is
\* for: do_reset opens the device without claiming it, and the restart powers it
\* down.
InUseUntouched ==
  [][\A d \in Devices : user[d] = "other" =>
       /\ flash'[d] = flash[d]
       /\ \/ user'[d] = "other" /\ active'[d] = active[d] /\ runs'[d] = runs[d]
          \/ OtherReleases(d)
          \/ Unplug(d)
          \/ cmd.name = "reset" /\ dev = d /\ Leaves(d, "reset")]_vars

\* After a load the tool goes on with a stick on the port of the one it loaded,
\* or with one on another port only if the one it loaded does not run there.
OwnDevice ==
  [][pc = "await" /\ dev' \in Devices \ {hotplug.was} =>
       \/ where[dev'] = hotplug.port
       \/ ~(runs[hotplug.was] \in Images /\ where[hotplug.was] = hotplug.port)]_vars

\* A stick for which standby, or the whole self-test, reports success is left
\* with its ADC and its RF section off.
Quiet ==
  [][/\ (pc = "standby" /\ result' = "SUCCESS" /\ pc' = "idle" => active'[dev] = {})
     /\ (pc = "cleanup" /\ pc' = "next" /\ test'.success => active'[dev] = {})]_vars

\* However a stick's flash has been left by interrupted commands, failed writes,
\* a wrong switch or a plug pulled: a user who keeps running pg2-util write for
\* it, and nothing else, will get the wanted image into it, to stay.
Repaired ==
  <>[](pc # "idle" => Repair(cmd)) => <>[]Holds(flash[Own], Wanted)
=============================================================================
