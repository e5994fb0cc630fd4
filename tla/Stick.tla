-------------------------------- MODULE Stick --------------------------------
(***************************************************************************)
(* Pro Sticks on a USB bus, as the firmware tools of src/cli/pg2-util use  *)
(* them. Firmware, boot ROM and libusb are not part of this repository:    *)
(* what is here is what the tools and their documentation rely on. A stick *)
(* has flash memory, which is erased a sector and written a page at a      *)
(* time, runs an image booted from it or sent over USB, and disappears     *)
(* from the bus when it is reset, to come back on the same port or, in a   *)
(* virtual machine, on another one.                                        *)
(***************************************************************************)
EXTENDS Integers

CONSTANTS
  Devices, Ports,
  Sectors, SectorPages,  \* sectors of the flash, pages of a sector
  ImagePages,  \* firmware images: the contents of the pages of each
  Blocks,      \* blocks an image is sent in
  MaxFaults    \* how often something may go wrong

Pages == 0 .. Sectors * SectorPages - 1
PagesOf(sector) == {p \in Pages : p \div SectorPages = sector}
Images == DOMAIN ImagePages

ASSUME StickAssumption ==
  /\ Devices # {} /\ Devices \cap {"none", "gone"} = {} /\ Ports \subseteq Nat \ {0}
  /\ Images \cap {"none", "rom", "hung", "off", "reset", "loaded"} = {}
  /\ Sectors \in Nat \ {0} /\ SectorPages \in Nat \ {0}
  /\ \A image \in Images : \E last \in Pages : DOMAIN ImagePages[image] = 0 .. last
  /\ Blocks \in Nat \ {0} /\ MaxFaults \in Nat

VARIABLES
  flash,    \* the contents of the pages
  staged,   \* what the blocks sent are of
  runs,     \* an image, "rom" (recovery mode), "hung", "off"; or "reset" or
            \* "loaded" when it is about to boot from flash or what was sent
  where,    \* the port it is, or was, on
  switch,   \* the recovery switch: "normal" or "recovery"
  active,   \* which of ADC and RF section are powered
  user,     \* the other program that has claimed it: "nobody" or "other"
  faults    \* how often something has gone wrong

stickVars == <<flash, staged, runs, where, switch, active, user, faults>>

Nothing == [b \in 1 .. Blocks |-> "nothing"]
Powered == {"adc", "rf"}

OnBus(d) == runs[d] \in {"rom"} \cup Images
Recovery(d) == d \in Devices /\ runs[d] = "rom"

\* What the sectors of an image are to hold: the image, then 0xFF.
Padded(image) ==
  [p \in Pages |-> IF p \in DOMAIN ImagePages[image] THEN ImagePages[image][p] ELSE "erased"]
Holds(content, image) == \A p \in DOMAIN ImagePages[image] : content[p] = ImagePages[image][p]
Fault == faults < MaxFaults /\ faults' = faults + 1

\* Not connected, or running, perhaps left powered by a program that has ended.
StickInit ==
  /\ flash \in [Devices -> {Padded(image) : image \in Images} \cup {[p \in Pages |-> "erased"]}]
  /\ staged = [d \in Devices |-> Nothing]
  /\ runs \in {r \in [Devices -> {"off"} \cup Images] : \A d \in Devices : r[d] = "off" \/ Holds(flash[d], r[d])}
  /\ where \in {w \in [Devices -> Ports] : \A d, e \in Devices : w[d] = w[e] => d = e}
  /\ switch = [d \in Devices |-> "normal"]
  /\ active \in {a \in [Devices -> SUBSET Powered] : \A d \in Devices : runs[d] = "off" => a[d] = {}}
  /\ user = [d \in Devices |-> "nobody"]
  /\ faults = 0

\* What a stick may run once it has booted. With a good header (which is on the
\* first page) and a bad rest the ROM may start what then does not run.
BootsTo(d) ==
  IF runs[d] = "loaded"
  THEN IF \E image \in Images : staged[d] = [b \in 1 .. Blocks |-> image]
       THEN {staged[d][1]} ELSE {"hung"}
  ELSE IF switch[d] = "recovery" THEN {"rom"}
  ELSE LET intact == {image \in Images : Holds(flash[d], image)}
       IN IF intact # {} THEN intact
          ELSE {"rom"} \cup IF \E image \in Images : flash[d][0] = ImagePages[image][0] THEN {"hung"} ELSE {}

FreePorts(d) == {port \in Ports : \A e \in Devices : runs[e] # "off" => where[e] # port}

\* A stick boots, and comes up on its port or, as a fault, on another one.
Boot(d) ==
  /\ runs[d] \in {"reset", "loaded"}
  /\ \E what \in BootsTo(d) : runs' = [runs EXCEPT ![d] = what]
  /\ \/ UNCHANGED <<where, faults>>
     \/ Fault /\ \E port \in FreePorts(d) : where' = [where EXCEPT ![d] = port]
  /\ staged' = [staged EXCEPT ![d] = Nothing]
  /\ UNCHANGED <<flash, switch, active, user>>

\* It leaves the bus, to boot again, or unplugged.
Leaves(d, to) ==
  /\ runs' = [runs EXCEPT ![d] = to]
  /\ active' = [active EXCEPT ![d] = {}]
  /\ user' = [user EXCEPT ![d] = "nobody"]

Plug(d) ==
  /\ runs[d] = "off"
  /\ \E port \in FreePorts(d) : where' = [where EXCEPT ![d] = port]
  /\ runs' = [runs EXCEPT ![d] = "reset"]
  /\ UNCHANGED <<flash, staged, switch, active, user, faults>>

Unplug(d) ==
  /\ Fault
  /\ runs[d] # "off"
  /\ Leaves(d, "off")
  /\ staged' = [staged EXCEPT ![d] = Nothing]
  /\ UNCHANGED <<flash, where, switch>>

\* The user moves the switch of a stick that does not come up, and power cycles
\* it; and moves the switch back once it runs.
Revive(d) ==
  /\ runs[d] = "hung"
  /\ runs' = [runs EXCEPT ![d] = "reset"]
  /\ switch' = [switch EXCEPT ![d] = "recovery"]
  /\ UNCHANGED <<flash, staged, where, active, user, faults>>

SwitchBack(d) ==
  /\ runs[d] \in Images
  /\ switch[d] = "recovery"
  /\ switch' = [switch EXCEPT ![d] = "normal"]
  /\ UNCHANGED <<flash, staged, runs, where, active, user, faults>>

\* Another program uses a stick, and stops to. It may leave it powered.
OtherReleases(d) ==
  /\ user[d] = "other"
  /\ user' = [user EXCEPT ![d] = "nobody"]
  /\ \/ active' = [active EXCEPT ![d] = {}]
     \/ UNCHANGED active
  /\ UNCHANGED <<flash, staged, runs, where, switch, faults>>
=============================================================================
