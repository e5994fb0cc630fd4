----------------------------- MODULE MCFirmware -----------------------------
EXTENDS Firmware, TLC

MCImagePages == [A |-> 0 :> "a0" @@ 1 :> "erased" @@ 2 :> "x2", B |-> 0 :> "a0" @@ 1 :> "b1" @@ 2 :> "x2"]

Plain == [name |-> "write", image |-> "A", port |-> 0, dryrun |-> FALSE, force_erase |-> FALSE, wait |-> FALSE]
Bare == [Plain EXCEPT !.image = "none"]
MCCommands ==
  {[Plain EXCEPT !.port = port] : port \in Ports} \cup
  {[Plain EXCEPT !.image = "B", !.force_erase = TRUE], [Plain EXCEPT !.dryrun = TRUE],
   [Plain EXCEPT !.name = "verify"], [Plain EXCEPT !.name = "load"],
   [Plain EXCEPT !.name = "selftest"]} \cup
  {[Bare EXCEPT !.name = "reset", !.wait = TRUE], [Bare EXCEPT !.name = "reset"],
   [Bare EXCEPT !.name = "standby"], [Bare EXCEPT !.name = "selftest"]}

\* Own's flash holds A or B, or is erased; the other stick's holds the wanted
\* image, and is not connected yet.
MCInit ==
  /\ Init
  /\ cmd = [Plain EXCEPT !.port = 1]
  /\ \A d \in Devices : d # Own => flash[d] = Padded(Wanted) /\ runs[d] = "off"
  /\ active[Own] \in {{}, Powered}
  /\ where[Own] = 1 /\ \A d \in Devices : where[d] <= 2
MCSpec == MCInit /\ [][Next]_vars /\ Fairness
=============================================================================
