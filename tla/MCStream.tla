------------------------------ MODULE MCStream ------------------------------
(* Bounds for model-checking Stream.                                       *)
EXTENDS Stream, TLC

ThreadSymmetry == Permutations(Threads)

\* State constraint for the runs with faults that are not contained: what the
\* program does once memory that libusb or another call still uses has been
\* freed, or is still linked after that, is undefined.
MemoryIntact ==
  /\ ExclusiveUse
  /\ InStreamData # {} => \A x \in Transfers : state[x] # "FREED"
  /\ \A x \in Owned \cup Linked : state[x] \notin {"FREED", "IDLE"}
=============================================================================
