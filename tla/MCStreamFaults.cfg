\* Every call into libusb may fail.
CONSTANTS
  Threads = {t1, t2}
  NoThread = NoThread
  N = 3
  Faults <- AllFaults
  ForeignEvents = TRUE
SPECIFICATION Spec
SYMMETRY ThreadSymmetry
CONSTRAINT MemoryIntact
INVARIANTS
  NeverWedged
