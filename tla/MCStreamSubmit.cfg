\* The initial batch may be submitted only in part.
CONSTANTS
  Threads = {t1, t2}
  NoThread = NoThread
  N = 2
  Faults = {"submit"}
  ForeignEvents = TRUE
SPECIFICATION Spec
SYMMETRY ThreadSymmetry
INVARIANTS
  ExclusiveUse
