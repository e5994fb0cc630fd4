\* The stage of the library: decimation by 2; three filter lengths it accepts.
CONSTANTS
  BlockLen = 2
  Contexts = {3, 7, 11}
  MaxInput = 30
  MaxSignal = 36
  Word = 65536
  Garbage <- OutsideMemory
SPECIFICATION Spec
INVARIANTS
  OutputIndependentOfPieces
CHECK_DEADLOCK FALSE
