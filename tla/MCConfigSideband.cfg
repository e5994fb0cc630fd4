\* The sideband is changed when the LO is to stay where it is.
SPECIFICATION Spec
CONSTANTS
  Rates = {4, 8}
  AdcLimits = {16}
  Decimations <- AutoOnly
  Undersamplings = {1, 2}
  BufferSizes = {8}
  Frequencies = {24, 56}
  Bandpasses <- MCBandpasses
  Tables <- MCTables
  AdcClock <- MCAdcClock
  DecimationMax = 2
  AutoMargin = 5
  LoMin = 20
  LoMax = 60
  LoStep = 2
  MinWidth = 2
  DefaultFilter = "default"
  W = 10
  SPB = 4
  BPB = 8
  MaxTransfer = 24
  Faults = FALSE
INVARIANT SidebandRetained
