\* Two values of what the sizes and the clock depend on, in any order; any write may fail.
\* The buffers: one may be smaller than a block, the other make either product wrap.
SPECIFICATION Spec
CONSTANTS
  Rates = {4, 8}
  AdcLimits = {16, 32}
  Decimations <- AutoOrNone
  Undersamplings = {1, 2}
  BufferSizes = {2, 16}
  Frequencies = {24}
  Bandpasses <- MCBandpasses
  Tables <- OneTable
  AdcClock <- MCAdcClock
  DecimationMax = 2
  AutoMargin = 5
  LoMin = 20
  LoMax = 30
  LoStep = 2
  MinWidth = 2
  DefaultFilter = "default"
  W = 6
  SPB = 4
  BPB = 8
  MaxTransfer = 24
  Faults = TRUE
INVARIANTS
  NothingForgotten
  KnownMatchesHardware
  SpectrumUpright
  StreamKeepsClock
  BufferHoldsTransfer
