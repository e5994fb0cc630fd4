\* Eight ADC samples make a user sample and four a block: every range leaves some over. Blocks may be
\* lost anywhere, and capture ends by signal, sample limit, time limit, write error or bad header.
CONSTANTS
  W = 9
  SPB = 4
  Stages = 3
  Blocks = 3
  BufferSize = 2
  MaxGap = 1
  MaxBlock = 14
  Formats = {"UINT8", "FLOAT64"}
  SampleLimits = {0, 3}
  TimeLimits = {0, 3}
  Second = 2
  MaxClock = 7
SPECIFICATION RxFairSpec
INVARIANTS
  PartialMirrorsDSP
  SamplesConserved
  CountFitsBuffer
  Accounted
  SuccessIsComplete
PROPERTIES
  TimestampsFollow
  StopEnds
CHECK_DEADLOCK FALSE
