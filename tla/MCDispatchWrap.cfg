\* Timestamps of six bits: they wrap while samples are left over in a callback buffer.
CONSTANTS
  W = 6
  SPB = 4
  Stages = 1
  Blocks = 3
  BufferSize = 6
  MaxGap = 1
  MaxBlock = 24
SPECIFICATION Spec
PROPERTIES
  TimestampsIncrease
CHECK_DEADLOCK FALSE
