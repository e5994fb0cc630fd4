\* pg2-util on two sticks: A and B are images whose second page differs.
SPECIFICATION MCSpec
CONSTANTS
  Devices = {"own", "other"}
  Ports = {1, 2}
  Sectors = 3
  SectorPages = 2
  ImagePages <- MCImagePages
  Blocks = 2
  MaxFaults = 1
  Commands <- MCCommands
  Own = "own"
  Wanted = "A"
PROPERTIES
  WritesErased
  SuccessMeansImage
  FlashSpared
  InUseUntouched
  OwnDevice
  Quiet
  Repaired
