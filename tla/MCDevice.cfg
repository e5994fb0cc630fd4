\* Opening and closing a device again and again, while another program uses it
\* in between; one call or write of the registers, any of them, fails half way.
SPECIFICATION DeviceSpec
CONSTANTS
  MaxStep = 1
  Gains <- MCGains
  GainTables <- MCGainTables
  StageTables <- MCStageTables
  MaxFaults = 1
  Filters <- MCFilters
  Frequencies <- MCFrequencies
  Xtal = 2880
  RefDivAbove = 2400
  FracBits = 12
  VcoMin = 175000
  VcoMax = 380000
  DacScale = 318
  DacPerScale = 1000000
  PowerOn <- MCPowerOn
  Versions <- MCVersions
  LibraryVersion = 9
  LibraryCompat = 8
INVARIANTS
  EntryInUse
  NearestIsNearest
  SettingsInRegisters
  PllInRegisters
  NothingLeaks
