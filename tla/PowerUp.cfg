\* Two blocks of two words in three KB of two words; at most two faults.
SPECIFICATION Spec
CONSTANTS
  Cols = 14
  Rows = 6
  FlashData <- MCFlashData
  FlashIds <- MCFlashIds
  AppBase = 786432
  Blocks = 2
  Words = 2
  DdrKb = 3
  MaxFaults = 2
  DeviceAddress = 52
  DeviceData <- MCDeviceData
  MaxStretch = 0
INVARIANTS
  TypeOK
  RunsVerifiedImage
  CodecTransfers
  ConsoleKept
PROPERTIES
  Settles
