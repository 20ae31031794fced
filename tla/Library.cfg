\* Integers of 16 bits, a cycle counter of 16 cycles, memory of 16 bytes.
SPECIFICATION Spec
CONSTANTS
  TickRange = 16
  CyclePerUs = 2
  UsPerMs = 3
  MaxGap = 2
  MaxUs = 6
  MaxMs = 2
  DeviceAddress = 52
  DeviceData <- MCDeviceData
  MaxStretch = 1
  I2cCalls <- MCI2cCalls
  MemSize = 16
  StringCalls <- MCStringCalls
  CharBits = 4
  ShortBits = 8
  IntBits = 16
  LongLongBits = 24
  BufferSize = 16
  SizeMax = 1000000
  PrintfCalls <- MCPrintfCalls
  SampleClocks = 24
  HighClocks = 12
  StoreClock = 4
  MinPause = 1
  MaxPause = 6
  LogClocks = 60
  CaptureLen = 4
INVARIANTS
  TypeOK
  CallsRight
  I2cDelivers
  SamplesCaptured
PROPERTIES
  DelayHolds
  Returns
