\* The divider of the UART cut to three clocks, two words, two USB registers.
SPECIFICATION MCSpec
CONSTANTS
  UartDiv = 2
  Blank = d0
  MaxMarks = 2
  Data = {d0, d1}
  Char = {d0, d1}
  Reg = {"usb0", "usb1"}
  Junk = junk
  AccessClocks = 4
VIEW BusView
INVARIANTS
  TypeOK
  NoStrayAnswer
  DevicesRight
PROPERTIES
  Answered
  TrapExactly
  UartFrames
