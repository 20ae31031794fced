SPECIFICATION MCLive
CONSTANTS
  LineAddr <- MCLineAddr
  Addr0 <- MCAddr0
  Lines <- MCLines
  Half = {"a", "b"}
  Junk = "junk"
  MaxRefCnt = 40
INVARIANTS
  TypeOK
  BlocksArrive
  RefreshesKept
PROPERTIES
  ChipProtocol
  IsLinePort
  Answered
  Refreshed
