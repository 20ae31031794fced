\* One line, three tags: every access competes for the same two ways.
CONSTANTS
  t0 = t0  t1 = t1  t2 = t2  v0 = v0  v1 = v1  w0 = w0  b0 = b0
  Tag <- ThreeTags
  Tag0 = t0
  NLines = 1
  Word <- OneWord
  Byte <- OneByte
  Val <- Vals
  Val0 = v0
  Leftover <- Found
SPECIFICATION MCSpec
INVARIANTS TypeOK ReadReturnsLastWrite NothingLost OneCopy LruExact CleanIsStored
PROPERTIES FlatMemory
VIEW MCView
