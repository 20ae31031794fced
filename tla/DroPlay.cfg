\* Bytes of three bits; every body of at most four bytes.
SPECIFICATION Spec
CONSTANTS
  ByteSize = 8
  Signature <- MCSignature
  Files <- MCFiles
  MaxBody = 4
  Dro1Letter = {0, 1, 3, 4, 5, 7}
  Dro2Letter = {0, 1, 2, 5, 6, 7}
  ImfCommand <- MCImfCommand
  ImfStart <- MCImfStart
  ImfRest <- MCImfRest
INVARIANTS
  TypeOK
PROPERTIES
  PlaysScore
  Finishes
