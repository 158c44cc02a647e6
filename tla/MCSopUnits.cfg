\* Bytes 0..5, a greatest unit of two bytes.
SPECIFICATION Spec
CONSTANTS
  Messages <- MCMessages
  FByte = 4
  OByte = 5
  LongMark = 3
  Chunk = 2
  MaxAny = 5
  MaxCells = 6
INVARIANTS WellPlaced SerialisedInOrder FormIsGrid
\* The reader ends.
CHECK_DEADLOCK FALSE
