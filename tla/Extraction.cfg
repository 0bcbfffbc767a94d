SPECIFICATION Spec
CONSTANTS
  Wires <- MCWires
  GoodFrames <- Good
  Magic <- Word
  Tschema <- Tag
  ChecksumHead <- Head17
  MinHeader = 4
  Chunks = {1, 2, 3, 7, 12}
CHECK_DEADLOCK FALSE
INVARIANTS
  TypeOK
  
  
  AsksForMore
