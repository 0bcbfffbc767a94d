SPECIFICATION Spec
CONSTANTS
  NoSchema = NoSchema
  Types = {typeA}
  Tids = {tid1}
  type = typeA
  tid = tid1
  MTUs = {0, 2, 5}
  HeadLens = {1, 3, 20}
  ChecksumLen = 1
  MinMTU = 4
  DefaultMTU = 6
  ShortMax = 16
  SizeT = 2
  SizeA = 0
  Counts = {0, 1, 3}
  MaxBytes = 6
  MaxDepth = 2
CHECK_DEADLOCK FALSE
INVARIANTS
  TypeOK
  FramesDeliver
  CompleteCanBeSent
PROPERTY
  IsByteStream
