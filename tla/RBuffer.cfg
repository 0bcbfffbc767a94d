SPECIFICATION Spec
CONSTANTS
  long = long
  pair = pair
  typeA = typeA
  typeB = typeB
  tid1 = tid1
  v1 = v1
  v2 = v2
  v3 = v3
  NoSchema = NoSchema
  Objects <- Objects2
  Types = {typeA, typeB}
  Tids = {tid1}
  Locations = {v1, v2, v3}
  MaxArrivals = 2
  TypesOf <- TypesOf2
  TidOf <- TidOf2
  Lengths <- Lengths2
  LocTypes <- LocTypes2
CHECK_DEADLOCK FALSE
INVARIANTS
  TypeOK
  HandedWhole
  NeverInvented
  NeverDropped
  ArrivedIsReady
  WantedIsFirstMissing
  SizeIsHeldBytes
