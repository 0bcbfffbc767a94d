SPECIFICATION ReceiverSpec
CONSTANTS
  long = long
  short = short
  typeA = typeA
  tid1 = tid1
  tid2 = tid2
  v1 = v1
  NoSchema = NoSchema
  Objects <- Objects2
  Types = {typeA}
  Tids = {tid1, tid2}
  Locations = {v1}
  MaxArrivals = 2
  TypesOf <- TypesOf2
  TidOf <- TidOf2
  Lengths <- Lengths2
  LocTypes <- LocTypes2
  MaxFrames = 2
  EndErrors = {"EOF"}
INVARIANTS
  ReceiverTypeOK
  
PROPERTIES
  StaysReady
  
