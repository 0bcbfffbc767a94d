SPECIFICATION Spec
CONSTANTS
  NoSchema = NoSchema
  Types = {typeA}
  Tids = {tid1}
  N = 4
  type = typeA
  tid = tid1
INVARIANTS
  TypeOK
  
PROPERTIES
  WantedMovesOn
  Implements
  
