SPECIFICATION Spec
CONSTANTS
  a1 = a1
  a2 = a2
  a3 = a3
  b1 = b1
  plain = plain
  Classes <- Classes5
  FamilyOf <- Family
  VersionOf <- Version
  ProgenyOf <- Progeny
  TypesOf <- OwnTypes
  NoName = ""
CHECK_DEADLOCK FALSE
INVARIANTS
  TypeOK
  MigratesAlongChain
  RefusedWithoutWay
PROPERTIES
  NothingForgotten
  DecorationEnds
