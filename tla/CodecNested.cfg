SPECIFICATION Spec
CONSTANTS
  Nil = Nil
  Infos <- Nested
  ValuesOf <- NestedObjects
  Seconds = {}
  Printed = {}
  Cuts = {}
  ShortMax = 3
CHECK_DEADLOCK FALSE
INVARIANT NestedKept
