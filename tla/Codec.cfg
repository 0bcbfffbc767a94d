SPECIFICATION Spec
CONSTANTS
  Nil = Nil
  Infos <- Classes
  ValuesOf <- Objects
  Seconds = {"flat"}
  Printed = {"printed", "flat"}
  Cuts = {9}
  ShortMax = 3
CHECK_DEADLOCK FALSE
INVARIANTS
  
  
  PrintShowsAll
PROPERTIES
  AllOrNothing
