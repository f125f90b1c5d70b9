SPECIFICATION ListSpec
CHECK_DEADLOCK FALSE
CONSTANTS
  m1 = m1
  m2 = m2
  o1 = o1
  o2 = o2
  Modules <- TwoModules
  Objects <- TwoObjects
  NULL = NULL
  FIRST = FIRST
  Depth = 3
  Globals = 0
  Scanned = 2
  INIT_OBJECTS = 1
  MaxOperands = 1
  MaxInFlight = 1
  Fresh <- Value
SYMMETRY Symmetric
CONSTRAINT Orderly
INVARIANTS
  
  
  ListHoldsTheObjects
  ListCountBelowLimit
PROPERTIES
  
  ImplementsCollector
