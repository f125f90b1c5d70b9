SPECIFICATION Spec
CHECK_DEADLOCK FALSE
CONSTANTS
  Identifiers = {"x", "v"}
  Natives <- MCNatives
  Literals = {"int"}
  MaxRefs = 4
  MaxOperands = 3
  MaxScopes = 2
  MaxSize = 2
  MaxCases = 7
INVARIANTS
  LinksEnd
  GeneralisedStayApart
PROPERTIES
  UnifiesExactly
  LambdasGeneralise
