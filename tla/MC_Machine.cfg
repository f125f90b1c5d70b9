\* Integers of 64 values, floats from -2 to 2, programs of MaxSteps instructions.
SPECIFICATION Spec
CONSTANTS
  HALF = 8
  MaxFloat = 2
  Files <- MCFiles
  CommandLines <- MCCommandLines
  Libraries <- MCLibraries
  Symbols <- MCSymbols
  Depth = 3
  MaxElements = 2
  MaxObjects = 4
  MaxSteps = 5
  TypeDepth = 3
INVARIANTS
  LoadedAsCompiled
  NativesFromTheirLibrary
  WellTyped
  ResultsAsPrinted
  NothingFreedTwice
CHECK_DEADLOCK FALSE
