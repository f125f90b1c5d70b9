SPECIFICATION FairSpec
CHECK_DEADLOCK FALSE
CONSTANTS
  program = program
  lib = lib
  standard = standard
  nowhere = nowhere
  Directories <- MCDirectories
  Place <- MCPlace
  Ways <- MCWays
  Here = ""
  Standard <- MCStandard
  Under <- MCUnder
  Names = {"main", "a", "b"}
  Files <- MCFiles
  Root <- MCRoot
  Variables = {"x", "y"}
  Texts <- MCTexts
  Dot = Dot
  MaxCalls = 9
INVARIANTS
  ParsedOnce
  OwnDirectory
  DefinedBeforeUse
PROPERTIES
  Terminates
