SPECIFICATION Spec
CONSTANT Programs <- MCPrograms
INVARIANTS
  RunsAsWritten
  StaysInItsBody
CHECK_DEADLOCK FALSE
