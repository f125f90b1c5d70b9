SPECIFICATION Spec
CONSTANT Programs <- WithMutInLambda
INVARIANT LocalsStoredFirst
CHECK_DEADLOCK FALSE
