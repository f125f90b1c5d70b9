SPECIFICATION FairSpec
CHECK_DEADLOCK FALSE
CONSTANTS
  a1 = a1
  a2 = a2
  main = main
  Actors <- MCActors
  Main = main
  NoActor = NoActor
  Spawning <- Everyone
  Exiting <- OneActor
  FreshFlag <- Uninitialised
  FreshCount <- MainOnStack
  EventSlots = 2
  MaxSends = 2
  MaxGlobals = 1
INVARIANTS
  MainOutlivesItsActors
  GlobalsBeforeSpawnSeen
  EarlyMessagesHandled
PROPERTIES
  EarlyMessagesGetHandled
  
