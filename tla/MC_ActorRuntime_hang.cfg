SPECIFICATION FairSpec
CHECK_DEADLOCK FALSE
CONSTANTS
  a1 = a1
  a2 = a2
  main = main
  Actors <- MCActors
  Main = main
  NoActor = NoActor
  Spawning <- OnlyMain
  Exiting <- Nobody
  FreshFlag <- Zeroed
  FreshCount <- AsIfSet
  EventSlots = 2
  MaxSends = 1
  MaxGlobals = 0
PROPERTIES
  HaltAlwaysReturns
