SPECIFICATION FairSpec
CONSTANTS
  s1 = s1
  s2 = s2
  c1 = c1
  c2 = c2
  c3 = c3
  Senders <- MCSenders
  Cells <- MCCells
  Receiver = receiver
  NULL = NULL
  MaxSends = 2
INVARIANTS
  ListShape
  Ownership
  NoLostWakeup
  NoNullDereference
  DeliversExactlyOnceInOrder
PROPERTIES
  ImplementsMailbox
  EveryMessageTaken
