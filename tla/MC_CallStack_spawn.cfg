SPECIFICATION Spec
CHECK_DEADLOCK FALSE
CONSTANTS
  top = top
  f = f
  h = h
  e = e
  Top = top
  Functions = {f}
  Handlers = {h}
  Events = {e}
  Arity <- MCArity
  LocalSpace <- MCLocalSpace
  Ons <- MCOns
  SpawnSites <- SpawnInFunction
  MAX_FRAMES = 2
  FreshBase = {0}
  MaxPoint = 2
  MaxOperands = 2
  MaxSlots = 9
  MaxMessages = 1
PROPERTIES
  SpawnYieldsActor
