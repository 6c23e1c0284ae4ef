CONSTANTS
  Objects = {o1, o2, o3, o4}
  Holders = {h1, h2}
  Null = null
  Type = 3
  MaxSlots = 2
  InitialCapacity = 1
  MaxGeneration = 2
  MaxRefs = 2
  Handles <- MCHandles
SPECIFICATION Spec
CHECK_DEADLOCK FALSE
INVARIANTS
  FreeListSound
  NoSlotLeaks
  LifetimeExact
  HandleNamesOneObject
PROPERTIES
  DeadHandleStaysDead
  ImplementsRegistry
