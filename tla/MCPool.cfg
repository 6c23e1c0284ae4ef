CONSTANTS
  Surfaces = {s1, s2}
  PoolCount = 1
  PoolMax = 3
  PoolGrow = 3
  StarvedTries = 1
  PutTries = 2
  InputSlots = 1
  Dpb = 1
  Conservative = 1
  Sizes = {1, 2}
  MaxPictures = 3
  Hevc = TRUE
  Formats = {"NV12", "NV15"}
  AllocFails = TRUE
SPECIFICATION FairSpec
INVARIANTS
  FramesMatchPool
  ShownNotOverwritten
  PoolAliveWhileUsed
PROPERTIES
  PushFailsOnlyExhausted
  StarvationEnds
CHECK_DEADLOCK FALSE
