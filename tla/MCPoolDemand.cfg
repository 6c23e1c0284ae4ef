CONSTANTS
  Surfaces = {s1, s2}
  PoolCount = 1
  PoolMax = 2
  PoolGrow = 1
  StarvedTries = 1
  PutTries = 2
  InputSlots = 1
  Dpb = 1
  Conservative = 1
  Sizes = {1}
  MaxPictures = 2
  Hevc = TRUE
  Formats = {"NV12"}
  AllocFails = FALSE
SPECIFICATION FairSpec
PROPERTY GrowsOnDemand
CHECK_DEADLOCK FALSE
