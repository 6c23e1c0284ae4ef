CONSTANTS
  Threads = {t1, t2}
  NoImage = none
  TenBit = FALSE
  PrivPitch = 384
  MppPitch = 352
  MaxFence = 2
  BeginDuringAccess = FALSE
SPECIFICATION FairSpec
INVARIANTS
  RetainedFdShowsPicture
  SeesCurrentPicture
  ImageGeometry
PROPERTIES
  NoLateCopy
  AccessReturns
