CONSTANTS
  Codecs = {"AVC", "AVC_HIGH", "HEVC", "VP9"}
  StreamSequences = {1, 2}
  ScalingSequences = {2}
  Matrices = {1}
  MaxSlices = 2
  MaxPictures = 2
  BuildFails = {"HEVC", "VP9"}
  PushFails = {"VP9"}
  EarlyDestroy = {"pp", "iq"}
SPECIFICATION Spec
INVARIANTS
  DecodedAsDeclared
  PacketHoldsItsSlices
CHECK_DEADLOCK FALSE
