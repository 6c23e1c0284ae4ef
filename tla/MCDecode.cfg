CONSTANTS
  Surfaces = {s1, s2}
  NoSurface = none
  Codecs = {"AVC", "HEVC", "VP9"}
  Kinds = {"frame", "field", "altref", "unref", "empty"}
  ApiThreads = 1
  MaxBegins = 3
  ReuseInFlight = {"HEVC", "VP9"}
  MppLoses = {"HEVC"}
  MppStalls = {"AVC", "HEVC"}
SPECIFICATION FairSpec
INVARIANTS
  ShowsItsOwnPicture
  NoFenceLost
  RoutesCounted
  EosAfterAllInput
PROPERTIES
  ImplementsFence
  FencesSettle
  DestroyReturns
