CONSTANTS
  Surfaces = {s1, s2}
  NoSurface = none
  Codecs = {"VP9"}
  Kinds = {"frame"}
  ApiThreads = 1
  MaxBegins = 2
  ReuseInFlight = {"VP9"}
  MppLoses = {}
  MppStalls = {"VP9"}
SPECIFICATION Spec
INVARIANT ShowsItsOwnPicture
