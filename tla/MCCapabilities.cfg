CONSTANTS
  ProfileSettings <- MCProfileSettings
  EncodeSettings <- MCEncodeSettings
  HaveRga = TRUE
  Widths = {66, 67, 68, 8192, 8193}
  RK_MAX_WIDTH = 8192
  MaxAttribs = 3
SPECIFICATION NegotiationSpec
INVARIANTS
  AdvertisedIsAccepted
