CONSTANTS
  WordBits = 16
  HevcPictures <- MCHevcPictures
  AvcPictures <- MCAvcPictures
  Vp9Frames <- MCVp9Frames
  Payloads <- MCPayloads
SPECIFICATION HeaderSpec
CHECK_DEADLOCK FALSE
INVARIANTS
  EscapeSound
  SliceSurvives
  ParametersSurvive
  LegalIsAccepted
  LevelAdmitsPicture
  Vp9FrameUnderstood
