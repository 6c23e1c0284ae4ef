CONSTANTS
  SIZE_MAX = 131071
  UINT_MAX = 2047
  USHRT_MAX = 255
  RK_MAX_WIDTH = 8192
  RK_MAX_HEIGHT = 8192
  Requests <- MCRequests
  ImageRequests <- MCImageRequests
  Frames <- MCFrames
  HaveRga = TRUE
  BindDuringPut = FALSE
  CopyDerived = FALSE
  EncodeDecoded = FALSE
SPECIFICATION Spec
INVARIANTS
  CopiesStayInside
  ImageSurvives
