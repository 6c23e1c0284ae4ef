CONSTANTS
  Hevc = TRUE
  CodedBuffers = {b1}
  NoBuffer = none
  Syncers = {t1}
  SeqParams <- HevcSeqs
  ZeroSequence <- HevcZero
  SliceSizes = {0, 1, 2, 4}
  SliceTypes = {I, P}
  MaxUnits = 7
  Sizes = {1, 2}
  MaxPictures = 2
  MppLate = FALSE
SYMMETRY TypesAlike
SPECIFICATION EncoderSpec
INVARIANTS
  SplitAsDeclared
  CodedHoldsItsPicture
  CodedFits
