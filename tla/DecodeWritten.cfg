\* What the encoders write.
SPECIFICATION Spec
CONSTANTS
  Base = 16
  Word = 5
  TypeName <- MCTypeName
  Codec <- MCCodec
  Module = {"none", "paras", "utility"}
  NoModule = "none"
  Override <- MCOverride
  CallIndex <- MCCallIndex
  Call <- PlainCall
  Ascii = {12, 13}
  MaxVec = 3
  MaxMap = 1
  Request <- WrittenRequest
  Input <- WrittenInput
  Depth = {8}
  HexText <- MCHexText
INVARIANTS ReadsBack
CHECK_DEADLOCK FALSE
