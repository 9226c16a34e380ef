\* A call whose last argument its envelope cuts short.
SPECIFICATION Spec
CONSTANTS
  Base = 16
  Word = 5
  TypeName <- MCTypeName
  Codec <- MCCodec
  Module = {"none", "paras", "utility"}
  NoModule = "none"
  Override <- MCOverride
  CallIndex <- MCCallIndex
  Call <- MCCall
  Ascii = {12, 13}
  MaxVec = 2
  MaxMap = 1
  Request <- CutRequest
  Input <- CutInput
  Depth = {8}
  HexText <- MCHexText
INVARIANTS Reencodes
CHECK_DEADLOCK FALSE
