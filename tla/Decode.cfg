\* Any bytes, against every codec, and damaged calls.
SPECIFICATION Spec
CONSTANTS
  Base = 16
  Word = 5
  TypeName <- MCTypeName
  Codec <- MCCodec
  Module = {"none", "paras", "utility"}
  NoModule = "none"
  Override <- MCOverride
  CallIndex <- MCCallIndex
  Call <- MCCall
  Ascii = {12, 13}
  MaxVec = 2
  MaxMap = 1
  Request <- DecodeRequest
  Input <- DecodeInput
  Depth = {8}
  HexText <- MCHexText
INVARIANTS TypeOK NoReentry ModuleScoped PublishedCalls
PROPERTIES FieldsIsolated
CHECK_DEADLOCK FALSE
