\* A V14 alias keeps the factory of an older spec.
SPECIFICATION Spec
CONSTANTS
  Proc = {"g1"}
  Reader = {}
  Registrar = {"g1"}
  Cleaner = {}
  MaxOps <- HistoryOps
  SpecVersion = {0, 1, 2}
  Bulks <- AliasBulks
  Lookups <- HistoryLookups
  Type <- MCType
  Key <- MCKey
  Lower <- MCLower
  Generic = {"vec<a>"}
  HeadOf <- MCHead
  ArgOf <- MCArg
  Tuple = {"(a)"}
  Array = {"[a;2]"}
  Path = {"p::a"}
  LastOf <- MCLast
  Wrapper = {"vec<a>", "(a)", "[a;2]"}
  StructType = "struct"
  StructBody = struct
  ModuleName = {"none", "mod", "Mixed", "mixed"}
  LowerModule <- MCLowerModule
  NoModule = "none"
  Overrides <- MCOverrides
  Body <- MCBody
  Unnamed = {unit}
  Parts <- MCParts
  Nesting <- MCNesting
  Restarting = {"[a;2]"}
  BaseRegistry <- MCBase
  BaseTypes <- BaseBulk
  Booted <- MCBooted
  OriginCallers = {}
  NoRequest <- MCNoRequest
  NoEntry <- Blank
  Missing = Missing
  u32 = u32
  struct = struct
  vec = vec
  b1 = b1
  b2 = b2
  unit = unit
PROPERTIES HistoryAlias
CHECK_DEADLOCK FALSE
