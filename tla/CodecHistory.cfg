\* One registrar loads the types of two runtime specs and bulks of aliases.
SPECIFICATION Spec
CONSTANTS
  Proc = {"g1", "r1"}
  Reader = {"r1"}
  Registrar = {"g1"}
  Cleaner = {}
  MaxOps <- HistoryOps
  SpecVersion = {0, 1, 2}
  Bulks <- HistoryBulks
  Lookups <- HistoryLookups
  Type <- MCType
  Key <- MCKey
  Lower <- MCLower
  Generic = {"vec<a>"}
  HeadOf <- MCHead
  ArgOf <- MCArg
  Tuple = {"(a)"}
  Array = {"[a;2]"}
  Path = {"p::a"}
  LastOf <- MCLast
  Wrapper = {"vec<a>", "(a)", "[a;2]"}
  StructType = "struct"
  StructBody = struct
  ModuleName = {"none", "mod", "Mixed", "mixed"}
  LowerModule <- MCLowerModule
  NoModule = "none"
  Overrides <- MCOverrides
  Body <- MCBody
  Unnamed = {unit}
  Parts <- MCParts
  Nesting <- MCNesting
  Restarting = {"[a;2]"}
  BaseRegistry <- MCBase
  BaseTypes <- BaseBulk
  Booted <- MCBooted
  OriginCallers = {}
  NoRequest <- MCNoRequest
  NoEntry <- Blank
  Missing = Missing
  u32 = u32
  struct = struct
  vec = vec
  b1 = b1
  b2 = b2
  unit = unit
INVARIANTS HistoryKept
PROPERTIES SpecialsKept BulkExplained
CHECK_DEADLOCK FALSE
