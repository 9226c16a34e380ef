\* Lookups against two registrars: what the cache may hold.
SPECIFICATION Spec
CONSTANTS
  Proc = {"r1", "g1", "g2"}
  Reader = {"r1"}
  Registrar = {"g1", "g2"}
  Cleaner = {}
  MaxOps <- CacheOps
  SpecVersion = {0, 1}
  Bulks <- CacheBulks
  Lookups <- CacheLookups
  Type <- MCType
  Key <- MCKey
  Lower <- MCLower
  Generic = {"vec<a>"}
  HeadOf <- MCHead
  ArgOf <- MCArg
  Tuple = {"(a)"}
  Array = {"[a;2]"}
  Path = {"p::a"}
  LastOf <- MCLast
  Wrapper = {"vec<a>", "(a)", "[a;2]"}
  StructType = "struct"
  StructBody = struct
  ModuleName = {"none", "mod", "Mixed", "mixed"}
  LowerModule <- MCLowerModule
  NoModule = "none"
  Overrides <- MCOverrides
  Body <- MCBody
  Unnamed = {unit}
  Parts <- MCParts
  Nesting <- MCNesting
  Restarting = {"[a;2]"}
  BaseRegistry <- MCBase
  BaseTypes <- BaseBulk
  Booted <- MCBooted
  OriginCallers <- OriginCallerEntries
  NoRequest <- MCNoRequest
  NoEntry <- Blank
  Missing = Missing
  u32 = u32
  struct = struct
  vec = vec
  b1 = b1
  b2 = b2
  unit = unit
INVARIANTS CacheCoherent
PROPERTIES AnswersCurrent
CHECK_DEADLOCK FALSE
