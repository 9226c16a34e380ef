\* Looking up and registering beside a Clean: what stays, and that all of it ends.
SPECIFICATION Spec
CONSTANTS
  Proc = {"g1", "c1"}
  Reader = {"g1"}
  Registrar = {"g1"}
  Cleaner = {"c1"}
  MaxOps <- CleanOps
  SpecVersion = {0, 1, 2}
  Bulks <- CleanBulks
  Lookups <- CleanLookups
  Type <- MCType
  Key <- MCKey
  Lower <- MCLower
  Generic = {"vec<a>"}
  HeadOf <- MCHead
  ArgOf <- MCArg
  Tuple = {"(a)"}
  Array = {"[a;2]"}
  Path = {"p::a"}
  LastOf <- MCLast
  Wrapper = {"vec<a>", "(a)", "[a;2]"}
  StructType = "struct"
  StructBody = struct
  ModuleName = {"none", "mod", "Mixed", "mixed"}
  LowerModule <- MCLowerModule
  NoModule = "none"
  Overrides <- MCOverrides
  Body <- MCBody
  Unnamed = {unit}
  Parts <- MCParts
  Nesting <- MCNesting
  Restarting = {"[a;2]"}
  BaseRegistry <- MCBase
  BaseTypes <- BaseBulk
  Booted <- MCBooted
  OriginCallers = {}
  NoRequest <- MCNoRequest
  NoEntry <- Blank
  Missing = Missing
  u32 = u32
  struct = struct
  vec = vec
  b1 = b1
  b2 = b2
  unit = unit
INVARIANTS TypeOK BaseNeverLost ReturnsFlushed
 
CHECK_DEADLOCK FALSE
