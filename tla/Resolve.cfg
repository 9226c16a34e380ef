SPECIFICATION ResolverSpec
CONSTANTS
  Source <- MCSource
  Base <- MCBase
  Spec = {0, 9}
  Depth = 3
INVARIANTS
  TypeOK
  NamesMeanTypes
PROPERTIES
  DefinitionKept
CHECK_DEADLOCK FALSE
