SPECIFICATION ResolverSpec
CONSTANTS
  Source <- OpaqueSource
  Base <- MCBase
  Spec = {0, 9}
  Depth = 3
INVARIANTS
  OpaqueMeansType
CHECK_DEADLOCK FALSE
