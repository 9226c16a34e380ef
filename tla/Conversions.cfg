SPECIFICATION Spec
CONSTANTS
  Base = 8
  Word = 8
  W = 4
  Unset = Unset
  Hex <- MCHex
  Printable = {"0", "x", "a", "1", "3", "6", "7", "8", "f"}
  HashLength = 4
  MaxRaw = 2
  Utf8 <- MCUtf8
  DigestParts <- MCDigest
  Vector = Vector
  CLikeEnum <- MCCLike
  TypeStruct <- MCTypeStruct
  Task <- MCTask
INVARIANTS
  IntegersReadBack
  CompactReadsBack
  SetMembers
  Uint128Exact
  TextReadsBack
  LeavesAligned
  ChangesReported
CHECK_DEADLOCK FALSE
