SPECIFICATION ClientSpec
CONSTANTS
  Version = {6, 7, 8, 9, 10, 11, 12, 13, 14, 15, 16}
  Pallet <- MCPallet
  Portable <- MCPortable
  ConvertType <- MCConvertType
  RawType <- MCRawType
  Runtime <- MCRuntime
  KnownOrigins <- MCKnownOrigins
  None = None
  Garbled = Garbled
  Unresolved = ""
  Empty = "EMPTY"
  Null = "NULL"
  MaxPallet = 3
  ModuleType <- MCModuleType
  NoModule = ""
  Misread = Misread
  Block <- MCBlock
INVARIANTS
  TypeOK
  Found
  NothingElse
  ReadBack
  DispatchedByRuntime
  OriginSelected
  EventsAsEmitted
  BlockDecoded
PROPERTIES
  EntriesKept
CHECK_DEADLOCK FALSE
