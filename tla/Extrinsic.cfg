SPECIFICATION ClientSpec
CONSTANTS
  Client <- MCClient
  ModuleType <- MCModuleType
  Width <- MCWidth
  Byte <- MCByte
  SignedExts = {"CheckNonce", "ChargeTransactionPayment", "ChargeAssetTxPayment", "CheckMetadataHash"}
  NoModule = ""
  Unresolved = ""
  Misread = Misread
  None = None
  Disabled = Disabled
INVARIANTS
  TypeOK
  Decoded
  NoPanic
  OnlyV5Astray
  ReEncoded
  Refused
CHECK_DEADLOCK FALSE
