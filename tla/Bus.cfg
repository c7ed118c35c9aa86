SPECIFICATION Spec
CONSTANTS
  AddrSpace = 8
  ByteRange = 2
  WordBytes = 2
  Configs <- SomeConfigs
  Images <- SomeImages
INVARIANTS
  TypeOK
  DecodedAsConfigured
  ExitSeen
PROPERTY BusIsFlatMemory
CHECK_DEADLOCK FALSE
