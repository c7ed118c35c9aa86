SPECIFICATION Spec
CONSTANTS
  VLEN = 64
  ELEN = 32
  Avls <- SomeAvls
  Regs <- SomeRegs
  Fields <- SomeFields
INVARIANTS
  TypeOK
  VlInRange
  EewAlignExact
  GroupsHoldVl
  OverlapSafe
CHECK_DEADLOCK FALSE
