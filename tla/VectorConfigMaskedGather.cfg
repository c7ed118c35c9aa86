SPECIFICATION Spec
CONSTANTS
  VLEN = 64
  ELEN = 32
  Avls <- SomeAvls
  Regs <- SomeRegs
  Fields <- SomeFields
INVARIANT SequentialIsParallel
CHECK_DEADLOCK FALSE
