SPECIFICATION SessionSpec
CONSTANTS
  AddrSpace = 17
  ByteRange = 2
  WordBytes = 4
  Regs = {"x0", "x1", "v1"}
  X0 = "x0"
  VecRegs = {"v1"}
  Csrs = {"mepc", "vstart"}
  TrapCsrs = {"mepc"}
  Named = {"mepc", "vstart", "misa"}
  Values = {0, 1}
  Pcs = {0, 4, 8}
  Codes = {0, 5}
  Layout <- SomeLayout
  Accesses <- SomeAccesses
  MaxOps = 2
  MaxCsrWrite = 3
  ClientIds <- SomeIds
  CodeRange = 5
INVARIANTS
  TypeOK
  LogIsFaithful
  ExitEntryTrue
  AssertsHold
  StopReasonTrue
  AnswerTrue
PROPERTY ExitEnds
CHECK_DEADLOCK FALSE
