SPECIFICATION Spec
CONSTANTS
  XBytes = 32
  ResetPcs = {0}
  Fetchable <- MCFetchable
  Words <- MCWords
  Offsets <- MCOffsets
  DataAddrs = {4, 5}
  Readable = {4}
  Writable = {4}
  BadInsts = {1}
  IrqLines <- AllLines
CHECK_DEADLOCK FALSE
INVARIANTS
  TypeOK
  PcAligned
  FrameKept
  FetchFaultBlamed
  MemoryFaultBlamed
PROPERTIES
  MretResumes
  HandlerNotInterrupted
  PreciseTrap
  CommitTraced
