SPECIFICATION Spec
CONSTANTS
  Space = 7
  MaxVl = 3
  MaxNf = 2
  Insts <- AllInsts
  VStarts <- SomeVStarts
  Contents <- SomeContents
  Index <- SomeIndex
  Memory <- SomeMemory
  Mapped <- SomeMapped
  Repairable <- SomeRepairable
INVARIANT RecordConservative
CHECK_DEADLOCK FALSE
