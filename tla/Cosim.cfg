SPECIFICATION CosimSpec
CONSTANTS
  Regs <- SomeRegs
  Values = {0, 1}
  CsrValues = {0, 1, 2, 3}
  Pcs <- SomePcs
  Codes = {0, 1}
  MaxCode = 7
  MaxSkip = 3
  Fields <- SomeFields
  Names <- SomeNames
  LowRange <- TwoValues
  HighRange <- TwoValues
  Policy = "SuccessSource2"
  Base = 2
  MaxInsts = 3
  TrapPc = 40
  ListedCsrs <- AllListed
INVARIANTS
  VerdictTrue
  CutKeepsPrefix
  DifferenceExplained
CHECK_DEADLOCK FALSE
