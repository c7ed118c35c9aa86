SPECIFICATION Spec
CONSTANTS
  Regs = {"x1", "v0"}
  Values = {0, 1}
  CsrValues = {0, 1, 2}
  Pcs = {4, 8}
  Codes = {0, 1, 7}
  MaxCode = 7
  MaxSkip = 3
  Fields <- SomeFields
  Names <- SomeNames
  LowRange <- TwoValues
  HighRange <- TwoValues
  Policy = "SuccessSource2"
INVARIANTS
  TypeOK
  SameMeansSuccess
PROPERTY ComparesWholeStates
CHECK_DEADLOCK FALSE
