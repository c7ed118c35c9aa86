SPECIFICATION Spec
CONSTANT LastElem = 1
INVARIANTS
  TypeOK
  RecordComplete
  LazySwitchKeepsState
PROPERTY OffIsOff
