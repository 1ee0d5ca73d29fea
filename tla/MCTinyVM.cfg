SPECIFICATION MCSpec
CONSTANTS
  ByteBase = 16
  DynamicFirst = 20
  DynamicLast = 21
  MaxStack = 7
  Units <- AllUnits
  Bytecode <- AllBytecode
  Operands = {0, 1}
  JunkBytes = {0, 1}
  MemoryMayFail = TRUE
INVARIANT TypeOK
PROPERTIES ObjectsPermanent FailedStepKeepsObjects FailedStepKeepsFrame LoadedAsWritten
CHECK_DEADLOCK FALSE
