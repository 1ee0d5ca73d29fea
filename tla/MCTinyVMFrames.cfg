SPECIFICATION MCSpec
CONSTANTS
  ByteBase = 16
  DynamicFirst = 20
  DynamicLast = 21
  MaxStack = 14
  Units <- AllUnits
  Bytecode <- AllBytecode
  Operands = {0, 1}
  JunkBytes = {0, 1}
  MemoryMayFail = TRUE
INVARIANTS FrameChain CallersUntouched
PROPERTIES ReturnDelivers CallsAreSeparate
CHECK_DEADLOCK FALSE
