SPECIFICATION Spec
CONSTANTS
  ByteBase = 2
  WordBits = 4
INVARIANT InstructionsExact
CHECK_DEADLOCK FALSE
