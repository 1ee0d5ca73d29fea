SPECIFICATION Spec
CONSTANTS
  ByteBase = 2
  WordBytes = 2
  Vars = {"x", "y"}
  Memory = {0, 2, 3, 5, 6, 8}
  Data <- MCData
  MaxWords = 2
  MaxSign = 2
INVARIANT AddIsSum
