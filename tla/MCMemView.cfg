SPECIFICATION Spec
CONSTANTS
  Views = {v, w}
  Byte = {0}
  Values <- McValues
  SizeMod = 8
  Bases = {0, 1, 7}
  Lengths = {2, 4}
  MaxLen = 4
SYMMETRY McSymmetry
INVARIANTS
  TypeOK
  AccessesInside
PROPERTIES
  StoredIsRead
  InnerSliceAppended
