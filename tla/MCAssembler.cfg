SPECIFICATION McSpec
CONSTANTS
  Names <- McNames
  Items <- McItems
  Arguments <- McArguments
  Results = {0, 1, 2}
  Handles = {0, 193}
  Main = "main"
  MaxLocals = 1
  MaxArgs = 2
  MaxResults = 1
  MinJump <- McMinJump
  MaxJump = 3
  CodeFirst = 192
  CodeLast = 193
  DataFirst = 218
  DataLast = 218
  MayFail = TRUE
  MaxItems = 3
  Budget = 4
CHECK_DEADLOCK FALSE
INVARIANTS
  TypeOK
  OutputMeansSource
  VerdictIsRight
  HandlesAssigned
  UnitIsLoaded
