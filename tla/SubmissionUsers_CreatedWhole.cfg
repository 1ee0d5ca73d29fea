SPECIFICATION Spec
CONSTANTS
  Requests = {q1, q2}
  Names = {"admin", "alice"}
  MaxId = 3
  Connections = 2
  MaxFaults = 1
INVARIANTS CreatedWhole
CHECK_DEADLOCK FALSE
