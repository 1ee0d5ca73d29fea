SPECIFICATION Spec
CONSTANTS
  Requests = {q1, q2, q3}
  Names = {"admin", "alice"}
  MaxId = 4
  Connections = 2
  MaxFaults = 1
INVARIANTS
  TypeOK
  DuplicatesOverlapped
  OnlyFailuresLeaveHalves
  DeletedIsGone
PROPERTIES
  RegistrySpec
  RequestsEnd
\* Every request is answered, and then nothing is left to do.
CHECK_DEADLOCK FALSE
