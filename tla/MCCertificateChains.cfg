SPECIFICATION MCSpec
CONSTANTS
  Names <- MCNames
  Keys <- MCKeys
INVARIANTS
  TypeOK
  ChainsSound
  ChainsComplete
PROPERTIES
  Terminates
\* The search ends.
CHECK_DEADLOCK FALSE
