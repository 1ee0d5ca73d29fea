SPECIFICATION Spec
CONSTANTS
  MaxEntries = 2
  MaxLines = 5
  PipeSize = 1
  MaxFaults = 1
INVARIANTS
  TypeOK
  ReportIsComplete
PROPERTIES
  UploadEnds
\* Once the upload has ended nothing is left to do; behind a dead reader the
\* compiler may be stuck.
CHECK_DEADLOCK FALSE
