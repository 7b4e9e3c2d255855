CONSTANTS
  LineSize = 3
  QueueCap = 1
  MaxWriters = 1
  MaxBytes = 4
  MAXB = 0
  Left = 2
  MaxReq = 2
SPECIFICATION Spec
INVARIANTS LinesCut LinesFound  LoggedBeforeExit
PROPERTIES BytesRead SignalStops
CHECK_DEADLOCK FALSE
