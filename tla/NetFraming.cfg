SPECIFICATION Spec
CONSTANTS
  Base = 2
  HEADER = 2
  MAX_FRAME = 2
  MaxBytes = 8
INVARIANTS FramesExact NoLostEdge
PROPERTY AllFramesThenClosed
CHECK_DEADLOCK FALSE
