SPECIFICATION Spec
CONSTANTS
  NCpu = 2
  Writers = {w1, w2}
  MaxWrites = 4
  MaxTicks = 4
INVARIANT EnabledSamples
CHECK_DEADLOCK FALSE
