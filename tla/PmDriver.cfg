SPECIFICATION SerialSpec
CONSTANTS
  NCpu = 2
  Writers = {w1, w2}
  MaxWrites = 4
  MaxTicks = 4
INVARIANTS EnabledSamples DisabledQuiet UnloadedQuiet LastPassWhole
CHECK_DEADLOCK FALSE
