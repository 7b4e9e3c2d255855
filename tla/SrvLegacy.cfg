CONSTANTS
  Workers = {w1, w2}
  Clients = {c1, c2}
  Fds = {5}
  Text <- MCLegacy
  QUEUE_DEPTH = 2
  DEDUP_MAX = 2
  MAX_ROOMS = 1
  Window = 1
  Patient = FALSE
  MaxReq = 3
SPECIFICATION Spec
INVARIANTS NoLostWakeup OneOwner LoggedFirst OkUnlessFail KilledByLeaver
SYMMETRY MCSymmetry
CHECK_DEADLOCK FALSE
