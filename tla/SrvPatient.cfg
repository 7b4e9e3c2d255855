CONSTANTS
  Workers = {w1, w2}
  Clients = {c1, c2}
  Fds = {5, 6}
  Text <- MCBoth
  QUEUE_DEPTH = 3
  DEDUP_MAX = 1
  MAX_ROOMS = 1
  Window = 1
  Patient = TRUE
  MaxReq = 3
SPECIFICATION FairSpec
INVARIANTS FrameIntegrity ReplyToOrigin
PROPERTY EveryRequestAnswered
CHECK_DEADLOCK FALSE
