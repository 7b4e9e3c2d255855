CONSTANTS
  Workers = {w1, w2}
  Clients = {c1, c2}
  Fds = {5}
  Text <- MCRetry
  QUEUE_DEPTH = 2
  DEDUP_MAX = 2
  MAX_ROOMS = 1
  Window = 1
  Patient = FALSE
  MaxReq = 2
SPECIFICATION Spec
INVARIANT ReplyToOrigin
CHECK_DEADLOCK FALSE
