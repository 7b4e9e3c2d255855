SPECIFICATION FairSpec
CONSTANTS
  MS = 2
  timeout_ms = 2
  backoff_init_us = 1
  backoff_max_us = 3
  breaker_fail_n = 2
  breaker_half_ms = 2
  MaxCalls = 4
INVARIANTS OpensOnlyOnStreak CallBounded StatsMatchReturns
PROPERTIES RestsAfterTrip CallReturns
CHECK_DEADLOCK FALSE
