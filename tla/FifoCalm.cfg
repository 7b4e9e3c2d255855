CONSTANTS Cap = 3  MaxMsg = 5
SPECIFICATION FairCalmSpec
INVARIANTS RingHolds PopReturnsOwned EachFreedOnce LogInOrder DropsOnlyOldest
PROPERTIES EveryMessageFreed StopReleases ImplementsDropOldest
CHECK_DEADLOCK FALSE
