CONSTANTS Cap = 3  MaxMsg = 4
SPECIFICATION Spec
INVARIANT PopReturnsOwned
CHECK_DEADLOCK FALSE
