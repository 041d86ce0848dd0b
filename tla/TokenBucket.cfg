SPECIFICATION Spec
CONSTANTS
    Burst = 2
    Refill = 7
    Second = 4
    MaxClock = 24
INVARIANTS WindowIsBounded
PROPERTIES RetryAfterIsHonoured
