CONSTANTS
    MaxSessions = 2
    Retries = 2
SPECIFICATION FairSpec
INVARIANTS TypeOK OnlyCrossedLocks
PROPERTIES SleepsUnlessCrossed
CHECK_DEADLOCK FALSE
