CONSTANTS
    MaxSessions = 2
    Retries = 2
SPECIFICATION FairSpec
PROPERTIES SleepsAfterStop
CHECK_DEADLOCK FALSE
