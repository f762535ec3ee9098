CONSTANTS
    Step = 3
    MaxSessions = 1
    MaxTime = 5
    MaxReconnects = 1
    MaxShown = 7
SPECIFICATION FairSpec
INVARIANT ShownOnce
PROPERTIES EndedTail CatchesUp
