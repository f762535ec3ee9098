CONSTANTS
    RemoteIds = {1, 2, 3}
    NoRemote = NoRemote
    MaxBoots = 1
    MaxPoints = 1
    Batch = 1
    Misreads = {}
    Retries = 1
    MaxOpens = 2
SPECIFICATION SystemSpec
INVARIANTS RemoteIdsReal
CHECK_DEADLOCK FALSE
