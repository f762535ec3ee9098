CONSTANTS
    RemoteIds = {1, 2, 3, 4}
    NoRemote = NoRemote
    MaxBoots = 2
    MaxPoints = 2
    Batch = 1
    Misreads <- MisreadFiles
    Retries = 1
    MaxOpens = 3
SPECIFICATION SystemSpec
CONSTRAINT Interesting
INVARIANTS PopsInside OrphansEmpty CountedAccounted SessionsPure OncePerConnection
PROPERTIES ForgetsOnlyEnded
CHECK_DEADLOCK FALSE
