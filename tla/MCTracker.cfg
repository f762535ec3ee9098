CONSTANTS
    r1 = r1
    r2 = r2
    RemoteIds = {r1, r2}
    NoRemote = NoRemote
    MaxBoots = 3
    MaxPoints = 2
    Batch = 1
    Misreads <- MisreadFiles
    Retries = 2
SPECIFICATION Spec
SYMMETRY RemoteSymmetry
INVARIANTS TypeOK NoUnderflow ActiveLast SavedInSync OldSessionsComplete
PROPERTIES PersistedProgress FinishInOrder
