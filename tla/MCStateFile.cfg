CONSTANTS
    RemoteIds = {7, 12}
    NoRemote = NoRemote
    Base = 10
    Counts = {1, 9}
    OldSessions = 8
    MaxBoots = 11
    MaxSaves = 6
    MaxUploaded = 10
SPECIFICATION Spec
INVARIANTS TypeOK SavedIsRead WrittenLinesAreRead AtomicUnlessShifted
CHECK_DEADLOCK FALSE
