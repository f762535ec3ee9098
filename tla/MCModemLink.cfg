SPECIFICATION FairSpec
CONSTANTS
    Urcs = {"netopen"}
    MaxCommands = 3
    MaxUnread = 3
INVARIANTS TypeOK AnswersInOrder AnswersLate OwnUrcs OneshotsRemoved
PROPERTY OperationsEnd
CHECK_DEADLOCK FALSE
