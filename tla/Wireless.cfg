SPECIFICATION MCWirelessSpec
CONSTANTS
    SSIDs = {a, b}
    Slots = 2
    MaxGeneration = 3
    MaxAttempts = 2
    Peers = {p1, p2}
    MaxBody = 2
INVARIANTS OnlyWhatWasAsked ProfilesWork OwnAnswers LockFollowsFiles
PROPERTIES OperationsEnd UploadsEnd
CHECK_DEADLOCK FALSE
