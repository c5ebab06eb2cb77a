SPECIFICATION FairSpec
CONSTANTS
    Scripts <- MCScripts
    Capacity = 3
    Deadline = 2
    RecordUnits = 2
    SendBuffer = 1
INVARIANTS ReleasedOnce PassIsEarned FailsForReason NoLostWakeup
PROPERTIES Terminates
