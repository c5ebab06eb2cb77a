SPECIFICATION FairSpec
CONSTANTS
    Fds = {f1}
    NULL = NULL
    QueueDepth = 1
    InputCapacity = 9
    HeaderLimit = 4
    HandshakeSteps <- Tls13
    RecordUnits = 2
    ReadAhead = TRUE
    SendBuffer = 3
    MaxArrivals = 1
    ReadinessDirected = TRUE
    SubmitAndWait = FALSE
    Environment = {"accept_error", "signal", "eof", "reset", "operation_error", "fragments"}
    Scripts <- MCScripts
INVARIANTS RetriesRepeat EncryptedInOrder NoLostWakeup
PROPERTIES FinishedForReason StoppingEnds ReadersAnswered
