SPECIFICATION Spec
CONSTANTS
    Fds = {f1}
    NULL = NULL
    QueueDepth = 2
    InputCapacity = 9
    HeaderLimit = 4
    HandshakeSteps <- Tls13
    RecordUnits = 2
    ReadAhead = TRUE
    SendBuffer = 3
    MaxArrivals = 1
    Environment = {"signal", "eof", "operation_error", "multishot_ends"}
    Scripts <- ShortScripts
INVARIANTS ReferencesMatchOperations NoLostWakeup
