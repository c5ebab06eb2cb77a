SPECIFICATION Spec
CONSTANTS
    Fds = {f1}
    NULL = NULL
    QueueDepth = 1
    InputCapacity = 9
    HeaderLimit = 4
    HandshakeSteps <- Tls13
    RecordUnits = 2
    ReadAhead = FALSE
    SendBuffer = 3
    WireCapacity = 2
    MaxArrivals = 1
    Environment = {"signal", "eof", "reset", "operation_error"}
    Scripts <- BioScripts
INVARIANTS ReferencesMatchOperations NoLostWakeup WireInOrder CiphertextBounded
