SPECIFICATION Spec
CONSTANTS
    Fds = {f1, f2}
    NULL = NULL
    QueueDepth = 1
    InputCapacity = 9
    HeaderLimit = 4
    HandshakeSteps <- Tls13
    RecordUnits = 2
    ReadAhead = TRUE
    SendBuffer = 3
    MaxEvents = 1
    MaxArrivals = 2
    Environment = {"signal", "accept_error", "eof", "operation_error"}
    Scripts <- ShortScripts
INVARIANTS NoLostWakeup EventsNameConnections CleanExit
