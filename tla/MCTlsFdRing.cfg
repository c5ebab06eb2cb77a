SPECIFICATION Spec
CONSTANTS
    Fds = {f1, f2}
    NULL = NULL
    QueueDepth = 2
    InputCapacity = 9
    HeaderLimit = 4
    HandshakeSteps <- Tls12
    RecordUnits = 1
    ReadAhead = FALSE
    SendBuffer = 1
    MaxArrivals = 2
    ReadinessDirected = FALSE
    SubmitAndWait = TRUE
    Environment = {"signal", "multishot_ends"}
    Scripts <- Once
INVARIANTS CompletionsAccounted
