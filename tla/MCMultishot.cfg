SPECIFICATION Spec
CONSTANTS
    Fds = {f1}
    Buffers = {b1, b2}
    NULL = NULL
    BufferSize = 4
    QueueDepth = 2
    InputCapacity = 9
    HeaderLimit = 4
    Multishot = TRUE
    ReplyLength = 2
    MaxArrivals = 1
    MaxReplies = 12
    Environment = {"receive_error", "eof", "fragments", "multishot_ends"}
    Scripts <- BurstScripts
INVARIANTS ReferencesMatchOperations CompletionsAreExclusive BuffersConserved WireCarriesReplies
PROPERTIES DroppedForReason
SYMMETRY MCSymmetry
