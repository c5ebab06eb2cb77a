SPECIFICATION Spec
CONSTANTS
    Fds = {f1}
    Buffers = {b1}
    NULL = NULL
    BufferSize = 4
    QueueDepth = 2
    InputCapacity = 9
    HeaderLimit = 4
    Multishot = FALSE
    ReplyLength = 2
    MaxArrivals = 1
    MaxReplies = 12
    Environment = {"receive_error", "send_error", "eof", "fragments"}
    Scripts <- MCScripts
INVARIANTS NoStalledConnection OneshotInputFits
