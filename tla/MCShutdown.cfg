SPECIFICATION FairSpec
CONSTANTS
    Fds = {f1}
    Buffers = {b1}
    NULL = NULL
    BufferSize = 4
    QueueDepth = 2
    InputCapacity = 9
    HeaderLimit = 4
    Multishot = TRUE
    ReplyLength = 1
    MaxArrivals = 1
    MaxReplies = 5
    Environment = {"signal", "accept_error", "eof", "send_error"}
    Scripts <- PausingScripts
PROPERTIES StoppingEnds RequestsAnswered ClosingConnectionsFreed
