SPECIFICATION Spec
CONSTANTS
    Fds = {f1, f2}
    Buffers = {b1}
    NULL = NULL
    BufferSize = 2
    QueueDepth = 1
    InputCapacity = 9
    HeaderLimit = 4
    Multishot = TRUE
    ReplyLength = 1
    MaxArrivals = 2
    MaxReplies = 2
    Environment = {"signal"}
    Scripts <- OneRequest
INVARIANTS DescriptorsAccounted
PROPERTIES ImplementsLifetime
SYMMETRY FdSymmetry
