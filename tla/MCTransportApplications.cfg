SPECIFICATION FairSpec
CONSTANTS
    Connections = {c1, c2}
    c1 = c1
    c2 = c2
    Chunks <- MCChunks
    RetainLimit = 2
    QueueCapacity = 2
    Broadcasters = {t1, t2}
    NONE = NONE
INVARIANTS LeasesHeldOnce RepliesInOrder BroadcastReachesPeers
PROPERTIES LeasesReturned
CHECK_DEADLOCK FALSE
