SPECIFICATION FairSpec
CONSTANTS
    Client = {c1}
    HTTP_PING_TIME = 60
    HTTP_PING_TIMEOUT = 15
    HTTP_PING_TRIES = 3
    Latency = 47
INVARIANTS
    LivePeerKept
PROPERTY
    DeadPeerKicked
