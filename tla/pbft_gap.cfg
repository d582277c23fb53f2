\* One peer, and a client that sends a request beyond the high water mark.
CONSTANTS
    p1 = p1
    r1 = r1
    Peers = {p1}
    Requests = {r1}
    ConfigRequests = {}
    NoRequest = NoRequest
    NoMessage = NoMessage
    MaxSequence = 6
    Primary = p1
    CHECKPOINT_INTERVAL = 2
    Contacts = {p1}
    Down = {}
    MayRestart = {}
    MaxRestarts = 0
    Freed = {0}
SPECIFICATION FairSpec
PROPERTIES ApplyLeavesNoGap
CHECK_DEADLOCK FALSE
