\* Four peers of which one is down, a client of a backup, and messages that all
\* arrive.
CONSTANTS
    p1 = p1
    p2 = p2
    p3 = p3
    p4 = p4
    r1 = r1
    Peers = {p1, p2, p3, p4}
    Requests = {r1}
    ConfigRequests = {}
    NoRequest = NoRequest
    NoMessage = NoMessage
    MaxSequence = 1
    Primary = p1
    CHECKPOINT_INTERVAL = 2
    Contacts = {p2}
    Down = {p4}
    MayRestart = {}
    MaxRestarts = 0
    Freed = {0}
SPECIFICATION FairSpec
PROPERTIES IssuedIsExecuted
CHECK_DEADLOCK FALSE
