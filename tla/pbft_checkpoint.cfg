\* Three peers, so that a checkpoint needs all of them, and two requests.
CONSTANTS
    p1 = p1
    p2 = p2
    p3 = p3
    r1 = r1
    r2 = r2
    Peers = {p1, p2, p3}
    Requests = {r1, r2}
    ConfigRequests = {}
    NoRequest = NoRequest
    NoMessage = NoMessage
    MaxSequence = 2
    Primary = p1
    CHECKPOINT_INTERVAL = 2
    Contacts = {p1}
    Down = {}
    MayRestart = {}
    MaxRestarts = 0
    Freed = {0}
SPECIFICATION Spec
SYMMETRY Symmetry
ACTION_CONSTRAINT TimelyDelivery
ACTION_CONSTRAINT LoopbackFirst
INVARIANTS ExecutionsAgree StableCheckpointHeld
CHECK_DEADLOCK FALSE
