\* Two peers, a quorum of one: every message of the other peer may come late.
CONSTANTS
    p1 = p1
    p2 = p2
    r1 = r1
    Peers = {p1, p2}
    Requests = {r1}
    ConfigRequests = {}
    NoRequest = NoRequest
    NoMessage = NoMessage
    MaxSequence = 2
    Primary = p1
    CHECKPOINT_INTERVAL = 2
    Contacts = {p1}
    Down = {}
    MayRestart = {}
    MaxRestarts = 0
    Freed = {0, 3}
SPECIFICATION Spec
ACTION_CONSTRAINT LoopbackFirst
ACTION_CONSTRAINT ServiceFirst
ACTION_CONSTRAINT TimelyPrepares
INVARIANTS AppliedAtMostOnce ClearedStaysCleared WaterMarksFollow
CHECK_DEADLOCK FALSE
