\* One peer: every order of its messages, posted calls and handlers, with two
\* checkpoints and a sequence number beyond the high water mark.
CONSTANTS
    p1 = p1
    r1 = r1
    c1 = c1
    Peers = {p1}
    Requests = {r1, c1}
    ConfigRequests = {c1}
    NoRequest = NoRequest
    NoMessage = NoMessage
    MaxSequence = 5
    Primary = p1
    CHECKPOINT_INTERVAL = 2
    Contacts = {p1}
    Down = {}
    MayRestart = {}
    MaxRestarts = 0
    Freed = {0}
SPECIFICATION Spec
INVARIANTS TypeOK CurrentConfigurationKept
PROPERTIES StableCheckpointAdvances ImplementsReplicatedLog
CHECK_DEADLOCK FALSE
