\* Four peers of which one is down, and a primary that may restart once and
\* issue sequence number 1 a second time.
CONSTANTS
    p1 = p1
    p2 = p2
    p3 = p3
    p4 = p4
    r1 = r1
    r2 = r2
    Peers = {p1, p2, p3, p4}
    Requests = {r1, r2}
    ConfigRequests = {}
    NoRequest = NoRequest
    NoMessage = NoMessage
    MaxSequence = 1
    Primary = p1
    CHECKPOINT_INTERVAL = 2
    Contacts = {p1}
    Down = {p4}
    MayRestart = {p1}
    MaxRestarts = 1
    Freed = {0}
SPECIFICATION Spec
SYMMETRY Symmetry
ACTION_CONSTRAINT TimelyDelivery
ACTION_CONSTRAINT PostedFirst
INVARIANTS Agreement AgreementInvariant
CHECK_DEADLOCK FALSE
