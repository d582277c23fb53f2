\* A leader of two peers, in its first term, adds a third and removes the second.
CONSTANTS
    a = a
    b = b
    c = c
    v1 = v1
    NoValue = NoValue
    Peers = {a, b, c}
    InitialPeers = {a, b}
    Values = {v1}
    AddedPeers = {c}
    RemovedPeers = {b}
    Joining = {c}
    LatePeers = {}
    MayRestart = {}
    MaxTerm = 1
    MaxLog = 3
    MaxRestarts = 0
SPECIFICATION Spec
INVARIANTS NoReadBeyondLog JoinedIsRecorded
PROPERTIES FirstTermMajority
CONSTRAINT FewMessages
CONSTRAINT OnlyCandidates
VIEW View
CONSTANT MaxMessages = 2
CONSTANT Candidates = {a, c}
CHECK_DEADLOCK FALSE
