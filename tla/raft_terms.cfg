\* Two peers and two terms: late timer callbacks and a restart at one of them.
CONSTANTS
    a = a
    b = b
    v1 = v1
    NoValue = NoValue
    Peers = {a, b}
    InitialPeers = {a, b}
    Values = {v1}
    AddedPeers = {}
    RemovedPeers = {}
    Joining = {}
    LatePeers = {a}
    MayRestart = {a}
    MaxTerm = 2
    MaxLog = 2
    MaxRestarts = 1
SPECIFICATION Spec
INVARIANTS NoReadBeyondLog FirstTermAgrees
PROPERTIES LogsOnlyGrow
CONSTRAINT FewMessages
CONSTRAINT OnlyCandidates
CONSTRAINT LateOrRestarted
VIEW View
CONSTANT MaxMessages = 2
CONSTANT Candidates = {a, b}
CHECK_DEADLOCK FALSE
