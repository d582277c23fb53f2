\* Two peers, each a leader of the second term, each with data of its own.
CONSTANTS
    a = a
    b = b
    v1 = v1
    v2 = v2
    NoValue = NoValue
    Peers = {a, b}
    InitialPeers = {a, b}
    Values = {v1, v2}
    AddedPeers = {}
    RemovedPeers = {}
    Joining = {}
    LatePeers = {}
    MayRestart = {}
    MaxTerm = 2
    MaxLog = 2
    MaxRestarts = 0
SPECIFICATION Spec
INVARIANTS SameData
CONSTRAINT FewMessages
CONSTRAINT OnlyCandidates
VIEW View
CONSTANT MaxMessages = 2
CONSTANT Candidates = {a, b}
CHECK_DEADLOCK FALSE
