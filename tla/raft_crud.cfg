\* One key, one HTTP thread beside the websocket, a subscriber, a restart.
CONSTANTS
    k1 = k1
    v1 = v1
    v2 = v2
    h1 = h1
    s1 = s1
    t1 = t1
    NoValue = NoValue
    Keys = {k1}
    Values = {v1, v2}
    HttpThreads = {h1}
    Sessions = {s1}
    Transactions = {t1}
    Backends = {"mem", "rocksdb"}
    MaxLog = 3
    MaxRestarts = 1
SPECIFICATION FairSpec
INVARIANTS CommittedIsStored LastNoticeIsState
PROPERTIES ClosedArePurged
