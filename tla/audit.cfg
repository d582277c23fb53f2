\* Two leaders and two operations; audit keeps one number of two.
CONSTANTS
    Nobody = Nobody
    Uuids = {a, b}
    Operations = {o1, o2}
    Numbers = {1, 2}
    MaxLogIndex = 2
    MaxClaims = 3
    MaxWaits = 2
    mem_size = 1
    Modes = {TRUE, FALSE}
SPECIFICATION FairSpec
INVARIANTS ConflictsAreReported TimersRun
PROPERTIES StuckLeaderIsReported
CONSTRAINTS OneKind OneTerm
