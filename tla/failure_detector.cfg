\* Four requests, so that the list grows behind a timer that is running.
CONSTANTS
    r1 = r1
    r2 = r2
    r3 = r3
    r4 = r4
    Requests = {r1, r2, r3, r4}
    MaxPosted = 2
SPECIFICATION FairSpec
INVARIANTS TimerFollowsList ListCoversOutstanding
PROPERTIES StuckIsReported
