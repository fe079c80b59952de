SPECIFICATION Safety
CONSTANTS
    Pushes <- MCThreePushes
    Versions = {v1, v2}
    MaxFailures = 0
    MaxByHand = 0
INVARIANTS
    ReleasesItsOwn
CHECK_DEADLOCK FALSE
