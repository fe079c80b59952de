SPECIFICATION Spec
CONSTANTS
    Pushes <- MCTwoPushes
    Versions = {v1, v2}
    MaxFailures = 2
    MaxByHand = 1
INVARIANTS
    TypeOK
    TagIsAtIntroduction
    DoneIsComplete
PROPERTIES
    WrongTagStops
    LifecyclePromise
    EveryReleaseIsCompleted
CHECK_DEADLOCK FALSE
