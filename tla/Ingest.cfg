SPECIFICATION Spec
CONSTANTS
    Requests = {r1, r2}
    Signals <- MCSignals
    MaxPosts = 3
    MaxTime = 2
SYMMETRY Symmetry
CHECK_DEADLOCK FALSE
INVARIANTS
    Decisive
    StoppedStreamIsQuiet
    DeltasAddUp
    ActionsUnlessRejected
