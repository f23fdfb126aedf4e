SPECIFICATION Spec
CONSTANTS
    Models = {m1, m2}
    None = None
    ShortWait = 1
    MediumWait = 1
    LongWait = 1
    BackoffBase = 1
    BackoffMax = 2
    RetryAfters = {}
    MaxNow = 1
    Updaters = {u}
    MaxBehind = 1
SYMMETRY Symmetry
INVARIANT UpdatesTypeOK
INVARIANT WaitsBounded
PROPERTY AggregateFollowsModels
PROPERTY StatusExplained
CHECK_DEADLOCK FALSE
