SPECIFICATION ManagerSpec
CONSTANTS
    Models = {m}
    None = None
    ShortWait = 1
    MediumWait = 1
    LongWait = 1
    BackoffBase = 1
    BackoffMax = 1
    RetryAfters = {}
    MaxNow = 1
    Self = a
    Others = {o}
    Provider = p
    NoProvider = NoProvider
    Window = 1
    Workers = {w1, w2}
    Consumer = Consumer
    Catalog = Catalog
    Live = Live
    ResultKinds = {"success", "quota"}
    MaxBusy = 2
SYMMETRY Symmetry
ACTION_CONSTRAINT FewBusy
INVARIANT ManagerTypeOK
INVARIANT ModelsCatchUp
INVARIANT AgreeWhenQuiet
CHECK_DEADLOCK FALSE
