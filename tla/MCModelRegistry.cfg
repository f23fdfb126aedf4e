SPECIFICATION Spec
CONSTANTS
    Clients = {c1, c2}
    Models = {m1, m2}
    Providers = {p, q}
    NoProvider = NoProvider
    Arguments = {p, q}
    None = None
    MaxDup = 2
    Window = 2
    MaxNow = 2
    Readers = {r1}
    MaxEntries = 2
    MaxMarks = 3
SYMMETRY Symmetry
ACTION_CONSTRAINT StaysWithinBounds
INVARIANT TypeOK
INVARIANT CountsMatchBindings
INVARIANT CacheHonest
CHECK_DEADLOCK FALSE
