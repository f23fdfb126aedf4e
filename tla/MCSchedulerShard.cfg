SPECIFICATION RotationSpec
CONSTANTS
    Auths = {1, 2, 3}
    Providers = {"codex"}
    Codex = "codex"
    ProviderLists <- NoLists
    Models = {}
    AnyModel = "any"
    Priorities = {0, 1}
    Parents = {1, 2}
    Snapshots <- ShardSnapshots
    Strategies = {"round-robin", "fill-first"}
    None = None
    Requested = {"any"}
    Relisted = {}
    MaxTried = 1
    MaxNow = 2
INVARIANT TypeOK
INVARIANT IndexesCoherent
INVARIANT PickSound
INVARIANT FailureExplained
INVARIANT FairRotation
CHECK_DEADLOCK FALSE
