SPECIFICATION RotationSpec
CONSTANTS
    Auths = {1, 2, 3}
    Providers = {"codex", "gemini"}
    Codex = "codex"
    ProviderLists <- OneList
    Models = {"m"}
    AnyModel = "any"
    Priorities = {0, 1}
    Parents = {}
    Snapshots <- MixedSnapshots
    Strategies = {"round-robin", "fill-first"}
    None = None
    Requested = {"m"}
    Relisted = {1}
    MaxTried = 1
    MaxNow = 1
INVARIANT ShardsComplete
INVARIANT MixedPickSound
INVARIANT ProportionalShares
CHECK_DEADLOCK FALSE
