SPECIFICATION RestartSpec
CONSTANTS
    NoBlock = NoBlock
    poll = poll
    Block <- ForkingBlock
    HeightOf <- ForkingHeight
    ShieldTxs <- ForkingTxs
    Chains <- Forking
    InitChain <- Start
    MaxHeight = 3
    Worker = {poll}
    Capacity = 3
    SearchDepth = 3
    RpcMayFail = TRUE
    MidPassReorg = TRUE
    ProxyVerbosity = {}
    DiskFaults = {}
    FaultBound = 0
    MaxStops = 3
    AbruptStops = FALSE
    Reorgs = TRUE
INVARIANTS
    SavedIndexBacked
    ServesWellFormed
CHECK_DEADLOCK FALSE
