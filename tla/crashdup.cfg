SPECIFICATION RestartSpec
CONSTANTS
    NoBlock = NoBlock
    poll = poll
    Block <- GrowingBlock
    HeightOf <- GrowingHeight
    ShieldTxs <- GrowingTxs
    Chains <- Growing
    InitChain <- Start
    MaxHeight = 3
    Worker = {poll}
    Capacity = 3
    SearchDepth = 3
    RpcMayFail = FALSE
    MidPassReorg = FALSE
    ProxyVerbosity = {}
    DiskFaults = {}
    FaultBound = 0
    MaxStops = 1
    AbruptStops = TRUE
    Reorgs = FALSE
INVARIANT NoDuplicateAppend
CHECK_DEADLOCK FALSE
