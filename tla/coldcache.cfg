SPECIFICATION RestartSpec
CONSTANTS
    NoBlock = NoBlock
    poll = poll
    Block <- ForkingBlock
    HeightOf <- ForkingHeight
    ShieldTxs <- ForkingTxs
    Chains <- Forking
    InitChain <- Start
    MaxHeight = 3
    Worker = {poll}
    Capacity = 3
    SearchDepth = 3
    RpcMayFail = FALSE
    MidPassReorg = FALSE
    ProxyVerbosity = {}
    DiskFaults = {}
    FaultBound = 0
    MaxStops = 1
    AbruptStops = FALSE
    Reorgs = TRUE
PROPERTY ReorgNoticed
CHECK_DEADLOCK FALSE
