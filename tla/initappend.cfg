SPECIFICATION RestartSpec
CONSTANTS
    NoBlock = NoBlock
    poll = poll
    Block <- GrowingBlock
    HeightOf <- GrowingHeight
    ShieldTxs <- GrowingTxs
    Chains <- Growing
    InitChain <- Start
    MaxHeight = 3
    Worker = {poll}
    Capacity = 3
    SearchDepth = 3
    RpcMayFail = FALSE
    MidPassReorg = FALSE
    ProxyVerbosity = {}
    DiskFaults = {"append"}
    FaultBound = 0
    MaxStops = 1
    AbruptStops = FALSE
    Reorgs = FALSE
INVARIANT CursorBacked
CHECK_DEADLOCK FALSE
