SPECIFICATION Spec
CONSTANTS
    NoBlock = NoBlock
    zmq = zmq
    poll = poll
    Block <- Block3
    HeightOf <- Height3
    ShieldTxs <- Txs3
    Chains <- Chains3
    InitChain <- Start
    MaxHeight = 3
    Worker = {zmq, poll}
    Capacity = 2
    SearchDepth = 4
    RpcMayFail = FALSE
    MidPassReorg = FALSE
    ProxyVerbosity = {}
    DiskFaults = {"truncate"}
    FaultBound = 3
INVARIANT ParentLinked
