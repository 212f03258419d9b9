SPECIFICATION Spec
CONSTANTS
    NoBlock = NoBlock
    zmq = zmq
    poll = poll
    Block <- Block4
    HeightOf <- Height4
    ShieldTxs <- Txs4
    Chains <- Chains4
    InitChain <- Start
    MaxHeight = 4
    Worker = {zmq, poll}
    Capacity = 2
    SearchDepth = 5
    RpcMayFail = FALSE
    MidPassReorg = FALSE
    ProxyVerbosity = {2}
    DiskFaults = {}
    FaultBound = 0
INVARIANT ParentLinked
