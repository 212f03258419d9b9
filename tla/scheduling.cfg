SPECIFICATION FairSchedSpec
CONSTANTS
    NoBlock = NoBlock
    zmq = zmq
    poll = poll
    Block <- ForkBlock
    HeightOf <- ForkHeight
    ShieldTxs <- ForkTxs
    Chains <- Fork
    InitChain <- Start
    MaxHeight = 3
    Worker = {zmq, poll}
    Listener = zmq
    Poller = poll
    MaxMessages = 1
    Capacity = 2
    SearchDepth = 4
    RpcMayFail = FALSE
    MidPassReorg = TRUE
    ProxyVerbosity = {}
    DiskFaults = {"truncate"}
    FaultBound = 2
INVARIANTS
    NotifiedIsScanned
PROPERTY PollerCatchesUp
