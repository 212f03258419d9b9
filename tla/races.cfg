SPECIFICATION Spec
CONSTANTS
    NoBlock = NoBlock
    zmq = zmq
    poll = poll
    Block <- Block3
    HeightOf <- Height3
    ShieldTxs <- Txs3
    Chains <- Chains3
    InitChain <- Start
    MaxHeight = 3
    Worker = {zmq, poll}
    Capacity = 2
    SearchDepth = 2
    RpcMayFail = TRUE
    MidPassReorg = TRUE
    ProxyVerbosity = {2}
    DiskFaults = {}
    FaultBound = 0
SYMMETRY WorkerSymmetry
INVARIANTS
    StreamWellFormed
    BufferMirrorsFile
    NeverSkip
    NothingLost
    EvictionEnds
PROPERTY ImplementsShieldLog
