SPECIFICATION Spec
CONSTANTS
    NoBlock = NoBlock
    zmq = zmq
    poll = poll
    Block <- Block5
    HeightOf <- Height5
    ShieldTxs <- Txs5
    Chains <- Chains5
    InitChain <- Start
    MaxHeight = 5
    Worker = {zmq, poll}
    Capacity = 2
    SearchDepth = 6
    RpcMayFail = FALSE
    MidPassReorg = FALSE
    ProxyVerbosity = {}
    DiskFaults = {}
    FaultBound = 0
SYMMETRY WorkerSymmetry
INVARIANTS
    ParentLinked
    ScanOnChain
    ForkPointSound
PROPERTY ReorgNoticed
