SPECIFICATION Spec
CONSTANTS
    NoBlock = NoBlock
    r1 = r1
    Block <- ForkBlock
    HeightOf <- ForkHeight
    ShieldTxs <- ForkTxs
    Chains <- Fork
    InitChain <- Start
    MaxHeight = 3
    Request = {r1}
    Capacity = 2
    HashCapacity = 2
    AskedHeight = {1, 2, 3}
    AskedVerbosity = {0, 1}
    U32Range = 4
INVARIANT HashesOnChain
