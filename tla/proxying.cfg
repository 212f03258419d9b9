SPECIFICATION Spec
CONSTANTS
    NoBlock = NoBlock
    r1 = r1
    Block <- ForkBlock
    HeightOf <- ForkHeight
    ShieldTxs <- ForkTxs
    Chains <- Fork
    InitChain <- Start
    MaxHeight = 3
    Request = {r1}
    Capacity = 2
    HashCapacity = 2
    AskedHeight = {2, 3, 5}
    AskedVerbosity = {257}
    U32Range = 4
INVARIANTS
    HashCacheSound
    SettledAnswers
