SPECIFICATION FairSpec
CONSTANTS
    NoBlock = NoBlock
    r1 = r1
    r2 = r2
    Block <- ForkBlock
    HeightOf <- ForkHeight
    ShieldTxs <- ForkTxs
    Chains <- Fork
    MaxHeight = 4
    DataReader = {}
    LengthReader = {r1}
PROPERTY PassEnds
CHECK_DEADLOCK FALSE
