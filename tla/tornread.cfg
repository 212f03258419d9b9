SPECIFICATION Spec
CONSTANTS
    NoBlock = NoBlock
    r1 = r1
    r2 = r2
    Block <- ForkBlock
    HeightOf <- ForkHeight
    ShieldTxs <- ForkTxs
    Chains <- Fork
    MaxHeight = 4
    DataReader = {r1}
    LengthReader = {}
INVARIANT ServedWhole
