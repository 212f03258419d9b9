SPECIFICATION FairSpec
CONSTANTS
    NoBlock = NoBlock
    r1 = r1
    r2 = r2
    Block <- ForkBlock
    HeightOf <- ForkHeight
    ShieldTxs <- ForkTxs
    Chains <- Fork
    MaxHeight = 4
    DataReader = {r1}
    LengthReader = {r2}
INVARIANTS
    WholeUnlessCut
    CompleteUnlessCut
    LengthCoversIndexed
    StoreGuarded
PROPERTY EveryoneServed
CHECK_DEADLOCK FALSE
