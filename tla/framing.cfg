SPECIFICATION FaultyWireSpec
CONSTANTS
    Base = 7
    Candidates <- SmallBlocks
    HeadTear = FALSE
    AppendFaults = 1
INVARIANT RecoveryKeepsIndexed
