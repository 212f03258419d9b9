SPECIFICATION WireSpec
CONSTANTS
    Base = 7
    Candidates <- Blocks
    HeadTear = FALSE
    AppendFaults = 0
INVARIANTS
    RecoveredIsWhole
    CompactAgrees
    WalletReadsChain
