SPECIFICATION WindowSpec
CONSTANTS
    Ledgers = {1, 2}
    Positions <- MCPositions
    Shapes <- MCShapes
    TxSlots = 4
    OpSlots = 2
    MaxFanout = 2
    MaxRawEventIndex = 3
    MaxLedger = 9
    MaxSub = 7
    NoAccount = NoAccount
    MaxEvents = 3
INVARIANTS
    OrderKept
    EveryPartyOnce
