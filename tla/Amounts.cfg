SPECIFICATION Spec
CONSTANTS
    LimbBase = 3
    LimbCount = 2
    BalanceBound = 6
    TableSize = 3
    Values <- MCValues
    Keys <- MCKeys
    FirstKey = 2
    Unsolved = Unsolved
    Random <- MCRandom
    MaxEvents = 5
INVARIANTS
    VerifiesExactly
    NeverAWrongNumber
    DecryptsWhileTolerated
    ReplayExactOrRefused
    VerdictsRight
CHECK_DEADLOCK FALSE
