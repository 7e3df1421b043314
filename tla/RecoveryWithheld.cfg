SPECIFICATION Spec
CONSTANTS
    MaxLedger = 3
    MaxEpoch = 1
    Deltas <- MCInAndOut
    Amounts <- MCUnit
    PageSize = 2
    MaxAttempts = 1
    MaxLag = 1
    Caching = FALSE
    Withholding = TRUE
    MaxFaults = 0
INVARIANTS
AppliedIsHistory
NothingWithheld
ValueIsFold
PROPERTIES
VerdictsExplained
