SPECIFICATION FairSpec
CONSTANTS
    MaxLedger = 3
    MaxEpoch = 0
    Deltas <- MCRollover
    Amounts <- MCUnit
    PageSize = 2
    MaxAttempts = 2
    MaxLag = 1
    Caching = TRUE
    Withholding = FALSE
    MaxFaults = 1
PROPERTIES
OnlyFinalPagesRefused
EventuallyCurrent
