SPECIFICATION DigestSpec
CONSTANTS
    MaxCursor = 3
    Payloads <- MCPayloads
    Raws <- MCRaws
    MaxTampers = 2
INVARIANTS
ExactlyTamperingIsNoticed
LiesAreStillHistories
CHECK_DEADLOCK FALSE
