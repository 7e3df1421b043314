SPECIFICATION Spec
CONSTANTS
    FirstSequence = 1
    MaxLedger = 4
    MaxEpoch = 1
    Bodies <- MCFailing
    Names = {"primary"}
    Name = "primary"
    Contracts = {"c"}
    ContractIds = {}
    WindowSize = 2
    PageSize = 1
    ConfirmationWindow = 2
    StartLedger = 1
    Retention = 2
    ReorgPoints <- MCAlways
    EvictPoints <- MCBetween
    MaxFaults = 1
INVARIANTS
TypeOK
Provenance
LinkedArchive
NothingAboveCheckpoint
NoGaps
