SPECIFICATION FairSpec
CONSTANTS
    FirstSequence = 1
    MaxLedger = 4
    MaxEpoch = 2
    Bodies <- MCQuietOrBusy
    Names = {"primary"}
    Name = "primary"
    Contracts = {"c"}
    ContractIds = {}
    WindowSize = 1
    PageSize = 2
    ConfirmationWindow = 1
    StartLedger = 1
    Retention = 0
    ReorgPoints <- MCBetween
    EvictPoints <- MCNever
    MaxFaults = 1
INVARIANTS
CheckpointAnchored
PROPERTIES
MirrorsWhenSynced
ImplementsArchive
Converges
