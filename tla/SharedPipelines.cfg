SPECIFICATION Spec
CONSTANTS
    FirstSequence = 1
    MaxLedger = 3
    MaxEpoch = 1
    Contracts = {"a", "b"}
    Bodies <- MCEither
    Names = {"primary", "second"}
    NameA = "primary"
    NameB = "second"
    ContractsA = {"a"}
    ContractsB = {"b"}
    WindowSize = 2
    PageSize = 2
    ConfirmationWindow = 2
    StartLedger = 1
    ReorgPoints <- MCBetween
    MaxFaults = 1
INVARIANTS
NoGapsForEither
