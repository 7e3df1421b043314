SPECIFICATION Spec
CONSTANTS
    MaxLedger = 2
    MaxPerLedger = 2
    Hashes = {"h0", "h1"}
    Names = {"primary"}
    Writers = {"ingester"}
    NameOf <- MCOwnRow
    Pruner = "pruner"
    PageSize = 1
    MaxTransactions = 4
INVARIANTS
RowsAgree
StreamComplete
OnlyDeepRewindsWait
PROPERTIES
ImplementsAtomicStore
