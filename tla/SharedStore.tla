---------------------------- MODULE SharedStore ----------------------------
(***************************************************************************)
(* Two ingestion pipelines on one database ("Names the checkpoint row;     *)
(* lets several pipelines share one database"): each has its own locals    *)
(* and its own event loop, and the store's transactions interleave.  Under *)
(* two names they ingest the contracts each was given; under one name they *)
(* are the two ingesters the operations guide warns of.                    *)
(***************************************************************************)
EXTENDS Chain

CONSTANTS
    Names, NameA, NameB,           \* the checkpoint rows
    ContractsA, ContractsB,        \* what each pipeline asks for; {}: all
    WindowSize, PageSize, ConfirmationWindow, StartLedger,
    ReorgPoints,                   \* pcs of both at which history may be rewritten
    MaxFaults

VARIABLES
    events, ledgers, checkpoints,  \* the database
    pcA, passA, pcB, passB,        \* the two processes
    pruneTo, faults

vars == <<chain, oldest, epoch, events, ledgers, checkpoints,
          pcA, passA, pcB, passB, pruneTo, faults>>

(* The node keeps its ledgers, and nothing is pruned.                      *)
A == INSTANCE Ingest WITH Name <- NameA, ContractIds <- ContractsA, pc <- pcA, pass <- passA,
                          Retention <- 0, EvictPoints <- {}
B == INSTANCE Ingest WITH Name <- NameB, ContractIds <- ContractsB, pc <- pcB, pass <- passB,
                          Retention <- 0, EvictPoints <- {}

ASSUME SharedAssumption ==
    /\ NameA \in Names /\ ContractsA \subseteq Contracts
    /\ NameB \in Names /\ ContractsB \subseteq Contracts
    /\ WindowSize \in Nat \ {0} /\ PageSize \in Nat \ {0}
    /\ ConfirmationWindow \in Nat /\ StartLedger \in 0..MaxLedger
    /\ ReorgPoints \subseteq A!PC /\ MaxFaults \in Nat

Init == A!Init /\ B!Init

StepA == (A!IngestStep \/ A!Abort) /\ UNCHANGED <<pcB, passB>>
StepB == (B!IngestStep \/ B!Abort) /\ UNCHANGED <<pcA, passA>>

Network ==
    /\ \/ \E body \in Bodies : AppendLedger(body)
       \/ /\ pcA \in ReorgPoints /\ pcB \in ReorgPoints
          /\ \E s \in Ledger : ReorgFrom(s)
    /\ UNCHANGED <<events, ledgers, checkpoints, pcA, passA, pcB, passB, pruneTo, faults>>

Next == StepA \/ StepB \/ Network

Spec == Init /\ [][Next]_vars

(* Each pipeline's checkpoint is its own promise: until history is         *)
(* rewritten, every ledger up to it has all the events of the contracts    *)
(* that pipeline asked for, although the other one commits headers of the  *)
(* same ledgers, reads ahead or falls behind, and dies at any await.       *)
NoGapsForEither == A!NoGaps /\ B!NoGaps
=============================================================================
