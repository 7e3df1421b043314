---------------------------- MODULE AtomicStore ----------------------------
(***************************************************************************)
(* What the EventStore interface promises its callers: append, rollbackTo  *)
(* and prune each happen at one instant, as they do in the in-memory       *)
(* store, and leave events, headers and checkpoints in step.               *)
(***************************************************************************)
EXTENDS Integers, FiniteSets

CONSTANTS MaxLedger, MaxPerLedger, Hashes, Names

VARIABLES
    ledgers,       \* headers by sequence, or NoRow
    events,        \* stored events: [id, hash]
    checkpoints    \* by name: the last ledger fully ingested

Ledger  == 1..MaxLedger
EventId == Ledger \X (1..MaxPerLedger)
NoRow   == [hash |-> "none", count |-> 0]
Stored  == [id: EventId, hash: Hashes]
Row     == [hash: Hashes, count: 0..MaxPerLedger]

Init ==
    /\ ledgers = [l \in Ledger |-> NoRow]
    /\ events = {}
    /\ checkpoints = [n \in Names |-> 0]

(* A window of one branch: the headers of some of its ledgers, its last    *)
(* one included, with how many events each carries.                        *)
Append(n) ==
    \E end \in checkpoints[n] + 1 .. MaxLedger, h \in Hashes :
      \E count \in [checkpoints[n] + 1 .. end -> -1..MaxPerLedger] :
        LET touched == {l \in DOMAIN count : count[l] >= 0}
            batch   == {[id |-> i, hash |-> h] : i \in {j \in EventId : /\ j[1] \in touched
                                                                       /\ j[2] <= count[j[1]]}}
        IN  /\ end \in touched
            /\ ledgers' = [l \in Ledger |-> IF l \in touched
                                            THEN [hash |-> h, count |-> count[l]]
                                            ELSE ledgers[l]]
            /\ events' = events \cup batch
            /\ checkpoints' = [checkpoints EXCEPT ![n] = end]

RollbackTo(f) ==
    /\ ledgers' = [l \in Ledger |-> IF l > f THEN NoRow ELSE ledgers[l]]
    /\ events' = {e \in events : e.id[1] <= f}
    /\ checkpoints' = [n \in Names |-> IF checkpoints[n] > f THEN f ELSE checkpoints[n]]

(* A ledger goes with its events.  One that was rolled back and appended   *)
(* again while the prune was running may stay.                             *)
Prune(below) ==
    /\ \E gone \in SUBSET {l \in Ledger : l < below} :
         /\ ledgers' = [l \in Ledger |-> IF l \in gone THEN NoRow ELSE ledgers[l]]
         /\ events' = {e \in events : e.id[1] \notin gone}
    /\ UNCHANGED checkpoints

Next ==
    \/ \E n \in Names : Append(n)
    \/ \E f \in 0..MaxLedger : RollbackTo(f) \/ Prune(f)

Spec == Init /\ [][Next]_<<ledgers, events, checkpoints>>
=============================================================================
