------------------------------ MODULE Archive ------------------------------
(***************************************************************************)
(* What ingestion promises its readers, without windows, headers, calls,   *)
(* crashes or checkpoints: the archive is a prefix of one branch of the    *)
(* chain, ledger by ledger with the successful events of each.  It grows   *)
(* only along a node it agrees with, and gives up only ledgers the node no *)
(* longer has.                                                             *)
(***************************************************************************)
EXTENDS Chain

VARIABLE archive   \* a sequence: the ledgers archived, from the first

vars == <<chainVars, archive>>

Content(l) ==
    [hash |-> chain[l].hash,
     events |-> {[id |-> e.id, branch |-> e.branch, contract |-> e.contract] :
                    e \in {f \in EventsOf(l) : f.ok}}]

OnChain(l) == l <= Tip /\ archive[l].hash = chain[l].hash

Init == ChainInit /\ archive = << >>

Extend ==
    /\ \A l \in DOMAIN archive : OnChain(l)
    /\ \E n \in Len(archive) + 1 .. Tip :
         archive' = [l \in 1..n |-> IF l <= Len(archive) THEN archive[l] ELSE Content(l)]
    /\ UNCHANGED chainVars

Truncate ==
    /\ \E n \in 0 .. Len(archive) - 1 :
         /\ \A l \in n + 1 .. Len(archive) : ~OnChain(l)
         /\ archive' = SubSeq(archive, 1, n)
    /\ UNCHANGED chainVars

Network ==
    /\ \/ \E body \in Bodies : AppendLedger(body)
       \/ \E s \in Ledger : ReorgFrom(s) \/ SetOldestRetained(s)
    /\ UNCHANGED archive

Next == Extend \/ Truncate \/ Network

Spec == Init /\ [][Next]_vars
=============================================================================
