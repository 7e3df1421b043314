------------------------------- MODULE Chain -------------------------------
(***************************************************************************)
(* The Stellar node an ingester reads, as the repository's own stand-in    *)
(* for it behaves (SyntheticChain): it closes ledgers, rewrites its recent *)
(* history, drops old ledgers, and answers three read-only calls.          *)
(*                                                                         *)
(* A ledger's hash commits to its sequence, to the epoch it was closed in  *)
(* and to its parent; one ledger of a given sequence is closed per epoch,  *)
(* so among ledgers of one sequence the epoch identifies the hash.         *)
(* "chain" keeps the ledgers the node no longer serves, or never did: what *)
(* was true of them is needed to say what an archive should hold.          *)
(***************************************************************************)
EXTENDS Integers, Sequences, FiniteSets

CONSTANTS
    FirstSequence,   \* the first ledger the node has
    MaxLedger,       \* bound: the sequence of the last ledger the node closes
    MaxEpoch,        \* bound: how many times the node rewrites its history
    Contracts,       \* the contracts that emit events
    Bodies           \* what a ledger may carry: a sequence of events, each with its
                     \* contract and whether the call that emitted it succeeded

ASSUME ChainAssumption ==
    /\ MaxLedger \in Nat
    /\ FirstSequence \in 1..MaxLedger
    /\ MaxEpoch \in Nat

ASSUME BodiesAssumption == Bodies \subseteq Seq([contract: Contracts, ok: BOOLEAN])

VARIABLES
    chain,    \* the node's ledgers, from the first
    oldest,   \* the oldest ledger it still serves
    epoch     \* bumped on a reorg, so that rebuilt ledgers hash differently

chainVars == <<chain, oldest, epoch>>

NoHash == -1
Ledger == 1..MaxLedger
Hash   == 0..MaxEpoch
Block  == [hash: Hash, prev: Hash \cup {NoHash}, body: Bodies \cup {<< >>}]

ChainTypeOK ==
    /\ chain \in Seq(Block)
    /\ Len(chain) <= MaxLedger
    /\ oldest \in Ledger
    /\ epoch \in Hash

ChainInit ==
    /\ chain = [l \in 1..FirstSequence - 1 |->
                  [hash |-> 0, prev |-> IF l = 1 THEN NoHash ELSE 0, body |-> << >>]]
    /\ oldest = FirstSequence
    /\ epoch = 0

----------------------------------------------------------------------------
(* What the node does on its own.                                          *)

Tip == Len(chain)

AppendLedger(body) ==
    /\ Tip < MaxLedger
    /\ chain' = Append(chain, [hash |-> epoch,
                               prev |-> IF Tip = 0 THEN NoHash ELSE chain[Tip].hash,
                               body |-> body])
    /\ UNCHANGED <<oldest, epoch>>

(* Ledgers from s on are discarded; the replacements are closed, one by    *)
(* one, by AppendLedger in the new epoch.  A node that has dropped ledgers *)
(* keeps one at least (SyntheticChain would begin again at the first).     *)
ReorgFrom(s) ==
    /\ s \in oldest .. Tip
    /\ s > oldest \/ oldest = FirstSequence
    /\ epoch < MaxEpoch
    /\ chain' = SubSeq(chain, 1, s - 1)
    /\ epoch' = epoch + 1
    /\ UNCHANGED oldest

SetOldestRetained(s) ==
    /\ s \in oldest + 1 .. Tip
    /\ oldest' = s
    /\ UNCHANGED <<chain, epoch>>

----------------------------------------------------------------------------
(* What the node answers.                                                  *)

Served == oldest .. Tip

Header(l) == [hash |-> chain[l].hash, prev |-> chain[l].prev]

(* Events are ordered by ledger, then by position in the ledger; an id is  *)
(* that pair, and a page cursor is the id of the last event returned.      *)
Before(a, b) == a[1] < b[1] \/ (a[1] = b[1] /\ a[2] < b[2])

EventsOf(l) ==
    {[id |-> <<l, i>>, branch |-> chain[l].hash,
      contract |-> chain[l].body[i].contract, ok |-> chain[l].body[i].ok] :
        i \in DOMAIN chain[l].body}

(* What the filter of a request selects; an empty filter selects all.      *)
Selected(e, contracts) == contracts = {} \/ e.contract \in contracts

(* The first `limit` events after a position, up to and including `end`.   *)
GetEvents(after, end, limit, contracts) ==
    LET found == {e \in UNION {EventsOf(l) : l \in Served} :
                    Before(after, e.id) /\ e.id[1] <= end /\ Selected(e, contracts)}
    IN  {e \in found : Cardinality({f \in found : Before(f.id, e.id)}) < limit}
=============================================================================
