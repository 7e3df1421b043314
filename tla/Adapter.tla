------------------------------ MODULE Adapter ------------------------------
(***************************************************************************)
(* What the ingestor makes of the events of a window: each contract event  *)
(* of the node is unpacked, decoded by the codec, recognised or skipped by *)
(* the adapter, and becomes one canonical event for each of its parties,   *)
(* under a cursor that orders all of them as the chain did.                *)
(*                                                                         *)
(* A body is one of a few shapes; ciphertexts and provenance are left out. *)
(* A canonical event keeps the node's event it came from and its party's   *)
(* index, for the properties to compare it with.                           *)
(***************************************************************************)
EXTENDS Integers, Sequences, FiniteSets, Functions

CONSTANTS
    Ledgers,              \* the ledgers of the window
    Positions,            \* [tx, op, ordinal] of the events in a ledger
    Shapes,               \* [kind, from, to, success]: what is emitted
    TxSlots, OpSlots,     \* what the fields of a TOID have room for: 2^12 and 2^20
    MaxFanout,            \* MAX_FANOUT
    MaxRawEventIndex,     \* MAX_RAW_EVENT_INDEX
    MaxLedger, MaxSub,    \* what the widths of a cursor hold
    NoAccount,            \* a counterparty of null
    MaxEvents             \* bound on the events of a window

Confidential == {"deposit", "withdraw", "transfer", "rollover", "key_rotation", "disclosure"}

(* opaque: the codec cannot decode it.  foreign: it can, and no confidential*)
(* event is found.  malformed: one with a required field missing.          *)
Kinds == Confidential \cup {"opaque", "foreign", "malformed"}

ASSUME AdapterAssumption ==
    /\ Ledgers \subseteq Nat /\ MaxEvents \in Nat
    /\ TxSlots \in Nat \ {0} /\ OpSlots \in Nat \ {0}
    /\ MaxFanout \in Nat \ {0} /\ MaxRawEventIndex \in Nat
    /\ MaxLedger \in Nat /\ MaxSub \in Nat
    /\ Positions \subseteq [tx: 0 .. TxSlots - 1, op: 0 .. OpSlots - 1, ordinal: Nat]
    /\ \A s \in Shapes : s.kind \in Kinds /\ s.success \in BOOLEAN

VARIABLES
    node,         \* what the node has returned for the window
    rpcEvents,    \* what is left of it to decode
    headers,      \* the ledgers whose header was fetched, when that is known
    decoded,      \* the canonical events
    outcome       \* "fetching", "decoding", "batch", or the error thrown

windowVars == <<node, rpcEvents, headers, decoded, outcome>>

WindowInit ==
    /\ node = {} /\ rpcEvents = <<>> /\ headers = {}
    /\ decoded = <<>> /\ outcome = "fetching"

----------------------------------------------------------------------------
(* toid.ts and cursor.ts.                                                  *)

EncodeToid(l, tx, op) == (l * TxSlots + tx) * OpSlots + op

DecodeEventId(e) ==
    [tx |-> (e.toid \div OpSlots) % TxSlots, op |-> e.toid % OpSlots, ordinal |-> e.ordinal]

Fits(l, tx, op, index) == l <= MaxLedger /\ tx <= MaxSub /\ op <= MaxSub /\ index <= MaxSub

(* Zero-padded to fixed widths, cursors compare as their components do.    *)
EncodeCursor(l, tx, op, index) == <<l, tx, op, index>>
CompareCursors(a, b) ==
    \E k \in DOMAIN a : a[k] < b[k] /\ \A j \in 1 .. k - 1 : a[j] = b[j]

LedgerLowerBound(l) == EncodeCursor(l, 0, 0, 0)
LedgerUpperBound(l) == EncodeCursor(l, MaxSub, MaxSub, MaxSub)

----------------------------------------------------------------------------
(* reference.ts.                                                           *)

Party(account, counterparty, delta) ==
    [account |-> account, counterparty |-> counterparty, delta |-> delta]

PartiesFor(s) ==
    CASE s.kind = "deposit"  -> <<Party(s.from, NoAccount, "credit")>>
      [] s.kind = "withdraw" -> <<Party(s.from, NoAccount, "debit")>>
      [] s.kind = "transfer" -> <<Party(s.from, s.to, "debit"), Party(s.to, s.from, "credit")>>
      [] s.kind \in {"rollover", "key_rotation"} -> <<Party(s.from, NoAccount, "replace")>>
      [] s.kind = "disclosure" -> <<Party(s.from, s.to, "none")>>

(* The party's index is folded into the event's, and not added to it.      *)
AddedIndex(ordinal, index)  == ordinal + index
FoldedIndex(ordinal, index) == ordinal * MaxFanout + index

Recognises(s) == s.kind \in Confidential \cup {"malformed"}

Thrown(code) == [error |-> code, events |-> <<>>]

Decode(e) ==
    LET at      == DecodeEventId(e)
        parties == PartiesFor(e.shape)
        index(i) == FoldedIndex(at.ordinal, i - 1)
    IN  IF at.ordinal > MaxRawEventIndex \/ e.shape.kind = "malformed"
           THEN Thrown("ADAPTER_DECODE")
        ELSE IF Len(parties) > MaxFanout THEN Thrown("ADAPTER_DECODE")
        ELSE IF \E i \in DOMAIN parties : ~Fits(e.ledger, at.tx, at.op, index(i))
           THEN Thrown("INVALID_REQUEST")
        ELSE [error |-> "none", events |->
                [i \in DOMAIN parties |->
                    [cursor |-> EncodeCursor(e.ledger, at.tx, at.op, index(i)),
                     party |-> parties[i], index |-> i, source |-> e]]]

----------------------------------------------------------------------------
(* pipeline.ts.                                                            *)

RpcEvent(l, p, s) ==
    [ledger |-> l, toid |-> EncodeToid(l, p.tx, p.op), ordinal |-> p.ordinal,
     position |-> p, shape |-> s]

(* Failed contract calls emit events too; they did not happen.             *)
AcceptAll(s) == TRUE
Accept(s)    == s.success

Receive(l, p, s) ==
    /\ outcome = "fetching"
    /\ Cardinality(node) < MaxEvents
    /\ \A e \in node : e.ledger # l \/ e.position # p
    /\ node' = node \cup {RpcEvent(l, p, s)}
    /\ rpcEvents' = IF Accept(s) THEN Append(rpcEvents, RpcEvent(l, p, s)) ELSE rpcEvents
    /\ UNCHANGED <<headers, decoded, outcome>>

FetchHeaders ==
    /\ outcome = "fetching"
    /\ headers' \in SUBSET Ledgers
    /\ outcome' = "decoding"
    /\ UNCHANGED <<node, rpcEvents, decoded>>

(* The codec decodes the topics before the adapter is asked.               *)
DecodeEvent(e) ==
    IF e.ledger \notin headers       THEN Thrown("LEDGER_GAP")
    ELSE IF e.shape.kind = "opaque"  THEN Thrown("ADAPTER_DECODE")
    ELSE IF ~Recognises(e.shape)     THEN [error |-> "none", events |-> <<>>]
    ELSE Decode(e)

DecodeNext ==
    /\ outcome = "decoding" /\ rpcEvents # <<>>
    /\ LET result == DecodeEvent(Head(rpcEvents))
       IN  IF result.error = "none"
           THEN /\ decoded' = decoded \o result.events
                /\ rpcEvents' = Tail(rpcEvents)
                /\ UNCHANGED outcome
           ELSE /\ outcome' = result.error
                /\ UNCHANGED <<decoded, rpcEvents>>
    /\ UNCHANGED <<node, headers>>

(* A stable sort: each event goes to its rank.                             *)
Precedes(events, i, j) ==
    \/ CompareCursors(events[i].cursor, events[j].cursor)
    \/ events[i].cursor = events[j].cursor /\ i < j
Rank(events, i) == Cardinality({j \in DOMAIN events : Precedes(events, j, i)}) + 1
Sorted(events) ==
    [n \in DOMAIN events |-> events[CHOOSE i \in DOMAIN events : Rank(events, i) = n]]

Sort ==
    /\ outcome = "decoding" /\ rpcEvents = <<>>
    /\ decoded' = Sorted(decoded)
    /\ outcome' = "batch"
    /\ UNCHANGED <<node, rpcEvents, headers>>

NextWindow ==
    /\ outcome \notin {"fetching", "decoding"}
    /\ node' = {} /\ rpcEvents' = <<>> /\ headers' = {}
    /\ decoded' = <<>> /\ outcome' = "fetching"

WindowNext ==
    \/ \E l \in Ledgers, p \in Positions, s \in Shapes : Receive(l, p, s)
    \/ FetchHeaders \/ DecodeNext \/ Sort \/ NextWindow

WindowSpec == WindowInit /\ [][WindowNext]_windowVars

----------------------------------------------------------------------------
(* A batch is in strict cursor order, and that is the chain's order of     *)
(* ledger, transaction, operation, event and party, through the packing of *)
(* TOIDs and the folding of indices and whatever the order of the node;    *)
(* and the bounds of a ledger, which the checkpoint's cursor and a         *)
(* rollback's cut rely on, hold exactly the cursors of its events.         *)
(* (decodeEvents' sort, decodeEventId, encodeCursor, ledgerUpperBound.)    *)
ChainPosition(d) ==
    LET p == d.source.position
    IN  <<d.source.ledger, p.tx, p.op, p.ordinal, d.index>>

AtMost(a, b) == a = b \/ CompareCursors(a, b)

OrderKept ==
    outcome = "batch" =>
        /\ \A i, j \in DOMAIN decoded : i < j =>
            /\ CompareCursors(decoded[i].cursor, decoded[j].cursor)
            /\ CompareCursors(ChainPosition(decoded[i]), ChainPosition(decoded[j]))
        /\ \A d \in Range(decoded), l \in Ledgers :
            (AtMost(LedgerLowerBound(l), d.cursor) /\ AtMost(d.cursor, LedgerUpperBound(l)))
                <=> d.source.ledger = l

(* A batch holds every party of every successful confidential event of the *)
(* node, and nobody else: no leg of a transfer is lost, not even of one to *)
(* oneself, and no failed call enters.  (fetchWindowEvents, decode.)       *)
EveryPartyOnce ==
    outcome = "batch" =>
        LET happened == {e \in node : e.shape.success /\ e.shape.kind \in Confidential}
            owed == UNION {{[source |-> e, party |-> PartiesFor(e.shape)[i], index |-> i] :
                            i \in DOMAIN PartiesFor(e.shape)} : e \in happened}
        IN  /\ {[source |-> d.source, party |-> d.party, index |-> d.index] : d \in Range(decoded)}
                 = owed
            /\ Len(decoded) = Cardinality(owed)

=============================================================================
