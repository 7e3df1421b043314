--------------------------- MODULE PostgresStore ---------------------------
(***************************************************************************)
(* PostgresEventStore: append, rollbackTo and prune as transactions of     *)
(* several statements each, under READ COMMITTED (the code sets no other   *)
(* level).  A statement sees what is committed when it starts and what its *)
(* own transaction wrote; a row another open transaction wrote is waited   *)
(* for, with the rows taken so far in hand.  streamRange reads page by     *)
(* page, each page a statement of its own.                                 *)
(*                                                                         *)
(* The INSERTs of a batch's events are taken in one step: their ledgers'   *)
(* rows are locked by then, so nobody else can insert between them.        *)
(***************************************************************************)
EXTENDS Integers, FiniteSets

CONSTANTS
    MaxLedger,      \* bound: ledgers
    MaxPerLedger,   \* bound: events in a ledger
    Hashes,         \* the ledger hashes of the branches
    Names,          \* checkpoint rows, none named as a transaction that removes
    Writers,        \* sessions that append and roll back
    NameOf,         \* the checkpoint row of each
    Pruner,         \* the session that prunes
    PageSize,       \* streamRange's page
    MaxTransactions \* bound

ASSUME PostgresAssumption ==
    /\ MaxLedger \in Nat /\ MaxPerLedger \in Nat \ {0}
    /\ Names \cap {"none", "rollback", "prune"} = {}
    /\ NameOf \in [Writers -> Names]
    /\ Pruner \notin Writers
    /\ PageSize \in Nat \ {0}
    /\ MaxTransactions \in Nat

VARIABLES
    ledgers, events, checkpoints,   \* the committed tables
    tx,                             \* each session's open transaction
    transactions,                   \* begun so far
    stream,                         \* a streamRange in progress
    held, seen                      \* history variables: what was committed at every
                                    \* instant, and at some instant, of the stream

vars    == <<ledgers, events, checkpoints, tx, transactions, stream, held, seen>>
tables  == <<ledgers, events, checkpoints>>
reading == <<stream, held, seen>>

Sessions == Writers \cup {Pruner}
Atomic   == INSTANCE AtomicStore
Ledger   == Atomic!Ledger
EventId  == Atomic!EventId
NoRow    == Atomic!NoRow
Cursors  == EventId \cup {<<0, 0>>}

(* A transaction: the statement it is at, its parameters, the rows it has  *)
(* written, and those its current DELETE has found and not yet taken.      *)
Idle == [at |-> "idle", rows |-> [l \in {} |-> NoRow], put |-> {}, cut |-> {},
         name |-> "none", to |-> 0, batch |-> [l \in {} |-> 0], hash |-> "none",
         found |-> {}]

Init ==
    /\ Atomic!Init
    /\ tx = [s \in Sessions |-> Idle]
    /\ transactions = 0
    /\ stream = [at |-> "closed", after |-> <<0, 0>>, got |-> {}]
    /\ held = {} /\ seen = {}

(* What a statement of session s sees.                                     *)
RowSeen(s, l) == IF l \in DOMAIN tx[s].rows THEN tx[s].rows[l] ELSE ledgers[l]
EventsSeen(s) == {e \in events : e.id \notin tx[s].cut} \cup tx[s].put

(* Rows another open transaction has written.                              *)
RowLocked(s, l)    == \E t \in Sessions \ {s} : l \in DOMAIN tx[t].rows
EventLocked(s, id) == \E t \in Sessions \ {s} :
                          id \in tx[t].cut \/ \E e \in tx[t].put : e.id = id

Precedes(i, j) == i[1] < j[1] \/ (i[1] = j[1] /\ i[2] < j[2])

Step(s, next) == /\ tx' = [tx EXCEPT ![s] = next]
                 /\ UNCHANGED <<tables, transactions, reading>>

Begin(s, next) ==
    /\ tx[s].at = "idle"
    /\ transactions < MaxTransactions
    /\ transactions' = transactions + 1
    /\ tx' = [tx EXCEPT ![s] = next]
    /\ UNCHANGED <<tables, reading>>

----------------------------------------------------------------------------
(* append(): BEGIN, the ledgers in order, the events, the checkpoint.  (The*)
(* empty append that ends a rewind writes the value rollbackTo left.)      *)

BeginAppendAtCheckpoint(s) ==
    \E end \in checkpoints[NameOf[s]]..MaxLedger, h \in Hashes :
      \E touched \in {t \in SUBSET (checkpoints[NameOf[s]]..end \ {0}) : end \in t} :
        \E batch \in [touched -> 0..MaxPerLedger] :
          Begin(s, [Idle EXCEPT !.at = "upsert", !.name = NameOf[s], !.to = end,
                                !.batch = batch, !.hash = h])

BeginAppend(s) ==
    LET from == checkpoints[NameOf[s]] + 1
    IN  \E end \in from..MaxLedger, h \in Hashes :
          \E touched \in {t \in SUBSET (from..end) : end \in t} :
            \E batch \in [touched -> 0..MaxPerLedger] :
              Begin(s, [Idle EXCEPT !.at = "upsert", !.name = NameOf[s], !.to = end,
                                    !.batch = batch, !.hash = h])

(* ON CONFLICT (sequence) DO UPDATE keeps the hash and adds the count.     *)
UpsertedRow(s, l) ==
    IF RowSeen(s, l) = NoRow
    THEN [hash |-> tx[s].hash, count |-> tx[s].batch[l]]
    ELSE [RowSeen(s, l) EXCEPT !.count = @ + tx[s].batch[l]]

UpsertLedger(s) ==
    /\ tx[s].at = "upsert"
    /\ \E l \in DOMAIN tx[s].batch \ DOMAIN tx[s].rows :
         /\ \A k \in DOMAIN tx[s].batch \ DOMAIN tx[s].rows : l <= k
         /\ ~RowLocked(s, l)
         /\ Step(s, [tx[s] EXCEPT !.rows =
                       [k \in DOMAIN @ \cup {l} |-> IF k = l THEN UpsertedRow(s, l) ELSE @[k]]])

Batch(s) == {[id |-> i, hash |-> tx[s].hash] :
               i \in {j \in EventId : /\ j[1] \in DOMAIN tx[s].batch
                                      /\ j[2] <= tx[s].batch[j[1]]}}

(* ON CONFLICT (event_cursor) DO NOTHING.                                  *)
InsertEvents(s) ==
    /\ tx[s].at = "upsert"
    /\ DOMAIN tx[s].batch \subseteq DOMAIN tx[s].rows
    /\ \A e \in Batch(s) : ~EventLocked(s, e.id)
    /\ Step(s, [tx[s] EXCEPT !.at = "commit",
                             !.put = {e \in Batch(s) : \A f \in EventsSeen(s) : f.id # e.id}])

----------------------------------------------------------------------------
(* rollbackTo(): BEGIN, DELETE events, DELETE ledgers, UPDATE checkpoints. *)
(* prune(): BEGIN, DELETE events, DELETE ledgers.                          *)

BeginRollback(s) ==
    \E f \in 0..checkpoints[NameOf[s]] :
        Begin(s, [Idle EXCEPT !.at = "scan_events", !.name = "rollback", !.to = f])

BeginPrune ==
    \E below \in 2..MaxLedger :
        Begin(Pruner, [Idle EXCEPT !.at = "scan_events", !.name = "prune", !.to = below])

Doomed(s, l) == IF tx[s].name = "prune" THEN l < tx[s].to ELSE l > tx[s].to

(* A DELETE finds its rows when it starts.  It takes them one by one, in   *)
(* no order to count on, and keeps what it has taken while it waits for    *)
(* the next.                                                               *)
ScanEvents(s) ==
    /\ tx[s].at = "scan_events"
    /\ Step(s, [tx[s] EXCEPT !.at = "delete_events",
                             !.found = {e.id : e \in {f \in events : Doomed(s, f.id[1])}}])

DeleteEvent(s) ==
    /\ tx[s].at = "delete_events"
    /\ \E id \in tx[s].found :
         /\ ~EventLocked(s, id)
         /\ Step(s, [tx[s] EXCEPT !.found = @ \ {id}, !.cut = @ \cup {id}])

ScanLedgers(s) ==
    /\ tx[s].at = "delete_events" /\ tx[s].found = {}
    /\ Step(s, [tx[s] EXCEPT !.at = "delete_ledgers",
                             !.found = {l \in Ledger : Doomed(s, l) /\ ledgers[l] # NoRow}])

DeleteLedger(s) ==
    /\ tx[s].at = "delete_ledgers"
    /\ \E l \in tx[s].found :
         /\ ~RowLocked(s, l)
         /\ Step(s, [tx[s] EXCEPT !.found = @ \ {l},
                                  !.rows = [k \in DOMAIN @ \cup {l} |-> NoRow]])

(* REFERENCES ledgers(sequence) ON DELETE CASCADE: when the statement has  *)
(* its ledgers, it takes their events that were committed since the first  *)
(* DELETE, and waits for them with the ledgers in hand.                    *)
NoCascade(s) == {}
Cascade(s) == {e.id : e \in {f \in events : f.id[1] \in DOMAIN tx[s].rows}} \ tx[s].cut

CascadeEvent(s) ==
    /\ tx[s].at = "delete_ledgers" /\ tx[s].found = {}
    /\ \E id \in Cascade(s) :
         /\ ~EventLocked(s, id)
         /\ Step(s, [tx[s] EXCEPT !.cut = @ \cup {id}])

EndRemoval(s) ==
    /\ tx[s].at = "delete_ledgers" /\ tx[s].found = {} /\ Cascade(s) = {}
    /\ Step(s, [tx[s] EXCEPT !.at = "commit"])

----------------------------------------------------------------------------
(* The checkpoint statement of an append or a rollback is the last before  *)
(* its COMMIT, and taken with it.                                          *)
CheckpointsUnclamped(s) ==
    [n \in Names |-> IF tx[s].name = n THEN tx[s].to ELSE checkpoints[n]]

CheckpointsWritten(s) ==
    [n \in Names |->
        IF tx[s].name = "rollback" /\ checkpoints[n] > tx[s].to THEN tx[s].to
        ELSE IF tx[s].name = n THEN tx[s].to
        ELSE checkpoints[n]]

(* What another's DELETE had found and this transaction has removed is     *)
(* gone, even if a row of the same key is inserted again.                  *)
StillThere(t, s) ==
    IF tx[t].at = "delete_events" THEN tx[t].found \ tx[s].cut
    ELSE {l \in tx[t].found : RowSeen(s, l) # NoRow}

Commit(s) ==
    /\ tx[s].at = "commit"
    /\ ledgers' = [l \in Ledger |-> RowSeen(s, l)]
    /\ events' = EventsSeen(s)
    /\ checkpoints' = CheckpointsWritten(s)
    /\ tx' = [t \in Sessions |-> IF t = s THEN Idle
                                 ELSE [tx[t] EXCEPT !.found = StillThere(t, s)]]
    /\ held' = IF stream.at = "reading" THEN held \cap events' ELSE held
    /\ seen' = IF stream.at = "reading" THEN seen \cup events' ELSE seen
    /\ UNCHANGED <<transactions, stream>>

(* A statement fails or the process dies: ROLLBACK.                        *)
Abandon(s) ==
    /\ tx[s].at # "idle"
    /\ Step(s, Idle)

----------------------------------------------------------------------------
(* streamRange(): keyset pages in cursor order, each a query of its own,   *)
(* until one that leaves nothing behind it.                                *)

OpenStream ==
    /\ stream.at = "closed"
    /\ stream' = [at |-> "reading", after |-> <<0, 0>>, got |-> {}]
    /\ held' = events /\ seen' = events
    /\ UNCHANGED <<tables, tx, transactions>>

RowsAtOffset(after) ==
    {e \in events : Cardinality(stream.got)
                      <= Cardinality({f \in events : Precedes(f.id, e.id)})}
RowsAfter(after) == {e \in events : Precedes(after, e.id)}

ReadPage ==
    /\ stream.at = "reading"
    /\ LET rest == RowsAfter(stream.after)
           page == {e \in rest : Cardinality({f \in rest : Precedes(f.id, e.id)}) < PageSize}
           last == IF page = {} THEN stream.after
                   ELSE CHOOSE i \in {e.id : e \in page} : \A e \in page : ~Precedes(i, e.id)
       IN  stream' = [at    |-> IF page = rest THEN "done" ELSE "reading",
                      after |-> last,
                      got   |-> stream.got \cup page]
    /\ UNCHANGED <<tables, tx, transactions, held, seen>>

CloseStream ==
    /\ stream.at = "done"
    /\ stream' = [at |-> "closed", after |-> <<0, 0>>, got |-> {}]
    /\ held' = {} /\ seen' = {}
    /\ UNCHANGED <<tables, tx, transactions>>

----------------------------------------------------------------------------
Next ==
    \/ \E s \in Writers : BeginAppend(s) \/ BeginRollback(s)
    \/ BeginPrune
    \/ \E s \in Sessions :
         \/ UpsertLedger(s) \/ InsertEvents(s)
         \/ ScanEvents(s) \/ DeleteEvent(s)
         \/ ScanLedgers(s) \/ DeleteLedger(s) \/ CascadeEvent(s) \/ EndRemoval(s)
         \/ Commit(s) \/ Abandon(s)
    \/ OpenStream \/ ReadPage \/ CloseStream

Spec == Init /\ [][Next]_vars

----------------------------------------------------------------------------
(* A ledger's event_count is the number of its events, and every event has *)
(* its ledger and that ledger's hash: the upsert adds, the insert skips,   *)
(* the deletes are statements of their own, and a prune may be between any *)
(* two statements of a commit or a rewind.                                 *)
RowsAgree ==
    /\ \A l \in Ledger : ledgers[l].count = Cardinality({e \in events : e.id[1] = l})
    /\ \A e \in events : ledgers[e.id[1]].hash = e.hash

(* "the two must move together atomically": whatever is interrupted        *)
(* between two statements, the committed tables only ever change by a      *)
(* whole append, rollback or prune.                                        *)
ImplementsAtomicStore == Atomic!Spec

(* A range streamed while transactions commit has each event once, every   *)
(* event that was there throughout, and none that never was: what a digest *)
(* of the range is computed from.                                          *)
StreamComplete ==
    stream.at = "done" => /\ held \subseteq stream.got
                          /\ stream.got \subseteq seen
                          /\ Cardinality({e.id : e \in stream.got}) = Cardinality(stream.got)

(* Session s wants a row that t has written and not committed.             *)
WaitsFor(s, t) ==
    \/ /\ tx[s].at = "upsert"
       /\ \E l \in DOMAIN tx[s].batch \ DOMAIN tx[s].rows :
            /\ \A k \in DOMAIN tx[s].batch \ DOMAIN tx[s].rows : l <= k
            /\ l \in DOMAIN tx[t].rows
    \/ /\ tx[s].at = "upsert" /\ DOMAIN tx[s].batch \subseteq DOMAIN tx[s].rows
       /\ \E e \in Batch(s) : e.id \in tx[t].cut \/ \E f \in tx[t].put : f.id = e.id
    \/ /\ tx[s].at = "delete_events"
       /\ \E id \in tx[s].found : id \in tx[t].cut \/ \E f \in tx[t].put : f.id = id
    \/ /\ tx[s].at = "delete_ledgers"
       /\ \E l \in tx[s].found : l \in DOMAIN tx[t].rows
    \/ /\ tx[s].at = "delete_ledgers" /\ tx[s].found = {}
       /\ \E id \in Cascade(s) : id \in tx[t].cut \/ \E f \in tx[t].put : f.id = id

(* Nobody ever waits but a rewind and a prune that remove the same ledger: *)
(* a commit is not held up, though the prune's cutoff may lie above it,    *)
(* nor is a rewind that removes nothing below the cutoff.  (Those that do  *)
(* may wait for each other, the prune's cascade for an event the rewind    *)
(* has deleted and the rewind for its ledger: Postgres aborts one.)        *)
OnlyDeepRewindsWait ==
    \A s, t \in Sessions :
        s # t /\ WaitsFor(s, t) =>
            /\ {tx[s].name, tx[t].name} = {"rollback", "prune"}
            /\ \E l \in Ledger : Doomed(s, l) /\ Doomed(t, l)
=============================================================================
