------------------------- MODULE PostgresStoreProofs -------------------------
(***************************************************************************)
(* What the PostgresStore module promises for every value of its           *)
(* constants: a stream of a range is complete, whatever commits between    *)
(* its pages; and with one writer beside the prune, the statements of a    *)
(* transaction amount to one atomic change of the tables, in which counts, *)
(* hashes and events agree, and none waits for a row but a rewind and a    *)
(* prune that remove the same ledger.                                      *)
(***************************************************************************)
EXTENDS PostgresStore, TLAPS, FiniteSetTheorems, WellFoundedInduction

USE PostgresAssumption

----------------------------------------------------------------------------
(* Types.                                                                  *)

At      == {"idle", "upsert", "scan_events", "delete_events", "delete_ledgers", "commit"}
AnyRow  == [hash: Hashes \cup {"none"}, count: Nat]
Rows    == UNION {[D -> AnyRow] : D \in SUBSET Ledger}
Batches == UNION {[D -> 0..MaxPerLedger] : D \in SUBSET Ledger}
Stored  == Atomic!Stored
Tx      == [at: At, rows: Rows, put: SUBSET Stored, cut: SUBSET EventId,
            name: Names \cup {"none", "rollback", "prune"}, to: 0..MaxLedger,
            batch: Batches, hash: Hashes \cup {"none"}, found: SUBSET (EventId \cup Ledger)]
Streams == [at: {"closed", "reading", "done"}, after: Cursors, got: SUBSET Stored]

TypeOK ==
    /\ ledgers \in [Ledger -> AnyRow]
    /\ events \in SUBSET Stored
    /\ checkpoints \in [Names -> 0..MaxLedger]
    /\ tx \in [Sessions -> Tx]
    /\ stream \in Streams
    /\ held \in SUBSET Stored /\ seen \in SUBSET Stored

----------------------------------------------------------------------------
(* What a transaction has written at the statement it is at.               *)

Removes(s) == tx[s].name \in {"rollback", "prune"}
Appends(s) == s \in Writers /\ tx[s].name = NameOf[s]

Stage(s) ==
    /\ tx[s].at = "idle" => tx[s] = Idle
    /\ tx[s].at = "upsert" => /\ Appends(s) /\ tx[s].put = {} /\ tx[s].cut = {}
                              /\ tx[s].hash \in Hashes
                              /\ DOMAIN tx[s].rows \subseteq DOMAIN tx[s].batch
    /\ tx[s].at \in {"scan_events", "delete_events", "delete_ledgers"} =>
         Removes(s) /\ tx[s].put = {}
    /\ tx[s].at \in {"scan_events", "delete_events"} => DOMAIN tx[s].rows = {}
    /\ tx[s].at = "scan_events" => tx[s].cut = {}
    /\ tx[s].at = "delete_events" => tx[s].found \subseteq EventId
    /\ tx[s].at = "delete_ledgers" => tx[s].found \subseteq Ledger
    /\ tx[s].at = "commit" => \/ Appends(s) /\ tx[s].cut = {}
                              \/ Removes(s) /\ tx[s].put = {}
    /\ tx[s].at # "idle" => (tx[s].name = "prune" <=> s = Pruner)

(* An event has one row, and what is about to be inserted has none yet.    *)
OneRow == \A e, f \in events : e.id = f.id => e = f
PutFresh(s) ==
    /\ \A e \in tx[s].put, f \in events : e.id # f.id
    /\ \A e, f \in tx[s].put : e.id = f.id => e = f
PutApart(s, t) == \A e \in tx[s].put, f \in tx[t].put : e.id # f.id

IdInv == /\ OneRow
         /\ \A s \in Sessions : PutFresh(s)
         /\ \A s, t \in Sessions : s # t => PutApart(s, t)

(* A stream has all that stayed up to the position it has reached, and     *)
(* nothing from beyond it.                                                 *)
StreamInv ==
    /\ IsFiniteSet(stream.got)
    /\ \A e, f \in stream.got : e.id = f.id => e = f
    /\ stream.at # "closed" => stream.got \subseteq seen
    /\ stream.at = "reading" =>
         /\ held \subseteq events /\ events \subseteq seen
         /\ \A e \in held : Precedes(stream.after, e.id) \/ e \in stream.got
         /\ \A e \in stream.got : ~Precedes(stream.after, e.id)
    /\ stream.at = "done" => held \subseteq stream.got

----------------------------------------------------------------------------
(* With one writer (a second could begin the same window from the same     *)
(* checkpoint, and its upsert count the events again that its insert       *)
(* skips): the committed tables, and what each open transaction is about   *)
(* to make of them.                                                        *)

IdsAt(l) == {e.id : e \in {f \in events : f.id[1] = l}}
Counted  == \A l \in Ledger :
                /\ ledgers[l].count <= MaxPerLedger
                /\ IdsAt(l) = {i \in EventId : i[1] = l /\ i[2] <= ledgers[l].count}
Hashed   == \A e \in events : ledgers[e.id[1]].hash = e.hash
Behind   == \A s \in Writers, l \in Ledger : ledgers[l] # NoRow => l <= checkpoints[NameOf[s]]
Tables   == Counted /\ Hashed /\ Behind

Committed(id) == \E e \in events : e.id = id
Victims(s)    == {e.id : e \in {f \in events : Doomed(s, f.id[1])}}
Present(s)    == {l \in Ledger : Doomed(s, l) /\ ledgers[l] # NoRow}

Appending(s) ==
    Appends(s) /\ tx[s].at # "idle" =>
        /\ tx[s].to \in DOMAIN tx[s].batch
        /\ tx[s].hash \in Hashes
        /\ \A l \in DOMAIN tx[s].batch : checkpoints[NameOf[s]] < l /\ l <= tx[s].to
        /\ \A l \in DOMAIN tx[s].rows : tx[s].rows[l] = [hash |-> tx[s].hash, count |-> tx[s].batch[l]]
        /\ tx[s].at = "commit" => tx[s].put = Batch(s) /\ DOMAIN tx[s].rows = DOMAIN tx[s].batch

(* A rewind takes every event above its fork point, for nobody inserts     *)
(* while it runs; a prune may miss what is committed behind its back, but  *)
(* takes a ledger with all its events.                                     *)
Removing(s) ==
    Removes(s) =>
        /\ \A id \in tx[s].cut : Doomed(s, id[1]) /\ Committed(id)
        /\ \A l \in DOMAIN tx[s].rows : Doomed(s, l) /\ tx[s].rows[l] = NoRow /\ ledgers[l] # NoRow
        /\ tx[s].at = "delete_events" => \A id \in tx[s].found : Doomed(s, id[1]) /\ Committed(id)
        /\ tx[s].at = "delete_ledgers" =>
             /\ \A l \in tx[s].found : Doomed(s, l) /\ ledgers[l] # NoRow
             /\ \A id \in tx[s].cut : id[1] \in tx[s].found \cup DOMAIN tx[s].rows
        /\ tx[s].at = "commit" =>
             \A e \in events : e.id \in tx[s].cut <=> e.id[1] \in DOMAIN tx[s].rows

Rewinding(s) ==
    tx[s].name = "rollback" =>
        /\ tx[s].to <= checkpoints[NameOf[s]]
        /\ tx[s].at = "delete_events" => Victims(s) \subseteq tx[s].found \cup tx[s].cut
        /\ tx[s].at \in {"delete_ledgers", "commit"} => Victims(s) \subseteq tx[s].cut
        /\ tx[s].at = "delete_ledgers" => Present(s) \subseteq tx[s].found \cup DOMAIN tx[s].rows
        /\ tx[s].at = "commit" => Present(s) \subseteq DOMAIN tx[s].rows

(* Two transactions do not write one row.                                  *)
Apart(s, t) == /\ tx[s].cut \cap tx[t].cut = {}
               /\ DOMAIN tx[s].rows \cap DOMAIN tx[t].rows = {}

Sole    == \A s, t \in Writers : s = t
SoleInv == /\ Tables
           /\ \A s \in Sessions : Appending(s) /\ Removing(s) /\ Rewinding(s)
           /\ \A s, t \in Sessions : s # t => Apart(s, t)

----------------------------------------------------------------------------
(* What each statement does to the transaction that runs it.               *)

(* A step of one session: it leaves the tables, the stream and the other   *)
(* transactions alone.                                                     *)
Alone(s)  == /\ UNCHANGED tables /\ UNCHANGED reading
             /\ \A t \in Sessions \ {s} : tx'[t] = tx[t]
             /\ tx' \in [Sessions -> Tx]
Params(s) == /\ tx'[s].name = tx[s].name /\ tx'[s].to = tx[s].to
             /\ tx'[s].batch = tx[s].batch /\ tx'[s].hash = tx[s].hash
Stays(s)  == /\ Params(s) /\ tx'[s].at = tx[s].at
             /\ tx'[s].rows = tx[s].rows /\ tx'[s].put = tx[s].put /\ tx'[s].cut = tx[s].cut

(* What a commit of s leaves of the others' transactions.                  *)
Beside(s) == \A t \in Sessions \ {s} : Stays(t) /\ tx'[t].found = StillThere(t, s)
                                      /\ (tx[t] = Idle => tx'[t] = Idle)

LEMMA AloneStep ==
    ASSUME TypeOK, NEW s \in Sessions, NEW next \in Tx, Step(s, next) \/ Begin(s, next)
    PROVE  tx'[s] = next /\ Alone(s)
BY DEF TypeOK, Step, Begin, Alone

LEMMA IdleType == Idle \in Tx
<1>1. [l \in {} |-> NoRow] \in Rows
  <2>1. [l \in {} |-> NoRow] \in [{} -> AnyRow] /\ {} \in SUBSET Ledger
    OBVIOUS
  <2>2. QED
    BY <2>1 DEF Rows
<1>2. [l \in {} |-> 0] \in Batches
  <2>1. [l \in {} |-> 0] \in [{} -> 0..MaxPerLedger] /\ {} \in SUBSET Ledger
    OBVIOUS
  <2>2. QED
    BY <2>1 DEF Batches
<1>3. QED
  BY <1>1, <1>2 DEF Idle, Tx, At

(* BEGIN of an append: a window above the checkpoint.                      *)
LEMMA AppendBegins ==
    ASSUME TypeOK, NEW s \in Writers, BeginAppend(s)
    PROVE  /\ tx[s].at = "idle" /\ Alone(s)
           /\ tx'[s].at = "upsert" /\ tx'[s].name = NameOf[s] /\ tx'[s].hash \in Hashes
           /\ tx'[s].put = {} /\ tx'[s].cut = {} /\ DOMAIN tx'[s].rows = {}
           /\ tx'[s].to \in DOMAIN tx'[s].batch
           /\ \A l \in DOMAIN tx'[s].batch : checkpoints[NameOf[s]] < l /\ l <= tx'[s].to
<1>1. s \in Sessions /\ NameOf[s] \in Names /\ checkpoints[NameOf[s]] \in 0..MaxLedger
  BY DEF TypeOK, Sessions
<1> DEFINE from == checkpoints[NameOf[s]] + 1
<1>2. PICK end \in from..MaxLedger, h \in Hashes :
        \E touched \in {t \in SUBSET (from..end) : end \in t} :
          \E batch \in [touched -> 0..MaxPerLedger] :
            Begin(s, [Idle EXCEPT !.at = "upsert", !.name = NameOf[s], !.to = end,
                                  !.batch = batch, !.hash = h])
  BY DEF BeginAppend
<1>3. PICK touched \in {t \in SUBSET (from..end) : end \in t} :
         \E batch \in [touched -> 0..MaxPerLedger] :
            Begin(s, [Idle EXCEPT !.at = "upsert", !.name = NameOf[s], !.to = end,
                                  !.batch = batch, !.hash = h])
  BY <1>2
<1>4. PICK batch \in [touched -> 0..MaxPerLedger] :
            Begin(s, [Idle EXCEPT !.at = "upsert", !.name = NameOf[s], !.to = end,
                                  !.batch = batch, !.hash = h])
  BY <1>3
<1> DEFINE next == [Idle EXCEPT !.at = "upsert", !.name = NameOf[s], !.to = end,
                                !.batch = batch, !.hash = h]
<1>5. end \in 0..MaxLedger /\ touched \in SUBSET Ledger /\ batch \in Batches
  <2>1. end \in 0..MaxLedger /\ touched \in SUBSET (1..MaxLedger)
    BY <1>1
  <2>2. QED
    BY <2>1 DEF Batches, Ledger, Atomic!Ledger
<1>6. Idle \in Tx /\ Idle.put = {} /\ Idle.cut = {} /\ DOMAIN Idle.rows = {}
  BY IdleType DEF Idle
<1>7. /\ next \in Tx
      /\ next.at = "upsert" /\ next.name = NameOf[s] /\ next.hash = h /\ next.to = end
      /\ next.batch = batch /\ next.put = {} /\ next.cut = {} /\ DOMAIN next.rows = {}
  <2> HIDE DEF Idle
  <2>1. QED
    BY <1>1, <1>5, <1>6 DEF Tx, At
<1> HIDE DEF next
<1>8. Begin(s, next)
  BY <1>4 DEF next
<1>9. tx'[s] = next /\ Alone(s) /\ tx[s].at = "idle"
  BY <1>1, <1>7, <1>8, AloneStep DEF Begin
<1>10. \A l \in touched : checkpoints[NameOf[s]] < l /\ l <= end
  BY <1>1
<1>11. QED
  BY <1>7, <1>9, <1>10

(* BEGIN of a rollback or a prune.                                         *)
LEMMA RemovalBegins ==
    ASSUME TypeOK, NEW s \in Sessions,
           (s \in Writers /\ BeginRollback(s)) \/ (s = Pruner /\ BeginPrune)
    PROVE  /\ tx[s].at = "idle" /\ Alone(s)
           /\ tx'[s].at = "scan_events"
           /\ tx'[s].put = {} /\ tx'[s].cut = {} /\ DOMAIN tx'[s].rows = {}
           /\ \/ s \in Writers /\ tx'[s].name = "rollback" /\ tx'[s].to <= checkpoints[NameOf[s]]
              \/ s = Pruner /\ tx'[s].name = "prune"
<1>1. PICK name \in {"rollback", "prune"}, to \in 0..MaxLedger :
        /\ Begin(s, [Idle EXCEPT !.at = "scan_events", !.name = name, !.to = to])
        /\ \/ s \in Writers /\ name = "rollback" /\ to <= checkpoints[NameOf[s]]
           \/ s = Pruner /\ name = "prune"
  <2>1. CASE s \in Writers /\ BeginRollback(s)
    <3>1. NameOf[s] \in Names /\ checkpoints[NameOf[s]] \in 0..MaxLedger
      BY <2>1 DEF TypeOK
    <3>2. PICK f \in 0..checkpoints[NameOf[s]] :
            Begin(s, [Idle EXCEPT !.at = "scan_events", !.name = "rollback", !.to = f])
      BY <2>1 DEF BeginRollback
    <3>3. f \in 0..MaxLedger /\ f <= checkpoints[NameOf[s]]
      BY <3>1
    <3>4. QED
      BY <2>1, <3>2, <3>3
  <2>2. CASE s = Pruner /\ BeginPrune
    <3>1. PICK b \in 2..MaxLedger :
            Begin(s, [Idle EXCEPT !.at = "scan_events", !.name = "prune", !.to = b])
      BY <2>2 DEF BeginPrune
    <3>2. b \in 0..MaxLedger
      OBVIOUS
    <3>3. QED
      BY <2>2, <3>1, <3>2
  <2>3. QED
    BY <2>1, <2>2
<1> DEFINE next == [Idle EXCEPT !.at = "scan_events", !.name = name, !.to = to]
<1>2. Idle \in Tx /\ Idle.put = {} /\ Idle.cut = {} /\ DOMAIN Idle.rows = {}
  BY IdleType DEF Idle
<1>3. /\ next \in Tx /\ next.at = "scan_events" /\ next.name = name /\ next.to = to
      /\ next.put = {} /\ next.cut = {} /\ DOMAIN next.rows = {}
  <2> HIDE DEF Idle
  <2>1. QED
    BY <1>2 DEF Tx, At
<1> HIDE DEF next
<1>4. Begin(s, next)
  BY <1>1 DEF next
<1>5. tx'[s] = next /\ Alone(s) /\ tx[s].at = "idle"
  BY <1>3, <1>4, AloneStep DEF Begin
<1>6. QED
  BY <1>1, <1>3, <1>5
(* The upsert of one ledger's row, which nobody else has written.          *)
LEMMA Upserts ==
    ASSUME TypeOK, NEW s \in Sessions, UpsertLedger(s)
    PROVE  /\ Alone(s) /\ Params(s) /\ tx[s].at = "upsert" /\ tx'[s].at = "upsert"
           /\ tx'[s].put = tx[s].put /\ tx'[s].cut = tx[s].cut
           /\ \E l \in DOMAIN tx[s].batch :
                /\ ~RowLocked(s, l)
                /\ DOMAIN tx'[s].rows = DOMAIN tx[s].rows \cup {l}
                /\ \A k \in DOMAIN tx[s].rows : tx'[s].rows[k] = tx[s].rows[k]
                /\ l \notin DOMAIN tx[s].rows /\ tx'[s].rows[l] = UpsertedRow(s, l)
<1>1. PICK l \in DOMAIN tx[s].batch \ DOMAIN tx[s].rows :
        /\ ~RowLocked(s, l)
        /\ Step(s, [tx[s] EXCEPT !.rows =
                      [k \in DOMAIN tx[s].rows \cup {l} |-> IF k = l THEN UpsertedRow(s, l)
                                                            ELSE tx[s].rows[k]]])
  BY DEF UpsertLedger
<1> DEFINE rows == [k \in DOMAIN tx[s].rows \cup {l} |-> IF k = l THEN UpsertedRow(s, l)
                                                        ELSE tx[s].rows[k]]
           next == [tx[s] EXCEPT !.rows = rows]
<1>2. tx[s] \in Tx
  BY DEF TypeOK
<1>3. PICK D \in SUBSET Ledger : tx[s].rows \in [D -> AnyRow]
  BY <1>2 DEF Tx, Rows
<1>4. PICK B \in SUBSET Ledger : tx[s].batch \in [B -> 0..MaxPerLedger]
  BY <1>2 DEF Tx, Batches
<1>5. D = DOMAIN tx[s].rows /\ l \in B /\ l \in Ledger /\ tx[s].batch[l] \in Nat
  BY <1>3, <1>4
<1>6. UpsertedRow(s, l) \in AnyRow
  <2>1. RowSeen(s, l) \in AnyRow
    BY <1>3, <1>5 DEF RowSeen, TypeOK
  <2>2. tx[s].hash \in Hashes \cup {"none"}
    BY <1>2 DEF Tx
  <2>3. RowSeen(s, l).count + tx[s].batch[l] \in Nat
    BY <1>5, <2>1 DEF AnyRow
  <2>4. QED
    BY <1>5, <2>1, <2>2, <2>3 DEF UpsertedRow, AnyRow
<1>7. rows \in [D \cup {l} -> AnyRow] /\ D \cup {l} \in SUBSET Ledger
  BY <1>3, <1>5, <1>6
<1>8. rows \in Rows
  BY <1>7 DEF Rows
<1>9. /\ DOMAIN rows = DOMAIN tx[s].rows \cup {l}
      /\ \A k \in DOMAIN tx[s].rows : rows[k] = tx[s].rows[k]
      /\ rows[l] = UpsertedRow(s, l)
  OBVIOUS
<1> HIDE DEF rows
<1>10. /\ next \in Tx /\ next.at = tx[s].at /\ next.put = tx[s].put /\ next.cut = tx[s].cut
       /\ next.name = tx[s].name /\ next.to = tx[s].to /\ next.batch = tx[s].batch
       /\ next.hash = tx[s].hash /\ next.rows = rows
  BY <1>2, <1>8 DEF Tx
<1> HIDE DEF next
<1>11. tx'[s] = next /\ Alone(s)
  BY <1>1, <1>10, AloneStep DEF next, rows
<1>12. tx[s].at = "upsert"
  BY DEF UpsertLedger
<1>13. QED
  BY <1>1, <1>9, <1>10, <1>11, <1>12 DEF Params

(* The events of the batch that are not there yet.                         *)
LEMMA BatchType ==
    ASSUME TypeOK, NEW s \in Sessions, tx[s].hash \in Hashes
    PROVE  Batch(s) \in SUBSET Stored
BY DEF Batch, Stored, Atomic!Stored, EventId

LEMMA Inserts ==
    ASSUME TypeOK, NEW s \in Sessions, tx[s].hash \in Hashes, InsertEvents(s)
    PROVE  /\ Alone(s) /\ Params(s) /\ tx[s].at = "upsert" /\ tx'[s].at = "commit"
           /\ DOMAIN tx[s].batch \subseteq DOMAIN tx[s].rows
           /\ \A e \in Batch(s) : ~EventLocked(s, e.id)
           /\ tx'[s].rows = tx[s].rows /\ tx'[s].cut = tx[s].cut
           /\ tx'[s].put = {e \in Batch(s) : \A f \in EventsSeen(s) : f.id # e.id}
<1> DEFINE put  == {e \in Batch(s) : \A f \in EventsSeen(s) : f.id # e.id}
           next == [tx[s] EXCEPT !.at = "commit", !.put = put]
<1>1. tx[s] \in Tx /\ put \in SUBSET Stored
  BY BatchType DEF TypeOK
<1>2. /\ tx[s].at = "upsert" /\ DOMAIN tx[s].batch \subseteq DOMAIN tx[s].rows
      /\ \A e \in Batch(s) : ~EventLocked(s, e.id)
      /\ Step(s, next)
  BY DEF InsertEvents
<1>3. put = {e \in Batch(s) : \A f \in EventsSeen(s) : f.id # e.id}
  OBVIOUS
<1> HIDE DEF put
<1>4. /\ next \in Tx /\ next.at = "commit" /\ next.put = put /\ next.cut = tx[s].cut
      /\ next.name = tx[s].name /\ next.to = tx[s].to /\ next.batch = tx[s].batch
      /\ next.hash = tx[s].hash /\ next.rows = tx[s].rows
  BY <1>1 DEF Tx, At
<1> HIDE DEF next
<1>5. tx'[s] = next /\ Alone(s)
  BY <1>2, <1>4, AloneStep
<1>6. QED
  BY <1>2, <1>3, <1>4, <1>5 DEF Params

(* The two statements that find rows to delete.                            *)
LEMMA Scans ==
    ASSUME TypeOK, NEW s \in Sessions, ScanEvents(s)
    PROVE  /\ Alone(s) /\ Params(s) /\ tx[s].at = "scan_events" /\ tx'[s].at = "delete_events"
           /\ tx'[s].rows = tx[s].rows /\ tx'[s].put = tx[s].put /\ tx'[s].cut = tx[s].cut
           /\ tx'[s].found = Victims(s)
<1> DEFINE next == [tx[s] EXCEPT !.at = "delete_events", !.found = Victims(s)]
<1>1. tx[s] \in Tx /\ Victims(s) \in SUBSET (EventId \cup Ledger)
  BY DEF TypeOK, Victims, Stored, Atomic!Stored, EventId
<1>2. tx[s].at = "scan_events" /\ Step(s, next)
  BY DEF ScanEvents, Victims
<1>3. /\ next \in Tx /\ next.at = "delete_events" /\ next.put = tx[s].put /\ next.cut = tx[s].cut
      /\ next.name = tx[s].name /\ next.to = tx[s].to /\ next.batch = tx[s].batch
      /\ next.hash = tx[s].hash /\ next.rows = tx[s].rows /\ next.found = Victims(s)
  BY <1>1 DEF Tx, At
<1> HIDE DEF next
<1>4. tx'[s] = next /\ Alone(s)
  BY <1>2, <1>3, AloneStep
<1>5. QED
  BY <1>2, <1>3, <1>4 DEF Params

LEMMA LedgerScans ==
    ASSUME TypeOK, NEW s \in Sessions, ScanLedgers(s)
    PROVE  /\ Alone(s) /\ Params(s) /\ tx[s].at = "delete_events" /\ tx'[s].at = "delete_ledgers"
           /\ tx[s].found = {} /\ tx'[s].found = Present(s)
           /\ tx'[s].rows = tx[s].rows /\ tx'[s].put = tx[s].put /\ tx'[s].cut = tx[s].cut
<1> DEFINE next == [tx[s] EXCEPT !.at = "delete_ledgers", !.found = Present(s)]
<1>1. tx[s] \in Tx /\ Present(s) \in SUBSET (EventId \cup Ledger)
  BY DEF TypeOK, Present
<1>2. tx[s].at = "delete_events" /\ tx[s].found = {} /\ Step(s, next)
  BY DEF ScanLedgers, Present
<1>3. /\ next \in Tx /\ next.at = "delete_ledgers" /\ next.put = tx[s].put /\ next.cut = tx[s].cut
      /\ next.name = tx[s].name /\ next.to = tx[s].to /\ next.batch = tx[s].batch
      /\ next.hash = tx[s].hash /\ next.rows = tx[s].rows /\ next.found = Present(s)
  BY <1>1 DEF Tx, At
<1> HIDE DEF next
<1>4. tx'[s] = next /\ Alone(s)
  BY <1>2, <1>3, AloneStep
<1>5. QED
  BY <1>2, <1>3, <1>4 DEF Params

(* The rows they delete, one by one, that nobody else holds.               *)
LEMMA EventDeletes ==
    ASSUME TypeOK, NEW s \in Sessions, tx[s].found \subseteq EventId, DeleteEvent(s)
    PROVE  /\ Alone(s) /\ Params(s) /\ tx[s].at = "delete_events" /\ tx'[s].at = "delete_events"
           /\ tx'[s].rows = tx[s].rows /\ tx'[s].put = tx[s].put
           /\ \E id \in tx[s].found : /\ ~EventLocked(s, id)
                                      /\ tx'[s].found = tx[s].found \ {id}
                                      /\ tx'[s].cut = tx[s].cut \cup {id}
<1>1. PICK id \in tx[s].found :
        /\ ~EventLocked(s, id)
        /\ Step(s, [tx[s] EXCEPT !.found = tx[s].found \ {id}, !.cut = tx[s].cut \cup {id}])
  BY DEF DeleteEvent
<1> DEFINE found == tx[s].found \ {id}
           cut   == tx[s].cut \cup {id}
           next  == [tx[s] EXCEPT !.found = found, !.cut = cut]
<1>2. tx[s] \in Tx /\ cut \in SUBSET EventId /\ found \in SUBSET (EventId \cup Ledger)
  BY DEF TypeOK, Tx
<1>3. tx[s].at = "delete_events" /\ Step(s, next)
  BY <1>1 DEF DeleteEvent
<1>4. cut = tx[s].cut \cup {id} /\ found = tx[s].found \ {id}
  OBVIOUS
<1> HIDE DEF cut, found
<1>5. /\ next \in Tx /\ next.at = tx[s].at /\ next.put = tx[s].put /\ next.cut = cut
      /\ next.name = tx[s].name /\ next.to = tx[s].to /\ next.batch = tx[s].batch
      /\ next.hash = tx[s].hash /\ next.rows = tx[s].rows /\ next.found = found
  BY <1>2 DEF Tx
<1> HIDE DEF next
<1>6. tx'[s] = next /\ Alone(s)
  BY <1>3, <1>5, AloneStep
<1>7. QED
  BY <1>1, <1>3, <1>4, <1>5, <1>6 DEF Params

LEMMA LedgerDeletes ==
    ASSUME TypeOK, NEW s \in Sessions, tx[s].found \subseteq Ledger, DeleteLedger(s)
    PROVE  /\ Alone(s) /\ Params(s) /\ tx[s].at = "delete_ledgers" /\ tx'[s].at = "delete_ledgers"
           /\ tx'[s].cut = tx[s].cut /\ tx'[s].put = tx[s].put
           /\ \E l \in tx[s].found : /\ ~RowLocked(s, l)
                                     /\ tx'[s].found = tx[s].found \ {l}
                                     /\ DOMAIN tx'[s].rows = DOMAIN tx[s].rows \cup {l}
           /\ \A k \in DOMAIN tx'[s].rows : tx'[s].rows[k] = NoRow
<1>1. PICK l \in tx[s].found :
        /\ ~RowLocked(s, l)
        /\ Step(s, [tx[s] EXCEPT !.found = tx[s].found \ {l},
                                 !.rows = [k \in DOMAIN tx[s].rows \cup {l} |-> NoRow]])
  BY DEF DeleteLedger
<1> DEFINE found == tx[s].found \ {l}
           rows  == [k \in DOMAIN tx[s].rows \cup {l} |-> NoRow]
           next  == [tx[s] EXCEPT !.found = found, !.rows = rows]
<1>2. tx[s] \in Tx /\ found \in SUBSET (EventId \cup Ledger)
  BY DEF TypeOK
<1>3. rows \in Rows
  <2>1. PICK D \in SUBSET Ledger : tx[s].rows \in [D -> AnyRow]
    BY <1>2 DEF Tx, Rows
  <2>2. NoRow \in AnyRow
    BY DEF NoRow, Atomic!NoRow, AnyRow
  <2>3. rows \in [D \cup {l} -> AnyRow] /\ D \cup {l} \in SUBSET Ledger
    BY <2>1, <2>2
  <2>4. QED
    BY <2>3 DEF Rows
<1>4. tx[s].at = "delete_ledgers" /\ Step(s, next)
  BY <1>1 DEF DeleteLedger
<1>5. /\ found = tx[s].found \ {l} /\ DOMAIN rows = DOMAIN tx[s].rows \cup {l}
      /\ \A k \in DOMAIN rows : rows[k] = NoRow
  OBVIOUS
<1> HIDE DEF rows, found
<1>6. /\ next \in Tx /\ next.at = tx[s].at /\ next.put = tx[s].put /\ next.cut = tx[s].cut
      /\ next.name = tx[s].name /\ next.to = tx[s].to /\ next.batch = tx[s].batch
      /\ next.hash = tx[s].hash /\ next.rows = rows /\ next.found = found
  BY <1>2, <1>3 DEF Tx
<1> HIDE DEF next
<1>7. tx'[s] = next /\ Alone(s)
  BY <1>4, <1>6, AloneStep
<1>8. QED
  BY <1>1, <1>4, <1>5, <1>6, <1>7 DEF Params

(* The events that go with those ledgers, and the end of the statement.    *)
LEMMA Cascades ==
    ASSUME TypeOK, NEW s \in Sessions, CascadeEvent(s)
    PROVE  /\ Alone(s) /\ Params(s) /\ tx[s].at = "delete_ledgers" /\ tx'[s].at = "delete_ledgers"
           /\ tx'[s].rows = tx[s].rows /\ tx'[s].put = tx[s].put
           /\ tx[s].found = {} /\ tx'[s].found = {}
           /\ \E id \in Cascade(s) : ~EventLocked(s, id) /\ tx'[s].cut = tx[s].cut \cup {id}
<1>1. PICK id \in Cascade(s) : /\ ~EventLocked(s, id)
                               /\ Step(s, [tx[s] EXCEPT !.cut = tx[s].cut \cup {id}])
  BY DEF CascadeEvent
<1> DEFINE cut  == tx[s].cut \cup {id}
           next == [tx[s] EXCEPT !.cut = cut]
<1>2. tx[s] \in Tx /\ cut \in SUBSET EventId
  BY DEF TypeOK, Tx, Cascade, Stored, Atomic!Stored, EventId
<1>3. tx[s].at = "delete_ledgers" /\ tx[s].found = {} /\ Step(s, next)
  BY <1>1 DEF CascadeEvent
<1>4. cut = tx[s].cut \cup {id}
  OBVIOUS
<1> HIDE DEF cut
<1>5. /\ next \in Tx /\ next.at = tx[s].at /\ next.put = tx[s].put /\ next.cut = cut
      /\ next.name = tx[s].name /\ next.to = tx[s].to /\ next.batch = tx[s].batch
      /\ next.hash = tx[s].hash /\ next.rows = tx[s].rows /\ next.found = tx[s].found
  BY <1>2 DEF Tx
<1> HIDE DEF next
<1>6. tx'[s] = next /\ Alone(s)
  BY <1>3, <1>5, AloneStep
<1>7. QED
  BY <1>1, <1>3, <1>4, <1>5, <1>6 DEF Params

LEMMA RemovalEnds ==
    ASSUME TypeOK, NEW s \in Sessions, EndRemoval(s)
    PROVE  /\ Alone(s) /\ Params(s) /\ tx[s].at = "delete_ledgers" /\ tx'[s].at = "commit"
           /\ tx'[s].rows = tx[s].rows /\ tx'[s].put = tx[s].put /\ tx'[s].cut = tx[s].cut
           /\ tx[s].found = {} /\ Cascade(s) = {}
<1> DEFINE next == [tx[s] EXCEPT !.at = "commit"]
<1>1. tx[s] \in Tx
  BY DEF TypeOK
<1>2. tx[s].at = "delete_ledgers" /\ tx[s].found = {} /\ Cascade(s) = {} /\ Step(s, next)
  BY DEF EndRemoval
<1>3. /\ next \in Tx /\ next.at = "commit" /\ next.put = tx[s].put /\ next.cut = tx[s].cut
      /\ next.name = tx[s].name /\ next.to = tx[s].to /\ next.batch = tx[s].batch
      /\ next.hash = tx[s].hash /\ next.rows = tx[s].rows
  BY <1>1 DEF Tx, At
<1> HIDE DEF next
<1>4. tx'[s] = next /\ Alone(s)
  BY <1>2, <1>3, AloneStep
<1>5. QED
  BY <1>2, <1>3, <1>4 DEF Params

(* ROLLBACK.                                                               *)
LEMMA Abandons ==
    ASSUME TypeOK, NEW s \in Sessions, Abandon(s)
    PROVE  Alone(s) /\ tx'[s] = Idle
BY AloneStep, IdleType DEF Abandon

(* COMMIT.                                                                 *)
LEMMA Commits ==
    ASSUME TypeOK, NEW s \in Sessions, Commit(s)
    PROVE  /\ tx[s].at = "commit" /\ tx'[s] = Idle /\ Beside(s)
           /\ tx' \in [Sessions -> Tx]
           /\ ledgers' \in [Ledger -> AnyRow]
           /\ \A l \in Ledger : ledgers'[l] = RowSeen(s, l)
           /\ events' = EventsSeen(s) /\ events' \in SUBSET Stored
           /\ checkpoints' = CheckpointsWritten(s) /\ checkpoints' \in [Names -> 0..MaxLedger]
           /\ stream' = stream
<1>1. tx[s] \in Tx /\ Idle \in Tx
  BY IdleType DEF TypeOK
<1>2. ASSUME NEW l \in Ledger PROVE RowSeen(s, l) \in AnyRow
  <2>1. PICK D \in SUBSET Ledger : tx[s].rows \in [D -> AnyRow]
    BY <1>1 DEF Tx, Rows
  <2>2. QED
    BY <2>1 DEF RowSeen, TypeOK
<1>3. EventsSeen(s) \in SUBSET Stored
  BY <1>1 DEF Tx, EventsSeen, TypeOK
<1>4. CheckpointsWritten(s) \in [Names -> 0..MaxLedger]
  BY <1>1 DEF Tx, CheckpointsWritten, TypeOK
<1>5. /\ ledgers' = [l \in Ledger |-> RowSeen(s, l)]
      /\ tx' = [t \in Sessions |-> IF t = s THEN Idle ELSE [tx[t] EXCEPT !.found = StillThere(t, s)]]
  BY DEF Commit
<1>6. ASSUME NEW t \in Sessions \ {s}
      PROVE  /\ tx'[t] \in Tx /\ Stays(t) /\ tx'[t].found = StillThere(t, s)
             /\ (tx[t] = Idle => tx'[t] = Idle)
  <2>1. tx[t] \in Tx /\ StillThere(t, s) \in SUBSET tx[t].found
    BY DEF TypeOK, StillThere
  <2>2. tx'[t] = [tx[t] EXCEPT !.found = StillThere(t, s)]
    BY <1>5
  <2>3. StillThere(t, s) \in SUBSET (EventId \cup Ledger)
    BY <2>1 DEF Tx
  <2>4. tx[t] = Idle => StillThere(t, s) = {} /\ tx[t].found = {}
    BY <2>1 DEF Idle
  <2>5. tx[t] = Idle => tx'[t] = Idle
    BY <2>2, <2>4 DEF Idle
  <2> HIDE DEF Idle
  <2>6. QED
    BY <2>1, <2>2, <2>3, <2>5 DEF Tx, Stays, Params
<1> HIDE DEF Idle
<1>9. tx'[s] = Idle /\ tx' \in [Sessions -> Tx] /\ Beside(s)
  BY <1>1, <1>5, <1>6 DEF Beside
<1>7. ledgers' \in [Ledger -> AnyRow] /\ \A l \in Ledger : ledgers'[l] = RowSeen(s, l)
  BY <1>2, <1>5
<1>8. QED
  BY <1>3, <1>4, <1>9, <1>7 DEF Commit

(* A session does one of these, or leaves its transaction alone.           *)
Moves(s) == \/ s \in Writers /\ BeginAppend(s)
            \/ (s \in Writers /\ BeginRollback(s)) \/ (s = Pruner /\ BeginPrune)
            \/ UpsertLedger(s) \/ InsertEvents(s)
            \/ ScanEvents(s) \/ DeleteEvent(s)
            \/ ScanLedgers(s) \/ DeleteLedger(s) \/ CascadeEvent(s) \/ EndRemoval(s)
            \/ Abandon(s)
Reads == OpenStream \/ ReadPage \/ CloseStream

LEMMA Steps == Next => (\E s \in Sessions : Moves(s) \/ Commit(s)) \/ Reads
BY DEF Next, Moves, Reads, Sessions

----------------------------------------------------------------------------
(* Pages.                                                                  *)

LEMMA IdsOrdered ==
    ASSUME NEW i \in Nat \X Nat, NEW j \in Nat \X Nat, NEW k \in Nat \X Nat
    PROVE  /\ ~Precedes(i, i)
           /\ Precedes(i, j) /\ Precedes(j, k) => Precedes(i, k)
           /\ Precedes(i, j) \/ Precedes(j, i) \/ i = j
BY DEF Precedes

LEMMA StoredIds == \A e \in Stored : e.id \in EventId /\ e.id \in Nat \X Nat
BY DEF Stored, Atomic!Stored, EventId, Atomic!EventId, Atomic!Ledger

(* A finite set of rows that is not empty has a last one.                  *)
Later(S, e) == {f \in S : Precedes(e.id, f.id)}

LEMMA LastOf ==
    ASSUME NEW S \in SUBSET Stored, IsFiniteSet(S), S # {}
    PROVE  \E e \in S : \A f \in S : ~Precedes(e.id, f.id)
<1> DEFINE R == {ss \in Nat \X Nat : ss[1] < ss[2]}
           Ranks == {n \in Nat : \E e \in S : n = Cardinality(Later(S, e))}
<1>1. \A e \in S : Later(S, e) \in SUBSET S /\ IsFiniteSet(Later(S, e)) /\ Cardinality(Later(S, e)) \in Nat
  BY FS_Subset, FS_CardinalityType DEF Later
<1>2. Ranks \subseteq Nat /\ Ranks # {}
  BY <1>1
<1>3. PICK n \in Ranks : \A m \in Ranks : ~(m < n)
  <2>1. IsWellFoundedOn(R, Nat)
    BY NatLessThanWellFounded DEF OpToRel
  <2>2. PICK n \in Ranks : \A m \in Ranks : ~(<<m, n>> \in R)
    <3> HIDE DEF R, Ranks
    <3>1. QED
      BY <1>2, <2>1, WFMin
  <2>3. \A m \in Ranks : ~(m < n)
    <3> SUFFICES ASSUME NEW m \in Ranks, m < n PROVE FALSE
      OBVIOUS
    <3>1. <<m, n>> \in R
      BY <1>2
    <3>2. QED
      BY <2>2, <3>1
  <2>4. QED
    BY <2>3
<1>4. PICK e \in S : n = Cardinality(Later(S, e))
  OBVIOUS
<1>5. ASSUME NEW f \in S, Precedes(e.id, f.id) PROVE FALSE
  <2> DEFINE E == Later(S, e)
             F == Later(S, f)
  <2>1. F \subseteq E /\ f \in E /\ f \notin F
    BY <1>5, StoredIds, IdsOrdered DEF Later
  <2>2. IsFiniteSet(E) /\ Cardinality(E) \in Nat /\ Cardinality(F) \in Nat
    BY <1>1
  <2>3. Cardinality(F) \in Ranks /\ n = Cardinality(E)
    BY <1>4, <2>2
  <2> HIDE DEF E, F, Ranks
  <2>4. Cardinality(F) <= Cardinality(E) /\ (Cardinality(F) = Cardinality(E) => F = E)
    BY <2>1, <2>2, FS_Subset
  <2>5. Cardinality(F) < n
    BY <2>1, <2>2, <2>3, <2>4
  <2>6. QED
    BY <1>3, <2>3, <2>5
<1>6. QED
  BY <1>5

(* What one page brings: the first rows after the position, up to the new  *)
(* one.                                                                    *)
LEMMA PageRead ==
    ASSUME TypeOK, IsFiniteSet(events), ReadPage
    PROVE  /\ stream.at = "reading" /\ UNCHANGED tables /\ UNCHANGED <<tx, held, seen>>
           /\ stream' \in Streams
           /\ \E page \in SUBSET RowsAfter(stream.after) :
                /\ stream'.got = stream.got \cup page
                /\ stream'.at = IF page = RowsAfter(stream.after) THEN "done" ELSE "reading"
                /\ \/ page = {} /\ stream'.after = stream.after
                   \/ \E last \in page : last.id = stream'.after
                /\ \A e \in page : ~Precedes(stream'.after, e.id)
                /\ \A e \in page, f \in RowsAfter(stream.after) :
                     Precedes(f.id, e.id) => f \in page
<1> DEFINE rest == RowsAfter(stream.after)
           before(e) == {f \in rest : Precedes(f.id, e.id)}
           page == {e \in rest : Cardinality(before(e)) < PageSize}
           last == IF page = {} THEN stream.after
                   ELSE CHOOSE i \in {e.id : e \in page} : \A e \in page : ~Precedes(i, e.id)
<1>1. /\ stream.at = "reading" /\ UNCHANGED tables /\ UNCHANGED <<tx, held, seen>>
      /\ stream' = [at |-> IF page = rest THEN "done" ELSE "reading",
                    after |-> last, got |-> stream.got \cup page]
  BY DEF ReadPage, tables
<1>2. rest \in SUBSET events /\ page \in SUBSET rest /\ rest \in SUBSET Stored /\ IsFiniteSet(rest)
      /\ stream \in Streams
  <2>1. rest \in SUBSET events
    BY DEF RowsAfter
  <2>2. QED
    BY <2>1, FS_Subset DEF TypeOK
<1>3. page # {} => last \in {e.id : e \in page} /\ \A e \in page : ~Precedes(last, e.id)
  <2> SUFFICES ASSUME page # {} PROVE \E i \in {e.id : e \in page} : \A e \in page : ~Precedes(i, e.id)
    OBVIOUS
  <2>1. page \in SUBSET Stored /\ IsFiniteSet(page)
    BY <1>2, FS_Subset
  <2> HIDE DEF page
  <2>2. QED
    BY <2>1, LastOf
<1>4. last \in Cursors
  <2>1. page # {} => last \in EventId
    BY <1>2, <1>3, StoredIds
  <2>2. QED
    BY <1>2, <2>1 DEF Streams, Cursors
<1>5. ASSUME NEW e \in page, NEW f \in rest, Precedes(f.id, e.id) PROVE f \in page
  <2>1. before(f) \subseteq before(e)
    <3> SUFFICES ASSUME NEW g \in rest, Precedes(g.id, f.id) PROVE Precedes(g.id, e.id)
      OBVIOUS
    <3>1. g.id \in Nat \X Nat /\ f.id \in Nat \X Nat /\ e.id \in Nat \X Nat
      BY <1>2, StoredIds
    <3>2. QED
      BY <1>5, <3>1, IdsOrdered
  <2>2. IsFiniteSet(before(e)) /\ Cardinality(before(e)) \in Nat
    BY <1>2, FS_Subset, FS_CardinalityType
  <2>3. Cardinality(before(f)) <= Cardinality(before(e)) /\ Cardinality(before(f)) \in Nat
    <3> HIDE DEF before
    <3>1. QED
      BY <2>1, <2>2, FS_Subset, FS_CardinalityType
  <2>4. Cardinality(before(f)) < PageSize
    <3> HIDE DEF before, rest
    <3>1. Cardinality(before(e)) < PageSize /\ PageSize \in Nat
      OBVIOUS
    <3>2. QED
      BY <2>2, <2>3, <3>1
  <2>5. QED
    BY <2>4
<1> HIDE DEF page, last
<1>6. stream' \in Streams
  <2>1. stream.got \cup page \in SUBSET Stored
    BY <1>2 DEF Streams
  <2>2. QED
    BY <1>1, <1>4, <2>1 DEF Streams
<1>7. stream'.got = stream.got \cup page /\ stream'.after = last
      /\ stream'.at = IF page = rest THEN "done" ELSE "reading"
  BY <1>1
<1>8. page = {} => last = stream.after
  BY DEF last
<1>9. \A e \in page : ~Precedes(stream'.after, e.id)
  BY <1>3, <1>7
<1>10. (page = {} /\ stream'.after = stream.after) \/ \E r \in page : r.id = stream'.after
  BY <1>3, <1>7, <1>8
<1>11. \A e \in page, f \in rest : Precedes(f.id, e.id) => f \in page
  BY <1>5
<1>12. QED
  BY <1>1, <1>2, <1>6, <1>7, <1>9, <1>10, <1>11

----------------------------------------------------------------------------
(* Types and stages.                                                       *)

Typed == /\ TypeOK /\ IsFiniteSet(events)
         /\ \A s \in Sessions : Stage(s) /\ IsFiniteSet(tx[s].put)

LEMMA BatchFinite == \A s \in Sessions : IsFiniteSet(Batch(s))
<1> SUFFICES ASSUME NEW s \in Sessions PROVE IsFiniteSet(Batch(s))
  OBVIOUS
<1> DEFINE ids == {j \in EventId : j[1] \in DOMAIN tx[s].batch /\ j[2] <= tx[s].batch[j[1]]}
           row(i) == [id |-> i, hash |-> tx[s].hash]
<1>1. IsFiniteSet(EventId)
  <2>1. IsFiniteSet(1..MaxLedger) /\ IsFiniteSet(1..MaxPerLedger)
    BY FS_Interval
  <2>2. IsFiniteSet((1..MaxLedger) \X (1..MaxPerLedger))
    BY <2>1, FS_Product
  <2>3. QED
    BY <2>2 DEF EventId, Atomic!EventId, Atomic!Ledger
<1>2. IsFiniteSet(ids)
  <2>1. ids \subseteq EventId
    OBVIOUS
  <2>2. QED
    BY <1>1, <2>1, FS_Subset
<1>3. Batch(s) = {row(i) : i \in ids}
  BY DEF Batch
<1> HIDE DEF ids
<1>4. [i \in ids |-> row(i)] \in Surjection(ids, {row(i) : i \in ids})
  BY DEF Surjection
<1>5. QED
  BY <1>2, <1>3, <1>4, FS_Surjection

(* A transaction that is left alone is at the stage it was at.             *)
LEMMA StageKept ==
    ASSUME NEW t, tx'[t] = tx[t], Stage(t)
    PROVE  Stage(t)'
BY DEF Stage, Appends, Removes, Idle

LEMMA StageBeside ==
    ASSUME NEW t, Stays(t), tx'[t].found \subseteq tx[t].found, tx[t] = Idle => tx'[t] = Idle, Stage(t)
    PROVE  Stage(t)'
<1> HIDE DEF Idle
<1>1. QED
  BY DEF Stage, Appends, Removes, Stays, Params

LEMMA Aims ==
    ASSUME TypeOK, NEW s \in Sessions, Stage(s), tx[s].at # "idle"
    PROVE  \/ Appends(s) /\ tx[s].cut = {} /\ tx[s].at \in {"upsert", "commit"}
           \/ Removes(s) /\ tx[s].put = {}
<1>1. tx[s].at \in At
  BY DEF TypeOK, Tx
<1>2. QED
  BY <1>1 DEF At, Stage

LEMMA MoveTyped ==
    ASSUME Typed, NEW s \in Sessions, Moves(s)
    PROVE  Alone(s) /\ Stage(s)' /\ IsFiniteSet(tx'[s].put)
<1>0. TypeOK /\ Stage(s) /\ IsFiniteSet(tx[s].put) /\ Pruner \notin Writers
      /\ Idle.put = {} /\ Idle.at = "idle" /\ IsFiniteSet({})
  BY FS_EmptySet DEF Typed, Idle
<1>1. CASE s \in Writers /\ BeginAppend(s)
  <2>1. NameOf[s] \in Names /\ s # Pruner
    BY <1>1
  <2>2. QED
    BY <1>0, <1>1, <2>1, AppendBegins DEF Stage, Appends, Removes
<1>2. CASE (s \in Writers /\ BeginRollback(s)) \/ (s = Pruner /\ BeginPrune)
  BY <1>0, <1>2, RemovalBegins DEF Stage, Removes
<1>3. CASE UpsertLedger(s)
  BY <1>0, <1>3, Upserts DEF Stage, Appends, Params
<1>4. CASE InsertEvents(s)
  <2>1. tx[s].at = "upsert" /\ tx[s].hash \in Hashes
    BY <1>0, <1>4 DEF InsertEvents, Stage
  <2>2. tx'[s].put \subseteq Batch(s)
    BY <1>0, <1>4, <2>1, Inserts
  <2>3. IsFiniteSet(tx'[s].put)
    BY <2>2, BatchFinite, FS_Subset
  <2>4. QED
    BY <1>0, <1>4, <2>1, <2>3, Inserts DEF Stage, Appends, Params
<1>5. CASE ScanEvents(s)
  <2>1. Victims(s) \subseteq EventId
    BY <1>0 DEF TypeOK, Victims, Stored, Atomic!Stored, EventId
  <2>2. QED
    BY <1>0, <1>5, <2>1, Scans DEF Stage, Removes, Params
<1>6. CASE DeleteEvent(s)
  <2>1. tx[s].found \subseteq EventId
    BY <1>0, <1>6 DEF Stage, DeleteEvent
  <2>2. QED
    BY <1>0, <1>6, <2>1, EventDeletes DEF Stage, Removes, Params
<1>7. CASE ScanLedgers(s)
  BY <1>0, <1>7, LedgerScans DEF Stage, Removes, Params, Present
<1>8. CASE DeleteLedger(s)
  <2>1. tx[s].found \subseteq Ledger
    BY <1>0, <1>8 DEF Stage, DeleteLedger
  <2>2. QED
    BY <1>0, <1>8, <2>1, LedgerDeletes DEF Stage, Removes, Params
<1>9. CASE CascadeEvent(s)
  BY <1>0, <1>9, Cascades DEF Stage, Removes, Params
<1>10. CASE EndRemoval(s)
  BY <1>0, <1>10, RemovalEnds DEF Stage, Removes, Params
<1>11. CASE Abandon(s)
  BY <1>0, <1>11, Abandons DEF Stage, Idle
<1>12. QED
  BY <1>1, <1>2, <1>3, <1>4, <1>5, <1>6, <1>7, <1>8, <1>9, <1>10, <1>11 DEF Moves

LEMMA TypedStep == Typed /\ [Next]_vars => Typed'
<1> SUFFICES ASSUME Typed, [Next]_vars PROVE Typed'
  OBVIOUS
<1>1. ASSUME NEW s \in Sessions, Moves(s) PROVE Typed'
  <2>1. Alone(s) /\ Stage(s)' /\ IsFiniteSet(tx'[s].put)
    BY <1>1, MoveTyped
  <2>2. \A t \in Sessions : Stage(t)' /\ IsFiniteSet(tx'[t].put)
    BY <2>1, StageKept DEF Typed, Alone
  <2>3. TypeOK'
    BY <2>1 DEF Typed, TypeOK, Alone, tables, reading
  <2>4. QED
    BY <2>1, <2>2, <2>3 DEF Typed, Alone, tables
<1>2. ASSUME NEW s \in Sessions, Commit(s) PROVE Typed'
  <2>1. TypeOK /\ IsFiniteSet(events) /\ IsFiniteSet(tx[s].put)
    BY DEF Typed
  <2>2. /\ tx'[s] = Idle /\ Beside(s)
        /\ tx' \in [Sessions -> Tx] /\ ledgers' \in [Ledger -> AnyRow]
        /\ events' = EventsSeen(s) /\ events' \in SUBSET Stored
        /\ checkpoints' \in [Names -> 0..MaxLedger] /\ stream' = stream
    BY <1>2, <2>1, Commits
  <2>3. held' \in SUBSET Stored /\ seen' \in SUBSET Stored
    BY <1>2, <2>1, <2>2 DEF Commit, TypeOK
  <2>4. IsFiniteSet(events')
    <3>1. {e \in events : e.id \notin tx[s].cut} \subseteq events
      OBVIOUS
    <3>2. QED
      BY <2>1, <2>2, <3>1, FS_Subset, FS_Union DEF EventsSeen
  <2>5. Stage(s)' /\ IsFiniteSet(tx'[s].put)
    BY <2>2, FS_EmptySet DEF Stage, Idle
  <2>6. \A t \in Sessions : Stage(t)' /\ IsFiniteSet(tx'[t].put)
    <3>1. ASSUME NEW t \in Sessions \ {s} PROVE Stage(t)' /\ IsFiniteSet(tx'[t].put)
      <4>1. /\ Stays(t) /\ tx'[t].found \subseteq tx[t].found /\ (tx[t] = Idle => tx'[t] = Idle)
            /\ Stage(t) /\ IsFiniteSet(tx[t].put)
        BY <2>2 DEF Beside, StillThere, Typed
      <4>2. QED
        BY <4>1, StageBeside DEF Stays
    <3>2. QED
      BY <2>5, <3>1
  <2>7. TypeOK'
    BY <2>1, <2>2, <2>3 DEF TypeOK
  <2>8. QED
    BY <2>4, <2>6, <2>7 DEF Typed
<1>3. ASSUME UNCHANGED <<tables, tx>>, stream' \in Streams, held' \in SUBSET Stored, seen' \in SUBSET Stored
      PROVE  Typed'
  <2>1. \A t \in Sessions : Stage(t)'
    BY <1>3, StageKept DEF Typed
  <2>2. QED
    BY <1>3, <2>1 DEF Typed, TypeOK, tables
<1>4. CASE Reads
  <2>1. CASE ReadPage
    BY <1>3, <2>1, PageRead DEF Typed, TypeOK
  <2>2. CASE OpenStream \/ CloseStream
    <3>1. stream' \in Streams
      BY <2>2 DEF OpenStream, CloseStream, Streams, Cursors
    <3>2. QED
      BY <1>3, <2>2, <3>1 DEF OpenStream, CloseStream, Typed, TypeOK
  <2>3. QED
    BY <1>4, <2>1, <2>2 DEF Reads
<1>5. CASE UNCHANGED vars
  BY <1>3, <1>5 DEF vars, tables, Typed, TypeOK
<1>6. QED
  BY <1>1, <1>2, <1>4, <1>5, Steps

LEMMA TypedInit == Init => Typed
<1> SUFFICES ASSUME Init PROVE Typed
  OBVIOUS
<1>1. NoRow \in AnyRow
  BY DEF NoRow, Atomic!NoRow, AnyRow
<1>2. ledgers \in [Ledger -> AnyRow] /\ events = {} /\ checkpoints \in [Names -> 0..MaxLedger]
  BY <1>1 DEF Init, Atomic!Init, Ledger, NoRow
<1>3. tx \in [Sessions -> Tx] /\ \A s \in Sessions : tx[s] = Idle
  BY IdleType DEF Init
<1>4. stream \in Streams /\ held = {} /\ seen = {}
  BY DEF Init, Streams, Cursors
<1>5. \A s \in Sessions : Stage(s) /\ IsFiniteSet(tx[s].put)
  <2> SUFFICES ASSUME NEW s \in Sessions PROVE Stage(s) /\ IsFiniteSet(tx[s].put)
    OBVIOUS
  <2>1. tx[s] = Idle /\ Idle.at = "idle" /\ Idle.put = {}
    BY <1>3 DEF Idle
  <2> HIDE DEF Idle
  <2>2. QED
    BY <2>1, FS_EmptySet DEF Stage
<1>6. QED
  BY <1>2, <1>3, <1>4, <1>5, FS_EmptySet DEF Typed, TypeOK

LEMMA TypesHold == Spec => []Typed
<1>1. Init => Typed
  BY TypedInit
<1>2. Typed /\ [Next]_vars => Typed'
  BY TypedStep
<1>3. QED
  BY <1>1, <1>2, PTL DEF Spec

----------------------------------------------------------------------------
(* Events keep to one row each, with any writers.                          *)

LEMMA IdStep == Typed /\ Typed' /\ IdInv /\ [Next]_vars => IdInv'
<1> SUFFICES ASSUME Typed, Typed', IdInv, [Next]_vars PROVE IdInv'
  OBVIOUS
<1>0. TypeOK /\ \A s \in Sessions : Stage(s)
  BY DEF Typed
(* What is put together later than what is there, or by others, is new.    *)
<1>1. ASSUME NEW s \in Sessions, Alone(s),
             PutFresh(s)', \A t \in Sessions \ {s} : PutApart(s, t)' /\ PutApart(t, s)'
      PROVE  IdInv'
  <2>1. events' = events /\ \A t \in Sessions \ {s} : tx'[t] = tx[t]
    BY <1>1 DEF Alone, tables
  <2>2. OneRow'
    BY <2>1 DEF IdInv, OneRow
  <2>3. \A t \in Sessions \ {s} : PutFresh(t)'
    BY <2>1 DEF IdInv, PutFresh
  <2>4. \A t, u \in Sessions \ {s} : t # u => PutApart(t, u)'
    BY <2>1 DEF IdInv, PutApart
  <2>5. QED
    BY <1>1, <2>2, <2>3, <2>4 DEF IdInv
<1>2. ASSUME NEW s \in Sessions, Alone(s), tx'[s].put = {} \/ tx'[s].put = tx[s].put
      PROVE  IdInv'
  <2>1. events' = events /\ \A t \in Sessions \ {s} : tx'[t] = tx[t]
    BY <1>2 DEF Alone, tables
  <2>2. PutFresh(s)'
    BY <1>2, <2>1 DEF IdInv, PutFresh
  <2>3. \A t \in Sessions \ {s} : PutApart(s, t)' /\ PutApart(t, s)'
    BY <1>2, <2>1 DEF IdInv, PutApart
  <2>4. QED
    BY <1>1, <1>2, <2>2, <2>3
<1>3. ASSUME NEW s \in Sessions, InsertEvents(s) PROVE IdInv'
  <2>1. tx[s].at = "upsert" /\ tx[s].hash \in Hashes /\ tx[s].cut = {} /\ tx[s].put = {}
    BY <1>0, <1>3 DEF InsertEvents, Stage
  <2>2. /\ Alone(s) /\ \A e \in Batch(s) : ~EventLocked(s, e.id)
        /\ tx'[s].put = {e \in Batch(s) : \A f \in EventsSeen(s) : f.id # e.id}
    BY <1>0, <1>3, <2>1, Inserts
  <2>3. events' = events /\ \A t \in Sessions \ {s} : tx'[t] = tx[t]
    BY <2>2 DEF Alone, tables
  <2>4. EventsSeen(s) = events
    BY <2>1 DEF EventsSeen
  <2>5. \A e, f \in Batch(s) : e.id = f.id => e = f
    BY DEF Batch
  <2>6. PutFresh(s)'
    BY <2>2, <2>3, <2>4, <2>5 DEF PutFresh
  <2>7. \A t \in Sessions \ {s} : PutApart(s, t)' /\ PutApart(t, s)'
    BY <2>2, <2>3 DEF EventLocked, PutApart
  <2>8. QED
    BY <1>1, <2>2, <2>6, <2>7
<1>4. ASSUME NEW s \in Sessions, Moves(s) PROVE IdInv'
  <2>1. CASE InsertEvents(s)
    BY <1>3, <2>1
  <2>2. CASE ~InsertEvents(s)
    <3>1. Alone(s)
      BY <1>4, MoveTyped
    <3>2. tx'[s].put = {} \/ tx'[s].put = tx[s].put
      <4>1. CASE s \in Writers /\ BeginAppend(s)
        BY <1>0, <4>1, AppendBegins
      <4>2. CASE (s \in Writers /\ BeginRollback(s)) \/ (s = Pruner /\ BeginPrune)
        BY <1>0, <4>2, RemovalBegins
      <4>3. CASE \/ UpsertLedger(s) \/ ScanEvents(s) \/ ScanLedgers(s)
                 \/ CascadeEvent(s) \/ EndRemoval(s)
        BY <1>0, <4>3, Upserts, Scans, LedgerScans, Cascades, RemovalEnds
      <4>4. CASE DeleteEvent(s) \/ DeleteLedger(s)
        BY <1>0, <4>4, EventDeletes, LedgerDeletes DEF DeleteEvent, DeleteLedger, Stage
      <4>5. CASE Abandon(s)
        BY <1>0, <4>5, Abandons DEF Idle
      <4>6. QED
        BY <1>4, <2>2, <4>1, <4>2, <4>3, <4>4, <4>5 DEF Moves
    <3>3. QED
      BY <1>2, <3>1, <3>2
  <2>3. QED
    BY <2>1, <2>2
<1>5. ASSUME NEW s \in Sessions, Commit(s) PROVE IdInv'
  <2>1. /\ tx'[s] = Idle /\ \A t \in Sessions \ {s} : tx'[t].put = tx[t].put
        /\ events' = EventsSeen(s)
    BY <1>0, <1>5, Commits DEF Beside, Stays
  <2>2. \A e \in events' : e \in events \/ e \in tx[s].put
    BY <2>1 DEF EventsSeen
  <2>3. OneRow'
    BY <2>2 DEF IdInv, OneRow, PutFresh
  <2>4. \A t \in Sessions \ {s} : PutFresh(t)'
    BY <2>1, <2>2 DEF IdInv, PutFresh, PutApart
  <2>5. tx'[s].put = {}
    BY <2>1 DEF Idle
  <2>6. PutFresh(s)'
    BY <2>5 DEF PutFresh
  <2>7. \A t, u \in Sessions : t # u => PutApart(t, u)'
    BY <2>1, <2>5 DEF IdInv, PutApart
  <2>8. QED
    BY <2>3, <2>4, <2>6, <2>7 DEF IdInv
<1>6. ASSUME UNCHANGED <<tables, tx>> PROVE IdInv'
  BY <1>6 DEF IdInv, OneRow, PutFresh, PutApart, tables
<1>7. CASE Reads \/ UNCHANGED vars
  <2>1. UNCHANGED <<tables, tx>>
    BY <1>7 DEF Reads, OpenStream, ReadPage, CloseStream, vars, tables
  <2>2. QED
    BY <1>6, <2>1
<1>8. QED
  BY <1>4, <1>5, <1>7, Steps

LEMMA IdInit == Init => IdInv
<1> SUFFICES ASSUME Init PROVE IdInv
  OBVIOUS
<1>1. events = {} /\ \A s \in Sessions : tx[s].put = {}
  BY DEF Init, Atomic!Init, Idle
<1>2. QED
  BY <1>1 DEF IdInv, OneRow, PutFresh, PutApart

(* The stream keeps up with what commits between its pages.                *)
LEMMA StreamStep == Typed /\ IdInv /\ StreamInv /\ [Next]_vars => StreamInv'
<1> SUFFICES ASSUME Typed, IdInv, StreamInv, [Next]_vars PROVE StreamInv'
  OBVIOUS
<1>0. TypeOK /\ IsFiniteSet(events) /\ OneRow
  BY DEF Typed, IdInv
<1>1. CASE UNCHANGED <<tables, reading>>
  BY <1>1 DEF StreamInv, tables, reading
<1>2. ASSUME NEW s \in Sessions, Commit(s) PROVE StreamInv'
  <2>1. stream' = stream
        /\ held' = (IF stream.at = "reading" THEN held \cap events' ELSE held)
        /\ seen' = (IF stream.at = "reading" THEN seen \cup events' ELSE seen)
    BY <1>2 DEF Commit
  <2>2. QED
    BY <2>1 DEF StreamInv
<1>3. CASE OpenStream
  <2>1. /\ stream'.at = "reading" /\ stream'.after = <<0, 0>> /\ stream'.got = {}
        /\ held' = events /\ seen' = events /\ events' = events
    BY <1>3 DEF OpenStream, tables
  <2>2. \A e \in events : Precedes(<<0, 0>>, e.id)
    <3> SUFFICES ASSUME NEW e \in events PROVE Precedes(<<0, 0>>, e.id)
      OBVIOUS
    <3>1. e.id \in Nat \X Nat /\ e.id[1] \in 1..MaxLedger
      BY <1>0, StoredIds DEF TypeOK, EventId, Atomic!EventId, Atomic!Ledger
    <3>2. QED
      BY <3>1 DEF Precedes
  <2>3. QED
    BY <2>1, <2>2, FS_EmptySet DEF StreamInv
<1>4. CASE CloseStream
  <2>1. stream'.at = "closed" /\ stream'.got = {}
    BY <1>4 DEF CloseStream
  <2>2. QED
    BY <2>1, FS_EmptySet DEF StreamInv
<1>5. CASE ReadPage
  <2>1. /\ stream.at = "reading" /\ events' = events /\ held' = held /\ seen' = seen
        /\ stream' \in Streams /\ stream \in Streams
    BY <1>0, <1>5, PageRead DEF tables, TypeOK
  <2>2. PICK page \in SUBSET RowsAfter(stream.after) :
          /\ stream'.got = stream.got \cup page
          /\ stream'.at = IF page = RowsAfter(stream.after) THEN "done" ELSE "reading"
          /\ \/ page = {} /\ stream'.after = stream.after
             \/ \E last \in page : last.id = stream'.after
          /\ \A e \in page : ~Precedes(stream'.after, e.id)
          /\ \A e \in page, f \in RowsAfter(stream.after) : Precedes(f.id, e.id) => f \in page
    BY <1>0, <1>5, PageRead
  <2>3. /\ held \subseteq events /\ events \subseteq seen /\ stream.got \subseteq seen
        /\ IsFiniteSet(stream.got)
        /\ \A e, f \in stream.got : e.id = f.id => e = f
        /\ \A e \in held : Precedes(stream.after, e.id) \/ e \in stream.got
        /\ \A e \in stream.got : ~Precedes(stream.after, e.id)
    BY <2>1 DEF StreamInv
  <2>4. page \in SUBSET events /\ \A e \in page : Precedes(stream.after, e.id)
    BY DEF RowsAfter
  <2>5. /\ stream.after \in Nat \X Nat /\ stream'.after \in Nat \X Nat
        /\ \A e \in events \cup stream.got : e.id \in Nat \X Nat
    <3>1. \A c \in Cursors : c \in Nat \X Nat
      BY DEF Cursors, EventId, Atomic!EventId, Atomic!Ledger
    <3>2. QED
      BY <1>0, <2>1, <3>1, StoredIds DEF Streams, TypeOK
  <2>6. IsFiniteSet(stream'.got)
    <3>1. IsFiniteSet(page)
      BY <1>0, <2>4, FS_Subset
    <3>2. IsFiniteSet(stream.got \cup page)
      BY <2>3, <3>1, FS_Union
    <3>3. QED
      BY <2>2, <3>2
  <2>7. \A e, f \in stream'.got : e.id = f.id => e = f
    BY <1>0, <2>2, <2>3, <2>4 DEF OneRow
  <2>8. \A e \in held : Precedes(stream'.after, e.id) \/ e \in stream'.got
    <3> SUFFICES ASSUME NEW e \in held, ~Precedes(stream'.after, e.id), e \notin stream.got
                 PROVE  e \in page
      BY <2>2
    <3>1. e \in RowsAfter(stream.after)
      BY <2>3 DEF RowsAfter
    <3>2. PICK last \in page : last.id = stream'.after
      BY <2>2, <2>3
    <3>3. Precedes(e.id, last.id) \/ e.id = last.id
      BY <2>3, <2>5, <3>2, IdsOrdered
    <3>4. QED
      BY <1>0, <2>2, <2>3, <2>4, <3>1, <3>2, <3>3 DEF OneRow
  <2>9. \A e \in stream'.got : ~Precedes(stream'.after, e.id)
    <3> SUFFICES ASSUME NEW e \in stream.got, Precedes(stream'.after, e.id) PROVE FALSE
      BY <2>2
    <3>1. ~Precedes(stream.after, e.id)
      BY <2>3
    <3>2. PICK last \in page : last.id = stream'.after
      BY <2>2, <3>1
    <3>3. Precedes(stream.after, last.id)
      BY <2>4
    <3>4. QED
      BY <2>5, <3>1, <3>2, <3>3, IdsOrdered
  <2>10. stream'.at = "done" => held \subseteq stream'.got
    <3> SUFFICES ASSUME stream'.at = "done", NEW e \in held, e \notin stream.got PROVE e \in page
      BY <2>2
    <3>1. page = RowsAfter(stream.after)
      BY <2>2
    <3>2. QED
      BY <2>3, <3>1 DEF RowsAfter
  <2>11. stream'.got \subseteq seen
    BY <2>2, <2>3, <2>4
  <2>12. QED
    BY <2>1, <2>3, <2>6, <2>7, <2>8, <2>9, <2>10, <2>11 DEF StreamInv
<1>6. \A s \in Sessions : Moves(s) => UNCHANGED <<tables, reading>>
  BY MoveTyped DEF Alone
<1>7. QED
  BY <1>1, <1>2, <1>3, <1>4, <1>5, <1>6, Steps DEF Reads, vars, tables, reading

LEMMA StreamInit == Init => StreamInv
BY FS_EmptySet DEF Init, StreamInv

(* One row for each event.                                                 *)
LEMMA AsManyIds ==
    ASSUME NEW S, IsFiniteSet(S), \A e, f \in S : e.id = f.id => e = f
    PROVE  IsFiniteSet({e.id : e \in S}) /\ Cardinality({e.id : e \in S}) = Cardinality(S)
<1>1. [e \in S |-> e.id] \in Bijection(S, {e.id : e \in S})
  BY DEF Bijection, Injection, Surjection, IsInjective
<1>2. ExistsBijection(S, {e.id : e \in S})
  BY <1>1 DEF ExistsBijection
<1>3. QED
  BY <1>2, FS_Bijection

(* A range streamed while any writers and the prune commit has each event  *)
(* once, every event that was there throughout and none that never was.    *)
THEOREM StreamsAreComplete == Spec => []StreamComplete
<1>1. Init => IdInv /\ StreamInv
  BY IdInit, StreamInit
<1>2. Typed /\ Typed' /\ IdInv /\ [Next]_vars => IdInv'
  BY IdStep
<1>3. Typed /\ IdInv /\ StreamInv /\ [Next]_vars => StreamInv'
  BY StreamStep
<1>4. StreamInv => StreamComplete
  BY AsManyIds DEF StreamInv, StreamComplete
<1>5. QED
  BY <1>1, <1>2, <1>3, <1>4, TypesHold, PTL DEF Spec

----------------------------------------------------------------------------
(* One writer.                                                             *)

(* An event has its ledger's row, and lies at or below the checkpoint.     *)
LEMMA RowOf ==
    ASSUME TypeOK, Tables, NEW e \in events
    PROVE  /\ e.id \in EventId /\ e.id[1] \in Ledger /\ ledgers[e.id[1]] # NoRow
           /\ e.id[2] <= ledgers[e.id[1]].count
           /\ \A s \in Writers : e.id[1] <= checkpoints[NameOf[s]]
<1>1. e.id \in EventId /\ e.id[1] \in Ledger /\ e.id[2] \in Nat /\ e.id[2] > 0
  BY StoredIds DEF TypeOK, EventId, Atomic!EventId, Ledger, Atomic!Ledger
<1>2. e.id \in IdsAt(e.id[1])
  BY DEF IdsAt
<1>3. e.id[2] <= ledgers[e.id[1]].count
  BY <1>1, <1>2 DEF Tables, Counted
<1>4. NoRow.count = 0
  BY DEF NoRow, Atomic!NoRow
<1>5. ledgers[e.id[1]] # NoRow
  BY <1>1, <1>3, <1>4
<1>6. QED
  BY <1>1, <1>3, <1>5 DEF Tables, Behind

LEMMA RowsOf ==
    ASSUME TypeOK, NEW s \in Sessions
    PROVE  DOMAIN tx[s].rows \subseteq Ledger
<1>1. tx[s].rows \in Rows
  BY DEF TypeOK, Tx
<1>2. QED
  BY <1>1 DEF Rows

(* What a statement does not change of the transaction's aim.              *)
LEMMA SameAim ==
    ASSUME NEW s \in Sessions, Params(s)
    PROVE  /\ Removes(s)' = Removes(s) /\ Appends(s)' = Appends(s) /\ Batch(s)' = Batch(s)
           /\ \A l : Doomed(s, l)' = Doomed(s, l)
BY DEF Params, Removes, Appends, Batch, Doomed

(* A transaction either appends or removes.                                *)
LEMMA EitherAim ==
    ASSUME NEW s \in Sessions
    PROVE  ~(Appends(s) /\ Removes(s)) /\ ~(Appends(s) /\ tx[s].name = "rollback")
<1>1. s \in Writers => NameOf[s] \notin {"rollback", "prune"}
  OBVIOUS
<1>2. QED
  BY <1>1 DEF Appends, Removes

(* What the others have in hand, while one takes a step alone.             *)
LEMMA SoleKept ==
    ASSUME NEW s \in Sessions, SoleInv, Alone(s),
           Appending(s)', Removing(s)', Rewinding(s)',
           \A t \in Sessions \ {s} : Apart(s, t)'
    PROVE  SoleInv'
<1>1. /\ ledgers' = ledgers /\ events' = events /\ checkpoints' = checkpoints
      /\ \A t \in Sessions \ {s} : tx'[t] = tx[t]
  BY DEF Alone, tables
<1>2. Tables'
  BY <1>1 DEF SoleInv, Tables, Counted, Hashed, Behind, IdsAt
<1>3. ASSUME NEW t \in Sessions \ {s} PROVE Appending(t)' /\ Removing(t)' /\ Rewinding(t)'
  <2>1. tx'[t] = tx[t] /\ Appending(t) /\ Removing(t) /\ Rewinding(t)
    BY <1>1 DEF SoleInv
  <2>2. Appending(t)'
    BY <1>1, <2>1 DEF Appending, Appends, Batch
  <2>3. Removing(t)'
    BY <1>1, <2>1 DEF Removing, Removes, Doomed, Committed
  <2>4. Rewinding(t)'
    BY <1>1, <2>1 DEF Rewinding, Victims, Present, Doomed
  <2>5. QED
    BY <2>2, <2>3, <2>4
<1>4. \A t, u \in Sessions : t # u => Apart(t, u)'
  <2>1. \A t, u \in Sessions \ {s} : t # u => Apart(t, u)'
    BY <1>1 DEF SoleInv, Apart
  <2>2. \A t \in Sessions \ {s} : Apart(t, s)'
    BY DEF Apart
  <2>3. QED
    BY <2>1, <2>2
<1>5. QED
  BY <1>2, <1>3, <1>4 DEF SoleInv

(* A step that takes no row of another's keeps apart from it.              *)
LEMMA ApartKept ==
    ASSUME NEW s \in Sessions, SoleInv, Alone(s),
           \A id \in tx'[s].cut : id \in tx[s].cut \/ ~EventLocked(s, id),
           \A l \in DOMAIN tx'[s].rows : l \in DOMAIN tx[s].rows \/ ~RowLocked(s, l)
    PROVE  \A t \in Sessions \ {s} : Apart(s, t)'
<1> SUFFICES ASSUME NEW t \in Sessions \ {s} PROVE Apart(s, t)'
  OBVIOUS
<1>1. tx'[t] = tx[t] /\ Apart(s, t)
  BY DEF Alone, SoleInv
<1>2. QED
  BY <1>1 DEF Apart, EventLocked, RowLocked

LEMMA AppendMoves ==
    ASSUME Sole, Typed, SoleInv, NEW s \in Sessions,
           (s \in Writers /\ BeginAppend(s)) \/ UpsertLedger(s) \/ InsertEvents(s)
    PROVE  SoleInv'
<1>0. TypeOK /\ Stage(s) /\ Tables /\ Appending(s)
  BY DEF Typed, SoleInv
<1>1. CASE s \in Writers /\ BeginAppend(s)
  <2>1. /\ Alone(s) /\ tx'[s].at = "upsert" /\ tx'[s].name = NameOf[s] /\ tx'[s].hash \in Hashes
        /\ tx'[s].put = {} /\ tx'[s].cut = {} /\ DOMAIN tx'[s].rows = {}
        /\ tx'[s].to \in DOMAIN tx'[s].batch
        /\ \A l \in DOMAIN tx'[s].batch : checkpoints[NameOf[s]] < l /\ l <= tx'[s].to
    BY <1>0, <1>1, AppendBegins
  <2>2. checkpoints' = checkpoints
    BY <2>1 DEF Alone, tables
  <2>3. Appending(s)'
    BY <2>1, <2>2 DEF Appending
  <2>4. NameOf[s] \notin {"rollback", "prune"}
    BY <1>1
  <2>5. Removing(s)' /\ Rewinding(s)'
    BY <2>1, <2>4 DEF Removing, Rewinding, Removes
  <2>6. \A t \in Sessions \ {s} : Apart(s, t)'
    BY <2>1, ApartKept
  <2>7. QED
    BY <2>1, <2>3, <2>5, <2>6, SoleKept
<1>2. CASE UpsertLedger(s)
  <2>1. /\ Alone(s) /\ Params(s) /\ tx[s].at = "upsert" /\ tx'[s].at = "upsert"
        /\ tx'[s].cut = tx[s].cut
    BY <1>0, <1>2, Upserts
  <2>2. PICK l \in DOMAIN tx[s].batch :
          /\ ~RowLocked(s, l)
          /\ DOMAIN tx'[s].rows = DOMAIN tx[s].rows \cup {l}
          /\ \A k \in DOMAIN tx[s].rows : tx'[s].rows[k] = tx[s].rows[k]
          /\ l \notin DOMAIN tx[s].rows /\ tx'[s].rows[l] = UpsertedRow(s, l)
    BY <1>0, <1>2, Upserts
  <2>3. Appends(s)
    BY <1>0, <2>1 DEF Stage
  <2>4. l \in Ledger /\ checkpoints[NameOf[s]] < l /\ checkpoints[NameOf[s]] \in Nat
    <3>1. tx[s].batch \in Batches /\ checkpoints[NameOf[s]] \in Nat
      BY <2>3 DEF TypeOK, Tx, Appends, Typed
    <3>2. l \in Ledger
      BY <3>1 DEF Batches
    <3>3. QED
      BY <1>0, <2>1, <2>3, <3>1, <3>2 DEF Appending
  <2>5. ledgers[l] = NoRow
    BY <1>0, <2>3, <2>4 DEF Tables, Behind, Appends, Ledger, Atomic!Ledger
  <2>6. tx'[s].rows[l] = [hash |-> tx[s].hash, count |-> tx[s].batch[l]]
    BY <2>2, <2>5 DEF UpsertedRow, RowSeen
  <2>7. Appending(s)'
    BY <1>0, <2>1, <2>2, <2>3, <2>6, SameAim DEF Appending, Params, Alone, tables
  <2>8. Removing(s)' /\ Rewinding(s)'
    BY <2>1, <2>3, SameAim, EitherAim DEF Removing, Rewinding, Params
  <2>9. \A t \in Sessions \ {s} : Apart(s, t)'
    BY <2>1, <2>2, ApartKept
  <2>10. QED
    BY <2>1, <2>7, <2>8, <2>9, SoleKept
<1>3. CASE InsertEvents(s)
  <2>1. tx[s].at = "upsert" /\ tx[s].hash \in Hashes /\ tx[s].cut = {} /\ tx[s].put = {} /\ Appends(s)
        /\ DOMAIN tx[s].rows \subseteq DOMAIN tx[s].batch
    BY <1>0, <1>3 DEF InsertEvents, Stage
  <2>2. /\ Alone(s) /\ Params(s) /\ tx'[s].at = "commit"
        /\ DOMAIN tx[s].batch \subseteq DOMAIN tx[s].rows
        /\ tx'[s].rows = tx[s].rows /\ tx'[s].cut = tx[s].cut
        /\ tx'[s].put = {e \in Batch(s) : \A f \in EventsSeen(s) : f.id # e.id}
    BY <1>0, <1>3, <2>1, Inserts
  <2>3. ASSUME NEW e \in Batch(s), NEW f \in events PROVE f.id # e.id
    <3>1. e.id[1] \in DOMAIN tx[s].batch
      BY DEF Batch
    <3>2. checkpoints[NameOf[s]] < e.id[1]
      BY <1>0, <2>1, <3>1 DEF Appending
    <3>3. f.id[1] <= checkpoints[NameOf[s]] /\ f.id[1] \in Nat
      BY <1>0, <2>1, RowOf DEF Appends, Ledger, Atomic!Ledger
    <3>4. checkpoints[NameOf[s]] \in Nat
      BY <1>0, <2>1 DEF Appends, TypeOK
    <3>5. QED
      BY <3>2, <3>3, <3>4
  <2>4. tx'[s].put = Batch(s)
    BY <2>1, <2>2, <2>3 DEF EventsSeen
  <2>5. Appending(s)'
    BY <1>0, <2>1, <2>2, <2>4, SameAim DEF Appending, Params, Alone, tables
  <2>6. Removing(s)' /\ Rewinding(s)'
    BY <2>1, <2>2, SameAim, EitherAim DEF Removing, Rewinding, Params
  <2>7. \A t \in Sessions \ {s} : Apart(s, t)'
    BY <2>2, ApartKept
  <2>8. QED
    BY <2>2, <2>5, <2>6, <2>7, SoleKept
<1>4. QED
  BY <1>1, <1>2, <1>3
(* The statements of a rewind or a prune.                                  *)
LEMMA RemovalMoves ==
    ASSUME Sole, Typed, SoleInv, NEW s \in Sessions,
           \/ (s \in Writers /\ BeginRollback(s)) \/ (s = Pruner /\ BeginPrune)
           \/ ScanEvents(s) \/ DeleteEvent(s)
           \/ ScanLedgers(s) \/ DeleteLedger(s) \/ CascadeEvent(s) \/ EndRemoval(s)
    PROVE  SoleInv'
<1>0. TypeOK /\ Stage(s) /\ Tables /\ Removing(s) /\ Rewinding(s)
  BY DEF Typed, SoleInv
<1>1. ASSUME Removes(s)' PROVE Appending(s)'
  <2>1. ~Appends(s)'
    BY <1>1 DEF Appends, Removes
  <2>2. QED
    BY <2>1 DEF Appending
<1>2. CASE (s \in Writers /\ BeginRollback(s)) \/ (s = Pruner /\ BeginPrune)
  <2>1. /\ Alone(s) /\ tx'[s].at = "scan_events"
        /\ tx'[s].cut = {} /\ DOMAIN tx'[s].rows = {}
        /\ \/ s \in Writers /\ tx'[s].name = "rollback" /\ tx'[s].to <= checkpoints[NameOf[s]]
           \/ s = Pruner /\ tx'[s].name = "prune"
    BY <1>0, <1>2, RemovalBegins
  <2>2. Removing(s)'
    BY <2>1 DEF Removing
  <2>3. Rewinding(s)'
    BY <2>1 DEF Rewinding, Alone, tables
  <2>4. Removes(s)'
    BY <2>1 DEF Removes
  <2>5. \A t \in Sessions \ {s} : Apart(s, t)'
    BY <2>1, ApartKept
  <2>6. QED
    BY <1>1, <2>1, <2>2, <2>3, <2>4, <2>5, SoleKept
<1>3. ASSUME Alone(s), Params(s), Removes(s), Removing(s)', Rewinding(s)',
             \A t \in Sessions \ {s} : Apart(s, t)'
      PROVE  SoleInv'
  <2>1. Removes(s)'
    BY <1>3, SameAim
  <2>2. QED
    BY <1>1, <1>3, <2>1, SoleKept
<1>4. CASE ScanEvents(s)
  <2>1. /\ Alone(s) /\ Params(s) /\ tx[s].at = "scan_events" /\ tx'[s].at = "delete_events"
        /\ tx'[s].rows = tx[s].rows /\ tx'[s].cut = tx[s].cut /\ tx'[s].found = Victims(s)
    BY <1>0, <1>4, Scans
  <2>2. /\ Removes(s) /\ events' = events /\ checkpoints' = checkpoints
        /\ tx[s].cut = {} /\ DOMAIN tx[s].rows = {}
    BY <1>0, <2>1 DEF Stage, Alone, tables
  <2>3. Removing(s)'
    BY <2>1, <2>2, SameAim DEF Removing, Victims, Committed
  <2>4. Rewinding(s)'
    BY <1>0, <2>1, <2>2, SameAim DEF Rewinding, Params, Victims
  <2>5. \A t \in Sessions \ {s} : Apart(s, t)'
    BY <2>1, ApartKept
  <2>6. QED
    BY <1>3, <2>1, <2>2, <2>3, <2>4, <2>5
<1>5. CASE DeleteEvent(s)
  <2>1. tx[s].found \subseteq EventId
    BY <1>0, <1>5 DEF Stage, DeleteEvent
  <2>2. /\ Alone(s) /\ Params(s) /\ tx[s].at = "delete_events" /\ tx'[s].at = "delete_events"
        /\ tx'[s].rows = tx[s].rows
    BY <1>0, <1>5, <2>1, EventDeletes
  <2>3. PICK id \in tx[s].found : /\ ~EventLocked(s, id)
                                  /\ tx'[s].found = tx[s].found \ {id}
                                  /\ tx'[s].cut = tx[s].cut \cup {id}
    BY <1>0, <1>5, <2>1, EventDeletes
  <2>4. Removes(s) /\ UNCHANGED tables /\ DOMAIN tx[s].rows = {}
    BY <1>0, <2>2 DEF Stage, Alone
  <2>5. Removing(s)'
    BY <1>0, <2>2, <2>3, <2>4, SameAim DEF Removing, Committed, tables
  <2>6. Victims(s)' = Victims(s)
    BY <2>2, <2>4, SameAim DEF Victims, tables
  <2>7. Rewinding(s)'
    BY <1>0, <2>2, <2>3, <2>4, <2>6 DEF Rewinding, Params, tables
  <2>8. \A t \in Sessions \ {s} : Apart(s, t)'
    BY <2>2, <2>3, ApartKept
  <2>9. QED
    BY <1>3, <2>2, <2>4, <2>5, <2>7, <2>8
<1>6. CASE ScanLedgers(s)
  <2>1. /\ Alone(s) /\ Params(s) /\ tx[s].at = "delete_events" /\ tx'[s].at = "delete_ledgers"
        /\ tx[s].found = {} /\ tx'[s].found = Present(s)
        /\ tx'[s].rows = tx[s].rows /\ tx'[s].cut = tx[s].cut
    BY <1>0, <1>6, LedgerScans
  <2>2. Removes(s) /\ UNCHANGED tables /\ DOMAIN tx[s].rows = {}
    BY <1>0, <2>1 DEF Stage, Alone
  <2>3. ASSUME NEW id \in tx[s].cut PROVE id[1] \in Present(s)
    <3>1. Doomed(s, id[1]) /\ Committed(id)
      BY <1>0, <2>2 DEF Removing
    <3>2. PICK e \in events : e.id = id
      BY <3>1 DEF Committed
    <3>3. QED
      BY <1>0, <3>1, <3>2, RowOf DEF Present
  <2>4. Removing(s)'
    BY <1>0, <2>1, <2>2, <2>3, SameAim DEF Removing, Present, Committed, tables, NoRow
  <2>5. Victims(s)' = Victims(s) /\ Present(s)' = Present(s)
    BY <2>1, <2>2, SameAim DEF Victims, Present, tables
  <2>6. Rewinding(s)'
    BY <1>0, <2>1, <2>2, <2>5 DEF Rewinding, Params, tables
  <2>7. \A t \in Sessions \ {s} : Apart(s, t)'
    BY <2>1, ApartKept
  <2>8. QED
    BY <1>3, <2>1, <2>2, <2>4, <2>6, <2>7
<1>7. CASE DeleteLedger(s)
  <2>1. tx[s].found \subseteq Ledger
    BY <1>0, <1>7 DEF Stage, DeleteLedger
  <2>2. /\ Alone(s) /\ Params(s) /\ tx[s].at = "delete_ledgers" /\ tx'[s].at = "delete_ledgers"
        /\ tx'[s].cut = tx[s].cut /\ \A k \in DOMAIN tx'[s].rows : tx'[s].rows[k] = NoRow
    BY <1>0, <1>7, <2>1, LedgerDeletes
  <2>3. PICK l \in tx[s].found : /\ ~RowLocked(s, l)
                                 /\ tx'[s].found = tx[s].found \ {l}
                                 /\ DOMAIN tx'[s].rows = DOMAIN tx[s].rows \cup {l}
    BY <1>0, <1>7, <2>1, LedgerDeletes
  <2>4. Removes(s) /\ UNCHANGED tables
    BY <1>0, <2>2 DEF Stage, Alone
  <2>5. Removing(s)'
    BY <1>0, <2>2, <2>3, <2>4, SameAim DEF Removing, Committed, tables, NoRow
  <2>6. Victims(s)' = Victims(s) /\ Present(s)' = Present(s)
    BY <2>2, <2>4, SameAim DEF Victims, Present, tables
  <2>7. Rewinding(s)'
    BY <1>0, <2>2, <2>3, <2>4, <2>6 DEF Rewinding, Params, tables
  <2>8. \A t \in Sessions \ {s} : Apart(s, t)'
    BY <2>2, <2>3, ApartKept
  <2>9. QED
    BY <1>3, <2>2, <2>4, <2>5, <2>7, <2>8
<1>8. CASE CascadeEvent(s)
  <2>1. /\ Alone(s) /\ Params(s) /\ tx[s].at = "delete_ledgers" /\ tx'[s].at = "delete_ledgers"
        /\ tx'[s].rows = tx[s].rows /\ tx[s].found = {} /\ tx'[s].found = {}
    BY <1>0, <1>8, Cascades
  <2>2. PICK id \in Cascade(s) : ~EventLocked(s, id) /\ tx'[s].cut = tx[s].cut \cup {id}
    BY <1>0, <1>8, Cascades
  <2>3. Removes(s) /\ UNCHANGED tables
    BY <1>0, <2>1 DEF Stage, Alone
  <2>4. id[1] \in DOMAIN tx[s].rows /\ Committed(id)
    BY DEF Cascade, Committed
  <2>5. Removing(s)'
    BY <1>0, <2>1, <2>2, <2>3, <2>4, SameAim DEF Removing, Committed, tables, NoRow
  <2>6. Victims(s)' = Victims(s) /\ Present(s)' = Present(s)
    BY <2>1, <2>3, SameAim DEF Victims, Present, tables
  <2>7. Rewinding(s)'
    BY <1>0, <2>1, <2>2, <2>3, <2>6 DEF Rewinding, Params, tables
  <2>8. \A t \in Sessions \ {s} : Apart(s, t)'
    BY <2>1, <2>2, ApartKept
  <2>9. QED
    BY <1>3, <2>1, <2>3, <2>5, <2>7, <2>8
<1>9. CASE EndRemoval(s)
  <2>1. /\ Alone(s) /\ Params(s) /\ tx[s].at = "delete_ledgers" /\ tx'[s].at = "commit"
        /\ tx'[s].rows = tx[s].rows /\ tx'[s].cut = tx[s].cut
        /\ tx[s].found = {} /\ Cascade(s) = {}
    BY <1>0, <1>9, RemovalEnds
  <2>2. Removes(s) /\ UNCHANGED tables
    BY <1>0, <2>1 DEF Stage, Alone
  <2>3. \A e \in events : e.id \in tx[s].cut <=> e.id[1] \in DOMAIN tx[s].rows
    <3>1. \A e \in events : e.id \in tx[s].cut => e.id[1] \in DOMAIN tx[s].rows
      BY <1>0, <2>1, <2>2 DEF Removing
    <3>2. \A e \in events : e.id[1] \in DOMAIN tx[s].rows => e.id \in tx[s].cut
      BY <2>1 DEF Cascade
    <3>3. QED
      BY <3>1, <3>2
  <2>4. Removing(s)'
    BY <1>0, <2>1, <2>2, <2>3, SameAim DEF Removing, Committed, tables, NoRow
  <2>5. Victims(s)' = Victims(s) /\ Present(s)' = Present(s)
    BY <2>1, <2>2, SameAim DEF Victims, Present, tables
  <2>6. Rewinding(s)'
    BY <1>0, <2>1, <2>2, <2>5 DEF Rewinding, Params, tables
  <2>7. \A t \in Sessions \ {s} : Apart(s, t)'
    BY <2>1, ApartKept
  <2>8. QED
    BY <1>3, <2>1, <2>2, <2>4, <2>6, <2>7
<1>10. QED
  BY <1>2, <1>4, <1>5, <1>6, <1>7, <1>8, <1>9

(* ROLLBACK forgets all a transaction had in hand.                         *)
LEMMA AbandonMoves ==
    ASSUME Typed, SoleInv, NEW s \in Sessions, Abandon(s)
    PROVE  SoleInv'
<1>1. Alone(s) /\ tx'[s] = Idle
  BY Abandons DEF Typed
<1>2. tx'[s].at = "idle" /\ tx'[s].name = "none" /\ tx'[s].cut = {} /\ DOMAIN tx'[s].rows = {}
  BY <1>1 DEF Idle
<1>3. Appending(s)' /\ Removing(s)' /\ Rewinding(s)'
  BY <1>2 DEF Appending, Removing, Rewinding, Removes
<1>4. \A t \in Sessions \ {s} : Apart(s, t)'
  BY <1>1, <1>2, ApartKept
<1>5. QED
  BY <1>1, <1>3, <1>4, SoleKept
(* Beside the one writer there is the prune alone.                         *)
LEMMA OnlyPruner ==
    ASSUME Sole, Typed, NEW s \in Writers, NEW t \in Sessions, s # t
    PROVE  t = Pruner /\ ~Appends(t) /\ tx[t].name # "rollback"
<1>1. t = Pruner /\ t \notin Writers
  BY DEF Sole, Sessions
<1>2. Stage(t)
  BY DEF Typed
<1>3. tx[t].at = "idle" => tx[t].name = "none"
  BY <1>2 DEF Stage, Idle
<1>4. QED
  BY <1>1, <1>2, <1>3 DEF Stage, Appends

(* What the tables become: COMMIT of an append, of a rewind, of a prune.   *)
LEMMA AppendCommits ==
    ASSUME Typed, SoleInv, NEW s \in Sessions, Commit(s), Appends(s)
    PROVE  /\ \A l \in Ledger : ledgers'[l] = IF l \in DOMAIN tx[s].batch
                                              THEN [hash |-> tx[s].hash, count |-> tx[s].batch[l]]
                                              ELSE ledgers[l]
           /\ events' = events \cup Batch(s)
           /\ \A n \in Names : checkpoints'[n] = IF n = NameOf[s] THEN tx[s].to ELSE checkpoints[n]
<1>1. /\ tx[s].at = "commit" /\ events' = EventsSeen(s) /\ checkpoints' = CheckpointsWritten(s)
      /\ \A l \in Ledger : ledgers'[l] = RowSeen(s, l)
  BY Commits DEF Typed
<1>2. /\ tx[s].put = Batch(s) /\ DOMAIN tx[s].rows = DOMAIN tx[s].batch
      /\ \A l \in DOMAIN tx[s].rows : tx[s].rows[l] = [hash |-> tx[s].hash, count |-> tx[s].batch[l]]
  BY <1>1 DEF SoleInv, Appending
<1>3. tx[s].cut = {}
  BY <1>1, EitherAim DEF Typed, Stage
<1>4. tx[s].name = NameOf[s] /\ NameOf[s] \in Names /\ tx[s].name # "rollback"
  BY EitherAim DEF Appends
<1>5. \A l \in Ledger : ledgers'[l] = IF l \in DOMAIN tx[s].batch
                                      THEN [hash |-> tx[s].hash, count |-> tx[s].batch[l]]
                                      ELSE ledgers[l]
  BY <1>1, <1>2 DEF RowSeen
<1>6. events' = events \cup Batch(s)
  BY <1>1, <1>2, <1>3 DEF EventsSeen
<1>7. \A n \in Names : checkpoints'[n] = IF n = NameOf[s] THEN tx[s].to ELSE checkpoints[n]
  BY <1>1, <1>4 DEF CheckpointsWritten
<1>8. QED
  BY <1>5, <1>6, <1>7

LEMMA RemovalCommits ==
    ASSUME Typed, SoleInv, NEW s \in Sessions, Commit(s), Removes(s)
    PROVE  /\ \A l \in Ledger : ledgers'[l] = IF l \in DOMAIN tx[s].rows THEN NoRow ELSE ledgers[l]
           /\ events' = {e \in events : e.id[1] \notin DOMAIN tx[s].rows}
           /\ events' = {e \in events : e.id \notin tx[s].cut}
           /\ \A n \in Names : checkpoints'[n] =
                IF tx[s].name = "rollback" /\ checkpoints[n] > tx[s].to THEN tx[s].to ELSE checkpoints[n]
           /\ \A l \in DOMAIN tx[s].rows : Doomed(s, l)
<1>1. /\ tx[s].at = "commit" /\ events' = EventsSeen(s) /\ checkpoints' = CheckpointsWritten(s)
      /\ \A l \in Ledger : ledgers'[l] = RowSeen(s, l)
  BY Commits DEF Typed
<1>2. /\ \A l \in DOMAIN tx[s].rows : Doomed(s, l) /\ tx[s].rows[l] = NoRow
      /\ \A e \in events : e.id \in tx[s].cut <=> e.id[1] \in DOMAIN tx[s].rows
  BY <1>1 DEF SoleInv, Removing
<1>3. tx[s].put = {}
  BY <1>1, EitherAim DEF Typed, Stage
<1>4. tx[s].name \notin Names
  BY DEF Removes
<1>5. \A l \in Ledger : ledgers'[l] = IF l \in DOMAIN tx[s].rows THEN NoRow ELSE ledgers[l]
  BY <1>1, <1>2 DEF RowSeen
<1>6. events' = {e \in events : e.id \notin tx[s].cut}
  BY <1>1, <1>3 DEF EventsSeen
<1>7. events' = {e \in events : e.id[1] \notin DOMAIN tx[s].rows}
  BY <1>2, <1>6
<1>8. \A n \in Names : checkpoints'[n] =
        IF tx[s].name = "rollback" /\ checkpoints[n] > tx[s].to THEN tx[s].to ELSE checkpoints[n]
  BY <1>1, <1>4 DEF CheckpointsWritten
<1>9. QED
  BY <1>2, <1>5, <1>6, <1>7, <1>8

(* The others after a commit, which forgets what it had in hand.           *)
LEMMA OthersCommit ==
    ASSUME Typed, SoleInv, NEW s \in Sessions, Commit(s), Tables',
           \A t \in Sessions \ {s} : Appending(t)' /\ Removing(t)' /\ Rewinding(t)'
    PROVE  SoleInv'
<1>1. tx'[s] = Idle /\ \A t \in Sessions \ {s} : tx'[t].cut = tx[t].cut /\ tx'[t].rows = tx[t].rows
  BY Commits DEF Typed, Beside, Stays
<1>2. tx'[s].at = "idle" /\ tx'[s].name = "none" /\ tx'[s].cut = {} /\ DOMAIN tx'[s].rows = {}
  BY <1>1 DEF Idle
<1>3. Appending(s)' /\ Removing(s)' /\ Rewinding(s)'
  BY <1>2 DEF Appending, Removing, Rewinding, Removes
<1>4. \A t, u \in Sessions : t # u => Apart(t, u)'
  <2>1. \A t, u \in Sessions \ {s} : t # u => Apart(t, u)'
    BY <1>1 DEF SoleInv, Apart
  <2>2. \A t \in Sessions : Apart(t, s)' /\ Apart(s, t)'
    BY <1>2 DEF Apart
  <2>3. QED
    BY <2>1, <2>2
<1>5. QED
  BY <1>3, <1>4 DEF SoleInv
LEMMA AppendCommitMoves ==
    ASSUME Sole, Typed, IdInv, SoleInv, NEW s \in Sessions, Commit(s), Appends(s)
    PROVE  SoleInv'
<1>0. /\ TypeOK /\ Tables /\ tx[s].at = "commit" /\ s \in Writers /\ NameOf[s] \in Names
      /\ checkpoints[NameOf[s]] \in Nat /\ tx[s] \in Tx
      /\ tx'[s] = Idle /\ Beside(s)
  BY Commits DEF Typed, TypeOK, SoleInv, Appends
<1>1. /\ \A l \in Ledger : ledgers'[l] = IF l \in DOMAIN tx[s].batch
                                         THEN [hash |-> tx[s].hash, count |-> tx[s].batch[l]]
                                         ELSE ledgers[l]
      /\ events' = events \cup Batch(s)
      /\ \A n \in Names : checkpoints'[n] = IF n = NameOf[s] THEN tx[s].to ELSE checkpoints[n]
  BY AppendCommits
<1>2. /\ tx[s].to \in DOMAIN tx[s].batch
      /\ \A l \in DOMAIN tx[s].batch : checkpoints[NameOf[s]] < l /\ l <= tx[s].to
      /\ tx[s].put = Batch(s) /\ DOMAIN tx[s].rows = DOMAIN tx[s].batch
  BY <1>0 DEF SoleInv, Appending
<1>3. /\ DOMAIN tx[s].batch \subseteq Ledger
      /\ \A l \in DOMAIN tx[s].batch : tx[s].batch[l] \in 0..MaxPerLedger
  <2>1. PICK B \in SUBSET Ledger : tx[s].batch \in [B -> 0..MaxPerLedger]
    BY <1>0 DEF Tx, Batches
  <2>2. QED
    BY <2>1
<1>4. ASSUME NEW e \in events PROVE e.id[1] \in Ledger /\ e.id[1] \notin DOMAIN tx[s].batch
  <2>1. e.id[1] \in Ledger /\ e.id[1] <= checkpoints[NameOf[s]]
    BY <1>0, RowOf
  <2>2. e.id[1] \in Nat
    BY <2>1 DEF Ledger, Atomic!Ledger
  <2>3. QED
    BY <1>0, <1>2, <2>1, <2>2
<1>5. ASSUME NEW e \in Batch(s)
      PROVE  /\ e.id \in EventId /\ e.id[1] \in DOMAIN tx[s].batch /\ e.hash = tx[s].hash
             /\ e.id[2] <= tx[s].batch[e.id[1]]
  BY DEF Batch
<1>6. Counted'
  <2> SUFFICES ASSUME NEW l \in Ledger
               PROVE  /\ ledgers'[l].count <= MaxPerLedger
                      /\ IdsAt(l)' = {i \in EventId : i[1] = l /\ i[2] <= ledgers'[l].count}
    BY DEF Counted
  <2>1. CASE l \in DOMAIN tx[s].batch
    <3>0. ledgers'[l] = [hash |-> tx[s].hash, count |-> tx[s].batch[l]]
      BY <1>1, <2>1
    <3>1. ledgers'[l].count = tx[s].batch[l] /\ tx[s].batch[l] \in 0..MaxPerLedger
      BY <1>3, <2>1, <3>0
    <3>2. IdsAt(l)' = {e.id : e \in {f \in Batch(s) : f.id[1] = l}}
      BY <1>1, <1>4, <2>1 DEF IdsAt
    <3>3. ASSUME NEW i \in EventId, i[1] = l, i[2] <= tx[s].batch[l]
          PROVE  \E e \in Batch(s) : e.id = i
      <4>1. [id |-> i, hash |-> tx[s].hash] \in Batch(s)
        BY <2>1, <3>3 DEF Batch
      <4>2. QED
        BY <4>1
    <3>4. {e.id : e \in {f \in Batch(s) : f.id[1] = l}}
            = {i \in EventId : i[1] = l /\ i[2] <= tx[s].batch[l]}
      BY <1>5, <3>3
    <3>5. QED
      BY <3>1, <3>2, <3>4
  <2>2. CASE l \notin DOMAIN tx[s].batch
    <3>1. ledgers'[l] = ledgers[l]
      BY <1>1, <2>2
    <3>2. {f \in events' : f.id[1] = l} = {f \in events : f.id[1] = l}
      BY <1>1, <1>5, <2>2
    <3>3. IdsAt(l)' = IdsAt(l)
      BY <3>2 DEF IdsAt
    <3>4. QED
      BY <1>0, <3>1, <3>3 DEF Tables, Counted
  <2>3. QED
    BY <2>1, <2>2
<1>7. Hashed'
  <2>1. \A e \in events : ledgers'[e.id[1]].hash = e.hash
    BY <1>0, <1>1, <1>4 DEF Tables, Hashed
  <2>2. ASSUME NEW e \in Batch(s) PROVE ledgers'[e.id[1]].hash = e.hash
    <3>1. e.id[1] \in Ledger /\ e.id[1] \in DOMAIN tx[s].batch /\ e.hash = tx[s].hash
      BY <1>3, <1>5
    <3>2. ledgers'[e.id[1]] = [hash |-> tx[s].hash, count |-> tx[s].batch[e.id[1]]]
      BY <1>1, <3>1
    <3>3. QED
      BY <3>1, <3>2
  <2>3. QED
    BY <1>1, <2>1, <2>2 DEF Hashed
<1>8. Behind'
  <2> SUFFICES ASSUME NEW t \in Writers, NEW l \in Ledger, ledgers'[l] # NoRow
               PROVE  l <= checkpoints'[NameOf[t]]
    BY DEF Behind, NoRow
  <2>1. checkpoints'[NameOf[t]] = tx[s].to
    BY <1>0, <1>1 DEF Sole
  <2>2. CASE l \in DOMAIN tx[s].batch
    BY <1>2, <2>1, <2>2
  <2>3. CASE l \notin DOMAIN tx[s].batch
    <3>1. l <= checkpoints[NameOf[s]] /\ checkpoints[NameOf[s]] < tx[s].to
      BY <1>0, <1>1, <1>2, <2>3 DEF Tables, Behind
    <3>2. l \in Nat /\ tx[s].to \in Nat
      BY <1>0 DEF Ledger, Atomic!Ledger, Tx
    <3>3. QED
      BY <1>0, <2>1, <3>1, <3>2
  <2>4. QED
    BY <2>2, <2>3
<1>9. ASSUME NEW t \in Sessions \ {s} PROVE Appending(t)' /\ Removing(t)' /\ Rewinding(t)'
  <2>1. /\ Stays(t) /\ tx'[t].found \subseteq tx[t].found
        /\ ~Appends(t) /\ tx[t].name # "rollback" /\ Removing(t) /\ Apart(s, t)
    BY <1>0, OnlyPruner DEF SoleInv, Beside, StillThere
  <2>2. Appending(t)' /\ Rewinding(t)'
    BY <2>1, SameAim DEF Appending, Rewinding, Stays, Params
  <2>3. \A id : Committed(id) => Committed(id)'
    BY <1>1 DEF Committed
  <2>4. \A l \in Ledger : ledgers[l] # NoRow => ledgers'[l] # NoRow
    <3>1. \A l \in DOMAIN tx[s].batch : ledgers[l] = NoRow
      BY <1>0, <1>2, <1>3 DEF Tables, Behind, Ledger, Atomic!Ledger
    <3>2. QED
      BY <1>1, <3>1
  <2>5. ASSUME Removes(t), tx[t].at = "commit", NEW e \in Batch(s)
        PROVE  e.id \notin tx[t].cut /\ e.id[1] \notin DOMAIN tx[t].rows
    <3>1. \A f \in events : f.id # e.id
      BY <1>2 DEF IdInv, PutFresh
    <3>2. e.id \notin tx[t].cut
      BY <2>1, <2>5, <3>1 DEF Removing, Committed
    <3>3. e.id[1] \notin DOMAIN tx[t].rows
      BY <1>2, <1>5, <2>1 DEF Apart
    <3>4. QED
      BY <3>2, <3>3
  <2>6. DOMAIN tx[t].rows \subseteq Ledger /\ (tx[t].at = "delete_ledgers" => tx[t].found \subseteq Ledger)
    BY RowsOf DEF Typed, Stage
  <2>7. Removing(t)'
    <3>1. Removes(t)' = Removes(t) /\ \A l : Doomed(t, l)' = Doomed(t, l)
      BY <2>1, SameAim DEF Stays
    <3>2. CASE ~Removes(t)
      BY <3>1, <3>2 DEF Removing
    <3>3. CASE Removes(t)
      <4>1. \A id \in tx'[t].cut : Doomed(t, id[1])' /\ Committed(id)'
        BY <2>1, <2>3, <3>1, <3>3 DEF Removing, Stays
      <4>2. \A l \in DOMAIN tx'[t].rows : Doomed(t, l)' /\ tx'[t].rows[l] = NoRow /\ ledgers'[l] # NoRow
        BY <2>1, <2>4, <2>6, <3>1, <3>3 DEF Removing, Stays
      <4>3. tx'[t].at = "delete_events" => \A id \in tx'[t].found : Doomed(t, id[1])' /\ Committed(id)'
        BY <2>1, <2>3, <3>1, <3>3 DEF Removing, Stays
      <4>4. ASSUME tx'[t].at = "delete_ledgers"
            PROVE  /\ \A l \in tx'[t].found : Doomed(t, l)' /\ ledgers'[l] # NoRow
                   /\ \A id \in tx'[t].cut : id[1] \in tx'[t].found \cup DOMAIN tx'[t].rows
        <5>1. tx[t].at = "delete_ledgers"
          BY <2>1, <4>4 DEF Stays
        <5>2. tx'[t].found = tx[t].found
          <6>1. \A l \in Ledger : ledgers'[l] = RowSeen(s, l)
            BY Commits DEF Typed
          <6>2. \A l \in tx[t].found : l \in Ledger /\ ledgers'[l] # NoRow
            BY <2>1, <2>4, <2>6, <3>3, <5>1 DEF Removing
          <6>3. tx'[t].found = {l \in tx[t].found : RowSeen(s, l) # NoRow}
            BY <1>0, <5>1 DEF Beside, StillThere
          <6>4. \A l \in tx[t].found : RowSeen(s, l) # NoRow
            BY <6>1, <6>2
          <6>5. QED
            BY <6>3, <6>4
        <5>3. QED
          BY <2>1, <2>4, <2>6, <3>1, <3>3, <5>1, <5>2 DEF Removing, Stays
      <4>5. tx'[t].at = "commit" =>
              \A e \in events' : e.id \in tx'[t].cut <=> e.id[1] \in DOMAIN tx'[t].rows
        BY <1>1, <2>1, <2>5, <3>3 DEF Removing, Stays
      <4>6. QED
        BY <4>1, <4>2, <4>3, <4>4, <4>5 DEF Removing, NoRow
    <3>4. QED
      BY <3>2, <3>3
  <2>8. QED
    BY <2>2, <2>7
<1>10. QED
  BY <1>6, <1>7, <1>8, <1>9, OthersCommit DEF Tables
LEMMA RemovalCommitMoves ==
    ASSUME Sole, Typed, SoleInv, NEW s \in Sessions, Commit(s), Removes(s)
    PROVE  SoleInv'
<1>0. /\ TypeOK /\ Tables /\ tx[s].at = "commit"
      /\ checkpoints \in [Names -> 0..MaxLedger] /\ tx[s].to \in 0..MaxLedger
      /\ tx'[s] = Idle /\ Beside(s)
  <2>1. tx[s] \in Tx
    BY DEF Typed, TypeOK
  <2>2. QED
    BY <2>1, Commits DEF Typed, TypeOK, SoleInv, Tx
<1>1. /\ \A l \in Ledger : ledgers'[l] = IF l \in DOMAIN tx[s].rows THEN NoRow ELSE ledgers[l]
      /\ events' = {e \in events : e.id[1] \notin DOMAIN tx[s].rows}
      /\ events' = {e \in events : e.id \notin tx[s].cut}
      /\ \A n \in Names : checkpoints'[n] =
           IF tx[s].name = "rollback" /\ checkpoints[n] > tx[s].to THEN tx[s].to ELSE checkpoints[n]
      /\ \A l \in DOMAIN tx[s].rows : Doomed(s, l)
  BY RemovalCommits
<1>2. Counted'
  <2> SUFFICES ASSUME NEW l \in Ledger
               PROVE  /\ ledgers'[l].count <= MaxPerLedger
                      /\ IdsAt(l)' = {i \in EventId : i[1] = l /\ i[2] <= ledgers'[l].count}
    BY DEF Counted
  <2>1. CASE l \in DOMAIN tx[s].rows
    <3>1. ledgers'[l] = NoRow /\ NoRow.count = 0
      BY <1>1, <2>1 DEF NoRow, Atomic!NoRow
    <3>2. IdsAt(l)' = {}
      BY <1>1, <2>1 DEF IdsAt
    <3>3. \A i \in EventId : ~(i[2] <= 0)
      BY DEF EventId, Atomic!EventId
    <3>4. QED
      BY <3>1, <3>2, <3>3
  <2>2. CASE l \notin DOMAIN tx[s].rows
    <3>1. ledgers'[l] = ledgers[l]
      BY <1>1, <2>2
    <3>2. {f \in events' : f.id[1] = l} = {f \in events : f.id[1] = l}
      BY <1>1, <2>2
    <3>3. IdsAt(l)' = IdsAt(l)
      BY <3>2 DEF IdsAt
    <3>4. QED
      BY <1>0, <3>1, <3>3 DEF Tables, Counted
  <2>3. QED
    BY <2>1, <2>2
<1>3. Hashed'
  <2> SUFFICES ASSUME NEW e \in events, e.id[1] \notin DOMAIN tx[s].rows
               PROVE  ledgers'[e.id[1]].hash = e.hash
    BY <1>1 DEF Hashed
  <2>1. e.id[1] \in Ledger
    BY <1>0, RowOf
  <2>2. QED
    BY <1>0, <1>1, <2>1 DEF Tables, Hashed
<1>4. Behind'
  <2> SUFFICES ASSUME NEW t \in Writers, NEW l \in Ledger, ledgers'[l] # NoRow
               PROVE  l <= checkpoints'[NameOf[t]]
    BY DEF Behind, NoRow
  <2>1. l \notin DOMAIN tx[s].rows /\ ledgers[l] # NoRow
    BY <1>1
  <2>2. l <= checkpoints[NameOf[t]] /\ NameOf[t] \in Names
    BY <1>0, <2>1 DEF Tables, Behind
  <2>3. CASE tx[s].name = "rollback"
    <3>1. ~Doomed(s, l)
      BY <1>0, <2>1, <2>3 DEF SoleInv, Rewinding, Present
    <3>2. l <= tx[s].to
      BY <1>0, <2>3, <3>1 DEF Doomed, Ledger, Atomic!Ledger
    <3>3. QED
      BY <1>1, <2>2, <3>2
  <2>4. CASE tx[s].name # "rollback"
    BY <1>1, <2>2, <2>4
  <2>5. QED
    BY <2>3, <2>4
<1>5. ASSUME NEW t \in Sessions \ {s} PROVE Removing(t)'
  <2>1. /\ Stays(t) /\ tx'[t].found = StillThere(t, s) /\ Removing(t) /\ Apart(s, t)
        /\ Stage(t) /\ tx'[t].found \subseteq tx[t].found
    BY <1>0 DEF SoleInv, Beside, Typed, StillThere
  <2>2. \A id : Committed(id) /\ id \notin tx[s].cut => Committed(id)'
    BY <1>1 DEF Committed
  <2>3. events' \subseteq events
    BY <1>1
  <2>4. \A id \in tx[t].cut : id \notin tx[s].cut
    BY <2>1 DEF Apart
  <2>5. \A l \in DOMAIN tx[t].rows : l \in Ledger /\ ledgers'[l] = ledgers[l]
    BY <1>1, <2>1, RowsOf DEF Apart, Typed
  <2>6. tx[t].at = "delete_events" => tx'[t].found = tx[t].found \ tx[s].cut
    BY <2>1 DEF StillThere
  <2>7. tx[t].at = "delete_ledgers" =>
          /\ \A l \in tx[t].found : l \in Ledger
          /\ tx'[t].found = {l \in tx[t].found : ledgers'[l] # NoRow}
    <3>1. \A l \in Ledger : ledgers'[l] = RowSeen(s, l)
      BY Commits DEF Typed
    <3>2. QED
      BY <2>1, <3>1 DEF StillThere, Stage
  <2>8. ASSUME Removes(t), tx[t].at = "delete_ledgers", NEW id \in tx[t].cut
        PROVE  id[1] \in tx'[t].found \cup DOMAIN tx[t].rows
    <3>1. Committed(id) /\ id \notin tx[s].cut /\ id[1] \in tx[t].found \cup DOMAIN tx[t].rows
      BY <2>1, <2>4, <2>8 DEF Removing
    <3>2. PICK e \in events : e.id = id
      BY <3>1 DEF Committed
    <3>3. id[1] \notin DOMAIN tx[s].rows
      BY <1>1, <3>1, <3>2
    <3>4. id[1] \in Ledger /\ ledgers[id[1]] # NoRow
      BY <1>0, <3>2, RowOf
    <3>5. ledgers'[id[1]] # NoRow
      BY <1>1, <3>3, <3>4
    <3>6. QED
      BY <2>7, <2>8, <3>1, <3>5
  <2>9. QED
    BY <2>1, <2>2, <2>3, <2>4, <2>5, <2>6, <2>7, <2>8, SameAim DEF Removing, Stays, NoRow
(* A rewind runs beside the prune alone, and a prune leaves checkpoints.   *)
<1>6. ASSUME NEW t \in Sessions \ {s} PROVE Appending(t)' /\ Rewinding(t)'
  <2>1. Stays(t) /\ tx'[t].found = StillThere(t, s) /\ Appending(t) /\ Rewinding(t)
    BY <1>0 DEF SoleInv, Beside
  <2>2. CASE tx[s].name = "rollback"
    <3>1. s # Pruner /\ s \in Writers
      BY <1>0, <2>2 DEF Typed, Stage, Sessions
    <3>2. ~Appends(t) /\ tx[t].name # "rollback"
      BY <3>1, OnlyPruner
    <3>3. QED
      BY <2>1, <3>2, SameAim DEF Appending, Rewinding, Stays, Params
  <2>3. CASE tx[s].name # "rollback"
    <3>1. checkpoints'[NameOf[t]] = checkpoints[NameOf[t]] \/ t \notin Writers
      BY <1>1, <2>3
    <3>2. Appending(t)'
      BY <2>1, <3>1, SameAim DEF Appending, Appends, Stays, Params
    <3>3. tx[t].name = "rollback" => t \in Writers
      <4>1. Stage(t)
        BY DEF Typed
      <4>2. QED
        BY <4>1 DEF Stage, Sessions, Idle
    <3>4. /\ Victims(t)' = Victims(t) \ tx[s].cut
          /\ \A l \in Present(t)' : l \in Ledger /\ l \in Present(t) /\ ledgers'[l] # NoRow
      <4>1. \A l \in Ledger : ledgers'[l] # NoRow => ledgers[l] # NoRow
        BY <1>1
      <4>2. \A l : Doomed(t, l)' = Doomed(t, l)
        BY <2>1, SameAim DEF Stays
      <4>3. Victims(t)' = Victims(t) \ tx[s].cut
        BY <1>1, <4>2 DEF Victims
      <4>4. \A l \in Present(t)' : l \in Ledger /\ l \in Present(t) /\ ledgers'[l] # NoRow
        BY <4>1, <4>2 DEF Present, NoRow
      <4>5. QED
        BY <4>3, <4>4
    <3>5. Rewinding(t)'
      <4>1. tx[t].at = "delete_events" => tx'[t].found = tx[t].found \ tx[s].cut
        BY <2>1 DEF StillThere
      <4>2. tx[t].at = "delete_ledgers" => \A l \in tx[t].found : l \in Ledger /\ ledgers'[l] # NoRow => l \in tx'[t].found
        <5>1. \A l \in Ledger : ledgers'[l] = RowSeen(s, l)
          BY Commits DEF Typed
        <5>2. QED
          BY <2>1, <5>1 DEF StillThere
      <4>3. QED
        BY <2>1, <3>1, <3>3, <3>4, <4>1, <4>2 DEF Rewinding, Stays, Params
    <3>6. QED
      BY <3>2, <3>5
  <2>4. QED
    BY <2>2, <2>3
<1>7. QED
  BY <1>2, <1>3, <1>4, <1>5, <1>6, OthersCommit DEF Tables

LEMMA SoleStep == Sole /\ Typed /\ IdInv /\ SoleInv /\ [Next]_vars => SoleInv'
<1> SUFFICES ASSUME Sole, Typed, IdInv, SoleInv, [Next]_vars PROVE SoleInv'
  OBVIOUS
<1>1. ASSUME NEW s \in Sessions, Moves(s) PROVE SoleInv'
  BY <1>1, AppendMoves, RemovalMoves, AbandonMoves DEF Moves
<1>2. ASSUME NEW s \in Sessions, Commit(s) PROVE SoleInv'
  <2>1. Appends(s) \/ Removes(s)
    BY <1>2, Commits DEF Typed, Stage
  <2>2. QED
    BY <1>2, <2>1, AppendCommitMoves, RemovalCommitMoves
<1>3. CASE Reads \/ UNCHANGED vars
  <2>1. UNCHANGED <<tables, tx>>
    BY <1>3 DEF Reads, OpenStream, ReadPage, CloseStream, vars, tables
  <2>2. Tables'
    BY <2>1 DEF SoleInv, Tables, Counted, Hashed, Behind, IdsAt, tables
  <2>3. \A s \in Sessions : Appending(s)'
    BY <2>1 DEF SoleInv, Appending, Appends, Batch, tables
  <2>4. \A s \in Sessions : Removing(s)'
    BY <2>1 DEF SoleInv, Removing, Removes, Doomed, Committed, tables
  <2>5. \A s \in Sessions : Rewinding(s)'
    BY <2>1 DEF SoleInv, Rewinding, Victims, Present, Doomed, tables
  <2>6. \A s, t \in Sessions : s # t => Apart(s, t)'
    BY <2>1 DEF SoleInv, Apart
  <2>7. QED
    BY <2>2, <2>3, <2>4, <2>5, <2>6 DEF SoleInv
<1>4. QED
  BY <1>1, <1>2, <1>3, Steps

LEMMA SoleInit == Init => SoleInv
<1> SUFFICES ASSUME Init PROVE SoleInv
  OBVIOUS
<1>1. /\ events = {} /\ \A l \in Ledger : ledgers[l] = NoRow /\ NoRow.count = 0
  BY DEF Init, Atomic!Init, Ledger, NoRow, Atomic!NoRow
<1>2. \A s \in Sessions : /\ tx[s].at = "idle" /\ tx[s].name = "none"
                          /\ tx[s].cut = {} /\ DOMAIN tx[s].rows = {}
  BY DEF Init, Idle
<1>3. \A i \in EventId : ~(i[2] <= 0)
  BY DEF EventId, Atomic!EventId
<1>4. Counted
  <2> SUFFICES ASSUME NEW l \in Ledger
               PROVE  /\ ledgers[l].count <= MaxPerLedger
                      /\ IdsAt(l) = {i \in EventId : i[1] = l /\ i[2] <= ledgers[l].count}
    BY DEF Counted
  <2>1. IdsAt(l) = {} /\ ledgers[l].count = 0
    BY <1>1 DEF IdsAt
  <2>2. QED
    BY <1>3, <2>1
<1>5. Hashed /\ Behind
  BY <1>1 DEF Hashed, Behind
<1>6. \A s \in Sessions : Appending(s) /\ Removing(s) /\ Rewinding(s)
  BY <1>2 DEF Appending, Removing, Rewinding, Removes
<1>7. \A s, t \in Sessions : s # t => Apart(s, t)
  BY <1>2 DEF Apart
<1>8. QED
  BY <1>4, <1>5, <1>6, <1>7 DEF SoleInv, Tables

LEMMA SoleHolds ==
    ASSUME Sole
    PROVE  Spec => [](Typed /\ IdInv /\ SoleInv)
<1>1. Init => IdInv /\ SoleInv
  BY IdInit, SoleInit
<1>2. Typed /\ Typed' /\ IdInv /\ [Next]_vars => IdInv'
  BY IdStep
<1>3. Typed /\ IdInv /\ SoleInv /\ [Next]_vars => SoleInv'
  BY SoleStep
<1>4. QED
  BY <1>1, <1>2, <1>3, TypesHold, PTL DEF Spec
(* With one writer beside the prune, each committed ledger has as many     *)
(* events as its row counts, and each event its ledger's row and hash,     *)
(* whatever statements of the two were interleaved, failed or undone.      *)
THEOREM CountsAgree ==
    ASSUME Sole
    PROVE  Spec => []RowsAgree
<1>1. Typed /\ IdInv /\ SoleInv => RowsAgree
  <2> SUFFICES ASSUME Typed, IdInv, SoleInv PROVE RowsAgree
    OBVIOUS
  <2>1. ASSUME NEW l \in Ledger PROVE ledgers[l].count = Cardinality({e \in events : e.id[1] = l})
    <3> DEFINE here  == {e \in events : e.id[1] = l}
               count == ledgers[l].count
               id(i) == <<l, i>>
    <3>1. IsFiniteSet(here) /\ \A e, f \in here : e.id = f.id => e = f
      <4>1. here \subseteq events /\ IsFiniteSet(events)
        BY DEF Typed
      <4>2. QED
        BY <4>1, FS_Subset DEF IdInv, OneRow
    <3>2. count \in 0..MaxPerLedger /\ IdsAt(l) = {i \in EventId : i[1] = l /\ i[2] <= count}
      BY DEF SoleInv, Tables, Counted, Typed, TypeOK, AnyRow
    <3> HIDE DEF count
    <3>3. IdsAt(l) = {id(i) : i \in 1..count}
      <4>1. EventId = Ledger \X (1..MaxPerLedger)
        BY DEF EventId, Atomic!EventId, Ledger
      <4>2. \A i \in 1..count : i \in 1..MaxPerLedger /\ i <= count
        BY <3>2
      <4>3. \A i \in 1..MaxPerLedger : i <= count => i \in 1..count
        BY <3>2
      <4>4. ASSUME NEW i \in IdsAt(l) PROVE i \in {id(j) : j \in 1..count}
        <5>1. i = <<l, i[2]>> /\ i[2] \in 1..count
          BY <3>2, <4>1, <4>3
        <5>2. QED
          BY <5>1
      <4>5. ASSUME NEW j \in 1..count PROVE id(j) \in IdsAt(l)
        BY <3>2, <4>1, <4>2
      <4>6. QED
        BY <4>4, <4>5
    <3>4. ExistsBijection(1..count, {id(i) : i \in 1..count})
      <4>1. [i \in 1..count |-> id(i)] \in Bijection(1..count, {id(i) : i \in 1..count})
        BY DEF Bijection, Injection, Surjection, IsInjective
      <4>2. QED
        BY <4>1 DEF ExistsBijection
    <3>5. IsFiniteSet(1..count) /\ Cardinality(1..count) = count
      BY <3>2, FS_Interval
    <3>6. Cardinality(IdsAt(l)) = count
      BY <3>3, <3>4, <3>5, FS_Bijection
    <3>7. Cardinality({e.id : e \in here}) = Cardinality(here)
      <4> HIDE DEF here
      <4>1. QED
        BY <3>1, AsManyIds
    <3>8. QED
      BY <3>6, <3>7 DEF IdsAt, count
  <2>2. QED
    BY <2>1 DEF RowsAgree, SoleInv, Tables, Hashed
<1>2. QED
  BY <1>1, SoleHolds, PTL

(* Who waits, and for what: the writer for the prune, and the prune for    *)
(* the writer.                                                             *)
LEMMA WriterWaits ==
    ASSUME Typed, SoleInv, NEW w \in Writers, WaitsFor(w, Pruner)
    PROVE  /\ tx[w].name = "rollback" /\ tx[Pruner].name = "prune"
           /\ \E l \in Ledger : Doomed(w, l) /\ Doomed(Pruner, l)
<1> DEFINE p == Pruner
<1>1. /\ TypeOK /\ Tables /\ w \in Sessions /\ p \in Sessions /\ p \notin Writers /\ w # p
      /\ Stage(w) /\ Stage(p) /\ Appending(w) /\ Removing(w) /\ Removing(p)
  BY DEF Typed, SoleInv, Sessions
<1>2. tx[p].at # "idle" /\ tx[p].name = "prune" /\ tx[p].put = {}
  <2>1. tx[p] # Idle
    BY DEF WaitsFor, Idle
  <2>2. tx[p].at # "idle"
    BY <1>1, <2>1 DEF Stage
  <2>3. ~Appends(p)
    BY <1>1 DEF Appends
  <2>4. QED
    BY <1>1, <2>2, <2>3, Aims DEF Stage
<1>3. \A id \in tx[p].cut : Doomed(p, id[1]) /\ Committed(id)
  BY <1>1, <1>2 DEF Removing, Removes
<1>4. \A l \in DOMAIN tx[p].rows : l \in Ledger /\ Doomed(p, l) /\ ledgers[l] # NoRow
  BY <1>1, <1>2, RowsOf DEF Removing, Removes
<1>5. tx[w].at # "upsert"
  <2> SUFFICES ASSUME tx[w].at = "upsert" PROVE FALSE
    OBVIOUS
  <2>1. PICK l \in DOMAIN tx[w].batch : l \in Ledger /\ ledgers[l] # NoRow
    <3>1. CASE \E l \in DOMAIN tx[w].batch : l \in DOMAIN tx[p].rows
      BY <1>4, <3>1
    <3>2. CASE \E e \in Batch(w) : e.id \in tx[p].cut
      <4>1. PICK e \in Batch(w), f \in events : f.id = e.id
        BY <1>3, <3>2 DEF Committed
      <4>2. e.id[1] \in DOMAIN tx[w].batch
        BY DEF Batch
      <4>3. QED
        BY <1>1, <4>1, <4>2, RowOf
    <3>3. QED
      BY <1>2, <3>1, <3>2 DEF WaitsFor
  <2>2. l <= checkpoints[NameOf[w]] /\ checkpoints[NameOf[w]] < l
    BY <1>1, <2>1 DEF Tables, Behind, Appending, Stage
  <2>3. l \in Nat /\ checkpoints[NameOf[w]] \in Nat
    BY <1>1, <2>1 DEF Ledger, Atomic!Ledger, TypeOK
  <2>4. QED
    BY <2>2, <2>3
<1>6. tx[w].at \in {"delete_events", "delete_ledgers"}
  BY <1>5 DEF WaitsFor
<1>7. Removes(w) /\ tx[w].name = "rollback"
  BY <1>1, <1>6 DEF Stage, Removes
<1>8. CASE \E id \in tx[w].found \cup Cascade(w) : id \in tx[p].cut /\ Doomed(w, id[1])
  <2>1. PICK id \in tx[p].cut, e \in events : Doomed(w, id[1]) /\ e.id = id
    BY <1>3, <1>8 DEF Committed
  <2>2. id[1] \in Ledger
    BY <1>1, <2>1, RowOf
  <2>3. QED
    BY <1>2, <1>3, <1>7, <2>1, <2>2
<1>9. CASE \E l \in tx[w].found : l \in DOMAIN tx[p].rows /\ Doomed(w, l)
  BY <1>2, <1>4, <1>7, <1>9
<1>10. \A id \in Cascade(w) : Doomed(w, id[1])
  BY <1>1, <1>7 DEF Cascade, Removing
<1>11. QED
  BY <1>1, <1>2, <1>6, <1>7, <1>8, <1>9, <1>10 DEF WaitsFor, Removing

LEMMA PrunerWaits ==
    ASSUME Typed, IdInv, SoleInv, NEW w \in Writers, WaitsFor(Pruner, w)
    PROVE  /\ tx[w].name = "rollback" /\ tx[Pruner].name = "prune"
           /\ \E l \in Ledger : Doomed(w, l) /\ Doomed(Pruner, l)
<1> DEFINE p == Pruner
<1>1. /\ TypeOK /\ Tables /\ w \in Sessions /\ p \in Sessions /\ p \notin Writers /\ w # p
      /\ Stage(w) /\ Stage(p) /\ Appending(w) /\ Removing(w) /\ Removing(p) /\ PutFresh(w)
  BY DEF Typed, SoleInv, IdInv, Sessions
<1>2. tx[p].at \in {"delete_events", "delete_ledgers"}
  BY <1>1 DEF WaitsFor, Stage, Appends
<1>3. Removes(p) /\ tx[p].name = "prune"
  BY <1>1, <1>2 DEF Stage
(* What the prune wants is committed, which what an append writes is not.  *)
<1>4. PICK l \in Ledger :
        /\ Doomed(p, l) /\ ledgers[l] # NoRow
        /\ l \in DOMAIN tx[w].rows \/ \E id \in tx[w].cut : id[1] = l
  <2>1. ASSUME NEW id, Committed(id), Doomed(p, id[1]),
               id \in tx[w].cut \/ \E f \in tx[w].put : f.id = id
        PROVE  id[1] \in Ledger /\ ledgers[id[1]] # NoRow /\ id \in tx[w].cut
    <3>1. PICK e \in events : e.id = id
      BY <2>1 DEF Committed
    <3>2. QED
      BY <1>1, <2>1, <3>1, RowOf DEF PutFresh
  <2>2. CASE tx[p].at = "delete_events"
    <3>1. PICK id \in tx[p].found : id \in tx[w].cut \/ \E f \in tx[w].put : f.id = id
      BY <2>2 DEF WaitsFor
    <3>2. Committed(id) /\ Doomed(p, id[1])
      BY <1>1, <1>3, <2>2, <3>1 DEF Removing
    <3>3. QED
      BY <2>1, <3>1, <3>2
  <2>3. CASE tx[p].at = "delete_ledgers" /\ \E l \in tx[p].found : l \in DOMAIN tx[w].rows
    BY <1>1, <1>3, <2>3 DEF Removing, Stage
  <2>4. CASE \E id \in Cascade(p) : id \in tx[w].cut \/ \E f \in tx[w].put : f.id = id
    <3>1. PICK id \in Cascade(p) : id \in tx[w].cut \/ \E f \in tx[w].put : f.id = id
      BY <2>4
    <3>2. Committed(id) /\ id[1] \in DOMAIN tx[p].rows
      BY DEF Cascade, Committed
    <3>3. Doomed(p, id[1])
      BY <1>1, <1>3, <3>2 DEF Removing
    <3>4. QED
      BY <2>1, <3>1, <3>2, <3>3
  <2>5. QED
    BY <1>2, <2>2, <2>3, <2>4 DEF WaitsFor
<1>5. ~Appends(w)
  <2> SUFFICES ASSUME Appends(w) PROVE FALSE
    OBVIOUS
  <2>1. tx[w].at # "idle" /\ tx[w].cut = {}
    <3>1. tx[w].at # "idle"
      BY <1>1, <1>4 DEF Stage, Idle
    <3>2. QED
      BY <1>1, <3>1, Aims, EitherAim
  <2>2. l \in DOMAIN tx[w].batch
    <3>1. tx[w].at \in {"upsert", "commit"} /\ l \in DOMAIN tx[w].rows
      BY <1>1, <1>4, <2>1, Aims, EitherAim
    <3>2. QED
      BY <1>1, <2>1, <3>1 DEF Stage, Appending
  <2>3. l <= checkpoints[NameOf[w]] /\ checkpoints[NameOf[w]] < l
    BY <1>1, <1>4, <2>1, <2>2 DEF Tables, Behind, Appending
  <2>4. l \in Nat /\ checkpoints[NameOf[w]] \in Nat
    BY <1>1 DEF Ledger, Atomic!Ledger, TypeOK
  <2>5. QED
    BY <2>3, <2>4
<1>6. Removes(w) /\ tx[w].name = "rollback"
  <2>1. tx[w].at # "idle"
    BY <1>1, <1>4 DEF Stage, Idle
  <2>2. Removes(w)
    BY <1>1, <1>5, <2>1, Aims
  <2>3. QED
    BY <1>1, <2>1, <2>2 DEF Stage, Removes
<1>7. Doomed(w, l)
  BY <1>1, <1>4, <1>6 DEF Removing
<1>8. QED
  BY <1>3, <1>4, <1>6, <1>7

(* So commits and prunes never hold each other up, and neither does a      *)
(* rewind that removes nothing below the prune's cutoff.                   *)
THEOREM CommitsAreNotHeldUp ==
    ASSUME Sole
    PROVE  Spec => []OnlyDeepRewindsWait
<1>1. Typed /\ IdInv /\ SoleInv => OnlyDeepRewindsWait
  <2> SUFFICES ASSUME Typed, IdInv, SoleInv, NEW s \in Sessions, NEW t \in Sessions, s # t, WaitsFor(s, t)
               PROVE  /\ {tx[s].name, tx[t].name} = {"rollback", "prune"}
                      /\ \E l \in Ledger : Doomed(s, l) /\ Doomed(t, l)
    BY DEF OnlyDeepRewindsWait
  <2>1. (s \in Writers /\ t = Pruner) \/ (t \in Writers /\ s = Pruner)
    BY DEF Sole, Sessions
  <2>2. QED
    BY <2>1, WriterWaits, PrunerWaits
<1>2. QED
  BY <1>1, SoleHolds, PTL
(* A COMMIT is one step of the store the interface promises.               *)
LEMMA AppendsAtOnce ==
    ASSUME Typed, SoleInv, NEW s \in Sessions, Commit(s), Appends(s)
    PROVE  Atomic!Append(NameOf[s])
<1> DEFINE cp    == checkpoints[NameOf[s]]
           end   == tx[s].to
           batch == tx[s].batch
           count == [l \in cp + 1 .. end |-> IF l \in DOMAIN batch THEN batch[l] ELSE -1]
<1>0. /\ TypeOK /\ tx[s].at = "commit" /\ Appending(s) /\ tx[s] \in Tx
      /\ NameOf[s] \in Names /\ cp \in 0..MaxLedger /\ end \in 0..MaxLedger
      /\ checkpoints' \in [Names -> 0..MaxLedger] /\ ledgers' \in [Ledger -> AnyRow]
  BY Commits DEF Typed, TypeOK, SoleInv, Appends, Tx
<1>1. /\ \A l \in Ledger : ledgers'[l] = IF l \in DOMAIN batch
                                         THEN [hash |-> tx[s].hash, count |-> batch[l]]
                                         ELSE ledgers[l]
      /\ events' = events \cup Batch(s)
      /\ \A n \in Names : checkpoints'[n] = IF n = NameOf[s] THEN end ELSE checkpoints[n]
  BY AppendCommits
<1>2. /\ end \in DOMAIN batch /\ tx[s].hash \in Hashes
      /\ \A l \in DOMAIN batch : cp < l /\ l <= end
  BY <1>0 DEF Appending
<1>3. \A l \in DOMAIN batch : l \in Ledger /\ batch[l] \in 0..MaxPerLedger
  <2>1. PICK B \in SUBSET Ledger : batch \in [B -> 0..MaxPerLedger]
    BY <1>0 DEF Tx, Batches
  <2>2. QED
    BY <2>1
<1>4. DOMAIN batch \subseteq cp + 1 .. end /\ end \in cp + 1 .. MaxLedger
  <2>1. \A l \in DOMAIN batch : l \in cp + 1 .. end
    BY <1>0, <1>2, <1>3 DEF Ledger, Atomic!Ledger
  <2>2. QED
    BY <1>0, <1>2, <2>1
<1>5. count \in [cp + 1 .. end -> -1..MaxPerLedger]
  <2>1. \A l \in cp + 1 .. end : (IF l \in DOMAIN batch THEN batch[l] ELSE -1) \in -1..MaxPerLedger
    BY <1>3
  <2>2. QED
    BY <2>1
<1>6. {l \in DOMAIN count : count[l] >= 0} = DOMAIN batch
  BY <1>3, <1>4
<1>7. \A l \in DOMAIN batch : count[l] = batch[l]
  BY <1>4
<1>8. DOMAIN count = cp + 1 .. end
  OBVIOUS
<1> DEFINE touched == {l \in DOMAIN count : count[l] >= 0}
           put     == {[id |-> i, hash |-> tx[s].hash] :
                         i \in {j \in EventId : j[1] \in touched /\ j[2] <= count[j[1]]}}
<1> HIDE DEF count
<1>9. put = Batch(s)
  <2>1. {j \in EventId : j[1] \in touched /\ j[2] <= count[j[1]]}
          = {j \in EventId : j[1] \in DOMAIN batch /\ j[2] <= batch[j[1]]}
    BY <1>6, <1>7
  <2>2. QED
    BY <2>1 DEF Batch
<1>10. ledgers' = [l \in Ledger |-> IF l \in touched THEN [hash |-> tx[s].hash, count |-> count[l]]
                                                     ELSE ledgers[l]]
  <2>1. touched = DOMAIN batch
    BY <1>6
  <2> HIDE DEF touched
  <2>2. \A l \in Ledger : ledgers'[l] = IF l \in touched THEN [hash |-> tx[s].hash, count |-> count[l]]
                                                         ELSE ledgers[l]
    BY <1>1, <1>7, <2>1
  <2>3. QED
    BY <1>0, <2>2
<1>11. checkpoints' = [checkpoints EXCEPT ![NameOf[s]] = end]
  BY <1>0, <1>1 DEF TypeOK
<1>12. end \in touched
  BY <1>2, <1>6
<1>13. QED
  <2>1. /\ end \in touched
        /\ ledgers' = [l \in Atomic!Ledger |-> IF l \in touched THEN [hash |-> tx[s].hash, count |-> count[l]]
                                                                ELSE ledgers[l]]
        /\ events' = events \cup put
        /\ checkpoints' = [checkpoints EXCEPT ![NameOf[s]] = end]
    BY <1>1, <1>9, <1>10, <1>11, <1>12 DEF Ledger
  <2>2. QED
    BY <1>2, <1>4, <1>5, <2>1 DEF Atomic!Append, EventId

LEMMA RemovesAtOnce ==
    ASSUME Typed, SoleInv, NEW s \in Sessions, Commit(s), Removes(s)
    PROVE  \E f \in 0..MaxLedger : Atomic!RollbackTo(f) \/ Atomic!Prune(f)
<1> DEFINE f == tx[s].to
<1>0. /\ TypeOK /\ Tables /\ tx[s].at = "commit" /\ Rewinding(s) /\ f \in 0..MaxLedger
      /\ checkpoints' \in [Names -> 0..MaxLedger] /\ ledgers' \in [Ledger -> AnyRow]
      /\ DOMAIN tx[s].rows \subseteq Ledger
  <2>1. tx[s] \in Tx
    BY DEF Typed, TypeOK
  <2>2. PICK D \in SUBSET Ledger : tx[s].rows \in [D -> AnyRow]
    BY <2>1 DEF Tx, Rows
  <2>3. QED
    BY <2>1, <2>2, Commits DEF Typed, TypeOK, SoleInv, Tx
<1>1. /\ \A l \in Ledger : ledgers'[l] = IF l \in DOMAIN tx[s].rows THEN NoRow ELSE ledgers[l]
      /\ events' = {e \in events : e.id[1] \notin DOMAIN tx[s].rows}
      /\ events' = {e \in events : e.id \notin tx[s].cut}
      /\ \A n \in Names : checkpoints'[n] =
           IF tx[s].name = "rollback" /\ checkpoints[n] > f THEN f ELSE checkpoints[n]
      /\ \A l \in DOMAIN tx[s].rows : Doomed(s, l)
  BY RemovalCommits
<1>2. CASE tx[s].name = "rollback"
  <2>1. /\ Victims(s) \subseteq tx[s].cut /\ Present(s) \subseteq DOMAIN tx[s].rows
        /\ \A l : Doomed(s, l) <=> l > f
    BY <1>0, <1>2 DEF Rewinding, Doomed
  <2>2. \A l \in Ledger : ledgers'[l] = IF l > f THEN NoRow ELSE ledgers[l]
    BY <1>1, <2>1 DEF Present
  <2>3. ledgers' = [l \in Atomic!Ledger |-> IF l > f THEN Atomic!NoRow ELSE ledgers[l]]
    BY <1>0, <2>2 DEF Ledger, NoRow
  <2>4. \A e \in events : e.id[1] \in DOMAIN tx[s].rows <=> ~(e.id[1] <= f)
    <3> SUFFICES ASSUME NEW e \in events PROVE e.id[1] \in DOMAIN tx[s].rows <=> ~(e.id[1] <= f)
      OBVIOUS
    <3>1. e.id[1] \in Nat /\ f \in Nat
      BY <1>0, RowOf DEF Ledger, Atomic!Ledger
    <3>2. e.id[1] > f => e.id \in Victims(s)
      BY <2>1 DEF Victims
    <3>3. e.id[1] \in DOMAIN tx[s].rows <=> e.id[1] > f
      BY <1>1, <2>1, <3>2
    <3>4. QED
      BY <3>1, <3>3
  <2>5. events' = {e \in events : e.id[1] <= f}
    BY <1>1, <2>4
  <2>6. checkpoints' = [n \in Names |-> IF checkpoints[n] > f THEN f ELSE checkpoints[n]]
    BY <1>0, <1>1, <1>2
  <2>7. QED
    BY <1>0, <2>3, <2>5, <2>6 DEF Atomic!RollbackTo
<1>3. CASE tx[s].name = "prune"
  <2> DEFINE gone == DOMAIN tx[s].rows
  <2>1. gone \in SUBSET {l \in Atomic!Ledger : l < f}
    BY <1>0, <1>1, <1>3 DEF Doomed, Ledger
  <2>2. ledgers' = [l \in Atomic!Ledger |-> IF l \in gone THEN Atomic!NoRow ELSE ledgers[l]]
    BY <1>0, <1>1 DEF Ledger, NoRow
  <2>3. checkpoints' = checkpoints
    BY <1>0, <1>1, <1>3 DEF TypeOK
  <2>4. QED
    BY <1>0, <1>1, <2>1, <2>2, <2>3 DEF Atomic!Prune
<1>4. QED
  BY <1>2, <1>3 DEF Removes

(* The transactions of one writer and of the prune, whatever statement any *)
(* of them fails at, implement the store that does each at one instant.    *)
THEOREM StoreIsAtomic ==
    ASSUME Sole
    PROVE  Spec => ImplementsAtomicStore
<1>1. Init => Atomic!Init
  BY DEF Init
<1>2. ASSUME Typed, SoleInv, [Next]_vars
      PROVE  [Atomic!Next]_<<ledgers, events, checkpoints>>
  <2>1. ASSUME NEW s \in Sessions, Moves(s) PROVE UNCHANGED tables
    BY <1>2, <2>1, MoveTyped DEF Alone
  <2>2. ASSUME NEW s \in Sessions, Commit(s) PROVE Atomic!Next
    <3>1. CASE Appends(s)
      <4>1. NameOf[s] \in Names
        BY <3>1 DEF Appends
      <4>2. QED
        BY <1>2, <2>2, <3>1, <4>1, AppendsAtOnce DEF Atomic!Next
    <3>2. CASE Removes(s)
      BY <1>2, <2>2, <3>2, RemovesAtOnce DEF Atomic!Next
    <3>3. Appends(s) \/ Removes(s)
      BY <1>2, <2>2, Commits DEF Typed, Stage
    <3>4. QED
      BY <3>1, <3>2, <3>3
  <2>3. Reads \/ UNCHANGED vars => UNCHANGED tables
    BY DEF Reads, OpenStream, ReadPage, CloseStream, vars, tables
  <2>4. QED
    BY <1>2, <2>1, <2>2, <2>3, Steps DEF tables
<1>3. QED
  BY <1>1, <1>2, SoleHolds, PTL DEF Spec, ImplementsAtomicStore, Atomic!Spec

=============================================================================
