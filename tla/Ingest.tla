------------------------------- MODULE Ingest -------------------------------
(***************************************************************************)
(* One ingestion pipeline (the Ingestor class), the store it commits to    *)
(* and the node it reads: one action per await of the code, since the node *)
(* may close, rewrite or drop ledgers between any two of them.             *)
(*                                                                         *)
(* The durable state is what EventStore holds: events by cursor, ledger    *)
(* headers by sequence, checkpoints by name.  Everything else is a local   *)
(* variable of the pass in progress and is lost when the pass throws or    *)
(* the process dies.                                                       *)
(***************************************************************************)
EXTENDS Chain

CONSTANTS
    Names,                \* the checkpoint rows of the store
    Name,                 \* this pipeline's checkpointName
    ContractIds,          \* the contracts it asks for; {}: all
    WindowSize,           \* ledgers per atomic commit
    PageSize,             \* events per getEvents page
    ConfirmationWindow,   \* ledgers re-checked behind the tip after a pass
    StartLedger,          \* first ledger when there is no checkpoint; 0: oldest
    Retention,            \* ledgers prune() keeps; 0: never prunes
    ReorgPoints,          \* the pcs at which the node may rewrite its history
    EvictPoints,          \* the pcs at which the node may drop old ledgers
    MaxFaults             \* bound: thrown calls, crashes and restarts

PC == {"idle", "resume", "events", "headers", "detect", "append", "fork",
       "rollback", "recheckpoint", "reresume", "verify", "synced"}

ASSUME IngestAssumption ==
    /\ Name \in Names
    /\ ContractIds \subseteq Contracts
    /\ WindowSize \in Nat \ {0}
    /\ PageSize \in Nat \ {0}
    /\ ConfirmationWindow \in Nat
    /\ StartLedger \in 0..MaxLedger
    /\ Retention \in Nat
    /\ ReorgPoints \subseteq PC
    /\ EvictPoints \subseteq PC
    /\ MaxFaults \in Nat

VARIABLES
    events,        \* stored events, keyed by cursor (here the id)
    ledgers,       \* stored headers by sequence, None where there is none
    checkpoints,   \* last fully ingested ledger by name, or NoCheckpoint
    pc,            \* the await this pipeline is at
    pass,          \* the locals of the pass in progress
    pruneTo,       \* the cutoff a prune() in progress has computed, or 0
    faults         \* thrown calls and crashes so far

storeVars == <<events, ledgers, checkpoints>>
localVars == <<pc, pass>>
vars == <<chain, oldest, epoch, events, ledgers, checkpoints, pc, pass, pruneTo, faults>>

NoCheckpoint == -1
None         == [hash |-> NoHash, prev |-> NoHash]
NoHeaders    == [l \in Ledger |-> None]
NoPass       == [oldest |-> 1, latest |-> 0, start |-> 1, end |-> 0, after |-> <<0, 0>>,
                 got |-> {}, wanted |-> {}, headers |-> NoHeaders,
                 suspect |-> 0, verifying |-> FALSE]

HeaderRecord == [hash: Hash, prev: Hash \cup {NoHash}]
EventId      == Ledger \X (Nat \ {0})
FetchedEvent == [id: EventId, branch: Hash, contract: Contracts]
StoredEvent  == [id: EventId, branch: Hash, contract: Contracts, hash: Hash]

Fetched(e)   == [id |-> e.id, branch |-> e.branch, contract |-> e.contract]
Pass         == [oldest: Nat, latest: 0..MaxLedger,
                 start: Nat, end: 0..MaxLedger, after: Nat \X Nat,
                 got: SUBSET FetchedEvent, wanted: SUBSET (0..MaxLedger),
                 headers: [Ledger -> HeaderRecord \cup {None}],
                 suspect: 0..MaxLedger, verifying: BOOLEAN]

TypeOK ==
    /\ ChainTypeOK
    /\ events \in SUBSET StoredEvent
    /\ ledgers \in [Ledger -> HeaderRecord \cup {None}]
    /\ checkpoints \in [Names -> {NoCheckpoint} \cup 0..MaxLedger]
    /\ pc \in PC
    /\ pass \in Pass
    /\ pruneTo \in 0..MaxLedger
    /\ faults \in 0..MaxFaults

Init ==
    /\ ChainInit
    /\ events = {}
    /\ ledgers = NoHeaders
    /\ checkpoints = [n \in Names |-> NoCheckpoint]
    /\ pc = "idle"
    /\ pass = NoPass
    /\ pruneTo = 0
    /\ faults = 0

LesserOf(a, b)    == IF a <= b THEN a ELSE b
GreaterOf(a, b)   == IF a >= b THEN a ELSE b
IsLeast(x, S)     == x \in S /\ \A y \in S : x <= y
IsGreatest(x, S)  == x \in S /\ \A y \in S : y <= x

Checkpoint == checkpoints[Name]
Held       == {l \in Ledger : ledgers[l] # None}

----------------------------------------------------------------------------
(* A pass of runOnce().                                                    *)

ReadRange ==
    /\ pc = "idle"
    /\ pc' = "resume"
    /\ pass' = [NoPass EXCEPT !.oldest = oldest, !.latest = Tip]
    /\ UNCHANGED <<chainVars, storeVars, pruneTo, faults>>

ResumeAboveStored ==
    IF Held # {} THEN (CHOOSE l \in Held : IsGreatest(l, Held)) + 1
    ELSE IF StartLedger > 0 THEN StartLedger ELSE oldest
ResumeLedger ==
    IF Checkpoint # NoCheckpoint THEN Checkpoint + 1
    ELSE IF StartLedger > 0 THEN StartLedger ELSE oldest

WindowEnd(c) == LesserOf(c + WindowSize - 1, pass.latest)

(* The head of the loop: the next window from ledger c, or the end of the  *)
(* pass, after which follow() re-verifies the confirmation window.         *)
OpenWindow(c) ==
    IF c <= pass.latest
    THEN /\ pc' = "events"
         /\ pass' = [NoPass EXCEPT !.oldest = pass.oldest, !.latest = pass.latest,
                                   !.start = c, !.after = <<c, 0>>,
                                   !.end = WindowEnd(c)]
    ELSE /\ pc' = "verify"
         /\ pass' = NoPass

Resume ==
    /\ pc = "resume"
    /\ ResumeLedger >= pass.oldest
    /\ OpenWindow(ResumeLedger)
    /\ UNCHANGED <<chainVars, storeVars, pruneTo, faults>>

(* RETENTION_EVICTED: thrown, logged by follow(), retried after the sleep. *)
RefuseEvicted ==
    /\ pc = "resume"
    /\ ResumeLedger < pass.oldest
    /\ pc' = "idle"
    /\ pass' = NoPass
    /\ UNCHANGED <<chainVars, storeVars, pruneTo, faults>>

(* The re-read of the checkpoint inside the loop does not look at the      *)
(* retained range again.                                                   *)
ResumeAfterRewind ==
    /\ pc = "reresume"
    /\ OpenWindow(ResumeLedger)
    /\ UNCHANGED <<chainVars, storeVars, pruneTo, faults>>

(* One page of getEvents.  A short page ends the loop; failed calls count  *)
(* for the length of the page and are not collected.                       *)
LastPageOfCollected(page) == Cardinality({e \in page : e.ok}) < PageSize
LastPage(page) == Cardinality(page) < PageSize

(* The ledgers that carry events, plus the one that anchors the checkpoint.*)
TouchedOnly(got) == {e.id[1] : e \in got}
Touched(got) == {e.id[1] : e \in got} \cup {pass.end}

FetchEvents ==
    /\ pc = "events"
    /\ LET page == GetEvents(pass.after, pass.end, PageSize, ContractIds)
           got  == pass.got \cup {Fetched(e) : e \in {f \in page : f.ok}}
       IN  IF LastPage(page)
           THEN /\ pc' = "headers"
                /\ pass' = [pass EXCEPT !.got = got,
                                        !.after = <<0, 0>>,
                                        !.wanted = Touched(got)]
           ELSE \E last \in page :
                  /\ \A e \in page : ~Before(last.id, e.id)
                  /\ pass' = [pass EXCEPT !.got = got, !.after = last.id]
                  /\ UNCHANGED pc
    /\ UNCHANGED <<chainVars, storeVars, pruneTo, faults>>

(* The first contiguous run of the wanted sequences: one getLedgers call.  *)
FirstRun(wanted) == {l \in wanted : \A k \in wanted : k..l \subseteq wanted}

FetchHeaders ==
    /\ pc = "headers"
    /\ LET run  == FirstRun(pass.wanted)
           left == pass.wanted \ run
       IN  /\ pass' = [pass EXCEPT
                         !.headers = [l \in Ledger |-> IF l \in run \cap Served
                                                       THEN Header(l) ELSE @[l]],
                         !.wanted = left]
           /\ pc' = IF left = {} THEN "detect" ELSE "headers"
    /\ UNCHANGED <<chainVars, storeVars, pruneTo, faults>>

----------------------------------------------------------------------------
(* Reorg detection and rewind.                                             *)

Rewritten(l) == ledgers[l] # None /\ ledgers[l].hash # pass.headers[l].hash
Unlinked(l)  == /\ l - 1 \in Ledger
                /\ ledgers[l - 1] # None
                /\ ledgers[l - 1].hash # pass.headers[l].prev
ConflictsByHash == {l \in Ledger : pass.headers[l] # None /\ Rewritten(l)}
Conflicts    == {l \in Ledger : pass.headers[l] # None /\ (Rewritten(l) \/ Unlinked(l))}

DetectReorg ==
    /\ pc = "detect"
    /\ IF Conflicts = {}
       THEN pc' = "append" /\ UNCHANGED pass
       ELSE \E l \in Conflicts :
                /\ IsLeast(l, Conflicts)
                /\ pc' = "fork"
                /\ pass' = [NoPass EXCEPT !.oldest = pass.oldest, !.latest = pass.latest,
                                          !.suspect = IF Rewritten(l) THEN l ELSE l - 1]
    /\ UNCHANGED <<chainVars, storeVars, pruneTo, faults>>

(* One turn of findForkPoint's loop.  A ledger the node does not return    *)
(* counts as one it disagrees about.                                       *)
Agreed(l) == ledgers[l] # None /\ l \in Served /\ chain[l].hash = ledgers[l].hash

FindForkPoint ==
    /\ pc = "fork"
    /\ IF pass.suspect > 0 /\ ~Agreed(pass.suspect)
       THEN pass' = [pass EXCEPT !.suspect = @ - 1] /\ UNCHANGED pc
       ELSE pc' = "rollback" /\ UNCHANGED pass
    /\ UNCHANGED <<chainVars, storeVars, pruneTo, faults>>

(* What is left of the store above and below a fork point.                 *)
EventsAboveToo(f) == events
LedgersNotBelow(f) == [l \in Ledger |-> IF l >= f THEN None ELSE ledgers[l]]
LedgersOneMore(f) == [l \in Ledger |-> IF l > f + 1 THEN None ELSE ledgers[l]]
CheckpointsAsTheyAre(f) == checkpoints

EventsUpTo(f)  == {e \in events : e.id[1] <= f}
LedgersUpTo(f) == [l \in Ledger |-> IF l > f THEN None ELSE ledgers[l]]
Clamped(f)     == [n \in Names |-> LesserOf(checkpoints[n], f)]

(* One transaction; every checkpoint above the fork point is clamped.      *)
RollbackTo ==
    /\ pc = "rollback"
    /\ events' = EventsUpTo(pass.suspect)
    /\ ledgers' = LedgersUpTo(pass.suspect)
    /\ checkpoints' = Clamped(pass.suspect)
    /\ pc' = "recheckpoint"
    /\ UNCHANGED <<chainVars, pass, pruneTo, faults>>

RewriteCheckpoint ==
    /\ pc = "recheckpoint"
    /\ checkpoints' = [checkpoints EXCEPT ![Name] = pass.suspect]
    /\ IF pass.verifying
       THEN pc' = "idle" /\ pass' = NoPass
       ELSE pc' = "reresume" /\ pass' = [pass EXCEPT !.suspect = 0]
    /\ UNCHANGED <<chainVars, events, ledgers, pruneTo, faults>>

----------------------------------------------------------------------------
(* The commit.                                                             *)

HeadersComplete == \A e \in pass.got : pass.headers[e.id[1]] # None

(* append(): headers overwrite, events already present are skipped, and    *)
(* the checkpoint moves to the window's end, in one transaction.           *)
AppendWindow ==
    /\ pc = "append"
    /\ HeadersComplete
    /\ events' = events \cup
         {[id |-> e.id, branch |-> e.branch, contract |-> e.contract,
           hash |-> pass.headers[e.id[1]].hash] :
             e \in {g \in pass.got : \A s \in events : s.id # g.id}}
    /\ ledgers' = [l \in Ledger |-> IF pass.headers[l] # None
                                    THEN pass.headers[l] ELSE ledgers[l]]
    /\ checkpoints' = [checkpoints EXCEPT ![Name] = pass.end]
    /\ OpenWindow(pass.end + 1)
    /\ UNCHANGED <<chainVars, pruneTo, faults>>

(* LEDGER_GAP: an event without a header; the pass throws.                 *)
LedgerGap ==
    /\ pc = "append"
    /\ ~HeadersComplete
    /\ pc' = "idle"
    /\ pass' = NoPass
    /\ UNCHANGED <<chainVars, storeVars, pruneTo, faults>>

----------------------------------------------------------------------------
(* verifyConfirmationWindow(), the sleep, and what can end a pass early.   *)

ReexaminedBelowLatest ==
    {l \in Ledger : \E latest \in Held : /\ IsGreatest(latest, Held)
                                        /\ latest - ConfirmationWindow < l
                                        /\ l < latest}
Reexamined ==
    {l \in Ledger : \E latest \in Held : /\ IsGreatest(latest, Held)
                                        /\ latest - ConfirmationWindow < l
                                        /\ l <= latest}

Stale == {l \in Reexamined \cap Served : ledgers[l] # None /\ ledgers[l].hash # chain[l].hash}

VerifyConfirmationWindow ==
    /\ pc = "verify"
    /\ IF Stale = {}
       THEN pc' = "synced" /\ UNCHANGED pass
       ELSE \E l \in Stale :
              /\ IsLeast(l, Stale)
              /\ pc' = "fork"
              /\ pass' = [pass EXCEPT !.suspect = l, !.verifying = TRUE]
    /\ UNCHANGED <<chainVars, storeVars, pruneTo, faults>>

Sleep ==
    /\ pc = "synced"
    /\ pc' = "idle"
    /\ UNCHANGED <<chainVars, storeVars, pass, pruneTo, faults>>

(* Any call of the pass throws and follow() catches it, or the process     *)
(* dies and starts again: either way only the locals are lost.             *)
Abort ==
    /\ pc \notin {"idle", "synced"}
    /\ faults < MaxFaults
    /\ pc' = "idle"
    /\ pass' = NoPass
    /\ faults' = faults + 1
    /\ UNCHANGED <<chainVars, storeVars, pruneTo>>

(* prune(): the cutoff is computed from the latest stored ledger, then     *)
(* applied; a pass may be in progress between the two.                     *)
PruneReadUnguarded ==
    /\ Retention > 0
    /\ pruneTo = 0
    /\ \E latest \in Held :
         /\ IsGreatest(latest, Held)
         /\ pruneTo' = latest - Retention
    /\ UNCHANGED <<chainVars, storeVars, localVars, faults>>

PruneRead ==
    /\ Retention > 0
    /\ pruneTo = 0
    /\ \E latest \in Held :
         /\ IsGreatest(latest, Held)
         /\ latest > Retention
         /\ pruneTo' = latest - Retention
    /\ UNCHANGED <<chainVars, storeVars, localVars, faults>>

PruneDelete ==
    /\ pruneTo > 0
    /\ events' = {e \in events : e.id[1] >= pruneTo}
    /\ ledgers' = [l \in Ledger |-> IF l < pruneTo THEN None ELSE ledgers[l]]
    /\ pruneTo' = 0
    /\ UNCHANGED <<chainVars, checkpoints, localVars, faults>>

----------------------------------------------------------------------------
IngestStep ==
    \/ ReadRange \/ Resume \/ RefuseEvicted \/ ResumeAfterRewind
    \/ FetchEvents \/ FetchHeaders \/ DetectReorg \/ FindForkPoint
    \/ RollbackTo \/ RewriteCheckpoint \/ AppendWindow \/ LedgerGap
    \/ VerifyConfirmationWindow \/ Sleep

Close == \E body \in Bodies : AppendLedger(body)
Reorg == pc \in ReorgPoints /\ \E s \in Ledger : ReorgFrom(s)
Evict == pc \in EvictPoints /\ \E s \in Ledger : SetOldestRetained(s)

Elsewhere == UNCHANGED <<storeVars, localVars, pruneTo, faults>>

Next ==
    \/ IngestStep
    \/ Abort
    \/ PruneRead
    \/ PruneDelete
    \/ Close /\ Elsewhere
    \/ Reorg /\ Elsewhere
    \/ Evict /\ Elsewhere

Spec == Init /\ [][Next]_vars

(* The event loop keeps running the pipeline (calls time out and are       *)
(* retried, so none hangs) and the network keeps closing ledgers.  Nothing *)
(* is assumed of reorgs, evictions, prunes and faults.                     *)
FairSpec == Spec /\ WF_vars(IngestStep) /\ WF_vars(Close /\ Elsewhere)

----------------------------------------------------------------------------
(* Safety.                                                                 *)

(* Provenance on every event: an event is never durable without the header *)
(* of its ledger, and the ledger hash it was stored with is that header's. *)
(* Two writes of one ledger could disagree; a rewind could drop one of the *)
(* two; the window may have been fetched from two branches.                *)
Provenance == \A e \in events : ledgers[e.id[1]].hash = e.hash

(* The stored headers form one hash chain wherever two neighbours are held,*)
(* however the node rewrites its history while windows are fetched,        *)
(* committed, rewound and re-fetched.                                      *)
LinkedArchive ==
    \A l \in Held : l - 1 \in Held => ledgers[l].prev = ledgers[l - 1].hash

(* A checkpoint is a committed boundary: nothing above the highest one is  *)
(* durable, whichever step of a rewind or a commit a crash interrupts.     *)
NothingAboveCheckpoint ==
    /\ \A e \in events : \E n \in Names : e.id[1] <= checkpoints[n]
    /\ \A l \in Held : \E n \in Names : l <= checkpoints[n]

(* The header of the checkpoint's own ledger is stored, so that the next   *)
(* window can be linked to it ("anchors the checkpoint even when the       *)
(* window is empty").                                                      *)
CheckpointAnchored == Checkpoint > 0 => Checkpoint \in Held

(* Of the contracts it asks for, the archive holds exactly the successful  *)
(* events that the node's present chain carries in ledger l.               *)
Mine(e) == Selected(e, ContractIds)

ExactAt(l) ==
    {Fetched(e) : e \in {f \in events : f.id[1] = l /\ Mine(f)}} =
    {Fetched(e) : e \in {f \in EventsOf(l) : f.ok /\ Mine(f)}}

First == IF StartLedger > 0 THEN StartLedger ELSE FirstSequence

(* Ledgers pruning may not have touched.                                   *)
Unpruned(l) == Retention = 0 \/ \A h \in Held : h - Retention <= l

(* "Every ledger through here is fully ingested": while the node does not  *)
(* rewrite history, nothing at or below the checkpoint is missing, failed  *)
(* or invented, at every instant, whatever is thrown, killed, pruned, or   *)
(* evicted by the node between passes.                                     *)
NoGaps == epoch = 0 => /\ Checkpoint <= Tip
                       /\ \A l \in First..Checkpoint : Unpruned(l) => ExactAt(l)

(* When a pass ends with its confirmation window verified, the archive is  *)
(* the node's chain up to the checkpoint: nothing of an abandoned branch   *)
(* is left and nothing of the present one is missing (the node may still   *)
(* be behind a checkpoint reached on the branch it abandoned).             *)
MirrorsWhenSynced ==
    [][pc = "verify" /\ pc' = "synced" /\ Checkpoint <= Tip
         => \A l \in First..Checkpoint : ExactAt(l)]_vars

----------------------------------------------------------------------------
(* The inductive invariant behind Provenance, LinkedArchive and            *)
(* NothingAboveCheckpoint, for a store with one pipeline: a window in      *)
(* flight lies wholly above the checkpoint, everything stored lies at or   *)
(* below it, and a rewind never aims above it.                             *)

Solo == \A n \in Names : n # Name => checkpoints[n] = NoCheckpoint

StoredUpToCheckpoint ==
    /\ \A e \in events : e.id[1] <= Checkpoint
    /\ \A l \in Held : l <= Checkpoint

ChainLinked == \A l \in 2..Tip : chain[l].prev = chain[l - 1].hash

InWindow(l) == pass.start <= l /\ l <= pass.end

WindowAhead ==
    pc \in {"events", "headers", "detect", "append"} =>
        /\ Checkpoint < pass.start
        /\ pass.start <= pass.end
        /\ \A e \in pass.got : InWindow(e.id[1])
        /\ \A l \in pass.wanted : InWindow(l)
        /\ \A l \in Ledger : pass.headers[l] # None => InWindow(l)

PageAhead == pc = "events" => pass.start <= pass.after[1] /\ pass.headers = NoHeaders

(* Neighbouring headers come from one call, so they link.                  *)
RunsApart ==
    pc = "headers" => \A l \in Ledger : pass.headers[l] # None =>
                         \A k \in l - 1 .. l + 1 : k \notin pass.wanted
HeadersLinked ==
    pc \in {"headers", "detect", "append"} =>
        \A l \in Ledger : l - 1 \in Ledger /\ pass.headers[l] # None /\ pass.headers[l - 1] # None
                            => pass.headers[l].prev = pass.headers[l - 1].hash

WindowLinks == pc = "append" => \A l \in Ledger : pass.headers[l] # None => ~Unlinked(l)

RewindsDown ==
    /\ pc \in {"fork", "rollback"} => pass.suspect <= Checkpoint
    /\ pc = "recheckpoint" => pass.suspect = Checkpoint

IInv == /\ Solo /\ StoredUpToCheckpoint /\ ChainLinked /\ WindowAhead /\ PageAhead
        /\ RunsApart /\ HeadersLinked /\ WindowLinks /\ RewindsDown
        /\ Provenance /\ LinkedArchive

----------------------------------------------------------------------------
(* Liveness: once the network has stopped rewriting history and nothing is *)
(* thrown any more, the archive becomes the node's chain and stays so.     *)
CaughtUp  == Checkpoint = Tip /\ Tip = MaxLedger /\ \A l \in First..Tip : ExactAt(l)
Converges == <>[]CaughtUp

----------------------------------------------------------------------------
(* Refinement.  With every ledger a window of its own (so that every header*)
(* is stored and every parent link checked) and a node that rewrites       *)
(* history only between passes, the store is an Archive: a prefix of some  *)
(* branch, extended only while it agrees with the node and cut back only   *)
(* to the last ledger the node still has.                                  *)
Archived == [l \in 1..Checkpoint |->
               [hash |-> ledgers[l].hash,
                events |-> {Fetched(e) : e \in {f \in events : f.id[1] = l}}]]

Contract == INSTANCE Archive WITH archive <- Archived

ImplementsArchive == Contract!Spec
=============================================================================
