------------------------------ MODULE Recovery ------------------------------
(***************************************************************************)
(* A wallet rebuilding one account's confidential balance from an archive: *)
(* RecoverySession.sync() with its pages, digests, retries and             *)
(* checkpoints, the replay fold, the check against the chain, and the      *)
(* indexer's two endpoints it calls, with the digest cache between.  The   *)
(* archive is whatever ingestion has committed (see Archive), and moves    *)
(* between any two requests.                                               *)
(*                                                                         *)
(* A ledger carries at most one event of the account, so that a cursor is  *)
(* a ledger sequence; 0 is "no cursor", which orders below them all.  A    *)
(* digest commits to the events it was computed over and is represented by *)
(* them; the rolling digest of the replayed state is represented by the    *)
(* set of events it has consumed.                                          *)
(***************************************************************************)
EXTENDS Integers, Sequences, FiniteSets

CONSTANTS
    MaxLedger,     \* bound: the last ledger the network closes
    MaxEpoch,      \* bound: how many times it rewrites its history
    Deltas,        \* what the account's events do to its balance
    Amounts,       \* the amounts of a credit or a debit
    PageSize,      \* events per page
    MaxAttempts,   \* attempts per request before SOURCE_UNAVAILABLE
    MaxLag,        \* ledgers of lag tolerated by the verification
    Caching,       \* whether the indexer has a digest cache
    Withholding,   \* whether pages may omit events or misreport hasMore
    MaxFaults      \* bound: failed requests, aborts and crashes

ASSUME RecoveryAssumption ==
    /\ MaxLedger \in Nat \ {0}
    /\ MaxEpoch \in Nat
    /\ Deltas \subseteq {"credit", "debit", "replace", "none"}
    /\ Amounts \subseteq Nat
    /\ PageSize \in Nat \ {0}
    /\ MaxAttempts \in Nat \ {0}
    /\ MaxLag \in Nat
    /\ Caching \in BOOLEAN
    /\ Withholding \in BOOLEAN
    /\ MaxFaults \in Nat

VARIABLES
    chain,      \* the network's ledgers
    epoch,      \* which branch it is closing
    archive,    \* the ledgers ingestion has committed
    cache,      \* cached digests: a set of [after, to, events]
    pc,         \* the request the session is at
    state,      \* the session's ReplayState
    saved,      \* the checkpoint the wallet stored, or the initial state
    page,       \* the page in hand
    digest,     \* the digest in hand
    reads,      \* what verify() has read so far
    asked,      \* history variable: the archive's length when the page was asked for
    attempts,   \* attempts of the request in progress that have failed
    outcome,    \* how the last sync ended
    faults

vars == <<chain, epoch, archive, cache, pc, state, saved, page, digest, reads,
          asked, attempts, outcome, faults>>
network == <<chain, epoch, archive>>
session == <<pc, state, saved, page, digest, reads, asked, attempts, outcome>>

Cursor     == 0..MaxLedger
CURSOR_MAX == MaxLedger + 1
Event      == [cursor: 1..MaxLedger, branch: 0..MaxEpoch, delta: Deltas, amount: Nat]
Nothing    == [delta |-> "absent", amount |-> 0]
Entry      == [delta: Deltas, amount: Nat] \cup {Nothing}
Block      == [branch: 0..MaxEpoch, entry: Entry]
Unread     == -1
Absent     == -2   \* the chain holds no balance of the account

initialState == [value |-> 0, last |-> 0, applied |-> {}]
NoPage       == [events |-> {}, hasMore |-> FALSE]
NoDigest     == [after |-> 0, to |-> 0, events |-> {}]
NoReads      == [balance |-> Unread, ledger |-> Unread, status |-> Unread]

Init ==
    /\ chain = << >> /\ epoch = 0 /\ archive = << >> /\ cache = {}
    /\ pc = "idle" /\ state = initialState /\ saved = initialState
    /\ page = NoPage /\ digest = NoDigest /\ reads = NoReads
    /\ asked = 0 /\ attempts = 0 /\ outcome = "none" /\ faults = 0

----------------------------------------------------------------------------
(* The replay fold over the plaintext: a credit adds, a debit takes away,  *)
(* a rollover or a key rotation replaces.                                  *)

AfterEvent(v, e) ==
    CASE e.delta = "credit"  -> v + e.amount
      [] e.delta = "debit"   -> v - e.amount
      [] e.delta = "replace" -> e.amount
      [] OTHER               -> v

(* The balance after each cursor, starting from v before the events.       *)
Values(v, events) ==
    LET f[c \in 0..MaxLedger] ==
            IF c = 0 THEN v
            ELSE IF \E e \in events : e.cursor = c
                 THEN AfterEvent(f[c - 1], CHOOSE e \in events : e.cursor = c)
                 ELSE f[c - 1]
    IN  f

EventsOf(ledgers, after, to) ==
    {[cursor |-> l, branch |-> ledgers[l].branch,
      delta |-> ledgers[l].entry.delta, amount |-> ledgers[l].entry.amount] :
        l \in {k \in DOMAIN ledgers : /\ after < k /\ k <= to
                                      /\ ledgers[k].entry # Nothing}}

Balance(ledgers) == Values(0, EventsOf(ledgers, 0, CURSOR_MAX))[MaxLedger]

----------------------------------------------------------------------------
(* The network, and the ingestion that follows it.                         *)

(* Debits are covered, rollovers keep the value, and only an account that  *)
(* has been credited does either, or discloses.                            *)
Balanced == \E e \in EventsOf(chain, 0, CURSOR_MAX) : e.delta = "credit"

Entries ==
    {Nothing} \cup
    {e \in [delta: Deltas, amount: Amounts \cup {0, Balance(chain)}] :
        CASE e.delta = "credit"  -> e.amount \in Amounts
          [] e.delta = "debit"   -> Balanced /\ e.amount \in Amounts /\ e.amount <= Balance(chain)
          [] e.delta = "replace" -> Balanced /\ e.amount = Balance(chain)
          [] e.delta = "none"    -> Balanced /\ e.amount = 0}

Close ==
    /\ Len(chain) < MaxLedger
    /\ \E e \in Entries : chain' = Append(chain, [branch |-> epoch, entry |-> e])
    /\ UNCHANGED <<epoch, archive, cache, session, faults>>

Reorg ==
    /\ epoch < MaxEpoch
    /\ \E n \in 0 .. Len(chain) - 1 : chain' = SubSeq(chain, 1, n)
    /\ epoch' = epoch + 1
    /\ UNCHANGED <<archive, cache, session, faults>>

OnChain(l) == l <= Len(chain) /\ chain[l] = archive[l]

(* append(): the archive grows along the chain it agrees with.             *)
Ingest ==
    /\ \A l \in DOMAIN archive : OnChain(l)
    /\ Len(archive) < Len(chain)
    /\ archive' = SubSeq(chain, 1, Len(archive) + 1)
    /\ UNCHANGED <<chain, epoch, cache, session, faults>>

(* rollbackTo(): back to the last ledger the node still has.               *)
Rollback ==
    /\ \E n \in 0 .. Len(archive) - 1 :
         /\ \A l \in 1..n : OnChain(l)
         /\ ~OnChain(n + 1)
         /\ archive' = SubSeq(archive, 1, n)
    /\ UNCHANGED <<chain, epoch, cache, session, faults>>

----------------------------------------------------------------------------
(* The indexer's endpoints.                                                *)

(* GET /accounts/x/events: the first PageSize events after the cursor.     *)
Page(after) ==
    LET matched == EventsOf(archive, after, CURSOR_MAX)
    IN  [events  |-> {e \in matched :
                        Cardinality({f \in matched : f.cursor < e.cursor}) < PageSize},
         hasMore |-> Cardinality(matched) > PageSize]

(* What a source that withholds may answer instead.                        *)
Served(after) ==
    IF Withholding
    THEN [events: SUBSET Page(after).events, hasMore: BOOLEAN]
    ELSE {Page(after)}

Cached(after, to) == {d \in cache : d.after = after /\ d.to = to}

RangeDigest(after, to) == [after |-> after, to |-> to, events |-> EventsOf(archive, after, to)]

----------------------------------------------------------------------------
(* The session.                                                            *)

(* sync(): from a stored checkpoint, or from what the session has.         *)
Start ==
    /\ pc = "idle"
    /\ \E from \in {state, saved} : state' = from
    /\ pc' = "page"
    /\ outcome' = "none"
    /\ UNCHANGED <<network, asked, cache, saved, page, digest, reads, attempts, faults>>

FetchPage ==
    /\ pc = "page"
    /\ page' \in Served(state.last)
    /\ pc' = "digest"
    /\ asked' = Len(archive)
    /\ attempts' = 0
    /\ UNCHANGED <<network, cache, state, saved, digest, reads, outcome, faults>>

FirstOf(events) == CHOOSE c \in {e.cursor : e \in events} : \A e \in events : c <= e.cursor
LastOf(events) == CHOOSE c \in {e.cursor : e \in events} : \A e \in events : e.cursor <= c

UpperBoundBeyond == IF page.hasMore /\ page.events # {} THEN LastOf(page.events) + 1 ELSE CURSOR_MAX
(* The range is chosen by the client: the last cursor received while more  *)
(* remains, its own upper bound on the final page.                         *)
UpperBoundReceived == IF page.events # {} THEN LastOf(page.events) ELSE CURSOR_MAX
UpperBound == IF page.hasMore /\ page.events # {} THEN LastOf(page.events) ELSE CURSOR_MAX

(* GET /accounts/x/digest, answered from the cache...                      *)
DigestHit ==
    /\ pc = "digest"
    /\ digest' \in Cached(state.last, UpperBound)
    /\ pc' = "check"
    /\ attempts' = 0
    /\ UNCHANGED <<network, asked, cache, state, saved, page, reads, outcome, faults>>

(* ...or computed, and then cached while the answer is on its way.         *)
DigestMiss ==
    /\ pc = "digest"
    /\ Cached(state.last, UpperBound) = {}
    /\ digest' = RangeDigest(state.last, UpperBound)
    /\ pc' = IF Caching THEN "publish" ELSE "check"
    /\ attempts' = 0
    /\ UNCHANGED <<network, asked, cache, state, saved, page, reads, outcome, faults>>

PublishDigest ==
    /\ pc = "publish"
    /\ cache' = (cache \ Cached(digest.after, digest.to)) \cup {digest}
    /\ pc' = "check"
    /\ UNCHANGED <<network, asked, state, saved, page, digest, reads, attempts, outcome, faults>>

(* An entry's time to live runs out.                                       *)
ExpireClosed(after, to) ==
    /\ to # CURSOR_MAX
    /\ Cached(after, to) # {}
    /\ cache' = cache \ Cached(after, to)
    /\ UNCHANGED <<network, session, faults>>
Expire(after, to) ==
    /\ Cached(after, to) # {}
    /\ cache' = cache \ Cached(after, to)
    /\ UNCHANGED <<network, session, faults>>

End(result) ==
    /\ pc' = "idle"
    /\ outcome' = result
    /\ page' = NoPage /\ digest' = NoDigest /\ reads' = NoReads
    /\ asked' = 0 /\ attempts' = 0

MatchesFinal == page.hasMore \/ page.events = digest.events
Matches == page.events = digest.events

(* verifyEventIntegrity(), before anything is replayed; an empty page ends *)
(* the loop.                                                               *)
CheckPage ==
    /\ pc = "check"
    /\ Matches
    /\ pc' = IF page.events = {} THEN "verify" ELSE "replay"
    /\ UNCHANGED <<network, asked, cache, state, saved, page, digest, reads, attempts, outcome, faults>>

RefusePage ==
    /\ pc = "check"
    /\ ~Matches
    /\ End("INTEGRITY_FAILURE")
    /\ UNCHANGED <<network, cache, state, saved, faults>>

Replayed ==
    [value   |-> Values(state.value, page.events)[MaxLedger],
     last    |-> LastOf(page.events),
     applied |-> state.applied \cup page.events]

NeverNegative == \A c \in 0..MaxLedger : Values(state.value, page.events)[c] >= 0

ReplayPage ==
    /\ pc = "replay"
    /\ NeverNegative
    /\ state' = Replayed
    /\ pc' = IF page.hasMore THEN "page" ELSE "verify"
    /\ page' = NoPage /\ digest' = NoDigest
    /\ UNCHANGED <<network, asked, cache, saved, reads, attempts, outcome, faults>>

(* A balance that goes negative throws, and nothing of the page is kept.   *)
RefuseReplay ==
    /\ pc = "replay"
    /\ ~NeverNegative
    /\ End("NEGATIVE_REPLAY")
    /\ UNCHANGED <<network, cache, state, saved, faults>>

ChainBalance == IF Balanced THEN Balance(chain) ELSE Absent

(* Promise.all: the three reads of verify() are answered in any order.     *)
ReadBalance ==
    /\ pc = "verify" /\ reads.balance = Unread
    /\ reads' = [reads EXCEPT !.balance = ChainBalance]
    /\ UNCHANGED <<network, asked, cache, pc, state, saved, page, digest, attempts, outcome, faults>>

ReadLedger ==
    /\ pc = "verify" /\ reads.ledger = Unread
    /\ reads' = [reads EXCEPT !.ledger = Len(chain)]
    /\ UNCHANGED <<network, asked, cache, pc, state, saved, page, digest, attempts, outcome, faults>>

ReadStatus ==
    /\ pc = "verify" /\ reads.status = Unread
    /\ reads' = [reads EXCEPT !.status = Len(archive)]
    /\ UNCHANGED <<network, asked, cache, pc, state, saved, page, digest, attempts, outcome, faults>>

LagOk == reads.ledger - reads.status <= MaxLag

VerdictSwapped ==
    IF reads.balance = Absent
    THEN IF state.applied = {} THEN "verified" ELSE "BALANCE_MISMATCH"
    ELSE IF reads.balance = state.value
    THEN IF LagOk THEN "verified" ELSE "STALE_INDEX"
    ELSE IF reads.balance < state.value
         THEN IF LagOk THEN "MISSING_EVENTS" ELSE "STALE_INDEX"
         ELSE "BALANCE_MISMATCH"

Verdict ==
    IF reads.balance = Absent
    THEN IF state.applied = {} THEN "verified" ELSE "BALANCE_MISMATCH"
    ELSE IF reads.balance = state.value
    THEN IF LagOk THEN "verified" ELSE "STALE_INDEX"
    ELSE IF reads.balance > state.value
         THEN IF LagOk THEN "MISSING_EVENTS" ELSE "STALE_INDEX"
         ELSE "BALANCE_MISMATCH"

Judge ==
    /\ pc = "verify"
    /\ Unread \notin {reads.balance, reads.ledger, reads.status}
    /\ End(Verdict)
    /\ UNCHANGED <<network, cache, state, saved, faults>>

(* The wallet stores the checkpoint a sync returned, whatever the verdict. *)
SaveCheckpoint ==
    /\ pc = "idle"
    /\ outcome \in {"verified", "MISSING_EVENTS", "STALE_INDEX", "BALANCE_MISMATCH"}
    /\ state.last # 0
    /\ saved # state
    /\ saved' = state
    /\ UNCHANGED <<network, asked, cache, pc, state, page, digest, reads, attempts, outcome, faults>>

AttemptsLeft == attempts + 1 < MaxAttempts

(* A request that fails is retried after a backoff, up to the budget; what *)
(* has been replayed is kept.                                              *)
FailRequest ==
    /\ pc \in {"page", "digest"}
    /\ faults < MaxFaults
    /\ faults' = faults + 1
    /\ IF AttemptsLeft
       THEN attempts' = attempts + 1 /\ UNCHANGED <<pc, page, digest, reads, asked, outcome>>
       ELSE End("SOURCE_UNAVAILABLE")
    /\ UNCHANGED <<network, cache, state, saved>>

(* The verification's reads are not retried, and an abort is only noticed  *)
(* between pages: either way the sync throws and keeps its state.          *)
FailSync ==
    /\ \/ pc = "verify"
       \/ pc = "page" /\ attempts = 0
    /\ faults < MaxFaults
    /\ faults' = faults + 1
    /\ End("SOURCE_UNAVAILABLE")
    /\ UNCHANGED <<network, cache, state, saved>>

(* The app is closed: only the stored checkpoint survives.                 *)
Crash ==
    /\ faults < MaxFaults
    /\ faults' = faults + 1
    /\ End("none")
    /\ state' = initialState
    /\ UNCHANGED <<network, cache, saved>>

----------------------------------------------------------------------------
Request == FetchPage \/ DigestHit \/ DigestMiss \/ PublishDigest
Decide  == CheckPage \/ RefusePage \/ ReplayPage \/ RefuseReplay
Verify  == ReadBalance \/ ReadLedger \/ ReadStatus \/ Judge

Next ==
    \/ Close \/ Reorg \/ Ingest \/ Rollback
    \/ \E after \in Cursor, to \in 1..CURSOR_MAX : Expire(after, to)
    \/ Start \/ Request \/ Decide \/ Verify \/ SaveCheckpoint
    \/ FailRequest \/ FailSync \/ Crash

Spec == Init /\ [][Next]_vars

(* Ingestion follows the network, entries expire, and the wallet keeps     *)
(* syncing; nothing is assumed of reorgs and faults.                       *)
FairSpec ==
    /\ Spec
    /\ WF_vars(Ingest) /\ WF_vars(Rollback) /\ WF_vars(Close)
    /\ \A after \in Cursor, to \in 1..CURSOR_MAX : WF_vars(Expire(after, to))
    /\ WF_vars(Start) /\ WF_vars(Request) /\ WF_vars(Decide) /\ WF_vars(Verify)

----------------------------------------------------------------------------
(* What a session has consumed, and what it has stored, is exactly the     *)
(* archive's history up to its cursor: nothing skipped, doubled or forged, *)
(* whatever pages it was served, from whichever checkpoint, after whatever *)
(* failures, with digests up to an expiry old, until history is rewritten. *)
AppliedIsHistory ==
    epoch = 0 => \A s \in {state, saved} : s.applied = EventsOf(archive, 0, s.last)

(* The balance and the commitment a state carries are of the same events,  *)
(* one per cursor: no event is folded twice or lost between pages, failed  *)
(* syncs and checkpoints, even while the archive is rolled back under the  *)
(* session and the events it holds are no longer the archive's.            *)
ValueIsFold ==
    \A s \in {state, saved} :
        /\ s.value = Values(0, s.applied)[MaxLedger]
        /\ Cardinality({e.cursor : e \in s.applied}) = Cardinality(s.applied)
        /\ s.applied = {} <=> s.last = 0

(* "Which is what makes a withheld tail visible": a sync that reaches the  *)
(* verification has consumed everything the archive held when its last     *)
(* page was asked for, although the source may drop any event of any page  *)
(* and misreport whether more remain.                                      *)
NothingWithheld == epoch = 0 /\ pc = "verify" => EventsOf(archive, 0, asked) \subseteq state.applied

(* An honest source is accused at most over a final page, whose digest may *)
(* see a later archive: a closed range is immutable, so that its page and  *)
(* its digest agree, whenever each was read and whoever cached it.         *)
OnlyFinalPagesRefused ==
    [][pc = "check" /\ outcome' = "INTEGRITY_FAILURE" => ~page.hasMore]_vars

(* Whatever the three reads of verify() catch of a moving chain, a session *)
(* that disagrees with it is behind it: more than the chain holds means a  *)
(* debit, less means a credit, that lies beyond the session's cursor.      *)
VerdictsExplained ==
    [][pc = "verify" /\ epoch = 0 =>
         LET ahead == {e.delta : e \in EventsOf(chain, state.last, CURSOR_MAX)}
         IN  /\ outcome' = "BALANCE_MISMATCH" => "debit" \in ahead
             /\ outcome' = "MISSING_EVENTS" => "credit" \in ahead]_vars

(* The wallet keeps arriving at the whole history, verified, although the  *)
(* digest cache may make it refuse an honest page on the way.              *)
EventuallyCurrent ==
    []<>(/\ outcome = "verified" /\ Len(chain) = MaxLedger
         /\ state.applied = EventsOf(chain, 0, CURSOR_MAX))
=============================================================================
