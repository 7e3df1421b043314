---------------------------- MODULE IngestProofs ----------------------------
(***************************************************************************)
(* What the Ingest module promises for every value of its constants:       *)
(* whatever the node rewrites, drops or closes between two awaits, and     *)
(* wherever a pass throws or the process dies, every stored event carries  *)
(* the hash of the stored header of its ledger, the stored headers link,   *)
(* and nothing is durable above the checkpoint.  While the node does not   *)
(* rewrite history, nothing at or below the checkpoint is missing, failed  *)
(* or invented; and the header of the checkpoint's own ledger is stored,   *)
(* also across rewrites between passes.  With every ledger a window of its *)
(* own, such rewrites leave the store a prefix of one branch: an archive as*)
(* the Archive module describes it, and the node's chain after a pass.     *)
(***************************************************************************)
EXTENDS Ingest, TLAPS, SequenceTheorems, FiniteSetTheorems, WellFoundedInduction

USE ChainAssumption, IngestAssumption

----------------------------------------------------------------------------
(* Type correctness.                                                       *)

(* The node's own moves keep the type of the chain.                        *)
LEMMA ChainType == ChainTypeOK /\ (Close \/ Reorg \/ Evict) => ChainTypeOK'
<1> SUFFICES ASSUME ChainTypeOK, Close \/ Reorg \/ Evict
             PROVE  ChainTypeOK'
  OBVIOUS
<1> USE DEF ChainTypeOK, Tip, Ledger, Hash
<1>1. CASE Close
  <2>1. PICK body \in Bodies : AppendLedger(body)
    BY <1>1 DEF Close
  <2> DEFINE b == [hash |-> epoch,
                   prev |-> IF Tip = 0 THEN NoHash ELSE chain[Tip].hash,
                   body |-> body]
  <2>2. b \in Block
    <3>1. Tip # 0 => chain[Tip] \in Block
      OBVIOUS
    <3>2. (IF Tip = 0 THEN NoHash ELSE chain[Tip].hash) \in Hash \cup {NoHash}
      BY <3>1 DEF Block
    <3>3. QED
      BY <3>2 DEF Block
  <2>3. chain' = Append(chain, b) /\ Len(chain) < MaxLedger
    BY <2>1 DEF AppendLedger
  <2> HIDE DEF b
  <2>4. chain' \in Seq(Block) /\ Len(chain') = Len(chain) + 1
    BY <2>2, <2>3
  <2>5. QED
    BY <2>1, <2>3, <2>4 DEF AppendLedger
<1>2. CASE Reorg
  <2>1. PICK s \in Ledger : ReorgFrom(s)
    BY <1>2 DEF Reorg
  <2>2. chain' = SubSeq(chain, 1, s - 1) /\ s \in 1..Len(chain) /\ s - 1 \in 0..Len(chain)
    BY <2>1 DEF ReorgFrom
  <2>3. chain' \in Seq(Block) /\ Len(chain') = s - 1
    BY <2>2, SubSeqProperties
  <2>4. QED
    BY <2>1, <2>2, <2>3 DEF ReorgFrom
<1>3. CASE Evict
  BY <1>3 DEF Evict, SetOldestRetained
<1>4. QED
  BY <1>1, <1>2, <1>3

(* The locals of a pass that has not started are of type.                  *)
LEMMA NoPassType == NoPass \in Pass /\ NoHeaders \in [Ledger -> HeaderRecord \cup {None}]
BY DEF NoPass, Pass, NoHeaders, Ledger

(* The window from ledger c, and the end of the pass.                      *)
LEMMA OpenWindowType ==
    ASSUME TypeOK, NEW c \in Nat, OpenWindow(c)
    PROVE  pc' \in PC /\ pass' \in Pass
<1>1. NoPass \in Pass /\ pass.oldest \in Nat /\ pass.latest \in 0..MaxLedger
  BY NoPassType DEF TypeOK, Pass
<1>2. CASE c <= pass.latest
  <2>1. WindowEnd(c) \in 0..MaxLedger /\ <<c, 0>> \in Nat \X Nat
    BY <1>1, <1>2 DEF WindowEnd, LesserOf
  <2>2. pc' = "events"
        /\ pass' = [NoPass EXCEPT !.oldest = pass.oldest, !.latest = pass.latest,
                                  !.start = c, !.after = <<c, 0>>, !.end = WindowEnd(c)]
    BY <1>2 DEF OpenWindow
  <2> HIDE DEF NoPass, WindowEnd
  <2>3. QED
    BY <1>1, <2>1, <2>2 DEF Pass, PC
<1>3. CASE ~(c <= pass.latest)
  BY <1>1, <1>3 DEF OpenWindow, PC
<1>4. QED
  BY <1>2, <1>3

(* The ledger a pass resumes from is a number.                             *)
LEMMA ResumeLedgerType ==
    ASSUME TypeOK
    PROVE  ResumeLedger \in Nat
BY DEF ResumeLedger, TypeOK, ChainTypeOK, Checkpoint, NoCheckpoint, Ledger

(* What a page of events holds.                                            *)
LEMMA PageType ==
    ASSUME TypeOK, NEW after, NEW end, NEW limit, NEW contracts,
           NEW e \in GetEvents(after, end, limit, contracts)
    PROVE  /\ e.id \in EventId
           /\ e.branch \in Hash
           /\ e.contract \in Contracts
           /\ Before(after, e.id)
           /\ e.id[1] <= end
<1>1. PICK l \in Served : e \in EventsOf(l)
  BY DEF GetEvents
<1>2. l \in Ledger /\ l \in 1..Len(chain)
  BY DEF Served, Tip, TypeOK, ChainTypeOK, Ledger
<1>3. chain[l] \in Block
  BY <1>2 DEF TypeOK, ChainTypeOK
<1>4. PICK i \in DOMAIN chain[l].body :
         /\ e.id = <<l, i>> /\ e.branch = chain[l].hash
         /\ e.contract = chain[l].body[i].contract
  BY <1>1 DEF EventsOf
<1>5. i \in Nat \ {0} /\ chain[l].body[i].contract \in Contracts
  <2>1. chain[l].body \in Seq([contract: Contracts, ok: BOOLEAN])
    <3>1. << >> \in Seq([contract: Contracts, ok: BOOLEAN])
      OBVIOUS
    <3>2. QED
      BY <1>3, <3>1, BodiesAssumption DEF Block
  <2>2. i \in 1..Len(chain[l].body)
    BY <2>1
  <2>3. chain[l].body[i] \in [contract: Contracts, ok: BOOLEAN]
    BY <2>1, <2>2, ElementOfSeq
  <2>4. QED
    BY <2>2, <2>3
<1>6. e.id \in EventId /\ e.branch \in Hash /\ e.contract \in Contracts
  BY <1>2, <1>3, <1>4, <1>5 DEF EventId, Block
<1>7. Before(after, e.id) /\ e.id[1] <= end
  BY DEF GetEvents
<1>8. QED
  BY <1>6, <1>7

(* What does not move the node keeps the type of the chain.                *)
LEMMA ChainKept == ChainTypeOK /\ UNCHANGED chainVars => ChainTypeOK'
BY DEF ChainTypeOK, chainVars

(* A page collects events of ledgers of the window.                        *)
LEMMA FetchEventsType == TypeOK /\ FetchEvents => TypeOK'
<1> SUFFICES ASSUME TypeOK, FetchEvents PROVE TypeOK'
  OBVIOUS
<1> DEFINE page == GetEvents(pass.after, pass.end, PageSize, ContractIds)
           got  == pass.got \cup {Fetched(e) : e \in {f \in page : f.ok}}
<1>1. pass \in Pass
  BY DEF TypeOK
<1>2. \A e \in page : e.id \in EventId /\ e.branch \in Hash /\ e.contract \in Contracts
  BY PageType
<1>3. got \in SUBSET FetchedEvent
  BY <1>1, <1>2 DEF Pass, FetchedEvent, Fetched
<1>4. Touched(got) \in SUBSET (0..MaxLedger)
  <2>1. \A e \in got : e.id[1] \in 0..MaxLedger
    BY <1>3 DEF FetchedEvent, EventId, Ledger
  <2>2. pass.end \in 0..MaxLedger
    BY <1>1 DEF Pass
  <2> HIDE DEF got
  <2>3. QED
    BY <2>1, <2>2 DEF Touched
<1>5. \A e \in page : e.id \in Nat \X Nat
  BY <1>2 DEF EventId, Ledger
<1>6. <<0, 0>> \in Nat \X Nat
  OBVIOUS
<1>7. pass' \in Pass /\ pc' \in PC
  <2> USE DEF Pass
  <2> HIDE DEF page, got
  <2>1. CASE LastPage(page)
    <3>1. /\ pc' = "headers"
          /\ pass' = [pass EXCEPT !.got = got, !.after = <<0, 0>>, !.wanted = Touched(got)]
      BY <2>1 DEF FetchEvents, page, got
    <3>2. QED
      BY <1>1, <1>3, <1>4, <1>6, <3>1 DEF PC
  <2>2. CASE ~LastPage(page)
    <3>1. PICK last \in page : pass' = [pass EXCEPT !.got = got, !.after = last.id]
      BY <2>2 DEF FetchEvents, page, got
    <3>2. pc' = pc
      BY <2>2 DEF FetchEvents, page
    <3>3. QED
      BY <1>1, <1>3, <1>5, <3>1, <3>2 DEF TypeOK
  <2>3. QED
    BY <2>1, <2>2
<1>8. QED
  BY <1>7, ChainKept DEF FetchEvents, TypeOK, storeVars

(* What getLedgers returns are headers.                                    *)
LEMMA FetchHeadersType == TypeOK /\ FetchHeaders => TypeOK'
<1> SUFFICES ASSUME TypeOK, FetchHeaders PROVE TypeOK'
  OBVIOUS
<1> DEFINE run == FirstRun(pass.wanted)
           headers == [l \in Ledger |-> IF l \in run \cap Served THEN Header(l)
                                        ELSE pass.headers[l]]
<1>1. pass \in Pass
  BY DEF TypeOK
<1>2. \A l \in Served : Header(l) \in HeaderRecord
  <2> SUFFICES ASSUME NEW l \in Served PROVE Header(l) \in HeaderRecord
    OBVIOUS
  <2>1. l \in 1..Len(chain)
    BY DEF Served, Tip, TypeOK, ChainTypeOK, Ledger
  <2>2. chain[l] \in Block
    BY <2>1 DEF TypeOK, ChainTypeOK
  <2>3. QED
    BY <2>2 DEF Header, Block, HeaderRecord
<1>3. headers \in [Ledger -> HeaderRecord \cup {None}]
  BY <1>1, <1>2 DEF Pass
<1>4. pass.wanted \ run \in SUBSET (0..MaxLedger)
  BY <1>1 DEF Pass
<1>5. pass' = [pass EXCEPT !.headers = headers, !.wanted = pass.wanted \ run]
  BY DEF FetchHeaders
<1>6. pc' \in PC
  BY DEF FetchHeaders, PC
<1>7. pass' \in Pass
  <2> HIDE DEF headers, run
  <2>1. QED
    BY <1>1, <1>3, <1>4, <1>5 DEF Pass
<1>8. QED
  BY <1>6, <1>7, ChainKept DEF FetchHeaders, TypeOK, storeVars

(* A suspect is a ledger, or the one below it.                             *)
LEMMA DetectReorgType == TypeOK /\ DetectReorg => TypeOK'
<1> SUFFICES ASSUME TypeOK, DetectReorg PROVE TypeOK'
  OBVIOUS
<1>1. pass \in Pass /\ NoPass \in Pass
  BY NoPassType DEF TypeOK
<1>2. pass' \in Pass /\ pc' \in PC
  <2>1. CASE Conflicts = {}
    BY <1>1, <2>1 DEF DetectReorg, PC
  <2>2. CASE Conflicts # {}
    <3>1. PICK l \in Conflicts :
            /\ pc' = "fork"
            /\ pass' = [NoPass EXCEPT !.oldest = pass.oldest, !.latest = pass.latest,
                                      !.suspect = IF Rewritten(l) THEN l ELSE l - 1]
      BY <2>2 DEF DetectReorg
    <3>2. (IF Rewritten(l) THEN l ELSE l - 1) \in 0..MaxLedger
      BY DEF Conflicts, Ledger
    <3> HIDE DEF NoPass
    <3>3. QED
      BY <1>1, <3>1, <3>2 DEF Pass, PC
  <2>3. QED
    BY <2>1, <2>2
<1>3. QED
  BY <1>2, ChainKept DEF DetectReorg, TypeOK, storeVars

(* The commit stores typed events, headers and a boundary.                 *)
LEMMA AppendWindowType == TypeOK /\ AppendWindow => TypeOK'
<1> SUFFICES ASSUME TypeOK, AppendWindow PROVE TypeOK'
  OBVIOUS
<1>1. pass \in Pass
  BY DEF TypeOK
<1>2. \A e \in pass.got : /\ e.id \in EventId /\ e.branch \in Hash /\ e.contract \in Contracts
                          /\ pass.headers[e.id[1]] \in HeaderRecord
  BY <1>1 DEF Pass, FetchedEvent, EventId, AppendWindow, HeadersComplete
<1>3. events' \in SUBSET StoredEvent
  BY <1>2 DEF AppendWindow, TypeOK, StoredEvent, HeaderRecord
<1>4. ledgers' \in [Ledger -> HeaderRecord \cup {None}]
  BY <1>1 DEF AppendWindow, TypeOK, Pass
<1>5. checkpoints' \in [Names -> {NoCheckpoint} \cup 0..MaxLedger]
  BY <1>1 DEF AppendWindow, TypeOK, Pass
<1>6. pc' \in PC /\ pass' \in Pass
  <2>1. pass.end + 1 \in Nat
    BY <1>1 DEF Pass
  <2>2. QED
    BY <2>1, OpenWindowType DEF AppendWindow
<1>7. QED
  BY <1>3, <1>4, <1>5, <1>6, ChainKept DEF AppendWindow, TypeOK

(* The walk back, the rollback and the rewritten checkpoint.               *)
LEMMA RewindType == TypeOK /\ (FindForkPoint \/ RollbackTo \/ RewriteCheckpoint) => TypeOK'
<1> SUFFICES ASSUME TypeOK, FindForkPoint \/ RollbackTo \/ RewriteCheckpoint PROVE TypeOK'
  OBVIOUS
<1>1. pass \in Pass /\ NoPass \in Pass
  BY NoPassType DEF TypeOK
<1> HIDE DEF NoPass
<1>2. CASE FindForkPoint
  <2>1. pass' \in Pass
    <3>1. CASE pass.suspect > 0 /\ ~Agreed(pass.suspect)
      <4>1. pass' = [pass EXCEPT !.suspect = pass.suspect - 1]
        BY <1>2, <3>1 DEF FindForkPoint
      <4>2. pass.suspect - 1 \in 0..MaxLedger
        BY <1>1, <3>1 DEF Pass
      <4>3. QED
        BY <1>1, <4>1, <4>2 DEF Pass
    <3>2. CASE ~(pass.suspect > 0 /\ ~Agreed(pass.suspect))
      BY <1>1, <1>2, <3>2 DEF FindForkPoint
    <3>3. QED
      BY <3>1, <3>2
  <2>2. QED
    BY <1>2, <2>1, ChainKept DEF FindForkPoint, TypeOK, storeVars, PC
<1>3. CASE RollbackTo
  <2>1. pass.suspect \in 0..MaxLedger
    BY <1>1 DEF Pass
  <2>2. checkpoints' \in [Names -> {NoCheckpoint} \cup 0..MaxLedger]
    BY <1>3, <2>1 DEF RollbackTo, Clamped, LesserOf, TypeOK, NoCheckpoint
  <2>3. QED
    BY <1>3, <2>2, ChainKept DEF RollbackTo, EventsUpTo, LedgersUpTo, TypeOK, PC
<1>4. CASE RewriteCheckpoint
  <2>1. pass' \in Pass /\ pass.suspect \in 0..MaxLedger
    <3>1. pass' = NoPass \/ pass' = [pass EXCEPT !.suspect = 0]
      BY <1>4 DEF RewriteCheckpoint
    <3>2. 0 \in 0..MaxLedger
      OBVIOUS
    <3>3. QED
      BY <1>1, <3>1, <3>2 DEF Pass
  <2>2. QED
    BY <1>4, <2>1, ChainKept DEF RewriteCheckpoint, TypeOK, PC
<1>5. QED
  BY <1>2, <1>3, <1>4

(* A mismatch behind the tip names a ledger.                               *)
LEMMA VerifyType == TypeOK /\ VerifyConfirmationWindow => TypeOK'
<1> SUFFICES ASSUME TypeOK, VerifyConfirmationWindow PROVE TypeOK'
  OBVIOUS
<1>1. pass \in Pass
  BY DEF TypeOK
<1>2. \A l \in Stale : l \in 0..MaxLedger
  BY DEF Stale, Reexamined, Ledger
<1>3. pass' \in Pass
  BY <1>1, <1>2 DEF VerifyConfirmationWindow, Pass
<1>4. QED
  BY <1>3, ChainKept DEF VerifyConfirmationWindow, TypeOK, storeVars, PC

(* The types, at the start and after every step.                           *)
LEMMA TypeInit == Init => TypeOK
<1> SUFFICES ASSUME Init PROVE TypeOK
  OBVIOUS
<1>1. chain \in Seq(Block) /\ Len(chain) = FirstSequence - 1
  <2>1. \A l \in 1..FirstSequence - 1 :
          [hash |-> 0, prev |-> IF l = 1 THEN NoHash ELSE 0, body |-> << >>] \in Block
    BY DEF Block, Hash, NoHash
  <2>2. QED
    BY <2>1 DEF Init, ChainInit
<1>2. ChainTypeOK
  <2>1. oldest \in Ledger /\ epoch \in Hash
    BY DEF Init, ChainInit, Ledger, Hash
  <2>2. Len(chain) <= MaxLedger
    BY <1>1
  <2>3. QED
    BY <1>1, <2>1, <2>2 DEF ChainTypeOK
<1>3. QED
  BY <1>2, NoPassType DEF Init, TypeOK, PC

LEMMA TypeStep == TypeOK /\ [Next]_vars => TypeOK'
<1> SUFFICES ASSUME TypeOK, [Next]_vars PROVE TypeOK'
  OBVIOUS
<1>1. CASE ReadRange
  <2>1. oldest \in Nat /\ Tip \in 0..MaxLedger
    BY DEF TypeOK, ChainTypeOK, Ledger, Tip
  <2>2. pass' \in Pass
    <3> HIDE DEF NoPass
    <3>1. QED
      BY <1>1, <2>1, NoPassType DEF ReadRange, Pass
  <2>3. QED
    BY <1>1, <2>2, ChainKept DEF ReadRange, TypeOK, storeVars, PC
<1>2. CASE Resume \/ ResumeAfterRewind
  <2>1. pc' \in PC /\ pass' \in Pass
    BY <1>2, ResumeLedgerType, OpenWindowType DEF Resume, ResumeAfterRewind
  <2>2. QED
    BY <1>2, <2>1, ChainKept DEF Resume, ResumeAfterRewind, TypeOK, storeVars
<1>3. CASE FetchEvents \/ FetchHeaders \/ DetectReorg
  BY <1>3, FetchEventsType, FetchHeadersType, DetectReorgType
<1>4. CASE AppendWindow
  BY <1>4, AppendWindowType
<1>5. CASE FindForkPoint \/ RollbackTo \/ RewriteCheckpoint \/ VerifyConfirmationWindow
  BY <1>5, RewindType, VerifyType
<1>6. CASE RefuseEvicted \/ LedgerGap \/ Sleep \/ Abort
  BY <1>6, NoPassType, ChainKept
     DEF RefuseEvicted, LedgerGap, Sleep, Abort, TypeOK, storeVars, PC
<1>7. CASE PruneRead
  <2>1. pruneTo' \in 0..MaxLedger
    BY <1>7 DEF PruneRead, Held, Ledger
  <2>2. QED
    BY <1>7, <2>1, ChainKept DEF PruneRead, TypeOK, storeVars, localVars
<1>8. CASE PruneDelete
  BY <1>8, ChainKept DEF PruneDelete, TypeOK, localVars
<1>9. CASE (Close \/ Reorg \/ Evict) /\ Elsewhere
  BY <1>9, ChainType DEF Elsewhere, TypeOK, storeVars, localVars
<1>10. CASE UNCHANGED vars
  BY <1>10, ChainKept DEF vars, chainVars, TypeOK
<1>11. QED
  BY <1>1, <1>2, <1>3, <1>4, <1>5, <1>6, <1>7, <1>8, <1>9, <1>10 DEF Next, IngestStep

(* Every variable keeps its type.                                          *)
THEOREM TypeCorrect == Spec => []TypeOK
BY TypeInit, TypeStep, PTL DEF Spec

----------------------------------------------------------------------------
(* The inductive invariant, one lemma per action that does more than drop  *)
(* the locals of the pass.                                                 *)

(* An empty store and no pass in progress.                                 *)
LEMMA IInvInit == Init => IInv
BY DEF Init, ChainInit, IInv, Solo, StoredUpToCheckpoint, ChainLinked, WindowAhead, PageAhead,
       RunsApart, HeadersLinked, WindowLinks, RewindsDown, Provenance, LinkedArchive, Tip,
       Held, NoHeaders, NoHash

(* What the parts that speak of the store alone need.                      *)
StoreInv == Solo /\ StoredUpToCheckpoint /\ Provenance /\ LinkedArchive
PassInv  == /\ WindowAhead /\ PageAhead /\ RunsApart /\ HeadersLinked
            /\ WindowLinks /\ RewindsDown

(* What leaves the store alone keeps the parts about it.                   *)
LEMMA StoreInvKept == StoreInv /\ UNCHANGED storeVars => StoreInv'
BY DEF StoreInv, Solo, StoredUpToCheckpoint, Provenance, LinkedArchive, storeVars, Held, Checkpoint

(* What leaves the node alone keeps its chain linked.                      *)
LEMMA ChainLinkedKept == ChainLinked /\ UNCHANGED chainVars => ChainLinked'
BY DEF ChainLinked, chainVars, Tip

(* A step of somebody else leaves the pass as it was.                      *)
LEMMA PassInvKept == PassInv /\ UNCHANGED <<ledgers, checkpoints, pc, pass>> => PassInv'
BY DEF PassInv, WindowAhead, PageAhead, RunsApart, HeadersLinked, WindowLinks, RewindsDown,
       InWindow, Unlinked, Checkpoint

(* Between windows there is nothing in flight.                             *)
LEMMA PassInvOutside == pc' \in {"idle", "resume", "reresume", "verify", "synced"} => PassInv'
BY DEF PassInv, WindowAhead, PageAhead, RunsApart, HeadersLinked, WindowLinks, RewindsDown

(* The node links what it closes, and a reorg cuts a suffix.               *)
LEMMA ChainLinkedStep ==
    ASSUME TypeOK, ChainLinked, Close \/ Reorg \/ Evict
    PROVE  ChainLinked'
<1> USE DEF ChainLinked, Tip, TypeOK, ChainTypeOK
<1>1. CASE Close
  <2>1. PICK body \in Bodies : AppendLedger(body)
    BY <1>1 DEF Close
  <2> DEFINE b == [hash |-> epoch,
                   prev |-> IF Tip = 0 THEN NoHash ELSE chain[Tip].hash,
                   body |-> body]
  <2>2. chain' = Append(chain, b) /\ b.prev = IF Len(chain) = 0 THEN NoHash ELSE chain[Len(chain)].hash
    BY <2>1 DEF AppendLedger
  <2> HIDE DEF b
  <2>3. /\ Len(chain') = Len(chain) + 1
        /\ chain'[Len(chain) + 1] = b
        /\ \A i \in 1..Len(chain) : chain'[i] = chain[i]
    BY <2>2
  <2>4. QED
    BY <2>2, <2>3
<1>2. CASE Reorg
  <2>1. PICK s \in Ledger : ReorgFrom(s)
    BY <1>2 DEF Reorg
  <2>2. chain' = SubSeq(chain, 1, s - 1) /\ s \in 1..Len(chain)
    BY <2>1 DEF ReorgFrom, Ledger
  <2>3. /\ Len(chain') = s - 1
        /\ \A i \in 1..s - 1 : chain'[i] = chain[i]
    <3>1. \A i \in 1..s - 1 : chain[i] \in Block
      BY <2>2
    <3>2. QED
      BY <2>2, <3>1, SubSeqProperties
  <2>4. QED
    BY <2>2, <2>3
<1>3. CASE Evict
  BY <1>3 DEF Evict, SetOldestRetained
<1>4. QED
  BY <1>1, <1>2, <1>3

(* The window a pass opens lies above the checkpoint.                      *)
LEMMA OpenWindowAhead ==
    ASSUME TypeOK, TypeOK', NEW c \in Nat, c > Checkpoint', OpenWindow(c)
    PROVE  PassInv'
<1>1. CASE c <= pass.latest
  <2>1. /\ pc' = "events"
        /\ pass'.start = c /\ pass'.end = WindowEnd(c) /\ pass'.after[1] = c
        /\ pass'.got = {} /\ pass'.wanted = {} /\ pass'.headers = NoHeaders
    <3>1. pc' = "events"
          /\ pass' = [NoPass EXCEPT !.oldest = pass.oldest, !.latest = pass.latest,
                                    !.start = c, !.after = <<c, 0>>, !.end = WindowEnd(c)]
      BY <1>1 DEF OpenWindow
    <3>2. NoPass \in Pass /\ NoPass.got = {} /\ NoPass.wanted = {} /\ NoPass.headers = NoHeaders
      BY NoPassType DEF NoPass
    <3> HIDE DEF NoPass, WindowEnd
    <3>3. QED
      BY <3>1, <3>2 DEF Pass
  <2>2. c <= WindowEnd(c)
    BY <1>1 DEF WindowEnd, LesserOf, TypeOK, Pass
  <2>3. QED
    BY <2>1, <2>2 DEF PassInv, WindowAhead, PageAhead, RunsApart, HeadersLinked, WindowLinks,
                      RewindsDown, InWindow, NoHeaders, Checkpoint
<1>2. CASE ~(c <= pass.latest)
  BY <1>2, PassInvOutside DEF OpenWindow
<1>3. QED
  BY <1>1, <1>2

(* A pass resumes above its checkpoint.                                    *)
LEMMA ResumeAhead ==
    ASSUME TypeOK
    PROVE  ResumeLedger > Checkpoint /\ ResumeLedger \in Nat
BY DEF ResumeLedger, TypeOK, ChainTypeOK, Checkpoint, NoCheckpoint, Ledger

(* Pages only bring events of the window.                                  *)
LEMMA FetchEventsInv ==
    ASSUME TypeOK, TypeOK', PassInv, FetchEvents
    PROVE  PassInv'
<1> DEFINE page == GetEvents(pass.after, pass.end, PageSize, ContractIds)
           got  == pass.got \cup {Fetched(e) : e \in {f \in page : f.ok}}
<1>1. /\ pc = "events" /\ Checkpoint < pass.start /\ pass.start <= pass.end
      /\ pass.start <= pass.after[1] /\ pass.headers = NoHeaders
      /\ \A e \in pass.got : InWindow(e.id[1])
      /\ \A l \in pass.wanted : InWindow(l)
  BY DEF FetchEvents, PassInv, WindowAhead, PageAhead
<1>2. pass \in Pass /\ pass.start \in Nat /\ pass.end \in Nat /\ pass.after[1] \in Nat
  BY DEF TypeOK, Pass
<1>3. \A e \in page : /\ e.id[1] \in Nat
                      /\ pass.after[1] <= e.id[1]
                      /\ InWindow(e.id[1])
  <2> SUFFICES ASSUME NEW e \in page
               PROVE  e.id[1] \in Nat /\ pass.after[1] <= e.id[1] /\ InWindow(e.id[1])
    OBVIOUS
  <2>1. e.id[1] \in Nat /\ Before(pass.after, e.id) /\ e.id[1] <= pass.end
    BY PageType DEF EventId, Ledger
  <2>2. QED
    BY <1>1, <1>2, <2>1 DEF Before, InWindow
<1>4. \A e \in got : InWindow(e.id[1])
  BY <1>1, <1>3 DEF Fetched
<1>5. UNCHANGED storeVars /\ UNCHANGED Checkpoint
  BY DEF FetchEvents, storeVars, Checkpoint
<1> HIDE DEF page, got
<1>6. CASE LastPage(page)
  <2>1. /\ pc' = "headers" /\ pass'.start = pass.start /\ pass'.end = pass.end
        /\ pass'.got = got /\ pass'.headers = NoHeaders /\ pass'.wanted = Touched(got)
    BY <1>1, <1>2, <1>6 DEF FetchEvents, Pass, page, got
  <2>2. \A l \in Touched(got) : InWindow(l)
    BY <1>1, <1>2, <1>4 DEF Touched, InWindow
  <2>3. QED
    BY <1>1, <1>4, <1>5, <2>1, <2>2
       DEF PassInv, WindowAhead, PageAhead, RunsApart, HeadersLinked, WindowLinks, RewindsDown,
           InWindow, NoHeaders
<1>7. CASE ~LastPage(page)
  <2>1. PICK last \in page : pass' = [pass EXCEPT !.got = got, !.after = last.id]
    BY <1>7 DEF FetchEvents, page, got
  <2>2. /\ pass'.start = pass.start /\ pass'.end = pass.end
        /\ pass'.got = got /\ pass'.headers = NoHeaders /\ pass'.wanted = pass.wanted
        /\ pass'.after = last.id
    BY <1>1, <1>2, <2>1 DEF Pass
  <2>3. pc' = "events"
    BY <1>1, <1>7 DEF FetchEvents, page
  <2>4. pass.start <= last.id[1]
    BY <1>3, <2>1 DEF InWindow
  <2>5. QED
    BY <1>1, <1>4, <1>5, <2>2, <2>3, <2>4
       DEF PassInv, WindowAhead, PageAhead, RunsApart, HeadersLinked, WindowLinks, RewindsDown,
           InWindow, NoHeaders
<1>8. QED
  BY <1>6, <1>7

(* Each call returns a linked run, apart from the runs before it, so the   *)
(* headers collected link wherever two are neighbours.                     *)
LEMMA FetchHeadersInv ==
    ASSUME TypeOK, TypeOK', ChainLinked, PassInv, FetchHeaders
    PROVE  PassInv'
<1> DEFINE run == FirstRun(pass.wanted)
           headers == [l \in Ledger |-> IF l \in run \cap Served THEN Header(l)
                                        ELSE pass.headers[l]]
<1>1. /\ pc = "headers" /\ pass \in Pass
      /\ pass.wanted \in SUBSET (0..MaxLedger)
      /\ pass' = [pass EXCEPT !.headers = headers, !.wanted = pass.wanted \ run]
      /\ pc' \in {"headers", "detect"}
      /\ UNCHANGED storeVars
  BY DEF FetchHeaders, TypeOK, Pass
<1>2. /\ pass'.start = pass.start /\ pass'.end = pass.end /\ pass'.got = pass.got
      /\ pass'.headers = headers /\ pass'.wanted = pass.wanted \ run
  <2> HIDE DEF headers, run
  <2>1. QED
    BY <1>1 DEF Pass
<1>3. run \subseteq pass.wanted
  BY DEF FirstRun
<1>4. \A l \in run : \A k \in l - 1 .. l + 1 : k \in pass.wanted => k \in run
  BY <1>1 DEF FirstRun
<1>5. \A l \in Ledger : headers[l] # None => l \in run \cap Served \/ pass.headers[l] # None
  OBVIOUS
<1>6. WindowAhead'
  BY <1>1, <1>2, <1>3, <1>5 DEF PassInv, WindowAhead, InWindow, storeVars, Checkpoint
<1>7. \A l \in Ledger : headers[l] # None => \A k \in l - 1 .. l + 1 : k \notin pass.wanted \ run
  BY <1>1, <1>4, <1>5 DEF PassInv, RunsApart
<1>8. \A l \in Ledger : l - 1 \in Ledger /\ headers[l] # None /\ headers[l - 1] # None
                          => headers[l].prev = headers[l - 1].hash
  <2> SUFFICES ASSUME NEW l \in Ledger, l - 1 \in Ledger, headers[l] # None, headers[l - 1] # None
               PROVE  headers[l].prev = headers[l - 1].hash
    OBVIOUS
  <2>1. l \in Int /\ l - 1 \in (l - 1) - 1 .. (l - 1) + 1 /\ l \in (l - 1) - 1 .. (l - 1) + 1
        /\ l \in l - 1 .. l + 1 /\ l - 1 \in l - 1 .. l + 1
    BY DEF Ledger
  <2>2. CASE l \in run \cap Served /\ l - 1 \in run \cap Served
    <3>1. l \in 2..Len(chain)
      BY <2>2 DEF Served, Tip, Ledger, TypeOK, ChainTypeOK
    <3>2. chain[l].prev = chain[l - 1].hash
      BY <3>1 DEF ChainLinked, Tip
    <3>3. QED
      BY <2>2, <3>2 DEF Header
  <2>3. CASE l \in run \cap Served /\ ~(l - 1 \in run \cap Served)
    <3>1. pass.headers[l - 1] # None
      BY <2>3
    <3>2. l \notin pass.wanted
      BY <1>1, <2>1, <3>1 DEF PassInv, RunsApart
    <3>3. QED
      BY <1>3, <2>3, <3>2
  <2>4. CASE ~(l \in run \cap Served) /\ l - 1 \in run \cap Served
    <3>1. pass.headers[l] # None
      BY <2>4
    <3>2. l - 1 \notin pass.wanted
      BY <1>1, <2>1, <3>1 DEF PassInv, RunsApart
    <3>3. QED
      BY <1>3, <2>4, <3>2
  <2>5. CASE ~(l \in run \cap Served) /\ ~(l - 1 \in run \cap Served)
    BY <1>1, <2>5 DEF PassInv, HeadersLinked
  <2>6. QED
    BY <2>2, <2>3, <2>4, <2>5
<1>9. QED
  <2> HIDE DEF headers, run
  <2>1. QED
    BY <1>1, <1>2, <1>6, <1>7, <1>8
       DEF PassInv, PageAhead, RunsApart, HeadersLinked, WindowLinks, RewindsDown

(* Without a conflict the window links to the store; with one, the suspect *)
(* is a stored ledger, so at or below the checkpoint.                      *)
LEMMA DetectReorgInv ==
    ASSUME TypeOK, TypeOK', StoreInv, PassInv, DetectReorg
    PROVE  PassInv'
<1>1. pc = "detect" /\ UNCHANGED storeVars /\ UNCHANGED Checkpoint
  BY DEF DetectReorg, storeVars, Checkpoint
<1>2. CASE Conflicts = {}
  <2>1. pc' = "append" /\ pass' = pass
    BY <1>2 DEF DetectReorg
  <2>2. \A l \in Ledger : pass.headers[l] # None => ~Unlinked(l)
    BY <1>2 DEF Conflicts
  <2>3. QED
    BY <1>1, <2>1, <2>2
       DEF PassInv, WindowAhead, PageAhead, RunsApart, HeadersLinked, WindowLinks, RewindsDown,
           InWindow, Unlinked, storeVars
<1>3. CASE Conflicts # {}
  <2>1. PICK l \in Conflicts :
          /\ pc' = "fork"
          /\ pass' = [NoPass EXCEPT !.oldest = pass.oldest, !.latest = pass.latest,
                                    !.suspect = IF Rewritten(l) THEN l ELSE l - 1]
    BY <1>3 DEF DetectReorg
  <2>2. pass'.suspect = IF Rewritten(l) THEN l ELSE l - 1
    <3> HIDE DEF NoPass
    <3>1. QED
      BY <2>1, NoPassType DEF Pass
  <2>3. Rewritten(l) \/ Unlinked(l)
    BY DEF Conflicts
  <2>4. pass'.suspect \in Held
    BY <2>2, <2>3 DEF Rewritten, Unlinked, Held, Conflicts
  <2>5. pass'.suspect <= Checkpoint
    BY <2>4 DEF StoreInv, StoredUpToCheckpoint
  <2>6. QED
    BY <1>1, <2>1, <2>5
       DEF PassInv, WindowAhead, PageAhead, RunsApart, HeadersLinked, WindowLinks, RewindsDown
<1>4. QED
  BY <1>2, <1>3

(* The walk only goes down.                                                *)
LEMMA FindForkPointInv ==
    ASSUME TypeOK, TypeOK', StoreInv, PassInv, FindForkPoint
    PROVE  PassInv'
<1>1. pc = "fork" /\ pc' \in {"fork", "rollback"} /\ UNCHANGED Checkpoint
  BY DEF FindForkPoint, storeVars, Checkpoint
<1>2. pass.suspect \in 0..MaxLedger /\ Checkpoint \in Int /\ pass.suspect <= Checkpoint
  <2>1. pass.suspect \in 0..MaxLedger /\ Checkpoint \in Int
    BY DEF TypeOK, Pass, Checkpoint, NoCheckpoint
  <2>2. pass.suspect <= Checkpoint
    BY <1>1 DEF PassInv, RewindsDown
  <2>3. QED
    BY <2>1, <2>2
<1>3. pass'.suspect <= pass.suspect
  <2>1. CASE pass' = pass
    BY <1>2, <2>1
  <2>2. CASE pass' = [pass EXCEPT !.suspect = pass.suspect - 1]
    <3>1. pass'.suspect = pass.suspect - 1
      BY <2>2 DEF TypeOK, Pass
    <3>2. QED
      BY <1>2, <3>1
  <2>3. QED
    BY <2>1, <2>2 DEF FindForkPoint
<1>4. pass'.suspect \in Int
  BY DEF TypeOK, Pass
<1>5. QED
  BY <1>1, <1>2, <1>3, <1>4
     DEF PassInv, WindowAhead, PageAhead, RunsApart, HeadersLinked, WindowLinks, RewindsDown

(* A rollback leaves nothing above its fork point and puts the checkpoint  *)
(* there.                                                                  *)
LEMMA RollbackInv ==
    ASSUME TypeOK, TypeOK', StoreInv, PassInv, RollbackTo
    PROVE  StoreInv' /\ PassInv'
<1> DEFINE f == pass.suspect
<1>1. f \in 0..MaxLedger /\ f <= Checkpoint /\ Checkpoint \in Int
  BY DEF TypeOK, Pass, RollbackTo, PassInv, RewindsDown, Checkpoint, NoCheckpoint
<1>2. Checkpoint' = f /\ \A n \in Names : checkpoints[n] = NoCheckpoint => checkpoints'[n] = NoCheckpoint
  BY <1>1 DEF RollbackTo, Clamped, LesserOf, Checkpoint, NoCheckpoint
<1>3. events' = EventsUpTo(f) /\ ledgers' = LedgersUpTo(f) /\ pass' = pass /\ pc' = "recheckpoint"
  BY DEF RollbackTo
<1>4. Solo'
  BY <1>2 DEF StoreInv, Solo
<1>5. StoredUpToCheckpoint'
  BY <1>1, <1>2, <1>3 DEF StoredUpToCheckpoint, EventsUpTo, LedgersUpTo, Held, Ledger
<1>6. Provenance'
  BY <1>1, <1>3 DEF StoreInv, Provenance, EventsUpTo, LedgersUpTo, TypeOK, StoredEvent, EventId, Ledger
<1>7. LinkedArchive'
  BY <1>1, <1>3 DEF StoreInv, LinkedArchive, LedgersUpTo, Held, Ledger
<1>8. PassInv'
  BY <1>2, <1>3
     DEF PassInv, WindowAhead, PageAhead, RunsApart, HeadersLinked, WindowLinks, RewindsDown
<1>9. QED
  BY <1>4, <1>5, <1>6, <1>7, <1>8 DEF StoreInv

(* The rewritten checkpoint is the clamped one.                            *)
LEMMA RewriteCheckpointInv ==
    ASSUME TypeOK, TypeOK', StoreInv, PassInv, RewriteCheckpoint
    PROVE  StoreInv' /\ PassInv'
<1>1. pass.suspect = Checkpoint
  BY DEF RewriteCheckpoint, PassInv, RewindsDown
<1>2. checkpoints' = checkpoints
  BY <1>1 DEF RewriteCheckpoint, Checkpoint, TypeOK
<1>3. StoreInv'
  BY <1>2, StoreInvKept DEF RewriteCheckpoint, storeVars
<1>4. PassInv'
  BY PassInvOutside DEF RewriteCheckpoint
<1>5. QED
  BY <1>3, <1>4

(* A mismatch is found on a stored ledger.                                 *)
LEMMA VerifyInv ==
    ASSUME TypeOK, TypeOK', StoreInv, PassInv, VerifyConfirmationWindow
    PROVE  PassInv'
<1>1. CASE Stale = {}
  BY <1>1, PassInvOutside DEF VerifyConfirmationWindow
<1>2. CASE Stale # {}
  <2>1. PICK l \in Stale : pc' = "fork" /\ pass' = [pass EXCEPT !.suspect = l, !.verifying = TRUE]
    BY <1>2 DEF VerifyConfirmationWindow
  <2>2. pass'.suspect = l
    BY <2>1 DEF TypeOK, Pass
  <2>3. l \in Held
    BY DEF Stale, Reexamined, Held
  <2>4. pass'.suspect <= Checkpoint'
    BY <2>2, <2>3 DEF StoreInv, StoredUpToCheckpoint, VerifyConfirmationWindow, storeVars, Checkpoint
  <2>5. QED
    BY <2>1, <2>4
       DEF PassInv, WindowAhead, PageAhead, RunsApart, HeadersLinked, WindowLinks, RewindsDown
<1>3. QED
  BY <1>1, <1>2

(* The commit: a window above everything stored, linked inside and linked  *)
(* to what is stored.                                                      *)
LEMMA AppendWindowInv ==
    ASSUME TypeOK, TypeOK', StoreInv, PassInv, AppendWindow
    PROVE  StoreInv' /\ PassInv'
<1> DEFINE h == pass.headers
<1>1. /\ pc = "append" /\ Checkpoint < pass.start /\ pass.start <= pass.end
      /\ \A e \in pass.got : InWindow(e.id[1])
      /\ \A l \in Ledger : h[l] # None => InWindow(l)
  BY DEF AppendWindow, PassInv, WindowAhead
<1>2. /\ pass.start \in Nat /\ pass.end \in 0..MaxLedger /\ Checkpoint \in Int
      /\ pass.got \in SUBSET FetchedEvent /\ h \in [Ledger -> HeaderRecord \cup {None}]
  <2>1. Checkpoint \in Int
    BY DEF TypeOK, Checkpoint, NoCheckpoint
  <2>2. QED
    BY <2>1 DEF TypeOK, Pass
<1>3. Checkpoint' = pass.end /\ \A n \in Names : n # Name => checkpoints'[n] = checkpoints[n]
  BY DEF AppendWindow, Checkpoint, TypeOK
<1>4. /\ \A l \in Ledger : h[l] = None => ledgers'[l] = ledgers[l]
      /\ \A l \in Ledger : h[l] # None => ledgers'[l] = h[l]
  BY DEF AppendWindow
<1>5. \A l \in Held : h[l] = None
  BY <1>1, <1>2 DEF StoreInv, StoredUpToCheckpoint, InWindow, Held, Ledger
<1>6. \A e \in events' : \/ e \in events
                         \/ /\ h[e.id[1]] # None /\ e.hash = h[e.id[1]].hash
                            /\ e.id[1] \in Ledger
  BY <1>2 DEF AppendWindow, HeadersComplete, FetchedEvent, EventId
<1>7. Solo'
  BY <1>3 DEF StoreInv, Solo
<1>8. StoredUpToCheckpoint'
  <2>1. \A e \in events' : e.id[1] <= pass.end
    <3> SUFFICES ASSUME NEW e \in events' PROVE e.id[1] <= pass.end
      OBVIOUS
    <3>1. e.id[1] \in Int
      BY DEF TypeOK, StoredEvent, EventId, Ledger
    <3>2. e \in events => e.id[1] <= Checkpoint
      BY DEF StoreInv, StoredUpToCheckpoint
    <3>3. QED
      BY <1>1, <1>2, <1>6, <3>1, <3>2 DEF InWindow
  <2>2. \A l \in Held' : l <= pass.end
    <3> SUFFICES ASSUME NEW l \in Ledger, ledgers'[l] # None PROVE l <= pass.end
      BY DEF Held
    <3>1. l \in Held => l <= Checkpoint
      BY DEF StoreInv, StoredUpToCheckpoint
    <3>2. QED
      BY <1>1, <1>2, <1>4, <3>1 DEF InWindow, Held, Ledger
  <2>3. QED
    BY <1>3, <2>1, <2>2 DEF StoredUpToCheckpoint
<1>9. Provenance'
  <2> SUFFICES ASSUME NEW e \in events' PROVE ledgers'[e.id[1]].hash = e.hash
    BY DEF Provenance
  <2>1. CASE e \in events
    <3>1. e.id[1] \in Ledger /\ e.hash \in Hash /\ ledgers[e.id[1]].hash = e.hash
      BY <2>1 DEF StoreInv, Provenance, TypeOK, StoredEvent, EventId
    <3>2. e.id[1] <= Checkpoint
      BY <2>1 DEF StoreInv, StoredUpToCheckpoint
    <3>3. h[e.id[1]] = None
      BY <1>1, <1>2, <3>1, <3>2 DEF InWindow, Ledger
    <3>4. QED
      BY <1>4, <3>1, <3>3
  <2>2. CASE e \notin events
    BY <1>4, <1>6, <2>2
  <2>3. QED
    BY <2>1, <2>2
<1>10. LinkedArchive'
  <2> SUFFICES ASSUME NEW l \in Ledger, l - 1 \in Ledger, ledgers'[l] # None, ledgers'[l - 1] # None
               PROVE  ledgers'[l].prev = ledgers'[l - 1].hash
    BY DEF LinkedArchive, Held
  <2>1. CASE h[l] # None /\ h[l - 1] # None
    BY <1>1, <1>4, <2>1 DEF PassInv, HeadersLinked
  <2>2. CASE h[l] # None /\ h[l - 1] = None
    <3>1. ~Unlinked(l)
      BY <1>1, <2>2 DEF PassInv, WindowLinks
    <3>2. ledgers[l - 1] # None /\ ledgers'[l - 1] = ledgers[l - 1] /\ ledgers'[l] = h[l]
      BY <1>4, <2>2
    <3>3. QED
      BY <3>1, <3>2 DEF Unlinked
  <2>3. CASE h[l] = None /\ h[l - 1] # None
    <3>1. l \in Held
      BY <1>4, <2>3 DEF Held
    <3>2. l <= Checkpoint /\ pass.start <= l - 1
      BY <1>1, <2>3, <3>1 DEF StoreInv, StoredUpToCheckpoint, InWindow
    <3>3. QED
      BY <1>1, <1>2, <3>2 DEF Ledger
  <2>4. CASE h[l] = None /\ h[l - 1] = None
    BY <1>4, <2>4 DEF StoreInv, LinkedArchive, Held
  <2>5. QED
    BY <2>1, <2>2, <2>3, <2>4
<1>11. PassInv'
  <2>1. pass.end + 1 \in Nat /\ pass.end + 1 > Checkpoint' /\ OpenWindow(pass.end + 1)
    BY <1>2, <1>3 DEF AppendWindow
  <2>2. QED
    BY <2>1, OpenWindowAhead
<1>12. QED
  BY <1>7, <1>8, <1>9, <1>10, <1>11 DEF StoreInv

(* A prune forgets a prefix and forges nothing, at any await.              *)
LEMMA PruneDeleteInv ==
    ASSUME TypeOK, TypeOK', StoreInv, PassInv, PruneDelete
    PROVE  StoreInv' /\ PassInv'
<1>1. /\ checkpoints' = checkpoints /\ pc' = pc /\ pass' = pass
      /\ events' = {e \in events : e.id[1] >= pruneTo}
      /\ ledgers' = [l \in Ledger |-> IF l < pruneTo THEN None ELSE ledgers[l]]
      /\ pruneTo \in Int
  BY DEF PruneDelete, localVars, TypeOK
<1>2. \A l \in Ledger : ledgers'[l] # None => ledgers'[l] = ledgers[l]
  BY <1>1
<1>3. Solo' /\ StoredUpToCheckpoint'
  BY <1>1, <1>2 DEF StoreInv, Solo, StoredUpToCheckpoint, Held, Checkpoint
<1>4. Provenance'
  <2> SUFFICES ASSUME NEW e \in events' PROVE ledgers'[e.id[1]].hash = e.hash
    BY DEF Provenance
  <2>1. e \in events /\ e.id[1] >= pruneTo /\ e.id[1] \in Ledger
    BY <1>1 DEF TypeOK, StoredEvent, EventId
  <2>2. ledgers'[e.id[1]] = ledgers[e.id[1]]
    BY <1>1, <2>1 DEF Ledger
  <2>3. QED
    BY <2>1, <2>2 DEF StoreInv, Provenance
<1>5. LinkedArchive'
  BY <1>2 DEF StoreInv, LinkedArchive, Held
<1>6. PassInv'
  BY <1>1, <1>2
     DEF PassInv, WindowAhead, PageAhead, RunsApart, HeadersLinked, WindowLinks, RewindsDown,
         InWindow, Unlinked, Checkpoint
<1>7. QED
  BY <1>3, <1>4, <1>5, <1>6 DEF StoreInv

(* Every step keeps the inductive invariant.                               *)
LEMMA IInvStep == TypeOK /\ TypeOK' /\ IInv /\ [Next]_vars => IInv'
<1> SUFFICES ASSUME TypeOK, TypeOK', StoreInv, PassInv, ChainLinked, [Next]_vars
             PROVE  StoreInv' /\ PassInv' /\ ChainLinked'
  BY DEF IInv, StoreInv, PassInv
<1>1. CASE ReadRange \/ RefuseEvicted \/ LedgerGap \/ Sleep \/ Abort
  BY <1>1, StoreInvKept, PassInvOutside, ChainLinkedKept
     DEF ReadRange, RefuseEvicted, LedgerGap, Sleep, Abort
<1>2. CASE Resume \/ ResumeAfterRewind
  <2>1. OpenWindow(ResumeLedger) /\ UNCHANGED chainVars /\ UNCHANGED storeVars
    BY <1>2 DEF Resume, ResumeAfterRewind
  <2>2. ResumeLedger \in Nat /\ ResumeLedger > Checkpoint'
    BY <2>1, ResumeAhead DEF storeVars, Checkpoint
  <2>3. PassInv'
    BY <2>1, <2>2, OpenWindowAhead
  <2>4. QED
    BY <2>1, <2>3, StoreInvKept, ChainLinkedKept
<1>3. CASE FetchEvents
  BY <1>3, FetchEventsInv, StoreInvKept, ChainLinkedKept DEF FetchEvents
<1>4. CASE FetchHeaders
  BY <1>4, FetchHeadersInv, StoreInvKept, ChainLinkedKept DEF FetchHeaders
<1>5. CASE DetectReorg
  BY <1>5, DetectReorgInv, StoreInvKept, ChainLinkedKept DEF DetectReorg
<1>6. CASE FindForkPoint
  BY <1>6, FindForkPointInv, StoreInvKept, ChainLinkedKept DEF FindForkPoint
<1>7. CASE RollbackTo
  BY <1>7, RollbackInv, ChainLinkedKept DEF RollbackTo
<1>8. CASE RewriteCheckpoint
  BY <1>8, RewriteCheckpointInv, ChainLinkedKept DEF RewriteCheckpoint
<1>9. CASE AppendWindow
  BY <1>9, AppendWindowInv, ChainLinkedKept DEF AppendWindow
<1>10. CASE VerifyConfirmationWindow
  BY <1>10, VerifyInv, StoreInvKept, ChainLinkedKept DEF VerifyConfirmationWindow
<1>11. CASE PruneRead
  BY <1>11, StoreInvKept, PassInvKept, ChainLinkedKept DEF PruneRead, storeVars, localVars
<1>12. CASE PruneDelete
  BY <1>12, PruneDeleteInv, ChainLinkedKept DEF PruneDelete
<1>13. CASE (Close \/ Reorg \/ Evict) /\ Elsewhere
  BY <1>13, StoreInvKept, PassInvKept, ChainLinkedStep DEF Elsewhere, storeVars, localVars
<1>14. CASE UNCHANGED vars
  BY <1>14, StoreInvKept, PassInvKept, ChainLinkedKept DEF vars, storeVars, chainVars
<1>15. QED
  BY <1>1, <1>2, <1>3, <1>4, <1>5, <1>6, <1>7, <1>8, <1>9, <1>10, <1>11, <1>12, <1>13, <1>14
     DEF Next, IngestStep

(* The inductive invariant holds of every reachable state.                 *)
THEOREM Inductive == Spec => []IInv
<1>1. Init => IInv
  BY IInvInit
<1>2. TypeOK /\ TypeOK' /\ IInv /\ [Next]_vars => IInv'
  BY IInvStep
<1>3. QED
  BY <1>1, <1>2, TypeCorrect, PTL DEF Spec

(* Provenance on every event, for any windows, pages, retention, evictions *)
(* and reorgs at any await, and any faults.                                *)
THEOREM ProvenanceHolds == Spec => []Provenance
<1>1. IInv => Provenance
  BY DEF IInv
<1>2. QED
  BY <1>1, Inductive, PTL

(* The stored headers link wherever two neighbours are held.               *)
THEOREM ArchiveLinked == Spec => []LinkedArchive
<1>1. IInv => LinkedArchive
  BY DEF IInv
<1>2. QED
  BY <1>1, Inductive, PTL

(* Nothing is durable above the checkpoint.                                *)
THEOREM BoundaryCommitted == Spec => []NothingAboveCheckpoint
<1>1. IInv => NothingAboveCheckpoint
  BY DEF IInv, StoredUpToCheckpoint, NothingAboveCheckpoint, Checkpoint
<1>2. QED
  BY <1>1, Inductive, PTL

----------------------------------------------------------------------------
(* What the node answers.                                                  *)

Ids == Nat \X Nat

LEMMA IdsOrdered ==
    ASSUME NEW a \in Ids, NEW b \in Ids, NEW c \in Ids
    PROVE  /\ ~Before(a, a)
           /\ Before(a, b) /\ Before(b, c) => Before(a, c)
           /\ Before(a, b) \/ Before(b, a) \/ a = b
BY DEF Ids, Before

(* The events of a ledger the node has closed.                             *)
LEMMA LedgerEvents ==
    ASSUME ChainTypeOK, NEW l \in 1..Tip
    PROVE  /\ l \in Ledger /\ chain[l] \in Block
           /\ IsFiniteSet(EventsOf(l))
           /\ \A e \in EventsOf(l) : e.id \in EventId /\ e.id[1] = l /\ e.id \in Ids /\ e.id[2] > 0
           /\ \A e, f \in EventsOf(l) : e.id = f.id => e = f
<1>1. l \in Ledger /\ chain[l] \in Block
  BY DEF ChainTypeOK, Tip, Ledger
<1> DEFINE body == chain[l].body
<1>2. body \in Seq([contract: Contracts, ok: BOOLEAN])
  <2>1. << >> \in Seq([contract: Contracts, ok: BOOLEAN])
    OBVIOUS
  <2>2. QED
    BY <1>1, <2>1, BodiesAssumption DEF Block
<1>3. DOMAIN body = 1..Len(body) /\ Len(body) \in Nat
  BY <1>2, LenProperties
<1>4. IsFiniteSet(EventsOf(l))
  <2> DEFINE ev(i) == [id |-> <<l, i>>, branch |-> chain[l].hash,
                       contract |-> chain[l].body[i].contract, ok |-> chain[l].body[i].ok]
             f == [i \in DOMAIN body |-> ev(i)]
  <2>1. IsFiniteSet(DOMAIN body)
    <3> HIDE DEF body, f
    <3>1. 1 \in Int /\ Len(body) \in Int
      BY <1>3
    <3>2. QED
      BY <1>3, <3>1, FS_Interval
  <2>2. f \in Surjection(DOMAIN body, EventsOf(l))
    BY DEF Surjection, EventsOf
  <2> HIDE DEF f, body
  <2>3. QED
    BY <2>1, <2>2, FS_Surjection
<1>5. \A e \in EventsOf(l) : e.id \in EventId /\ e.id[1] = l /\ e.id \in Ids /\ e.id[2] > 0
  BY <1>1, <1>3 DEF EventsOf, EventId, Ids, Ledger
<1>6. \A e, f \in EventsOf(l) : e.id = f.id => e = f
  BY DEF EventsOf
<1>7. QED
  BY <1>1, <1>4, <1>5, <1>6

(* All the node has to say of the ledgers after a position.                *)
Found(after, end) ==
    {e \in UNION {EventsOf(l) : l \in Served} :
        Before(after, e.id) /\ e.id[1] <= end /\ Selected(e, ContractIds)}
Earlier(S, e) == {f \in S : Before(f.id, e.id)}

LEMMA ServedEvents ==
    ASSUME TypeOK, NEW after, NEW end
    PROVE  /\ IsFiniteSet(Found(after, end))
           /\ \A e \in Found(after, end) : e.id \in Ids
<1> DEFINE all == UNION {EventsOf(l) : l \in Served}
<1>1. ChainTypeOK /\ Served \subseteq 1..Tip /\ oldest \in Nat /\ Tip \in Nat
  BY DEF TypeOK, ChainTypeOK, Served, Ledger, Tip
<1>2. IsFiniteSet({EventsOf(l) : l \in Served})
  <2>1. IsFiniteSet(Served)
    BY <1>1, FS_Interval DEF Served
  <2>2. [l \in Served |-> EventsOf(l)] \in Surjection(Served, {EventsOf(l) : l \in Served})
    BY DEF Surjection
  <2>3. QED
    BY <2>1, <2>2, FS_Surjection
<1>3. \A T \in {EventsOf(l) : l \in Served} : IsFiniteSet(T)
  BY <1>1, LedgerEvents
<1>4. IsFiniteSet(all)
  BY <1>2, <1>3, FS_UNION
<1>5. Found(after, end) \subseteq all
  BY DEF Found
<1>6. \A e \in all : e.id \in Ids
  BY <1>1, LedgerEvents
<1>7. QED
  BY <1>4, <1>5, <1>6, FS_Subset

(* A page is the first events after a position, and all when it is short.  *)
LEMMA Pages ==
    ASSUME TypeOK, NEW after, NEW end
    PROVE  LET found == Found(after, end)
               page  == GetEvents(after, end, PageSize, ContractIds)
           IN  /\ page \subseteq found
               /\ \A e \in page, f \in found : Before(f.id, e.id) => f \in page
               /\ Cardinality(page) < PageSize => page = found
<1> DEFINE found == Found(after, end)
           page  == GetEvents(after, end, PageSize, ContractIds)
<1>1. IsFiniteSet(found) /\ \A e \in found : e.id \in Ids
  BY ServedEvents
<1>2. page = {e \in found : Cardinality(Earlier(found, e)) < PageSize}
  BY DEF GetEvents, Found, Earlier
<1>3. PageSize \in Nat
  OBVIOUS
<1> HIDE DEF found, page
<1>4. \A S \in SUBSET found : IsFiniteSet(S) /\ Cardinality(S) \in Nat
  BY <1>1, FS_Subset, FS_CardinalityType
<1>5. ASSUME NEW e \in found, NEW f \in found, Before(f.id, e.id)
      PROVE  /\ Cardinality(Earlier(found, f)) < Cardinality(Earlier(found, e))
             /\ Cardinality(Earlier(found, e)) \in Nat
  <2> DEFINE E == Earlier(found, e)
             F == Earlier(found, f)
  <2>1. E \in SUBSET found /\ F \in SUBSET found
    BY DEF Earlier
  <2>2. F \subseteq E /\ f \in E /\ f \notin F
    BY <1>1, <1>5, IdsOrdered DEF Earlier
  <2> HIDE DEF E, F
  <2>3. Cardinality(F) <= Cardinality(E) /\ (Cardinality(F) = Cardinality(E) => F = E)
    BY <1>4, <2>1, <2>2, FS_Subset
  <2>4. Cardinality(E) \in Nat /\ Cardinality(F) \in Nat
    BY <1>4, <2>1
  <2>5. Cardinality(F) < Cardinality(E)
    BY <2>2, <2>3, <2>4
  <2>6. QED
    BY <2>4, <2>5 DEF E, F
<1>6. \A e \in page, f \in found : Before(f.id, e.id) => f \in page
  <2> SUFFICES ASSUME NEW e \in page, NEW f \in found, Before(f.id, e.id) PROVE f \in page
    OBVIOUS
  <2>1. e \in found /\ Cardinality(Earlier(found, e)) < PageSize
    BY <1>2
  <2>2. Cardinality(Earlier(found, f)) \in Nat
    BY <1>4 DEF Earlier
  <2>3. Cardinality(Earlier(found, f)) < PageSize
    BY <1>3, <1>5, <2>1, <2>2
  <2>4. QED
    BY <1>2, <2>3
(* Of the events left out, the one with the fewest before it has all of    *)
(* these in the page, which is too many for a short one.                   *)
<1>7. Cardinality(page) < PageSize => page = found
  <2> SUFFICES ASSUME Cardinality(page) < PageSize, NEW x \in found, x \notin page PROVE FALSE
    BY <1>2
  <2> DEFINE Ranks == {n \in Nat : \E e \in found : e \notin page /\ n = Cardinality(Earlier(found, e))}
  <2>1. Cardinality(Earlier(found, x)) \in Ranks
    BY <1>4 DEF Earlier
  <2>2. PICK n \in Ranks : \A m \in Ranks : ~(m < n)
    <3> DEFINE R == {ss \in Nat \X Nat : ss[1] < ss[2]}
    <3>1. Ranks \subseteq Nat /\ Ranks # {}
      BY <2>1
    <3>2. IsWellFoundedOn(R, Nat)
      BY NatLessThanWellFounded DEF OpToRel
    <3>3. PICK n \in Ranks : \A m \in Ranks : ~(<<m, n>> \in R)
      <4> HIDE DEF R, Ranks
      <4>1. QED
        BY <3>1, <3>2, WFMin
    <3>4. \A m \in Ranks : ~(m < n)
      <4> SUFFICES ASSUME NEW m \in Ranks, m < n PROVE FALSE
        OBVIOUS
      <4>1. <<m, n>> \in R
        BY <3>1
      <4>2. QED
        BY <3>3, <4>1
    <3>5. QED
      BY <3>4
  <2>3. PICK e \in found : e \notin page /\ n = Cardinality(Earlier(found, e))
    BY <2>2
  <2>4. \A f \in Earlier(found, e) : f \in page
    <3> SUFFICES ASSUME NEW f \in Earlier(found, e), f \notin page PROVE FALSE
      OBVIOUS
    <3>1. f \in found /\ Before(f.id, e.id)
      BY DEF Earlier
    <3>2. Cardinality(Earlier(found, f)) < n /\ Cardinality(Earlier(found, f)) \in Nat
      BY <1>4, <1>5, <2>3, <3>1 DEF Earlier
    <3>3. Cardinality(Earlier(found, f)) \in Ranks
      BY <3>1, <3>2
    <3>4. QED
      BY <2>2, <3>2, <3>3
  <2>5. Earlier(found, e) \subseteq page /\ IsFiniteSet(page) /\ Cardinality(page) \in Nat
    BY <1>2, <1>4, <2>4
  <2>6. n <= Cardinality(page) /\ n \in Nat
    BY <2>3, <2>5, FS_Subset
  <2>7. n < PageSize
    BY <1>3, <2>5, <2>6
  <2>8. QED
    BY <1>2, <2>3, <2>7
<1>8. QED
  BY <1>2, <1>6, <1>7 DEF found, page

----------------------------------------------------------------------------
(* The inductive invariant behind NoGaps, of the node's first history.     *)

InPass == pc \in {"events", "headers", "detect", "append"}

(* What a ledger has for this pipeline, and a collected or stored event    *)
(* that its ledger does have, whichever pipeline asked for it.             *)
Due(l)     == {Fetched(f) : f \in {g \in EventsOf(l) : g.ok /\ Mine(g)}}
Genuine(e) == \E f \in EventsOf(e.id[1]) : f.ok /\ Fetched(f) = Fetched(e)

(* The store holds what the node has, and all of it up to the checkpoint.  *)
StoreTrue ==
    /\ \A l \in Held : l <= Tip /\ ledgers[l] = Header(l)
    /\ \A e \in events : e.id[1] <= Tip /\ Genuine(e)
StoreFull ==
    /\ Checkpoint <= Tip
    /\ \A l \in First..Checkpoint :
         Unpruned(l) => \A g \in Due(l) : \E e \in events : Fetched(e) = g

(* So does the window in flight, which begins where the store ends; what   *)
(* it does not have yet lies after the position it has reached.            *)
PassTrue ==
    InPass => /\ oldest <= pass.start
              /\ pass.end <= pass.latest
              /\ pass.start = IF Checkpoint = NoCheckpoint THEN First ELSE Checkpoint + 1
              /\ \A l \in Ledger : pass.headers[l] # None => l <= Tip /\ pass.headers[l] = Header(l)
              /\ \A g \in pass.got : Genuine(g)
PassFull ==
    /\ pc \in {"headers", "detect", "append"} =>
         \A l \in pass.start..pass.end : Due(l) \subseteq pass.got
    /\ pc = "events" =>
         \A l \in pass.start..pass.end : \A g \in Due(l) : Before(pass.after, g.id) \/ g \in pass.got

(* A pass sees no rewind, and ends where the node ended when it began.     *)
PassLate ==
    /\ InPass \/ pc = "resume" => pass.latest <= Tip
    /\ pc = "resume" => pass.oldest = oldest
    /\ pc \notin {"fork", "rollback", "recheckpoint", "reresume"}

(* A prune in progress is behind a ledger it leaves, by what it retains.   *)
PruneBehind == pruneTo > 0 => Retention > 0 /\ \E h \in Held : pruneTo + Retention <= h

NothingEvicted == EvictPoints = {} => oldest = FirstSequence

StoreGap == StoreTrue /\ StoreFull /\ PruneBehind
PassGap  == PassTrue /\ PassFull /\ PassLate
GapInv   == epoch = 0 => StoreGap /\ PassGap /\ NothingEvicted

(* The node has closed more, and what it had closed is as it was.          *)
Grown == Tip <= Tip' /\ \A l \in 1..Tip : chain'[l] = chain[l]

LEMMA Grows == TypeOK /\ (Close \/ Evict \/ UNCHANGED chainVars) => Grown
<1> SUFFICES ASSUME TypeOK, Close \/ Evict \/ UNCHANGED chainVars PROVE Grown
  OBVIOUS
<1>0. chain \in Seq(Block) /\ Tip \in Nat
  BY DEF TypeOK, ChainTypeOK, Tip
<1>1. CASE Close
  <2>1. PICK body \in Bodies : AppendLedger(body)
    BY <1>1 DEF Close
  <2> DEFINE b == [hash |-> epoch,
                   prev |-> IF Tip = 0 THEN NoHash ELSE chain[Tip].hash,
                   body |-> body]
  <2>2. chain' = Append(chain, b)
    BY <2>1 DEF AppendLedger
  <2> HIDE DEF b
  <2>3. QED
    BY <1>0, <2>2 DEF Grown, Tip
<1>2. CASE ~Close
  <2>1. chain' = chain
    BY <1>2 DEF Evict, SetOldestRetained, chainVars
  <2>2. QED
    BY <1>0, <2>1 DEF Grown, Tip
<1>3. QED
  BY <1>1, <1>2

(* What a closed ledger says it says for ever.                             *)
LEMMA SaidAgain ==
    ASSUME Grown, NEW l \in 1..Tip
    PROVE  EventsOf(l)' = EventsOf(l) /\ Header(l)' = Header(l) /\ Due(l)' = Due(l)
<1>1. chain'[l] = chain[l]
  BY DEF Grown
<1>2. EventsOf(l)' = EventsOf(l) /\ Header(l)' = Header(l)
  BY <1>1 DEF EventsOf, Header
<1>3. QED
  BY <1>2 DEF Due, Mine

(* An event's id says which ledger it is of.                               *)
LEMMA DueOf ==
    ASSUME TypeOK, NEW l \in 1..Tip, NEW g \in Due(l)
    PROVE  g.id \in EventId /\ g.id[1] = l /\ g.id \in Ids /\ g.id[2] > 0 /\ Fetched(g) = g
<1>1. PICK f \in EventsOf(l) : g = Fetched(f)
  BY DEF Due
<1>2. g = [id |-> f.id, branch |-> f.branch, contract |-> f.contract]
  BY <1>1 DEF Fetched
<1>3. Fetched(g) = g
  BY <1>2 DEF Fetched
<1>4. QED
  BY <1>1, <1>2, <1>3, LedgerEvents DEF TypeOK

(* While the store is left alone, what was complete stays so.              *)
LEMMA StoreGapKept ==
    ASSUME TypeOK, Grown, StoreGap, UNCHANGED storeVars,
           pruneTo' = pruneTo \/ PruneBehind'
    PROVE  StoreGap'
<1>1. ledgers' = ledgers /\ events' = events /\ Checkpoint' = Checkpoint /\ Held' = Held
  BY DEF storeVars, Checkpoint, Held
<1>2. Tip \in Nat /\ Tip' >= Tip /\ Checkpoint <= Tip /\ Checkpoint \in Int /\ First \in Nat /\ First > 0
  <2>1. Checkpoint \in Int
    BY DEF TypeOK, Checkpoint, NoCheckpoint
  <2>2. QED
    BY <2>1 DEF TypeOK, ChainTypeOK, Tip, Grown, StoreGap, StoreFull, First
<1>3. Tip' \in Int
  BY <1>2 DEF Grown, Tip, TypeOK, ChainTypeOK, Ledger
<1>4. StoreTrue'
  <2>1. ASSUME NEW l \in Held PROVE l <= Tip' /\ ledgers'[l] = Header(l)'
    <3>1. l \in 1..Tip /\ ledgers[l] = Header(l)
      BY <1>2 DEF StoreGap, StoreTrue, Held, Ledger
    <3>2. QED
      BY <1>1, <1>2, <1>3, <3>1, SaidAgain
  <2>2. ASSUME NEW e \in events PROVE e.id[1] <= Tip' /\ Genuine(e)'
    <3>1. e.id[1] \in 1..Tip /\ Genuine(e)
      BY <1>2 DEF StoreGap, StoreTrue, TypeOK, StoredEvent, EventId, Ledger
    <3>2. EventsOf(e.id[1])' = EventsOf(e.id[1])
      BY <3>1, SaidAgain
    <3>3. QED
      BY <1>2, <1>3, <3>1, <3>2 DEF Genuine, Mine
  <2>3. QED
    BY <1>1, <2>1, <2>2 DEF StoreTrue
<1>5. StoreFull'
  <2>1. ASSUME NEW l \in First..Checkpoint PROVE Due(l)' = Due(l)
    <3>1. l \in 1..Tip
      BY <1>2
    <3>2. QED
      BY <3>1, SaidAgain
  <2>2. QED
    BY <1>1, <1>2, <1>3, <2>1 DEF StoreGap, StoreFull, Unpruned
<1>6. PruneBehind'
  BY <1>1 DEF PruneBehind, StoreGap
<1>7. QED
  BY <1>4, <1>5, <1>6 DEF StoreGap

(* A step of somebody else leaves the window as it was.                    *)
LEMMA PassGapKept ==
    ASSUME TypeOK, WindowAhead, Grown, PassGap, UNCHANGED <<checkpoints, pc, pass>>,
           oldest' = oldest \/ pc = "idle"
    PROVE  PassGap'
<1>1. InPass' = InPass /\ Checkpoint' = Checkpoint /\ (InPass \/ pc = "resume" => oldest' = oldest)
  BY DEF InPass, Checkpoint
<1>2. Tip \in Nat /\ Tip' >= Tip /\ Tip' \in Int /\ oldest \in Nat /\ oldest > 0
      /\ pass.start \in Nat /\ pass.end \in Nat /\ pass.latest \in Nat
  BY DEF TypeOK, ChainTypeOK, Tip, Grown, Ledger, Pass
<1>3. PassLate'
  BY <1>1, <1>2 DEF PassLate, PassGap
<1>4. CASE ~InPass
  BY <1>1, <1>3, <1>4 DEF PassGap, PassTrue, PassFull, InPass
<1>5. CASE InPass
  <2>1. /\ pass.latest <= Tip /\ oldest <= pass.start /\ pass.end <= pass.latest
        /\ pass.start = IF Checkpoint = NoCheckpoint THEN First ELSE Checkpoint + 1
        /\ \A l \in Ledger : pass.headers[l] # None => l <= Tip /\ pass.headers[l] = Header(l)
        /\ \A g \in pass.got : Genuine(g)
    BY <1>5 DEF PassGap, PassTrue, PassLate
  <2>2. \A l \in pass.start..pass.end : Due(l)' = Due(l)
    <3> SUFFICES ASSUME NEW l \in pass.start..pass.end PROVE Due(l)' = Due(l)
      OBVIOUS
    <3>1. l \in 1..Tip
      BY <1>2, <2>1
    <3>2. QED
      BY <3>1, SaidAgain
  <2>3. ASSUME NEW l \in Ledger, pass.headers[l] # None
        PROVE  l <= Tip' /\ pass.headers[l] = Header(l)'
    <3>1. l \in 1..Tip
      BY <1>2, <2>1, <2>3 DEF Ledger
    <3>2. QED
      BY <1>2, <2>1, <2>3, <3>1, SaidAgain
  <2>4. ASSUME NEW g \in pass.got PROVE Genuine(g)'
    <3>1. g.id[1] \in Ledger
      BY DEF TypeOK, Pass, FetchedEvent, EventId
    <3>2. InWindow(g.id[1])
      BY <1>5 DEF WindowAhead, InPass
    <3>3. g.id[1] \in 1..Tip
      BY <1>2, <2>1, <3>1, <3>2 DEF InWindow, Ledger
    <3>4. EventsOf(g.id[1])' = EventsOf(g.id[1])
      BY <3>3, SaidAgain
    <3>5. Genuine(g)
      BY <2>1
    <3>6. QED
      BY <3>4, <3>5 DEF Genuine, Mine
  <2>5. QED
    BY <1>1, <1>2, <1>3, <1>5, <2>1, <2>2, <2>3, <2>4 DEF PassGap, PassTrue, PassFull
<1>6. QED
  BY <1>4, <1>5

(* Between windows nothing is in flight.                                   *)
LEMMA PassGapOutside == pc' \in {"idle", "verify", "synced"} => PassGap'
BY DEF PassGap, PassTrue, PassFull, PassLate, InPass

(* A window opened above the checkpoint has everything before it.          *)
LEMMA OpenWindowGap ==
    ASSUME TypeOK, NEW c \in Nat, OpenWindow(c), UNCHANGED chainVars,
           pass.latest <= Tip, oldest <= c,
           c = IF Checkpoint' = NoCheckpoint THEN First ELSE Checkpoint' + 1
    PROVE  PassGap'
<1>1. CASE c <= pass.latest
  <2>1. /\ pc' = "events"
        /\ pass'.start = c /\ pass'.end = WindowEnd(c) /\ pass'.after = <<c, 0>>
        /\ pass'.latest = pass.latest /\ pass'.got = {} /\ pass'.headers = NoHeaders
    <3>1. pc' = "events"
          /\ pass' = [NoPass EXCEPT !.oldest = pass.oldest, !.latest = pass.latest,
                                    !.start = c, !.after = <<c, 0>>, !.end = WindowEnd(c)]
      BY <1>1 DEF OpenWindow
    <3>2. NoPass \in Pass /\ NoPass.got = {} /\ NoPass.headers = NoHeaders
      BY NoPassType DEF NoPass
    <3> HIDE DEF NoPass, WindowEnd
    <3>3. QED
      BY <3>1, <3>2 DEF Pass
  <2>2. WindowEnd(c) <= pass.latest /\ WindowEnd(c) \in Nat /\ Tip \in Nat /\ oldest \in 1..MaxLedger
        /\ pass.latest \in Nat
    <3>1. pass.latest \in Nat /\ Tip \in Nat /\ oldest \in 1..MaxLedger
      BY DEF TypeOK, ChainTypeOK, Tip, Pass, Ledger
    <3>2. WindowSize \in Nat /\ WindowSize > 0
      OBVIOUS
    <3>3. WindowEnd(c) <= pass.latest /\ WindowEnd(c) \in Nat
      BY <1>1, <3>1, <3>2 DEF WindowEnd, LesserOf
    <3>4. QED
      BY <3>1, <3>3
  <2>3. chain' = chain /\ oldest' = oldest /\ Tip' = Tip
    BY DEF chainVars, Tip
  <2>4. PassLate'
    BY <2>1, <2>3 DEF PassLate
  <2>5. PassTrue'
    BY <2>1, <2>2, <2>3 DEF PassTrue, NoHeaders
  <2>6. PassFull'
    <3>1. ASSUME NEW l \in c..WindowEnd(c), NEW g \in Due(l) PROVE Before(<<c, 0>>, g.id)
      <4>1. l \in 1..Tip
        BY <2>2
      <4>2. g.id[1] = l /\ g.id[2] > 0
        BY <4>1, DueOf
      <4>3. QED
        BY <4>2 DEF Before
    <3>2. \A l \in c..WindowEnd(c) : Due(l)' = Due(l)
      BY <2>3 DEF Due, EventsOf, Mine
    <3> HIDE DEF WindowEnd
    <3>3. QED
      BY <2>1, <3>1, <3>2 DEF PassFull
  <2>7. QED
    BY <2>4, <2>5, <2>6 DEF PassGap
<1>2. CASE ~(c <= pass.latest)
  BY <1>2, PassGapOutside DEF OpenWindow
<1>3. QED
  BY <1>1, <1>2

(* A page brings what the node has, and leaves out only what lies after    *)
(* its last event; a short one leaves out nothing.                         *)
LEMMA FetchEventsGap ==
    ASSUME TypeOK, TypeOK', WindowAhead, PassGap, FetchEvents
    PROVE  PassGap'
<1> DEFINE page == GetEvents(pass.after, pass.end, PageSize, ContractIds)
           got  == pass.got \cup {Fetched(e) : e \in {f \in page : f.ok}}
<1>1. /\ pc = "events" /\ InPass /\ pass \in Pass
      /\ oldest <= pass.start /\ pass.end <= pass.latest /\ pass.latest <= Tip
      /\ pass.start = IF Checkpoint = NoCheckpoint THEN First ELSE Checkpoint + 1
      /\ \A l \in Ledger : pass.headers[l] # None => l <= Tip /\ pass.headers[l] = Header(l)
      /\ \A g \in pass.got : Genuine(g)
      /\ \A l \in pass.start..pass.end : \A g \in Due(l) : Before(pass.after, g.id) \/ g \in pass.got
  BY DEF FetchEvents, PassGap, PassTrue, PassFull, PassLate, InPass, TypeOK
<1>2. /\ Tip \in Nat /\ oldest \in 1..MaxLedger /\ pass.start \in Nat /\ pass.end \in Nat
      /\ pass.latest \in Nat
  BY DEF TypeOK, ChainTypeOK, Tip, Pass, Ledger
<1>3. /\ chain' = chain /\ oldest' = oldest /\ Tip' = Tip /\ Checkpoint' = Checkpoint
      /\ \A l : Due(l)' = Due(l)
      /\ \A g : Genuine(g)' = Genuine(g)
      /\ \A l : Header(l)' = Header(l)
  BY DEF FetchEvents, chainVars, storeVars, Tip, Checkpoint, Due, Genuine, EventsOf, Mine, Header
<1>4. \A e \in page : e.ok => Genuine(Fetched(e))
  <2> SUFFICES ASSUME NEW e \in page, e.ok PROVE Genuine(Fetched(e))
    OBVIOUS
  <2>1. PICK l \in Served : e \in EventsOf(l)
    BY DEF GetEvents
  <2>2. Mine(e) /\ l \in 1..Tip
    BY <1>2 DEF GetEvents, Mine, Served
  <2>3. e.id[1] = l
    BY <2>1, <2>2, LedgerEvents DEF TypeOK
  <2>4. Fetched(e).id = e.id /\ Fetched(Fetched(e)) = Fetched(e)
    BY DEF Fetched
  <2>5. QED
    BY <2>1, <2>2, <2>3, <2>4 DEF Genuine
<1>5. \A g \in got : Genuine(g)
  BY <1>1, <1>4
(* An event of the window after the position is in the page, or after all  *)
(* of it.                                                                  *)
<1>6. ASSUME NEW l \in pass.start..pass.end, NEW g \in Due(l), g \notin got
      PROVE  /\ ~LastPage(page)
             /\ \A last \in page : ~(\E e \in page : Before(last.id, e.id)) => Before(last.id, g.id)
  <2>1. PICK f \in EventsOf(l) : f.ok /\ Mine(f) /\ g = Fetched(f)
    BY DEF Due
  <2>2. l \in Served /\ l \in 1..Tip
    BY <1>1, <1>2 DEF Served
  <2>3. f.id = g.id /\ g.id[1] = l /\ g.id \in Ids
    <3>1. g.id[1] = l /\ g.id \in Ids
      BY <2>2, DueOf
    <3>2. QED
      BY <2>1, <3>1 DEF Fetched
  <2>4. Before(pass.after, f.id)
    <3>1. g \notin pass.got
      BY <1>6
    <3>2. QED
      BY <1>1, <2>3, <3>1
  <2>5. f \in Found(pass.after, pass.end)
    BY <2>1, <2>2, <2>3, <2>4 DEF Found, Mine
  <2>6. f \notin page
    BY <1>6, <2>1
  <2>7. ~LastPage(page)
    BY <2>5, <2>6, Pages DEF LastPage
  <2>8. ASSUME NEW last \in page, ~(\E e \in page : Before(last.id, e.id))
        PROVE  Before(last.id, g.id)
    <3>1. ~Before(f.id, last.id)
      BY <2>5, <2>6, Pages
    <3>2. last \in Found(pass.after, pass.end) /\ last.id \in Ids
      BY Pages, ServedEvents
    <3>3. f.id # last.id
      <4> SUFFICES ASSUME f.id = last.id PROVE FALSE
        OBVIOUS
      <4>1. PICK k \in Served : last \in EventsOf(k)
        BY <3>2 DEF Found
      <4>2. k \in 1..Tip
        BY <1>2, <4>1 DEF Served
      <4>3. k = l
        <5>1. last.id[1] = k
          BY <4>1, <4>2, LedgerEvents DEF TypeOK
        <5>2. QED
          BY <2>3, <5>1
      <4>4. f = last
        BY <2>1, <2>2, <4>1, <4>3, LedgerEvents DEF TypeOK
      <4>5. QED
        BY <2>6, <4>4
    <3>4. QED
      BY <2>3, <3>1, <3>2, <3>3, IdsOrdered
  <2>9. QED
    BY <2>7, <2>8
<1> HIDE DEF page, got
<1>7. CASE LastPage(page)
  <2>1. /\ pc' = "headers" /\ pass'.start = pass.start /\ pass'.end = pass.end
        /\ pass'.got = got /\ pass'.headers = pass.headers /\ pass'.latest = pass.latest
    BY <1>1, <1>7 DEF FetchEvents, Pass, page, got
  <2>2. QED
    BY <1>1, <1>3, <1>5, <1>6, <1>7, <2>1 DEF PassGap, PassTrue, PassFull, PassLate
<1>8. CASE ~LastPage(page)
  <2>1. PICK last \in page : /\ \A e \in page : ~Before(last.id, e.id)
                             /\ pass' = [pass EXCEPT !.got = got, !.after = last.id]
    BY <1>8 DEF FetchEvents, page, got
  <2>2. /\ pass'.start = pass.start /\ pass'.end = pass.end /\ pass'.after = last.id
        /\ pass'.got = got /\ pass'.headers = pass.headers /\ pass'.latest = pass.latest
    BY <1>1, <2>1 DEF Pass
  <2>3. pc' = "events"
    BY <1>1, <1>8 DEF FetchEvents, page
  <2>4. QED
    BY <1>1, <1>3, <1>5, <1>6, <2>1, <2>2, <2>3 DEF PassGap, PassTrue, PassFull, PassLate
<1>9. QED
  BY <1>7, <1>8

(* The headers that come are the node's.                                   *)
LEMMA FetchHeadersGap ==
    ASSUME TypeOK, PassGap, FetchHeaders
    PROVE  PassGap'
<1> DEFINE run == FirstRun(pass.wanted)
           headers == [l \in Ledger |-> IF l \in run \cap Served THEN Header(l)
                                        ELSE pass.headers[l]]
<1>1. /\ pc = "headers" /\ InPass /\ pass \in Pass
      /\ oldest <= pass.start /\ pass.end <= pass.latest /\ pass.latest <= Tip
      /\ pass.start = IF Checkpoint = NoCheckpoint THEN First ELSE Checkpoint + 1
      /\ \A l \in Ledger : pass.headers[l] # None => l <= Tip /\ pass.headers[l] = Header(l)
      /\ \A g \in pass.got : Genuine(g)
      /\ \A l \in pass.start..pass.end : Due(l) \subseteq pass.got
  BY DEF FetchHeaders, PassGap, PassTrue, PassFull, PassLate, InPass, TypeOK
<1>2. /\ chain' = chain /\ oldest' = oldest /\ Tip' = Tip /\ Checkpoint' = Checkpoint
      /\ \A l : Due(l)' = Due(l)
      /\ \A g : Genuine(g)' = Genuine(g)
      /\ \A l : Header(l)' = Header(l)
  BY DEF FetchHeaders, chainVars, storeVars, Tip, Checkpoint, Due, Genuine, EventsOf, Mine, Header
<1>3. /\ pass'.start = pass.start /\ pass'.end = pass.end /\ pass'.got = pass.got
      /\ pass'.headers = headers /\ pass'.latest = pass.latest
      /\ pc' \in {"headers", "detect"}
  <2>1. pass' = [pass EXCEPT !.headers = headers, !.wanted = pass.wanted \ run]
    BY DEF FetchHeaders
  <2> HIDE DEF headers, run
  <2>2. QED
    BY <1>1, <2>1 DEF Pass, FetchHeaders
<1>4. \A l \in Ledger : headers[l] # None => l <= Tip /\ headers[l] = Header(l)
  BY <1>1 DEF Served
<1> HIDE DEF headers, run
<1>5. QED
  BY <1>1, <1>2, <1>3, <1>4 DEF PassGap, PassTrue, PassFull, PassLate

(* Nothing stored or fetched conflicts with a history that has not been    *)
(* rewritten.                                                              *)
LEMMA NoConflict ==
    ASSUME TypeOK, ChainLinked, StoreTrue, PassTrue, InPass
    PROVE  Conflicts = {}
<1> SUFFICES ASSUME NEW l \in Ledger, pass.headers[l] # None, Rewritten(l) \/ Unlinked(l)
             PROVE  FALSE
  BY DEF Conflicts
<1>1. pass.headers[l] = Header(l) /\ l <= Tip /\ Tip \in Nat
  BY DEF PassTrue, TypeOK, ChainTypeOK, Tip
<1>2. ~Rewritten(l)
  BY <1>1 DEF Rewritten, StoreTrue, Held
<1>3. l - 1 \in Ledger /\ ledgers[l - 1] # None /\ ledgers[l - 1].hash # pass.headers[l].prev
  BY <1>2 DEF Unlinked
<1>4. ledgers[l - 1] = Header(l - 1)
  BY <1>3 DEF StoreTrue, Held
<1>5. chain[l].prev = chain[l - 1].hash
  BY <1>1, <1>3 DEF ChainLinked, Ledger
<1>6. QED
  BY <1>1, <1>3, <1>4, <1>5 DEF Header

LEMMA NothingStale ==
    ASSUME StoreTrue
    PROVE  Stale = {}
<1> SUFFICES ASSUME NEW l \in Stale PROVE FALSE
  OBVIOUS
<1>1. l \in Ledger /\ ledgers[l] # None /\ ledgers[l].hash # chain[l].hash
  BY DEF Stale, Reexamined
<1>2. ledgers[l] = Header(l)
  BY <1>1 DEF StoreTrue, Held
<1>3. QED
  BY <1>1, <1>2 DEF Header

(* The commit stores all that was collected; what another pipeline has     *)
(* stored of the window is the same.                                       *)
LEMMA AppendGap ==
    ASSUME TypeOK, WindowAhead, StoreGap, PassGap, AppendWindow
    PROVE  StoreGap' /\ PassGap'
<1> DEFINE new(e) == [id |-> e.id, branch |-> e.branch, contract |-> e.contract,
                      hash |-> pass.headers[e.id[1]].hash]
<1>1. /\ pc = "append" /\ InPass
      /\ oldest <= pass.start /\ pass.end <= pass.latest /\ pass.latest <= Tip
      /\ pass.start = IF Checkpoint = NoCheckpoint THEN First ELSE Checkpoint + 1
      /\ \A l \in Ledger : pass.headers[l] # None => l <= Tip /\ pass.headers[l] = Header(l)
      /\ \A g \in pass.got : Genuine(g)
      /\ \A l \in pass.start..pass.end : Due(l) \subseteq pass.got
  BY DEF AppendWindow, PassGap, PassTrue, PassFull, PassLate, InPass
<1>2. /\ Tip \in Nat /\ oldest \in 1..MaxLedger /\ pass.start \in Nat /\ pass.end \in Nat
      /\ pass.latest \in Nat /\ Checkpoint \in Nat \cup {NoCheckpoint}
      /\ First \in Nat /\ First > 0 /\ NoCheckpoint = -1
      /\ Checkpoint < pass.start /\ pass.start <= pass.end
  <2>1. Checkpoint < pass.start /\ pass.start <= pass.end
    BY <1>1 DEF WindowAhead
  <2>2. Checkpoint \in Nat \cup {NoCheckpoint} /\ First \in Nat /\ First > 0
    BY DEF TypeOK, Checkpoint, First
  <2>3. QED
    BY <2>1, <2>2 DEF TypeOK, ChainTypeOK, Tip, Pass, Ledger, NoCheckpoint
<1>3. /\ UNCHANGED chainVars /\ Tip' = Tip /\ Checkpoint' = pass.end /\ pruneTo' = pruneTo
      /\ OpenWindow(pass.end + 1)
      /\ \A l : Due(l)' = Due(l)
      /\ \A l : Header(l)' = Header(l)
  BY DEF AppendWindow, chainVars, Tip, Checkpoint, Due, EventsOf, Mine, Header, TypeOK
<1>4. /\ events' = events \cup {new(e) : e \in {g \in pass.got : \A s \in events : s.id # g.id}}
      /\ \A l \in Ledger : ledgers'[l] = IF pass.headers[l] # None THEN pass.headers[l] ELSE ledgers[l]
  BY DEF AppendWindow
<1>5. \A l \in Ledger : ledgers[l] # None => ledgers'[l] # None
  BY <1>4
<1>6. StoreTrue'
  <2>1. ASSUME NEW l \in Ledger, ledgers'[l] # None PROVE l <= Tip /\ ledgers'[l] = Header(l)
    BY <1>1, <1>4, <2>1 DEF StoreGap, StoreTrue, Held
  <2>2. ASSUME NEW g \in pass.got
        PROVE  new(g).id[1] <= Tip /\ Genuine(new(g))
    <3>1. Genuine(g) /\ InWindow(g.id[1]) /\ g.id[1] \in Nat
      BY <1>1 DEF WindowAhead, TypeOK, Pass, FetchedEvent, EventId, Ledger
    <3>2. new(g).id = g.id /\ Fetched(new(g)) = Fetched(g)
      BY DEF Fetched
    <3>3. g.id[1] <= Tip
      BY <1>1, <1>2, <3>1 DEF InWindow
    <3>4. QED
      BY <3>1, <3>2, <3>3 DEF Genuine
  <2>3. \A e \in events' : e.id[1] <= Tip /\ Genuine(e)
    BY <1>4, <2>2 DEF StoreGap, StoreTrue
  <2>4. \A e : Genuine(e)' = Genuine(e)
    BY DEF AppendWindow, chainVars, Genuine, EventsOf, Mine
  <2>5. QED
    BY <1>3, <2>1, <2>3, <2>4 DEF StoreTrue, Held
<1>7. ASSUME NEW l \in First..pass.end, Unpruned(l)', NEW g \in Due(l)
      PROVE  \E e \in events' : Fetched(e) = g
  <2>1. CASE l <= Checkpoint
    <3>1. l \in First..Checkpoint
      BY <1>2, <2>1
    <3>2. Unpruned(l)
      BY <1>5, <1>7 DEF Unpruned, Held
    <3>3. QED
      BY <1>4, <3>1, <3>2 DEF StoreGap, StoreFull
  <2>2. CASE l > Checkpoint
    <3>1. l \in pass.start..pass.end /\ l \in 1..Tip
      BY <1>1, <1>2, <2>2
    <3>2. g \in pass.got /\ g.id[1] = l /\ Fetched(g) = g
      BY <1>1, <3>1, DueOf
    <3>3. CASE \A s \in events : s.id # g.id
      <4>1. new(g) \in events' /\ Fetched(new(g)) = Fetched(g)
        BY <1>4, <3>2, <3>3 DEF Fetched
      <4>2. QED
        BY <3>2, <4>1
    <3>4. ASSUME NEW s \in events, s.id = g.id PROVE s \in events' /\ Fetched(s) = g
      <4>1. PICK f \in EventsOf(l) : Fetched(f) = Fetched(s)
        BY <3>2, <3>4 DEF StoreGap, StoreTrue, Genuine
      <4>2. PICK h \in EventsOf(l) : g = Fetched(h)
        BY DEF Due
      <4>3. f.id = s.id /\ h.id = g.id
        BY <4>1, <4>2 DEF Fetched
      <4>4. f = h
        BY <3>1, <3>4, <4>3, LedgerEvents DEF TypeOK
      <4>5. QED
        BY <1>4, <4>1, <4>2, <4>4
    <3>5. QED
      BY <3>3, <3>4
  <2>3. QED
    BY <1>2, <2>1, <2>2
<1>8. StoreFull'
  BY <1>1, <1>2, <1>3, <1>7 DEF StoreFull, First
<1>9. PruneBehind'
  BY <1>3, <1>5 DEF StoreGap, PruneBehind, Held
<1>10. PassGap'
  <2>1. /\ pass.end + 1 \in Nat /\ oldest <= pass.end + 1
        /\ pass.end + 1 = IF Checkpoint' = NoCheckpoint THEN First ELSE Checkpoint' + 1
    BY <1>1, <1>2, <1>3
  <2>2. QED
    BY <1>1, <1>3, <2>1, OpenWindowGap
<1>11. QED
  BY <1>6, <1>8, <1>9, <1>10 DEF StoreGap

(* A prune takes only what its cutoff was computed to take: the ledger it  *)
(* was computed from stays, and with it the claim about what is retained.  *)
LEMMA PruneGap ==
    ASSUME TypeOK, StoreGap, PruneDelete
    PROVE  StoreGap'
<1>1. /\ UNCHANGED chainVars /\ Tip' = Tip /\ Checkpoint' = Checkpoint /\ pruneTo' = 0
      /\ events' = {e \in events : e.id[1] >= pruneTo}
      /\ \A l \in Ledger : ledgers'[l] = IF l < pruneTo THEN None ELSE ledgers[l]
      /\ \A l : Due(l)' = Due(l)
      /\ \A l : Header(l)' = Header(l)
      /\ \A e : Genuine(e)' = Genuine(e)
  BY DEF PruneDelete, chainVars, Tip, Checkpoint, Due, Genuine, EventsOf, Mine, Header
<1>2. pruneTo \in Nat /\ pruneTo > 0 /\ Retention \in Nat /\ Tip \in Nat /\ Checkpoint \in Int
      /\ First \in Nat /\ First > 0 /\ Checkpoint <= Tip
  BY DEF PruneDelete, TypeOK, ChainTypeOK, Tip, Checkpoint, NoCheckpoint, First, StoreGap, StoreFull
<1>3. PICK h \in Held : pruneTo + Retention <= h /\ Retention > 0
  BY <1>2 DEF StoreGap, PruneBehind
<1>4. h \in Held' /\ h \in Nat
  BY <1>1, <1>2, <1>3 DEF Held, Ledger
<1>5. StoreTrue'
  BY <1>1 DEF StoreGap, StoreTrue, Held
<1>6. ASSUME NEW l \in First..Checkpoint, Unpruned(l)', NEW g \in Due(l)
      PROVE  \E e \in events' : Fetched(e) = g
  <2>1. h - Retention <= l
    BY <1>2, <1>3, <1>4, <1>6 DEF Unpruned
  <2>2. pruneTo <= l
    BY <1>2, <1>3, <1>4, <2>1
  <2>3. Unpruned(l)
    <3> SUFFICES ASSUME NEW k \in Held PROVE k - Retention <= l
      BY DEF Unpruned
    <3>1. CASE k < pruneTo
      BY <1>2, <2>2, <3>1 DEF Held, Ledger
    <3>2. CASE ~(k < pruneTo)
      <4>1. k \in Held'
        BY <1>1, <3>2 DEF Held
      <4>2. QED
        BY <1>2, <1>3, <1>6, <4>1 DEF Unpruned
    <3>3. QED
      BY <3>1, <3>2
  <2>4. PICK e \in events : Fetched(e) = g
    BY <2>3 DEF StoreGap, StoreFull
  <2>5. e.id = g.id
    BY <2>4 DEF Fetched
  <2>6. l \in 1..Tip
    BY <1>2
  <2>7. e.id[1] = l
    BY <2>5, <2>6, DueOf
  <2>8. QED
    BY <1>1, <1>2, <2>2, <2>4, <2>7
<1>7. StoreFull'
  BY <1>1, <1>2, <1>6 DEF StoreFull, First
<1>8. PruneBehind'
  BY <1>1 DEF PruneBehind
<1>9. QED
  BY <1>5, <1>7, <1>8 DEF StoreGap

(* The first ledger of an empty store, when the node drops ledgers only    *)
(* between passes, and none that a pipeline without a start would want.    *)
Spared == EvictPoints \subseteq {"idle"} /\ (StartLedger > 0 \/ EvictPoints = {})

LEMMA ResumeGap ==
    ASSUME Spared, TypeOK, PassGap, NothingEvicted, Resume
    PROVE  PassGap'
<1>1. /\ pass.oldest = oldest /\ pass.latest <= Tip
      /\ ResumeLedger >= pass.oldest /\ OpenWindow(ResumeLedger) /\ UNCHANGED chainVars
      /\ Checkpoint' = Checkpoint
  BY DEF Resume, PassGap, PassLate, storeVars, Checkpoint
<1>2. ResumeLedger = IF Checkpoint' = NoCheckpoint THEN First ELSE Checkpoint' + 1
  BY <1>1 DEF ResumeLedger, First, NothingEvicted, Spared
<1>3. ResumeLedger \in Nat /\ oldest \in Nat
  BY ResumeAhead DEF TypeOK, ChainTypeOK, Ledger
<1>4. QED
  BY <1>1, <1>2, <1>3, OpenWindowGap

LEMMA GapInit == Init => GapInv
<1> SUFFICES ASSUME Init PROVE StoreGap /\ PassGap /\ NothingEvicted
  BY DEF GapInv
<1>1. Held = {} /\ events = {} /\ Checkpoint = -1 /\ pc = "idle" /\ oldest = FirstSequence
  BY DEF Init, ChainInit, Held, NoHeaders, Checkpoint, NoCheckpoint
<1>2. Tip \in Nat
  BY DEF Init, ChainInit, Tip
<1>3. First \in Nat /\ First > 0
  BY DEF First
<1>4. StoreGap
  BY <1>1, <1>2, <1>3 DEF StoreGap, StoreTrue, StoreFull, PruneBehind, Init
<1>5. PassGap
  BY <1>1 DEF PassGap, PassTrue, PassFull, PassLate, InPass
<1>6. QED
  BY <1>1, <1>4, <1>5 DEF NothingEvicted

(* A step of the pipeline itself, on a history that was not rewritten.     *)
LEMMA PipelineGap ==
    ASSUME Spared, TypeOK, TypeOK', WindowAhead, ChainLinked, StoreGap, PassGap, NothingEvicted,
           IngestStep \/ Abort
    PROVE  StoreGap' /\ PassGap'
<1>1. UNCHANGED <<chainVars, pruneTo>>
  BY DEF IngestStep, ReadRange, Resume, RefuseEvicted, ResumeAfterRewind, FetchEvents,
         FetchHeaders, DetectReorg, FindForkPoint, RollbackTo, RewriteCheckpoint, AppendWindow,
         LedgerGap, VerifyConfirmationWindow, Sleep, Abort
<1>2. StoreTrue /\ PassTrue /\ pc \notin {"fork", "rollback", "recheckpoint", "reresume"} /\ Grown
  BY <1>1, Grows DEF StoreGap, PassGap, PassLate
<1>3. CASE Sleep \/ Abort \/ LedgerGap \/ RefuseEvicted
  BY <1>2, <1>3, StoreGapKept, PassGapOutside DEF Sleep, Abort, LedgerGap, RefuseEvicted
<1>4. CASE ReadRange
  <2>1. pc' = "resume" /\ pass'.latest = Tip /\ pass'.oldest = oldest
        /\ Tip' = Tip /\ oldest' = oldest
    <3>1. NoPass \in Pass
      BY NoPassType
    <3> HIDE DEF NoPass
    <3>2. QED
      BY <1>4, <3>1 DEF ReadRange, Pass, chainVars, Tip
  <2>2. Tip \in Nat
    BY DEF Tip, TypeOK, ChainTypeOK
  <2>3. PassGap'
    BY <2>1, <2>2 DEF PassGap, PassTrue, PassFull, PassLate, InPass
  <2>4. QED
    BY <1>2, <1>4, <2>3, StoreGapKept DEF ReadRange
<1>5. CASE Resume
  BY <1>2, <1>5, StoreGapKept, ResumeGap DEF Resume
<1>6. CASE FetchEvents
  BY <1>2, <1>6, StoreGapKept, FetchEventsGap DEF FetchEvents
<1>7. CASE FetchHeaders
  BY <1>2, <1>7, StoreGapKept, FetchHeadersGap DEF FetchHeaders
<1>8. CASE DetectReorg
  <2>1. pc = "detect" /\ InPass /\ Conflicts = {}
    BY <1>2, <1>8, NoConflict DEF DetectReorg, InPass
  <2>2. pc' = "append" /\ pass' = pass /\ UNCHANGED <<chainVars, storeVars, pruneTo>>
    BY <1>8, <2>1 DEF DetectReorg
  <2>3. /\ InPass' /\ Tip' = Tip /\ oldest' = oldest /\ Checkpoint' = Checkpoint
        /\ \A l : Due(l)' = Due(l)
        /\ \A l : Header(l)' = Header(l)
        /\ \A e : Genuine(e)' = Genuine(e)
    BY <2>2 DEF chainVars, storeVars, Tip, Checkpoint, Due, Genuine, EventsOf, Mine, Header, InPass
  <2>4. PassGap'
    BY <2>1, <2>2, <2>3 DEF PassGap, PassTrue, PassFull, PassLate
  <2>5. QED
    BY <1>2, <2>2, <2>4, StoreGapKept
<1>9. CASE VerifyConfirmationWindow
  <2>1. Stale = {}
    BY <1>2, NothingStale
  <2>2. QED
    BY <1>2, <1>9, <2>1, StoreGapKept, PassGapOutside DEF VerifyConfirmationWindow
<1>10. CASE AppendWindow
  BY <1>10, AppendGap
<1>11. CASE FindForkPoint \/ RollbackTo \/ RewriteCheckpoint \/ ResumeAfterRewind
  BY <1>2, <1>11 DEF FindForkPoint, RollbackTo, RewriteCheckpoint, ResumeAfterRewind
<1>12. QED
  BY <1>3, <1>4, <1>5, <1>6, <1>7, <1>8, <1>9, <1>10, <1>11 DEF IngestStep

LEMMA GapStep ==
    ASSUME Spared
    PROVE  TypeOK /\ TypeOK' /\ IInv /\ GapInv /\ [Next]_vars => GapInv'
<1> SUFFICES ASSUME TypeOK, TypeOK', IInv, GapInv, [Next]_vars, epoch' = 0
             PROVE  StoreGap' /\ PassGap' /\ NothingEvicted'
  BY DEF GapInv
<1>1. CASE Reorg
  <2>1. epoch' = epoch + 1 /\ epoch \in Nat
    BY <1>1 DEF Reorg, ReorgFrom, TypeOK, ChainTypeOK, Hash
  <2>2. QED
    BY <2>1
<1>2. CASE UNCHANGED chainVars \/ Close \/ Evict
  <2>1. epoch = 0
    BY <1>2 DEF chainVars, Close, AppendLedger, Evict, SetOldestRetained
  <2>2. StoreGap /\ PassGap /\ NothingEvicted /\ WindowAhead /\ ChainLinked
    BY <2>1 DEF GapInv, IInv
  <2>3. Grown
    BY <1>2, Grows
  <2>4. NothingEvicted'
    BY <1>2, <2>2 DEF NothingEvicted, Close, AppendLedger, Evict, chainVars
  <2> SUFFICES StoreGap' /\ PassGap'
    BY <2>4
  <2>5. CASE IngestStep \/ Abort
    BY <2>2, <2>5, PipelineGap
  <2>6. CASE PruneRead
    <3>1. PruneBehind'
      <4>1. PICK latest \in Held : pruneTo' = latest - Retention /\ Retention > 0
        BY <2>6 DEF PruneRead
      <4>2. Held' = Held /\ latest \in Nat
        BY <2>6 DEF PruneRead, storeVars, Held, Ledger
      <4>3. pruneTo' + Retention <= latest
        BY <4>1, <4>2
      <4>4. QED
        BY <4>1, <4>2, <4>3 DEF PruneBehind
    <3>2. UNCHANGED <<storeVars, checkpoints, pc, pass, oldest>>
      BY <2>6 DEF PruneRead, storeVars, localVars, chainVars
    <3>3. QED
      BY <2>2, <2>3, <3>1, <3>2, StoreGapKept, PassGapKept
  <2>7. CASE PruneDelete
    <3>1. UNCHANGED <<checkpoints, pc, pass, oldest>>
      BY <2>7 DEF PruneDelete, localVars, chainVars
    <3>2. QED
      BY <2>2, <2>3, <2>7, <3>1, PruneGap, PassGapKept
  <2>8. CASE (Close \/ Evict \/ UNCHANGED vars) /\ (Elsewhere \/ UNCHANGED vars)
    <3>1. UNCHANGED <<storeVars, pruneTo, checkpoints, pc, pass>>
      BY <2>8 DEF Elsewhere, vars, storeVars, localVars
    <3>2. oldest' = oldest \/ pc = "idle"
      BY <2>8 DEF Close, AppendLedger, Evict, Spared, vars
    <3>3. QED
      BY <2>2, <2>3, <3>1, <3>2, StoreGapKept, PassGapKept
  <2>9. QED
    BY <1>1, <2>5, <2>6, <2>7, <2>8 DEF Next
<1>3. UNCHANGED chainVars \/ Close \/ Reorg \/ Evict
  BY DEF Next, IngestStep, ReadRange, Resume, RefuseEvicted, ResumeAfterRewind, FetchEvents,
         FetchHeaders, DetectReorg, FindForkPoint, RollbackTo, RewriteCheckpoint, AppendWindow,
         LedgerGap, VerifyConfirmationWindow, Sleep, Abort, PruneRead, PruneDelete, vars, chainVars
<1>4. QED
  BY <1>1, <1>2, <1>3

(* Complete and genuine is exact.                                          *)
LEMMA GapExact == TypeOK /\ GapInv => NoGaps
<1> SUFFICES ASSUME TypeOK, GapInv, epoch = 0,
                    NEW l \in First..Checkpoint, Unpruned(l)
             PROVE  ExactAt(l)
  BY DEF NoGaps, GapInv, StoreGap, StoreFull
<1>1. StoreTrue /\ Checkpoint <= Tip /\ \A g \in Due(l) : \E e \in events : Fetched(e) = g
  BY DEF GapInv, StoreGap, StoreFull
<1>2. l \in 1..Tip
  <2>1. Checkpoint \in Int /\ Tip \in Int /\ First \in Nat /\ First > 0
    BY DEF TypeOK, ChainTypeOK, Checkpoint, NoCheckpoint, Tip, First
  <2>2. QED
    BY <1>1, <2>1
<1> DEFINE stored == {Fetched(e) : e \in {f \in events : f.id[1] = l /\ Mine(f)}}
<1>3. Due(l) \subseteq stored
  <2> SUFFICES ASSUME NEW g \in Due(l) PROVE g \in stored
    OBVIOUS
  <2>1. PICK e \in events : Fetched(e) = g
    BY <1>1
  <2>2. PICK f \in EventsOf(l) : Mine(f) /\ Fetched(f) = g
    BY DEF Due
  <2>3. e.id = g.id /\ e.contract = f.contract
    BY <2>1, <2>2 DEF Fetched
  <2>4. e.id[1] = l /\ Mine(e)
    BY <1>2, <2>2, <2>3, DueOf DEF Mine, Selected
  <2>5. QED
    BY <2>1, <2>4
<1>4. stored \subseteq Due(l)
  <2> SUFFICES ASSUME NEW e \in events, e.id[1] = l, Mine(e) PROVE Fetched(e) \in Due(l)
    OBVIOUS
  <2>1. PICK f \in EventsOf(l) : f.ok /\ Fetched(f) = Fetched(e)
    BY <1>1 DEF StoreTrue, Genuine
  <2>2. f.contract = e.contract
    BY <2>1 DEF Fetched
  <2>3. QED
    BY <2>1, <2>2 DEF Due, Mine, Selected
<1>5. QED
  BY <1>3, <1>4 DEF ExactAt, Due

(* Nothing at or below the checkpoint is missing, failed or invented while *)
(* the node does not rewrite history, for any windows, pages, contracts,   *)
(* retention and faults, and a node that drops ledgers between passes.     *)
THEOREM NothingMissing ==
    ASSUME EvictPoints \subseteq {"idle"}, StartLedger > 0 \/ EvictPoints = {}
    PROVE  Spec => []NoGaps
<1>1. Init => GapInv
  BY GapInit
<1>2. TypeOK /\ TypeOK' /\ IInv /\ GapInv /\ [Next]_vars => GapInv'
  BY GapStep DEF Spared
<1>3. TypeOK /\ GapInv => NoGaps
  BY GapExact
<1>4. QED
  BY <1>1, <1>2, <1>3, TypeCorrect, Inductive, PTL DEF Spec

----------------------------------------------------------------------------
(* The header of the checkpoint's ledger.                                  *)

(* A window does not commit without the header of its last ledger.         *)
EndWanted ==
    /\ pc = "headers" => pass.end \in pass.wanted \/ pass.headers[pass.end] # None
    /\ pc \in {"detect", "append"} => pass.headers[pass.end] # None

LEMMA EndWantedOutside == pc' \notin {"headers", "detect", "append"} => EndWanted'
BY DEF EndWanted

LEMMA EndWantedKept == EndWanted /\ UNCHANGED <<pc, pass>> => EndWanted'
BY DEF EndWanted

(* The last page asks for the header of the window's end, and the node has *)
(* it.                                                                     *)
LEMMA EndWantedStep ==
    ASSUME TypeOK, TypeOK', EndWanted,
           FetchEvents \/ (FetchHeaders /\ pass.end \in Served)
    PROVE  EndWanted'
<1>1. pass \in Pass
  BY DEF TypeOK
<1>2. CASE FetchEvents
  <2> DEFINE page == GetEvents(pass.after, pass.end, PageSize, ContractIds)
             got  == pass.got \cup {Fetched(e) : e \in {f \in page : f.ok}}
  <2>1. CASE LastPage(page)
    <3>1. pc' = "headers"
          /\ pass' = [pass EXCEPT !.got = got, !.after = <<0, 0>>, !.wanted = Touched(got)]
      BY <1>2, <2>1 DEF FetchEvents
    <3>2. pass.end \in Touched(got)
      BY DEF Touched
    <3> HIDE DEF page, got
    <3>3. pass'.end = pass.end /\ pass'.wanted = Touched(got)
      BY <1>1, <3>1 DEF Pass
    <3>4. QED
      BY <3>1, <3>2, <3>3 DEF EndWanted
  <2>2. CASE ~LastPage(page)
    <3>1. pc' = "events"
      BY <1>2, <2>2 DEF FetchEvents
    <3>2. QED
      BY <3>1, EndWantedOutside
  <2>3. QED
    BY <2>1, <2>2
<1>3. CASE FetchHeaders /\ pass.end \in Served
  <2> DEFINE run == FirstRun(pass.wanted)
             headers == [l \in Ledger |-> IF l \in run \cap Served THEN Header(l)
                                          ELSE pass.headers[l]]
  <2>1. /\ pc = "headers" /\ pass' = [pass EXCEPT !.headers = headers, !.wanted = pass.wanted \ run]
        /\ pc' = IF pass.wanted \ run = {} THEN "detect" ELSE "headers"
    BY <1>3 DEF FetchHeaders
  <2>2. pass.end \in Ledger /\ pass.end \in 1..Len(chain)
    <3>1. oldest \in Ledger /\ Len(chain) <= MaxLedger /\ Len(chain) \in Nat
      BY DEF TypeOK, ChainTypeOK
    <3>2. pass.end \in oldest..Len(chain)
      BY <1>3 DEF Served, Tip
    <3>3. QED
      BY <3>1, <3>2 DEF Ledger
  <2>3. Header(pass.end) # None
    <3>1. chain[pass.end].hash \in Hash
      <4>1. chain[pass.end] \in Block
        BY <2>2 DEF TypeOK, ChainTypeOK
      <4>2. QED
        BY <4>1 DEF Block
    <3>2. QED
      BY <3>1 DEF Header, None, NoHash, Hash
  <2>4. pass.end \in pass.wanted \ run \/ headers[pass.end] # None
    BY <1>3, <2>1, <2>2, <2>3 DEF EndWanted
  <2> HIDE DEF run, headers
  <2>5. pass'.end = pass.end /\ pass'.wanted = pass.wanted \ run /\ pass'.headers = headers
    BY <1>1, <2>1 DEF Pass
  <2>6. QED
    BY <2>1, <2>4, <2>5 DEF EndWanted
<1>4. QED
  BY <1>2, <1>3

LEMMA AnchorCommitted ==
    ASSUME TypeOK, TypeOK', WindowAhead, EndWanted, AppendWindow
    PROVE  CheckpointAnchored' /\ EndWanted'
<1>1. pass.headers[pass.end] # None /\ pass.start <= pass.end /\ Checkpoint < pass.start
  BY DEF AppendWindow, EndWanted, WindowAhead
<1>2. Checkpoint' = pass.end /\ pass.end \in 0..MaxLedger
  BY DEF AppendWindow, Checkpoint, TypeOK, Pass
<1>3. pass.end > 0 => ledgers'[pass.end] # None
  BY <1>1, <1>2 DEF AppendWindow, Ledger
<1>4. CheckpointAnchored'
  BY <1>2, <1>3 DEF CheckpointAnchored, Held, Ledger
<1>5. pc' \in {"events", "verify"}
  BY DEF AppendWindow, OpenWindow
<1>6. QED
  BY <1>4, <1>5, EndWantedOutside

LEMMA AnchorKept ==
    CheckpointAnchored /\ UNCHANGED storeVars => CheckpointAnchored'
BY DEF CheckpointAnchored, Checkpoint, Held, storeVars

(* Before any rewrite, with prunes at any await: what a prune leaves has   *)
(* the latest stored ledger in it, and nothing is stored above the         *)
(* checkpoint.                                                             *)
AnchorFirst == epoch = 0 => CheckpointAnchored /\ EndWanted

LEMMA AnchorFirstStep ==
    TypeOK /\ TypeOK' /\ IInv /\ GapInv /\ AnchorFirst /\ [Next]_vars => AnchorFirst'
<1> SUFFICES ASSUME TypeOK, TypeOK', IInv, GapInv, AnchorFirst, [Next]_vars, epoch' = 0
             PROVE  CheckpointAnchored' /\ EndWanted'
  BY DEF AnchorFirst
<1>1. CASE Reorg
  <2>1. epoch' = epoch + 1 /\ epoch \in Nat
    BY <1>1 DEF Reorg, ReorgFrom, TypeOK, ChainTypeOK, Hash
  <2>2. QED
    BY <2>1
<1>2. CASE UNCHANGED chainVars \/ Close \/ Evict
  <2>1. epoch = 0
    BY <1>2 DEF chainVars, Close, AppendLedger, Evict, SetOldestRetained
  <2>2. /\ StoreGap /\ PassGap /\ CheckpointAnchored /\ EndWanted
        /\ StoredUpToCheckpoint /\ WindowAhead /\ ChainLinked /\ StoreTrue /\ PassTrue
        /\ pc \notin {"fork", "rollback", "recheckpoint", "reresume"}
    BY <2>1 DEF GapInv, AnchorFirst, IInv, StoreGap, PassGap, PassLate
  <2>3. CASE ReadRange \/ Resume \/ RefuseEvicted \/ LedgerGap \/ Sleep \/ Abort
    BY <2>2, <2>3, AnchorKept, EndWantedOutside
       DEF ReadRange, Resume, OpenWindow, RefuseEvicted, LedgerGap, Sleep, Abort
  <2>4. CASE FetchEvents
    BY <2>2, <2>4, AnchorKept, EndWantedStep DEF FetchEvents
  <2>5. CASE FetchHeaders
    <3>1. InPass /\ pass.latest <= Tip /\ oldest <= pass.start /\ pass.end <= pass.latest
          /\ pass.start <= pass.end
      BY <2>2, <2>5 DEF FetchHeaders, PassGap, PassTrue, PassLate, InPass, WindowAhead
    <3>2. pass.end \in Served
      <4>1. pass.end \in Nat /\ pass.start \in Nat /\ pass.latest \in Nat /\ oldest \in Nat /\ Tip \in Nat
        BY DEF Tip, TypeOK, ChainTypeOK, Pass, Ledger
      <4>2. QED
        BY <3>1, <4>1 DEF Served
    <3>3. QED
      BY <2>2, <2>5, <3>2, AnchorKept, EndWantedStep DEF FetchHeaders
  <2>6. CASE DetectReorg
    <3>1. pc = "detect" /\ Conflicts = {}
      BY <2>2, <2>6, NoConflict DEF DetectReorg, InPass
    <3>2. pc' = "append" /\ pass' = pass
      BY <2>6, <3>1 DEF DetectReorg
    <3>3. QED
      BY <2>2, <2>6, <3>1, <3>2, AnchorKept DEF DetectReorg, EndWanted
  <2>7. CASE VerifyConfirmationWindow
    BY <2>2, <2>7, AnchorKept, EndWantedOutside DEF VerifyConfirmationWindow
  <2>8. CASE AppendWindow
    BY <2>2, <2>8, AnchorCommitted
  <2>9. CASE FindForkPoint \/ RollbackTo \/ RewriteCheckpoint \/ ResumeAfterRewind
    BY <2>2, <2>9 DEF FindForkPoint, RollbackTo, RewriteCheckpoint, ResumeAfterRewind
  <2>10. CASE PruneRead
    BY <2>2, <2>10, AnchorKept, EndWantedKept DEF PruneRead, localVars
  <2>11. CASE PruneDelete
    <3>1. PICK h \in Held : pruneTo + Retention <= h
      BY <2>2, <2>11 DEF PruneDelete, StoreGap, PruneBehind
    <3>2. h <= Checkpoint /\ h \in Nat /\ pruneTo \in Nat /\ Checkpoint \in Int
      BY <2>2 DEF StoredUpToCheckpoint, Held, Ledger, TypeOK, Checkpoint, NoCheckpoint
    <3>3. pruneTo <= Checkpoint
      BY <3>1, <3>2
    <3>4. Checkpoint' = Checkpoint /\ \A l \in Held : pruneTo <= l => l \in Held'
      BY <2>11, <3>2 DEF PruneDelete, Checkpoint, Held, Ledger
    <3>5. CheckpointAnchored'
      BY <2>2, <3>3, <3>4 DEF CheckpointAnchored
    <3>6. QED
      BY <2>2, <2>11, <3>5, EndWantedKept DEF PruneDelete, localVars
  <2>12. CASE Elsewhere \/ UNCHANGED vars
    BY <2>2, <2>12, AnchorKept, EndWantedKept DEF Elsewhere, vars, storeVars, localVars
  <2>13. QED
    BY <1>1, <2>3, <2>4, <2>5, <2>6, <2>7, <2>8, <2>9, <2>10, <2>11, <2>12 DEF Next, IngestStep
<1>3. UNCHANGED chainVars \/ Close \/ Reorg \/ Evict
  BY DEF Next, IngestStep, ReadRange, Resume, RefuseEvicted, ResumeAfterRewind, FetchEvents,
         FetchHeaders, DetectReorg, FindForkPoint, RollbackTo, RewriteCheckpoint, AppendWindow,
         LedgerGap, VerifyConfirmationWindow, Sleep, Abort, PruneRead, PruneDelete, vars, chainVars
<1>4. QED
  BY <1>1, <1>2, <1>3

(* Across rewrites between passes, while nothing is dropped or pruned: a   *)
(* rewind ends at a ledger the node and the store agree about, or at none. *)
AnchorInv ==
    /\ oldest = 1 /\ pruneTo = 0
    /\ CheckpointAnchored
    /\ EndWanted
    /\ pc # "idle" => pass.latest <= Tip
    /\ InPass => pass.end <= pass.latest /\ pass.start > 0
    /\ pc \in {"rollback", "recheckpoint"} => pass.suspect = 0 \/ pass.suspect \in Held

(* The window from a ledger above zero.                                    *)
LEMMA AnchorOpen ==
    ASSUME TypeOK, NEW c \in Nat, c > 0, OpenWindow(c), UNCHANGED chainVars, pass.latest <= Tip
    PROVE  /\ EndWanted'
           /\ pc' # "idle" => pass'.latest <= Tip'
           /\ InPass' => pass'.end <= pass'.latest /\ pass'.start > 0
           /\ pc' \in {"events", "verify"}
<1>1. Tip' = Tip /\ Tip \in Nat /\ pass.latest \in Nat /\ pc' \in {"events", "verify"}
  <2>1. Tip' = Tip /\ Tip \in Nat
    BY DEF chainVars, Tip, TypeOK, ChainTypeOK
  <2>2. pass.latest \in Nat
    BY DEF TypeOK, Pass
  <2>3. pc' \in {"events", "verify"}
    BY DEF OpenWindow
  <2>4. QED
    BY <2>1, <2>2, <2>3
<1>2. CASE c <= pass.latest
  <2>1. pass'.latest = pass.latest /\ pass'.start = c /\ pass'.end = WindowEnd(c)
    <3>1. pass' = [NoPass EXCEPT !.oldest = pass.oldest, !.latest = pass.latest,
                                 !.start = c, !.after = <<c, 0>>, !.end = WindowEnd(c)]
      BY <1>2 DEF OpenWindow
    <3>2. NoPass \in Pass
      BY NoPassType
    <3> HIDE DEF NoPass, WindowEnd
    <3>3. QED
      BY <3>1, <3>2 DEF Pass
  <2>2. WindowSize \in Nat /\ WindowSize > 0
    OBVIOUS
  <2>3. WindowEnd(c) <= pass.latest
    BY <1>1, <1>2, <2>2 DEF WindowEnd, LesserOf
  <2>4. QED
    BY <1>1, <2>1, <2>3, EndWantedOutside
<1>3. CASE ~(c <= pass.latest)
  <2>1. pc' = "verify" /\ pass' = NoPass
    BY <1>3 DEF OpenWindow
  <2>2. pass'.latest = 0
    BY <2>1 DEF NoPass
  <2>3. QED
    BY <1>1, <2>1, <2>2, EndWantedOutside DEF InPass
<1>4. QED
  BY <1>2, <1>3

Settled == /\ FirstSequence = 1 /\ EvictPoints = {} /\ Retention = 0
           /\ ReorgPoints \subseteq {"idle"}

LEMMA AnchorStep ==
    ASSUME Settled
    PROVE  TypeOK /\ TypeOK' /\ IInv /\ AnchorInv /\ [Next]_vars => AnchorInv'
<1> SUFFICES ASSUME TypeOK, TypeOK', IInv, AnchorInv, [Next]_vars PROVE AnchorInv'
  OBVIOUS
<1> DEFINE Late == pc # "idle" => pass.latest <= Tip
           Ahead == InPass => pass.end <= pass.latest /\ pass.start > 0
           Landing == pc \in {"rollback", "recheckpoint"} => pass.suspect = 0 \/ pass.suspect \in Held
<1>0. /\ oldest = 1 /\ pruneTo = 0 /\ CheckpointAnchored /\ EndWanted /\ Late /\ Ahead /\ Landing
      /\ WindowAhead /\ RewindsDown /\ Tip \in Nat /\ pass \in Pass /\ Checkpoint \in Int
      /\ NoPass \in Pass /\ NoPass.latest = 0
  <2>1. Checkpoint \in Int /\ Tip \in Nat /\ pass \in Pass
    BY DEF TypeOK, ChainTypeOK, Tip, Checkpoint, NoCheckpoint
  <2>2. NoPass \in Pass /\ NoPass.latest = 0
    BY NoPassType DEF NoPass
  <2>3. QED
    BY <2>1, <2>2 DEF AnchorInv, IInv
<1>1. CASE ReadRange
  <2>1. pc' = "resume" /\ pass'.latest = Tip /\ Tip' = Tip /\ oldest' = oldest
    <3> HIDE DEF NoPass
    <3>1. QED
      BY <1>0, <1>1 DEF ReadRange, Pass, chainVars, Tip
  <2>2. QED
    BY <1>0, <1>1, <2>1, AnchorKept, EndWantedOutside DEF ReadRange, AnchorInv, InPass
<1>2. CASE Resume \/ ResumeAfterRewind
  <2>1. OpenWindow(ResumeLedger) /\ UNCHANGED <<chainVars, storeVars, pruneTo>> /\ pc # "idle"
    BY <1>2 DEF Resume, ResumeAfterRewind
  <2>2. ResumeLedger \in Nat /\ ResumeLedger > 0
    BY <1>0 DEF ResumeLedger, TypeOK, Checkpoint, NoCheckpoint
  <2>3. QED
    BY <1>0, <2>1, <2>2, AnchorOpen, AnchorKept DEF AnchorInv, chainVars
<1>3. CASE RefuseEvicted \/ LedgerGap \/ Abort
  BY <1>0, <1>3, AnchorKept, EndWantedOutside
     DEF RefuseEvicted, LedgerGap, Abort, AnchorInv, InPass, chainVars
<1>4. CASE Sleep
  BY <1>0, <1>4, AnchorKept, EndWantedOutside DEF Sleep, AnchorInv, InPass, chainVars
<1>5. CASE FetchEvents
  <2>1. pc' \in {"events", "headers"} /\ pc = "events" /\ UNCHANGED <<chainVars, storeVars, pruneTo>>
    BY <1>5 DEF FetchEvents
  <2>2. pass'.start = pass.start /\ pass'.end = pass.end /\ pass'.latest = pass.latest
    <3> DEFINE page == GetEvents(pass.after, pass.end, PageSize, ContractIds)
               got  == pass.got \cup {Fetched(e) : e \in {f \in page : f.ok}}
    <3>1. \/ pass' = [pass EXCEPT !.got = got, !.after = <<0, 0>>, !.wanted = Touched(got)]
          \/ \E last \in page : pass' = [pass EXCEPT !.got = got, !.after = last.id]
      BY <1>5 DEF FetchEvents
    <3> HIDE DEF page, got
    <3>2. QED
      BY <1>0, <3>1 DEF Pass
  <2>3. QED
    BY <1>0, <1>5, <2>1, <2>2, AnchorKept, EndWantedStep DEF AnchorInv, InPass, chainVars, Tip
<1>6. CASE FetchHeaders
  <2>1. pc' \in {"headers", "detect"} /\ pc = "headers" /\ UNCHANGED <<chainVars, storeVars, pruneTo>>
    BY <1>6 DEF FetchHeaders
  <2>2. pass'.start = pass.start /\ pass'.end = pass.end /\ pass'.latest = pass.latest
    <3> DEFINE hs == [l \in Ledger |-> IF l \in FirstRun(pass.wanted) \cap Served THEN Header(l)
                                       ELSE pass.headers[l]]
               left == pass.wanted \ FirstRun(pass.wanted)
    <3>1. pass' = [pass EXCEPT !.headers = hs, !.wanted = left]
      BY <1>6 DEF FetchHeaders
    <3> HIDE DEF hs, left
    <3>2. QED
      BY <1>0, <3>1 DEF Pass
  <2>3. pass.end \in Served
    <3>1. pass.end \in Nat /\ pass.start \in Nat /\ pass.latest \in Nat
      BY <1>0 DEF Pass
    <3>2. pass.start > 0 /\ pass.start <= pass.end /\ pass.end <= pass.latest /\ pass.latest <= Tip
      BY <1>0, <2>1 DEF InPass, WindowAhead
    <3>3. QED
      BY <1>0, <3>1, <3>2 DEF Served
  <2>4. QED
    BY <1>0, <1>6, <2>1, <2>2, <2>3, AnchorKept, EndWantedStep DEF AnchorInv, InPass, chainVars, Tip
<1>7. CASE DetectReorg
  <2>1. pc = "detect" /\ UNCHANGED <<chainVars, storeVars, pruneTo>>
    BY <1>7 DEF DetectReorg
  <2>2. CASE pc' = "append" /\ pass' = pass
    BY <1>0, <2>1, <2>2, AnchorKept DEF AnchorInv, InPass, chainVars, Tip, EndWanted
  <2>3. CASE pc' = "fork" /\ pass'.latest = pass.latest
    BY <1>0, <2>1, <2>3, AnchorKept, EndWantedOutside DEF AnchorInv, InPass, chainVars, Tip
  <2>4. (pc' = "append" /\ pass' = pass) \/ (pc' = "fork" /\ pass'.latest = pass.latest)
    <3>1. CASE Conflicts = {}
      BY <1>7, <3>1 DEF DetectReorg
    <3>2. CASE Conflicts # {}
      <4>1. PICK l \in Conflicts :
              /\ pc' = "fork"
              /\ pass' = [NoPass EXCEPT !.oldest = pass.oldest, !.latest = pass.latest,
                                        !.suspect = IF Rewritten(l) THEN l ELSE l - 1]
        BY <1>7, <3>2 DEF DetectReorg
      <4> HIDE DEF NoPass
      <4>2. QED
        BY <1>0, <4>1 DEF Pass
    <3>3. QED
      BY <3>1, <3>2
  <2>5. QED
    BY <2>2, <2>3, <2>4
<1>8. CASE FindForkPoint
  <2>1. pc = "fork" /\ UNCHANGED <<chainVars, storeVars, pruneTo>>
    BY <1>8 DEF FindForkPoint
  <2>2. CASE pc' = "rollback" /\ pass' = pass /\ ~(pass.suspect > 0 /\ ~Agreed(pass.suspect))
    <3>1. pass.suspect = 0 \/ pass.suspect \in Held'
      <4>1. pass.suspect \in 0..MaxLedger /\ ledgers' = ledgers
        BY <1>0, <2>1 DEF Pass, storeVars
      <4>2. pass.suspect = 0 \/ ledgers[pass.suspect] # None
        BY <2>2, <4>1 DEF Agreed
      <4>3. QED
        BY <4>1, <4>2 DEF Held, Ledger
    <3>2. QED
      BY <1>0, <2>1, <2>2, <3>1, AnchorKept, EndWantedOutside DEF AnchorInv, InPass, chainVars, Tip
  <2>3. CASE pc' = "fork" /\ pass'.latest = pass.latest
    BY <1>0, <2>1, <2>3, AnchorKept, EndWantedOutside DEF AnchorInv, InPass, chainVars, Tip
  <2>4. QED
    <3>1. CASE pass.suspect > 0 /\ ~Agreed(pass.suspect)
      <4>1. pass' = [pass EXCEPT !.suspect = @ - 1] /\ pc' = "fork"
        BY <1>8, <2>1, <3>1 DEF FindForkPoint
      <4>2. pass'.latest = pass.latest
        BY <1>0, <4>1 DEF Pass
      <4>3. QED
        BY <2>3, <4>1, <4>2
    <3>2. CASE ~(pass.suspect > 0 /\ ~Agreed(pass.suspect))
      BY <1>8, <2>2, <3>2 DEF FindForkPoint
    <3>3. QED
      BY <3>1, <3>2
<1>9. CASE RollbackTo
  <2>1. /\ pc = "rollback" /\ pc' = "recheckpoint" /\ pass' = pass /\ pruneTo' = pruneTo
        /\ UNCHANGED chainVars
        /\ ledgers' = LedgersUpTo(pass.suspect) /\ checkpoints' = Clamped(pass.suspect)
    BY <1>9 DEF RollbackTo
  <2>2. pass.suspect \in 0..MaxLedger /\ pass.suspect <= Checkpoint
    BY <1>0, <2>1 DEF Pass, RewindsDown
  <2>3. Checkpoint' = pass.suspect
    BY <1>0, <2>1, <2>2 DEF Clamped, LesserOf, Checkpoint
  <2>4. pass.suspect = 0 \/ pass.suspect \in Held'
    BY <1>0, <2>1, <2>2 DEF LedgersUpTo, Held
  <2>5. QED
    BY <1>0, <2>1, <2>2, <2>3, <2>4, EndWantedOutside
       DEF AnchorInv, CheckpointAnchored, InPass, chainVars, Tip
<1>10. CASE RewriteCheckpoint
  <2>1. pc = "recheckpoint" /\ pc' \in {"idle", "reresume"} /\ UNCHANGED <<chainVars, ledgers, pruneTo>>
    BY <1>10 DEF RewriteCheckpoint
  <2>2. Checkpoint' = Checkpoint /\ Held' = Held
    BY <1>0, <1>10 DEF RewriteCheckpoint, RewindsDown, Checkpoint, Held, TypeOK
  <2>3. pc' = "reresume" => pass'.latest = pass.latest
    <3>1. pc' = "reresume" => pass' = [pass EXCEPT !.suspect = 0]
      BY <1>10 DEF RewriteCheckpoint
    <3>2. QED
      BY <1>0, <3>1 DEF Pass
  <2>4. QED
    BY <1>0, <2>1, <2>2, <2>3, EndWantedOutside
       DEF AnchorInv, CheckpointAnchored, InPass, chainVars, Tip
<1>11. CASE AppendWindow
  <2>1. pc = "append" /\ OpenWindow(pass.end + 1) /\ UNCHANGED <<chainVars, pruneTo>>
    BY <1>11 DEF AppendWindow
  <2>2. pass.end + 1 \in Nat /\ pass.end + 1 > 0
    BY <1>0 DEF Pass
  <2>3. QED
    BY <1>0, <1>11, <2>1, <2>2, AnchorOpen, AnchorCommitted DEF AnchorInv, chainVars
<1>12. CASE VerifyConfirmationWindow
  <2>1. pc = "verify" /\ pc' \in {"synced", "fork"} /\ UNCHANGED <<chainVars, storeVars, pruneTo>>
    BY <1>12 DEF VerifyConfirmationWindow
  <2>2. pass'.latest = pass.latest
    <3>1. pass' = pass \/ \E l \in Stale : pass' = [pass EXCEPT !.suspect = l, !.verifying = TRUE]
      BY <1>12 DEF VerifyConfirmationWindow
    <3>2. QED
      BY <1>0, <3>1 DEF Pass
  <2>3. QED
    BY <1>0, <2>1, <2>2, AnchorKept, EndWantedOutside DEF AnchorInv, InPass, chainVars, Tip
<1>13. CASE PruneRead \/ PruneDelete
  BY <1>0, <1>13 DEF PruneRead, PruneDelete, Settled
<1>14. CASE (Close \/ Reorg \/ Evict) /\ Elsewhere
  <2>1. UNCHANGED <<storeVars, pc, pass, pruneTo>>
    BY <1>14 DEF Elsewhere, localVars
  <2>2. ~Evict
    BY DEF Evict, Settled
  <2>3. oldest' = oldest
    BY <1>14, <2>2 DEF Close, AppendLedger, Reorg, ReorgFrom
  <2>4. pc # "idle" => Tip <= Tip' /\ Tip' \in Nat
    <3>1. pc # "idle" => Close
      BY <1>14, <2>2 DEF Reorg, Settled
    <3>2. Tip' \in Nat
      BY DEF TypeOK, ChainTypeOK, Tip
    <3>3. QED
      BY <3>1, <3>2, Grows DEF Grown
  <2>5. pc' # "idle" => pass'.latest <= Tip'
    BY <1>0, <2>1, <2>4 DEF Pass
  <2>6. Held' = Held
    BY <2>1 DEF Held, storeVars
  <2>7. QED
    BY <1>0, <2>1, <2>3, <2>5, <2>6, AnchorKept, EndWantedKept DEF AnchorInv, InPass
<1>15. CASE UNCHANGED vars
  BY <1>0, <1>15, AnchorKept, EndWantedKept
     DEF AnchorInv, InPass, vars, chainVars, storeVars, Tip, Held
<1>16. QED
  BY <1>1, <1>2, <1>3, <1>4, <1>5, <1>6, <1>7, <1>8, <1>9, <1>10, <1>11, <1>12, <1>13, <1>14, <1>15
     DEF Next, IngestStep

LEMMA AnchorInit == Settled /\ Init => AnchorInv
BY DEF Settled, Init, ChainInit, AnchorInv, CheckpointAnchored, Checkpoint, NoCheckpoint,
       EndWanted, InPass

(* The header of the checkpoint's ledger is stored, for any windows, pages,*)
(* contracts and faults, while the node keeps all its ledgers and rewrites *)
(* them between passes only, and nothing is pruned.  Each hypothesis is    *)
(* needed: a ledger that is no longer served has no header to fetch, a     *)
(* rewrite during a pass leaves its last ledgers without one, and a prune  *)
(* whose cutoff a rewind has overtaken takes the checkpoint's.             *)
THEOREM CheckpointHeld ==
    ASSUME FirstSequence = 1, EvictPoints = {}, Retention = 0, ReorgPoints \subseteq {"idle"}
    PROVE  Spec => []CheckpointAnchored
<1>1. Init => AnchorInv
  BY AnchorInit DEF Settled
<1>2. TypeOK /\ TypeOK' /\ IInv /\ AnchorInv /\ [Next]_vars => AnchorInv'
  BY AnchorStep DEF Settled
<1>3. AnchorInv => CheckpointAnchored
  BY DEF AnchorInv
<1>4. QED
  BY <1>1, <1>2, <1>3, TypeCorrect, Inductive, PTL DEF Spec

(* On the node's first history it also is while the store is pruned and    *)
(* the node drops ledgers between passes.                                  *)
THEOREM CheckpointHeldAtFirst ==
    ASSUME EvictPoints \subseteq {"idle"}, StartLedger > 0 \/ EvictPoints = {}
    PROVE  Spec => [](epoch = 0 => CheckpointAnchored)
<1>1. Init => GapInv
  BY GapInit
<1>2. TypeOK /\ TypeOK' /\ IInv /\ GapInv /\ [Next]_vars => GapInv'
  BY GapStep DEF Spared
<1>3. Init => AnchorFirst
  BY DEF Init, AnchorFirst, CheckpointAnchored, Checkpoint, NoCheckpoint, EndWanted
<1>4. TypeOK /\ TypeOK' /\ IInv /\ GapInv /\ AnchorFirst /\ [Next]_vars => AnchorFirst'
  BY AnchorFirstStep
<1>5. AnchorFirst => (epoch = 0 => CheckpointAnchored)
  BY DEF AnchorFirst
<1>6. QED
  BY <1>1, <1>2, <1>3, <1>4, <1>5, TypeCorrect, Inductive, PTL DEF Spec

----------------------------------------------------------------------------
(* One of several pipelines on one store: what it keeps while the others   *)
(* only add what the node has, as it does itself.                          *)

Sharing == epoch = 0 => StoreGap /\ PassGap /\ PassInv /\ ChainLinked /\ NothingEvicted

Adds == /\ UNCHANGED <<chainVars, pruneTo>>
        /\ Held \subseteq Held' /\ events \subseteq events'
        /\ \A n \in Names \ {Name} : checkpoints'[n] = checkpoints[n]

LEMMA SharingInit == Init => Sharing
BY GapInit, IInvInit DEF Sharing, GapInv, IInv, PassInv

(* What is in flight does not contradict what is true.                     *)
LEMMA LinksTrue ==
    ASSUME TypeOK, ChainLinked, StoreTrue, PassTrue
    PROVE  WindowLinks
<1> SUFFICES ASSUME pc = "append" PROVE WindowLinks
  BY DEF WindowLinks
<1>1. Conflicts = {}
  BY NoConflict DEF InPass
<1>2. QED
  BY <1>1 DEF Conflicts, WindowLinks

LEMMA SharingStep ==
    ASSUME Spared, TypeOK, TypeOK', Sharing, epoch = 0, IngestStep \/ Abort
    PROVE  Sharing' /\ Adds
<1>1. /\ StoreGap /\ PassGap /\ PassInv /\ ChainLinked /\ NothingEvicted
      /\ WindowAhead /\ StoreTrue /\ PassTrue
      /\ pc \notin {"fork", "rollback", "recheckpoint", "reresume"}
  BY DEF Sharing, PassInv, StoreGap, PassGap, PassLate
<1>2. StoreGap' /\ PassGap'
  BY <1>1, PipelineGap
<1> DEFINE Quiet == UNCHANGED <<chainVars, storeVars, pruneTo>>
<1>3. Quiet => Adds
  BY DEF Adds, storeVars, Held
<1>4. PassInv' /\ Adds
  <2>1. CASE ReadRange \/ RefuseEvicted \/ LedgerGap \/ Sleep \/ Abort
    <3>1. Quiet /\ pc' \in {"idle", "resume"}
      BY <2>1 DEF ReadRange, RefuseEvicted, LedgerGap, Sleep, Abort
    <3>2. QED
      BY <1>3, <3>1, PassInvOutside
  <2>2. CASE Resume
    <3>1. OpenWindow(ResumeLedger) /\ Quiet /\ Checkpoint' = Checkpoint
      BY <2>2 DEF Resume, storeVars, Checkpoint
    <3>2. QED
      BY <1>3, <3>1, ResumeAhead, OpenWindowAhead
  <2>3. CASE FetchEvents
    <3>1. Quiet
      BY <2>3 DEF FetchEvents
    <3>2. QED
      BY <1>1, <1>3, <2>3, <3>1, FetchEventsInv
  <2>4. CASE FetchHeaders
    <3>1. Quiet
      BY <2>4 DEF FetchHeaders
    <3>2. QED
      BY <1>1, <1>3, <2>4, <3>1, FetchHeadersInv
  <2>5. CASE DetectReorg
    <3>1. pc = "detect" /\ Conflicts = {}
      BY <1>1, <2>5, NoConflict DEF DetectReorg, InPass
    <3>2. Quiet /\ pc' = "append" /\ pass' = pass /\ Checkpoint' = Checkpoint /\ ledgers' = ledgers
      BY <2>5, <3>1 DEF DetectReorg, storeVars, Checkpoint
    <3>3. WindowLinks'
      BY <3>1, <3>2 DEF WindowLinks, Conflicts, Unlinked
    <3>4. PassInv'
      BY <1>1, <3>1, <3>2, <3>3
         DEF PassInv, WindowAhead, PageAhead, RunsApart, HeadersLinked, RewindsDown, InWindow
    <3>5. QED
      BY <1>3, <3>2, <3>4
  <2>6. CASE VerifyConfirmationWindow
    <3>1. Stale = {}
      BY <1>1, NothingStale
    <3>2. Quiet /\ pc' = "synced"
      BY <2>6, <3>1 DEF VerifyConfirmationWindow
    <3>3. QED
      BY <1>3, <3>2, PassInvOutside
  <2>7. CASE AppendWindow
    <3>1. /\ pc = "append" /\ OpenWindow(pass.end + 1) /\ UNCHANGED <<chainVars, pruneTo>>
          /\ pass.end \in Nat /\ Checkpoint' = pass.end
      BY <2>7 DEF AppendWindow, TypeOK, Pass, Checkpoint
    <3>2. PassInv'
      BY <3>1, OpenWindowAhead
    <3>3. events \subseteq events' /\ \A n \in Names \ {Name} : checkpoints'[n] = checkpoints[n]
      BY <2>7 DEF AppendWindow, TypeOK
    <3>4. Held \subseteq Held'
      BY <2>7 DEF AppendWindow, Held
    <3>5. QED
      BY <3>1, <3>2, <3>3, <3>4 DEF Adds
  <2>8. CASE FindForkPoint \/ RollbackTo \/ RewriteCheckpoint \/ ResumeAfterRewind
    BY <1>1, <2>8 DEF FindForkPoint, RollbackTo, RewriteCheckpoint, ResumeAfterRewind
  <2>9. QED
    BY <2>1, <2>2, <2>3, <2>4, <2>5, <2>6, <2>7, <2>8 DEF IngestStep
<1>5. ChainLinked' /\ NothingEvicted'
  BY <1>1, <1>4, ChainLinkedKept DEF Adds, NothingEvicted, chainVars
<1>6. QED
  BY <1>2, <1>4, <1>5 DEF Sharing

(* No step of a pipeline moves the node.                                   *)
LEMMA ChainStays == IngestStep \/ Abort => UNCHANGED chainVars
BY DEF IngestStep, Abort, ReadRange, Resume, RefuseEvicted, ResumeAfterRewind, FetchEvents,
       FetchHeaders, DetectReorg, FindForkPoint, RollbackTo, RewriteCheckpoint, AppendWindow,
       LedgerGap, VerifyConfirmationWindow, Sleep

(* Another pipeline's step.                                                *)
LEMMA SharingKept ==
    ASSUME TypeOK, TypeOK', Sharing, epoch = 0, UNCHANGED <<chainVars, pruneTo, pc, pass>>,
           Checkpoint' = Checkpoint, Held \subseteq Held', events \subseteq events', StoreTrue'
    PROVE  Sharing'
<1>1. /\ StoreGap /\ PassGap /\ PassInv /\ ChainLinked /\ NothingEvicted
      /\ StoreTrue /\ PassTrue /\ PassFull /\ PassLate
  BY DEF Sharing, StoreGap, PassGap
<1>2. /\ Tip' = Tip /\ oldest' = oldest /\ InPass' = InPass
      /\ \A l : Due(l)' = Due(l)
      /\ \A l : Header(l)' = Header(l)
      /\ \A e : Genuine(e)' = Genuine(e)
  BY DEF chainVars, Tip, Due, EventsOf, Mine, Header, Genuine, InPass
<1>3. StoreGap'
  <2>1. \A l : Unpruned(l)' => Unpruned(l)
    BY DEF Unpruned
  <2>2. StoreFull'
    BY <1>1, <1>2, <2>1 DEF StoreGap, StoreFull, First
  <2>3. PruneBehind'
    BY <1>1 DEF StoreGap, PruneBehind
  <2>4. QED
    BY <2>2, <2>3 DEF StoreGap
<1>4. PassTrue' /\ PassFull' /\ PassLate'
  BY <1>1, <1>2 DEF PassTrue, PassFull, PassLate
<1>5. ChainLinked' /\ NothingEvicted'
  BY <1>1, ChainLinkedKept DEF NothingEvicted, chainVars
<1>6. WindowLinks'
  <2>1. (TypeOK /\ ChainLinked /\ StoreTrue /\ PassTrue => WindowLinks)'
    BY LinksTrue, PTL
  <2>2. QED
    BY <1>4, <1>5, <2>1
<1>7. PassInv'
  BY <1>1, <1>6 DEF PassInv, WindowAhead, PageAhead, RunsApart, HeadersLinked, RewindsDown,
                    InWindow
<1>8. QED
  BY <1>3, <1>4, <1>5, <1>7 DEF Sharing, PassGap

(* The node's own step.                                                    *)
LEMMA SharingNode ==
    ASSUME TypeOK, TypeOK', Sharing, Close \/ Reorg \/ UNCHANGED chainVars,
           UNCHANGED <<storeVars, localVars, pruneTo>>
    PROVE  Sharing'
<1>1. CASE Reorg
  <2>1. epoch' = epoch + 1 /\ epoch \in Nat
    BY <1>1 DEF Reorg, ReorgFrom, TypeOK, ChainTypeOK, Hash
  <2>2. QED
    BY <2>1 DEF Sharing
<1>2. CASE (Close \/ UNCHANGED chainVars) /\ epoch # 0
  BY <1>2 DEF Close, AppendLedger, chainVars, Sharing
<1>3. CASE (Close \/ UNCHANGED chainVars) /\ epoch = 0
  <2>1. StoreGap /\ PassGap /\ PassInv /\ ChainLinked /\ NothingEvicted /\ WindowAhead
    BY <1>3 DEF Sharing, PassInv
  <2>2. Grown /\ oldest' = oldest
    BY <1>3, Grows DEF Close, AppendLedger, chainVars
  <2>3. StoreGap' /\ PassGap'
    BY <2>1, <2>2, StoreGapKept, PassGapKept DEF storeVars, localVars
  <2>4. PassInv' /\ NothingEvicted'
    BY <2>1, <2>2, PassInvKept DEF storeVars, localVars, NothingEvicted
  <2>5. ChainLinked'
    BY <1>3, <2>1, ChainLinkedStep, ChainLinkedKept
  <2>6. QED
    BY <2>3, <2>4, <2>5 DEF Sharing
<1>4. QED
  BY <1>1, <1>2, <1>3

LEMMA SharingExact == TypeOK /\ Sharing => NoGaps
BY GapExact DEF Sharing, GapInv

----------------------------------------------------------------------------
(* Following a node that rewrites its history between passes: the archive  *)
(* as a prefix of one of its branches.                                     *)

(* The setting: every ledger is a window of its own.                       *)
Following == Settled /\ WindowSize = 1

(* Every ledger from the start up to the checkpoint has its header, and so *)
(* does every one above a ledger that has (a rewind of all there is makes  *)
(* the next pass begin below the start).                                   *)
Unbroken ==
    /\ \A l \in First..Checkpoint : l \in Held
    /\ \A l \in Held : \A k \in l..Checkpoint : k \in Held

(* What is stored was closed before now; and if the node does not have the *)
(* ledger any more, before the history it will close it in again.          *)
Dated ==
    /\ \A l \in 1..Tip : chain[l].hash <= epoch
    /\ \A l \in Held : ledgers[l].hash <= epoch /\ (l > Tip => ledgers[l].hash < epoch)

(* A ledger that the node agrees about is exact, and so are all before it. *)
OneBranch == \A l \in Held : Agreed(l) => ExactAt(l) /\ \A k \in Held : k <= l => Agreed(k)

StoreFollows == Unbroken /\ Dated /\ OneBranch

(* A rewind has only ledgers above its aim that the node no longer has.    *)
CutBack == pc \in {"fork", "rollback"} => \A l \in pass.suspect + 1 .. Checkpoint : ~Agreed(l)

Single    == InPass => pass.start = pass.end
Rewinding == pc \in {"fork", "rollback", "recheckpoint", "reresume"}

FollowInv == StoreFollows /\ CutBack /\ Single /\ (Rewinding \/ PassGap)

(* What the node closes anew it does not have in common with the store: a  *)
(* ledger agreed about after a move of the node's was so before.           *)
LEMMA StillAgreed ==
    ASSUME TypeOK, TypeOK', Dated, UNCHANGED <<ledgers, oldest>>, oldest = 1,
           Close \/ Reorg \/ UNCHANGED chainVars,
           NEW l \in Held, Agreed(l)'
    PROVE  Agreed(l) /\ \A k \in 1..l : k \in 1..Tip /\ k \in 1..Tip' /\ chain'[k] = chain[k]
<1>0. chain \in Seq(Block) /\ Tip \in Nat /\ Tip = Len(chain) /\ Tip' = Len(chain') /\ l \in Nat /\ l > 0
  BY DEF TypeOK, ChainTypeOK, Tip, Held, Ledger
<1>1. l \in 1..Tip' /\ ledgers[l] # None /\ chain'[l].hash = ledgers[l].hash
  BY <1>0 DEF Agreed, Served, Held
<1>2. l \in 1..Tip /\ \A k \in 1..l : k \in 1..Tip' /\ chain'[k] = chain[k]
  <2>1. CASE UNCHANGED chainVars
    BY <1>0, <1>1, <2>1 DEF chainVars, Tip
  <2>2. CASE Close
    <3>1. PICK body \in Bodies : AppendLedger(body)
      BY <2>2 DEF Close
    <3> DEFINE b == [hash |-> epoch,
                     prev |-> IF Tip = 0 THEN NoHash ELSE chain[Tip].hash,
                     body |-> body]
    <3>2. chain' = Append(chain, b) /\ b.hash = epoch
      BY <3>1 DEF AppendLedger
    <3> HIDE DEF b
    <3>3. Tip' = Tip + 1 /\ chain'[Tip + 1] = b /\ \A k \in 1..Tip : chain'[k] = chain[k]
      BY <1>0, <3>2
    <3>4. l # Tip + 1
      <4> SUFFICES ASSUME l = Tip + 1 PROVE FALSE
        OBVIOUS
      <4>1. ledgers[l].hash = epoch
        BY <1>1, <3>2, <3>3
      <4>2. ledgers[l].hash < epoch
        BY <1>0 DEF Dated
      <4>3. epoch \in Nat
        BY DEF TypeOK, ChainTypeOK, Hash
      <4>4. QED
        BY <4>1, <4>2, <4>3
    <3>5. QED
      BY <1>0, <1>1, <3>3, <3>4
  <2>3. CASE Reorg
    <3>1. PICK s \in Ledger : ReorgFrom(s)
      BY <2>3 DEF Reorg
    <3>2. chain' = SubSeq(chain, 1, s - 1) /\ s - 1 \in 0..Len(chain)
      BY <1>0, <3>1 DEF ReorgFrom, Ledger
    <3>3. Tip' = s - 1 /\ \A k \in 1 .. s - 1 : chain'[k] = chain[k]
      BY <1>0, <3>2
    <3>4. QED
      BY <1>0, <1>1, <3>2, <3>3
  <2>4. QED
    BY <2>1, <2>2, <2>3
<1>3. chain[l].hash = ledgers[l].hash
  BY <1>0, <1>1, <1>2
<1>4. Agreed(l)
  BY <1>1, <1>2, <1>3 DEF Agreed, Served
<1>5. QED
  BY <1>0, <1>2, <1>4

(* While the store is left alone, it follows whatever the node does.       *)
LEMMA StoreFollowsKept ==
    ASSUME TypeOK, TypeOK', StoreFollows, UNCHANGED <<events, ledgers, oldest>>,
           Checkpoint' = Checkpoint, oldest = 1, Close \/ Reorg \/ UNCHANGED chainVars
    PROVE  StoreFollows' /\ \A l \in Held : Agreed(l)' => Agreed(l)
<1>1. Held' = Held /\ Unbroken' /\ Dated
  BY DEF Held, StoreFollows, Unbroken
<1>2. Dated'
  <2>0. Tip \in Nat /\ Tip = Len(chain) /\ Tip' = Len(chain') /\ chain \in Seq(Block)
        /\ epoch \in Nat
        /\ \A l \in Held : l \in Nat /\ ledgers[l].hash \in Int /\ ledgers'[l] = ledgers[l]
    <3>1. \A l \in Held : l \in Nat /\ ledgers[l] \in HeaderRecord
      BY DEF TypeOK, Held, Ledger
    <3>2. QED
      BY <3>1 DEF TypeOK, ChainTypeOK, Tip, HeaderRecord, Hash
  <2>1. CASE UNCHANGED chainVars
    BY <1>1, <2>1 DEF Dated, chainVars, Tip
  <2>2. CASE Close
    <3>1. PICK body \in Bodies : AppendLedger(body)
      BY <2>2 DEF Close
    <3> DEFINE b == [hash |-> epoch,
                     prev |-> IF Tip = 0 THEN NoHash ELSE chain[Tip].hash,
                     body |-> body]
    <3>2. chain' = Append(chain, b) /\ b.hash = epoch /\ epoch' = epoch
      BY <3>1 DEF AppendLedger
    <3> HIDE DEF b
    <3>3. Tip' = Tip + 1 /\ chain'[Tip + 1] = b /\ \A k \in 1..Tip : chain'[k] = chain[k]
      BY <2>0, <3>2
    <3>4. \A l \in 1..Tip' : chain'[l].hash <= epoch
      <4> SUFFICES ASSUME NEW l \in 1..Tip' PROVE chain'[l].hash <= epoch
        OBVIOUS
      <4>1. CASE l = Tip + 1
        BY <2>0, <3>2, <3>3, <4>1
      <4>2. CASE l \in 1..Tip
        BY <1>1, <3>3, <4>2 DEF Dated
      <4>3. QED
        BY <2>0, <3>3, <4>1, <4>2
    <3>5. QED
      BY <1>1, <2>0, <3>2, <3>3, <3>4 DEF Dated
  <2>3. CASE Reorg
    <3>1. PICK s \in Ledger : ReorgFrom(s)
      BY <2>3 DEF Reorg
    <3>2. chain' = SubSeq(chain, 1, s - 1) /\ s - 1 \in 0..Len(chain) /\ epoch' = epoch + 1
      BY <2>0, <3>1 DEF ReorgFrom, Ledger
    <3>3. Tip' = s - 1 /\ \A k \in 1 .. s - 1 : chain'[k] = chain[k] /\ k \in 1..Tip
      BY <2>0, <3>2
    <3>4. \A l \in 1..Tip' : chain'[l].hash \in Int /\ chain'[l].hash <= epoch
      <4>1. \A k \in 1..Tip : chain[k].hash \in Int
        <5>1. \A k \in 1..Tip : chain[k] \in Block
          BY <2>0
        <5>2. QED
          BY <5>1 DEF Block, Hash
      <4>2. QED
        BY <1>1, <3>3, <4>1 DEF Dated
    <3>5. QED
      BY <1>1, <2>0, <3>2, <3>4 DEF Dated
  <2>4. QED
    BY <2>1, <2>2, <2>3
<1>3. ASSUME NEW l \in Held, Agreed(l)'
      PROVE  Agreed(l) /\ ExactAt(l)' /\ \A k \in Held : k <= l => Agreed(k)'
  <2>1. Agreed(l) /\ \A k \in 1..l : k \in 1..Tip /\ k \in 1..Tip' /\ chain'[k] = chain[k]
    BY <1>1, <1>3, StillAgreed
  <2>2. ExactAt(l) /\ \A k \in Held : k <= l => Agreed(k) /\ k \in 1..l
    BY <2>1 DEF StoreFollows, OneBranch, Held, Ledger
  <2>3. l \in 1..l
    BY DEF Held, Ledger
  <2>4. EventsOf(l)' = EventsOf(l)
    BY <2>1, <2>3 DEF EventsOf
  <2>5. ExactAt(l)'
    BY <2>2, <2>4 DEF ExactAt, Mine
  <2>6. \A k \in Held : k <= l => Agreed(k)'
    BY <2>1, <2>2 DEF Agreed, Served
  <2>7. QED
    BY <2>1, <2>5, <2>6
<1>4. OneBranch'
  BY <1>1, <1>3 DEF OneBranch
<1>5. QED
  BY <1>1, <1>2, <1>3, <1>4 DEF StoreFollows

(* The commit of a ledger: the next one, with what the node has of it, and *)
(* the node agrees about the one before.                                   *)
LEMMA NextLedger ==
    ASSUME Following, TypeOK, IInv, AnchorInv, StoreFollows, Single, PassGap, AppendWindow,
           NEW c, c = pass.end
    PROVE  /\ c \in 1..Tip /\ c \in Ledger /\ Checkpoint' = c
           /\ c = IF Checkpoint = NoCheckpoint THEN First ELSE Checkpoint + 1
           /\ ledgers' = [ledgers EXCEPT ![c] = Header(c)]
           /\ Header(c) # None
           /\ \A k \in Held : k < c /\ Agreed(k)
           /\ c \notin Held
           /\ ExactAt(c)'
           /\ \A e \in events' : e \in events \/ e.id[1] = c
           /\ events \subseteq events'
           /\ UNCHANGED chainVars
<1>1. /\ pc = "append" /\ InPass
      /\ oldest <= pass.start /\ pass.end <= pass.latest /\ pass.latest <= Tip
      /\ pass.start = IF Checkpoint = NoCheckpoint THEN First ELSE Checkpoint + 1
      /\ \A l \in Ledger : pass.headers[l] # None => l <= Tip /\ pass.headers[l] = Header(l)
      /\ \A g \in pass.got : Genuine(g)
      /\ \A l \in pass.start..pass.end : Due(l) \subseteq pass.got
  BY DEF AppendWindow, PassGap, PassTrue, PassFull, PassLate, InPass
<1>2. /\ Tip \in Nat /\ Tip <= MaxLedger /\ MaxLedger \in Nat
      /\ pass.start \in Nat /\ c \in Nat /\ pass.latest \in Nat
      /\ Checkpoint \in Nat \cup {NoCheckpoint} /\ NoCheckpoint = -1
      /\ pass.got \in SUBSET FetchedEvent
  <2>1. Checkpoint \in Nat \cup {NoCheckpoint}
    BY DEF TypeOK, Checkpoint
  <2>2. QED
    BY <2>1 DEF TypeOK, ChainTypeOK, Tip, Pass, NoCheckpoint
<1>3. First \in Nat /\ First > 0 /\ oldest = 1
  BY DEF First, Following, Settled, AnchorInv
<1>4. c = pass.start /\ c = IF Checkpoint = NoCheckpoint THEN First ELSE Checkpoint + 1
  BY <1>1, <1>2, <1>3 DEF Single
<1>5. c \in 1..Tip /\ c \in Ledger /\ Checkpoint < c
  <2>1. c > 0 /\ Checkpoint < c
    BY <1>2, <1>3, <1>4
  <2>2. c <= Tip
    BY <1>1, <1>2
  <2>3. QED
    BY <1>2, <2>1, <2>2 DEF Ledger
<1>6. pass.headers[c] # None /\ pass.headers[c] = Header(c)
  BY <1>1, <1>5 DEF AnchorInv, EndWanted
<1>7. \A l \in Ledger : l # c => pass.headers[l] = None
  <2>1. \A l \in Ledger : pass.headers[l] # None => InWindow(l)
    BY <1>1 DEF IInv, WindowAhead
  <2>2. QED
    BY <1>2, <1>4, <2>1 DEF InWindow, Ledger
<1>8. ledgers' = [ledgers EXCEPT ![c] = Header(c)]
  BY <1>5, <1>6, <1>7 DEF AppendWindow, TypeOK
<1>9. \A l \in Held : l <= Checkpoint
  BY DEF IInv, StoredUpToCheckpoint
<1>10. \A k \in Held : k < c /\ Agreed(k)
  <2> SUFFICES ASSUME NEW k \in Held PROVE k < c /\ Agreed(k)
    OBVIOUS
  <2>1. k \in Ledger /\ k <= Checkpoint /\ c = Checkpoint + 1 /\ c - 1 = Checkpoint
        /\ c - 1 \in k..Checkpoint /\ c - 1 \in Ledger /\ k \in Nat
    BY <1>2, <1>4, <1>5, <1>9 DEF Held, Ledger
  <2>2. c - 1 \in Held
    BY <2>1 DEF StoreFollows, Unbroken
  <2>3. ledgers[c - 1].hash = Header(c).prev
    BY <1>1, <1>5, <1>6, <2>1, <2>2 DEF IInv, WindowLinks, Unlinked, Held
  <2>4. c \in 2..Tip
    BY <1>5, <2>1 DEF Ledger
  <2>5. chain[c].prev = chain[c - 1].hash
    BY <2>4 DEF IInv, ChainLinked
  <2>6. c - 1 \in Served
    BY <1>2, <1>3, <2>4 DEF Served
  <2>7. Agreed(c - 1)
    BY <2>2, <2>3, <2>5, <2>6 DEF Agreed, Held, Header
  <2>8. Agreed(k) /\ k < c
    BY <1>2, <2>1, <2>2, <2>7 DEF StoreFollows, OneBranch
  <2>9. QED
    BY <2>8
<1>11. Checkpoint' = c /\ UNCHANGED chainVars
  BY DEF AppendWindow, Checkpoint, TypeOK
<1> DEFINE new(e) == [id |-> e.id, branch |-> e.branch, contract |-> e.contract,
                      hash |-> pass.headers[e.id[1]].hash]
<1>12. \A e \in pass.got : e.id[1] = c /\ Fetched(e) = e /\ Fetched(new(e)) = e /\ new(e).id = e.id
                           /\ new(e).contract = e.contract
  <2> SUFFICES ASSUME NEW e \in pass.got
               PROVE  e.id[1] = c /\ Fetched(e) = e /\ Fetched(new(e)) = e /\ new(e).id = e.id
                      /\ new(e).contract = e.contract
    OBVIOUS
  <2>1. InWindow(e.id[1]) /\ e.id[1] \in Nat
    BY <1>1, <1>2 DEF IInv, WindowAhead, FetchedEvent, EventId, Ledger
  <2>2. e.id[1] = c
    BY <1>2, <1>4, <2>1 DEF InWindow
  <2>3. e = [id |-> e.id, branch |-> e.branch, contract |-> e.contract]
    BY <1>2 DEF FetchedEvent
  <2>4. QED
    BY <2>2, <2>3 DEF Fetched
<1>13. \A s \in events : s.id[1] # c
  BY <1>2, <1>5 DEF IInv, StoredUpToCheckpoint, TypeOK, StoredEvent, EventId, Ledger
<1>14. events' = events \cup {new(e) : e \in pass.got}
  <2>1. {g \in pass.got : \A s \in events : s.id # g.id} = pass.got
    BY <1>12, <1>13
  <2>2. events' = events \cup {new(e) : e \in {g \in pass.got : \A s \in events : s.id # g.id}}
    BY DEF AppendWindow
  <2> HIDE DEF new
  <2>3. QED
    BY <2>1, <2>2
<1>15. ExactAt(c)'
  <2>1. \A e \in events' : e.id[1] = c <=> e \in {new(g) : g \in pass.got}
    BY <1>12, <1>13, <1>14
  <2>2. EventsOf(c)' = EventsOf(c)
    BY <1>11 DEF EventsOf, chainVars
  <2>3. ASSUME NEW g \in pass.got, Mine(new(g)) PROVE g \in Due(c)
    <3>1. PICK f \in EventsOf(c) : f.ok /\ Fetched(f) = Fetched(g)
      BY <1>1, <1>12 DEF Genuine
    <3>2. Fetched(f) = g /\ f.contract = g.contract
      BY <1>12, <3>1 DEF Fetched
    <3>3. Mine(f)
      BY <1>12, <2>3, <3>2 DEF Mine, Selected
    <3>4. QED
      BY <3>1, <3>2, <3>3 DEF Due
  <2>4. ASSUME NEW g \in Due(c) PROVE g \in pass.got /\ Mine(new(g))
    <3>1. g \in pass.got
      BY <1>1, <1>2, <1>4
    <3>2. PICK f \in EventsOf(c) : Mine(f) /\ g = Fetched(f)
      BY DEF Due
    <3>3. f.contract = new(g).contract
      BY <3>2 DEF Fetched
    <3>4. QED
      BY <3>1, <3>2, <3>3 DEF Mine, Selected
  <2> DEFINE mine == {f \in events' : f.id[1] = c /\ Mine(f)}
  <2>5. mine = {f \in {new(g) : g \in pass.got} : Mine(f)}
    BY <1>14, <2>1
  <2>6. {Fetched(e) : e \in mine} = Due(c)
    <3> HIDE DEF new, mine
    <3>1. ASSUME NEW e \in mine PROVE Fetched(e) \in Due(c)
      BY <1>12, <2>3, <2>5, <3>1
    <3>2. ASSUME NEW g \in Due(c) PROVE \E e \in mine : Fetched(e) = g
      <4>1. new(g) \in mine /\ Fetched(new(g)) = g
        BY <1>12, <2>4, <2>5
      <4>2. QED
        BY <4>1
    <3>3. QED
      BY <3>1, <3>2
  <2>7. QED
    BY <2>2, <2>6 DEF ExactAt, Due, Mine
<1> HIDE DEF new
<1>16. events \subseteq events' /\ \A e \in events' : e \in events \/ e.id[1] = c
  <2>1. \A g \in pass.got : new(g).id[1] = c
    BY <1>12
  <2>2. QED
    BY <1>14, <2>1
<1>17. c \notin Held
  BY <1>2, <1>5, <1>9
<1>18. QED
  BY <1>4, <1>5, <1>6, <1>8, <1>10, <1>11, <1>15, <1>16, <1>17

LEMMA AppendFollows ==
    ASSUME Following, TypeOK, TypeOK', IInv, AnchorInv, StoreFollows, Single, PassGap, AppendWindow
    PROVE  StoreFollows'
<1> SUFFICES ASSUME NEW c, c = pass.end PROVE StoreFollows'
  OBVIOUS
<1>1. /\ c \in 1..Tip /\ c \in Ledger /\ Checkpoint' = c
      /\ ledgers' = [ledgers EXCEPT ![c] = Header(c)] /\ Header(c) # None
      /\ \A k \in Held : k < c /\ Agreed(k)
      /\ c \notin Held
      /\ c = IF Checkpoint = NoCheckpoint THEN First ELSE Checkpoint + 1
      /\ ExactAt(c)'
      /\ \A e \in events' : e \in events \/ e.id[1] = c
      /\ events \subseteq events'
      /\ UNCHANGED chainVars
  BY NextLedger
<1>2. Tip' = Tip /\ chain' = chain /\ epoch' = epoch /\ oldest' = oldest /\ Tip \in Nat
      /\ Served' = Served /\ oldest = 1
  BY <1>1 DEF chainVars, Tip, Served, TypeOK, ChainTypeOK, AnchorInv
<1>3. /\ Held' = Held \cup {c} /\ ledgers'[c] = Header(c)
      /\ \A l \in Ledger : l # c => ledgers'[l] = ledgers[l]
  BY <1>1 DEF Held, TypeOK
<1>4. Unbroken'
  <2>1. First \in Nat /\ Checkpoint \in Int /\ NoCheckpoint = -1 /\ c \in Int
        /\ \A l \in Held : l \in Int /\ l > 0
    BY <1>1 DEF First, TypeOK, Checkpoint, NoCheckpoint, Held, Ledger
  <2>2. Unbroken /\ \A l \in Held : l < c /\ l <= Checkpoint
    BY <1>1 DEF StoreFollows, IInv, StoredUpToCheckpoint
  <2>3. \A l \in First..c : l = c \/ l \in First..Checkpoint
    BY <1>1, <2>1
  <2>4. \A l \in Held : \A k \in l..c : k = c \/ k \in l..Checkpoint
    BY <1>1, <2>1, <2>2
  <2>5. \A k \in c..c : k = c
    BY <2>1
  <2>6. QED
    BY <1>1, <1>3, <2>2, <2>3, <2>4, <2>5 DEF Unbroken
<1>5. Dated'
  <2>1. Dated
    BY DEF StoreFollows
  <2>2. \A l \in Held : ledgers'[l] = ledgers[l]
    BY <1>1, <1>3 DEF Held
  <2>3. ledgers'[c].hash <= epoch /\ ~(c > Tip)
    BY <1>1, <1>2, <1>3, <2>1 DEF Dated, Header
  <2>4. QED
    BY <1>2, <1>3, <2>1, <2>2, <2>3 DEF Dated
<1>6. \A k \in Held : Agreed(k)'
  BY <1>1, <1>2, <1>3 DEF Agreed, Held
<1>7. Agreed(c)'
  BY <1>1, <1>2, <1>3 DEF Agreed, Served, Header
<1>8. ASSUME NEW l \in Held', Agreed(l)' PROVE ExactAt(l)' /\ \A k \in Held' : k <= l => Agreed(k)'
  <2>1. CASE l = c
    BY <1>1, <1>3, <1>6, <1>7, <2>1
  <2>2. CASE l # c
    <3>1. l \in Held /\ l \in Ledger /\ ledgers'[l] = ledgers[l]
      BY <1>3, <2>2 DEF Held
    <3>2. Agreed(l)
      BY <1>2, <1>8, <3>1 DEF Agreed
    <3>3. ExactAt(l)
      BY <3>1, <3>2 DEF StoreFollows, OneBranch
    <3>4. EventsOf(l)' = EventsOf(l)
      BY <1>2 DEF EventsOf
    <3>5. \A e : (e \in events' /\ e.id[1] = l) <=> (e \in events /\ e.id[1] = l)
      BY <1>1, <2>2
    <3>6. {f \in events' : f.id[1] = l /\ Mine(f)} = {f \in events : f.id[1] = l /\ Mine(f)}
      BY <3>5
    <3>7. ExactAt(l)'
      BY <3>3, <3>4, <3>6 DEF ExactAt, Mine
    <3>8. \A k \in Held' : k <= l => Agreed(k)'
      BY <1>3, <1>6, <1>7
    <3>9. QED
      BY <3>7, <3>8
  <2>3. QED
    BY <2>1, <2>2
<1>9. OneBranch'
  BY <1>8 DEF OneBranch
<1>10. QED
  BY <1>4, <1>5, <1>9 DEF StoreFollows

(* A rollback keeps a prefix.                                              *)
LEMMA RollbackFollows ==
    ASSUME TypeOK, TypeOK', IInv, StoreFollows, RollbackTo, NEW n, n = pass.suspect
    PROVE  /\ StoreFollows' /\ UNCHANGED chainVars
           /\ n \in 0..MaxLedger /\ n <= Checkpoint /\ Checkpoint' = n
           /\ events' = {e \in events : e.id[1] <= n}
           /\ \A l \in Ledger : l <= n => ledgers'[l] = ledgers[l]
<1>1. n \in 0..MaxLedger /\ n <= Checkpoint /\ Checkpoint \in Int /\ Tip \in Nat
  <2>1. Checkpoint \in Int /\ Tip \in Nat
    BY DEF TypeOK, ChainTypeOK, Tip, Checkpoint, NoCheckpoint
  <2>2. QED
    BY <2>1 DEF TypeOK, Pass, RollbackTo, IInv, RewindsDown
<1>2. Checkpoint' = n
  BY <1>1 DEF RollbackTo, Clamped, LesserOf, Checkpoint
<1>3. /\ events' = {e \in events : e.id[1] <= n}
      /\ \A l \in Ledger : ledgers'[l] = IF l > n THEN None ELSE ledgers[l]
      /\ UNCHANGED chainVars
  BY DEF RollbackTo, EventsUpTo, LedgersUpTo
<1>4. /\ Tip' = Tip /\ chain' = chain /\ epoch' = epoch /\ Served' = Served
      /\ \A l : EventsOf(l)' = EventsOf(l)
  BY <1>3 DEF chainVars, Tip, Served, EventsOf
<1>5. \A l \in Ledger : l \in Held' <=> l \in Held /\ l <= n
  BY <1>1, <1>3 DEF Held, Ledger
<1>6. Held' \subseteq Ledger /\ Held \subseteq Ledger
  BY DEF Held
<1>7. Unbroken'
  <2>1. First \in Nat /\ First > 0 /\ \A l \in Ledger : l \in Int
    BY DEF First, Ledger
  <2>2. ASSUME NEW l \in First..n PROVE l \in Held'
    BY <1>1, <1>5, <1>6, <2>1, <2>2 DEF Unbroken, StoreFollows
  <2>3. ASSUME NEW l \in Held', NEW k \in l..n PROVE k \in Held'
    <3>1. l \in Held /\ l \in Int
      BY <1>5, <1>6, <2>1
    <3>2. k \in l..Checkpoint /\ k <= n
      BY <1>1, <3>1
    <3>3. k \in Held
      BY <3>1, <3>2 DEF Unbroken, StoreFollows
    <3>4. QED
      BY <1>5, <1>6, <3>2, <3>3
  <2>4. QED
    BY <1>2, <2>2, <2>3 DEF Unbroken
<1>8. Dated'
  <2>1. ASSUME NEW l \in Held' PROVE l \in Held /\ ledgers'[l] = ledgers[l]
    <3>1. l \in Ledger /\ l \in Held /\ l <= n
      BY <1>5, <1>6
    <3>2. ~(l > n)
      BY <1>1, <3>1 DEF Ledger
    <3>3. QED
      BY <1>3, <3>1, <3>2
  <2>2. QED
    BY <1>4, <2>1 DEF Dated, StoreFollows
<1>9. ASSUME NEW l \in Held', Agreed(l)' PROVE ExactAt(l)' /\ \A k \in Held' : k <= l => Agreed(k)'
  <2>1. l \in Held /\ l \in Ledger /\ l <= n /\ ledgers'[l] = ledgers[l]
    BY <1>1, <1>3, <1>5, <1>6 DEF Ledger
  <2>2. ExactAt(l) /\ \A k \in Held : k <= l => Agreed(k)
    BY <1>4, <1>9, <2>1 DEF Agreed, StoreFollows, OneBranch
  <2>3. {f \in events' : f.id[1] = l /\ Mine(f)} = {f \in events : f.id[1] = l /\ Mine(f)}
    BY <1>3, <2>1
  <2>4. ExactAt(l)'
    BY <1>4, <2>2, <2>3 DEF ExactAt, Mine
  <2>5. ASSUME NEW k \in Held', k <= l PROVE Agreed(k)'
    <3>1. k \in Ledger /\ k <= n /\ k \in Held
      BY <1>5, <1>6
    <3>2. ledgers'[k] = ledgers[k]
      BY <1>1, <1>3, <3>1 DEF Ledger
    <3>3. QED
      BY <1>4, <2>2, <2>5, <3>1, <3>2 DEF Agreed
  <2>6. QED
    BY <2>4, <2>5
<1>10. OneBranch'
  BY <1>9 DEF OneBranch
<1>11. QED
  BY <1>1, <1>2, <1>3, <1>7, <1>8, <1>10 DEF StoreFollows, Ledger

(* A rewind aims below what it has found to be gone.                       *)
LEMMA CutBackStep ==
    ASSUME Following, TypeOK, TypeOK', IInv, AnchorInv, StoreFollows, CutBack, Single,
           Rewinding \/ PassGap, DetectReorg \/ FindForkPoint \/ VerifyConfirmationWindow
    PROVE  CutBack'
<1>1. /\ UNCHANGED <<chainVars, storeVars>> /\ Checkpoint' = Checkpoint /\ Checkpoint \in Int
      /\ pass \in Pass /\ NoPass \in Pass /\ Tip \in Nat /\ oldest = 1
      /\ \A l : Agreed(l)' = Agreed(l)
  <2>1. UNCHANGED <<chainVars, storeVars>>
    BY DEF DetectReorg, FindForkPoint, VerifyConfirmationWindow
  <2>2. NoPass \in Pass
    BY NoPassType
  <2>3. Checkpoint' = Checkpoint /\ \A l : Agreed(l)' = Agreed(l)
    BY <2>1 DEF chainVars, storeVars, Checkpoint, Agreed, Served, Tip
  <2>4. Checkpoint \in Int /\ pass \in Pass /\ Tip \in Nat /\ oldest = 1
    BY DEF TypeOK, ChainTypeOK, Tip, Checkpoint, NoCheckpoint, AnchorInv
  <2>5. QED
    BY <2>1, <2>2, <2>3, <2>4
<1>2. CASE DetectReorg
  <2>1. pc = "detect"
    BY <1>2 DEF DetectReorg
  <2>2. CASE Conflicts = {}
    BY <1>2, <2>2 DEF DetectReorg, CutBack
  <2>3. CASE Conflicts # {}
    <3>1. PICK l \in Conflicts :
            /\ pc' = "fork"
            /\ pass' = [NoPass EXCEPT !.oldest = pass.oldest, !.latest = pass.latest,
                                      !.suspect = IF Rewritten(l) THEN l ELSE l - 1]
      BY <1>2, <2>3 DEF DetectReorg
    <3>2. l \in Ledger /\ pass.headers[l] # None
      BY DEF Conflicts
    <3>3. InWindow(l) /\ Checkpoint < pass.start
      BY <2>1, <3>2 DEF IInv, WindowAhead
    <3>4. l > Checkpoint /\ l \in Int
      <4>1. l \in Int /\ pass.start \in Int
        BY <1>1, <3>2 DEF Pass, Ledger
      <4>2. pass.start <= l /\ Checkpoint < pass.start
        BY <3>3 DEF InWindow
      <4>3. QED
        BY <1>1, <4>1, <4>2
    <3>5. ~Rewritten(l)
      BY <1>1, <3>2, <3>4 DEF Rewritten, IInv, StoredUpToCheckpoint, Held
    <3> HIDE DEF NoPass
    <3>6. pass'.suspect = l - 1
      BY <1>1, <3>1, <3>5 DEF Pass
    <3>7. \A k \in pass'.suspect + 1 .. Checkpoint : FALSE
      BY <1>1, <3>4, <3>6
    <3>8. QED
      BY <1>1, <3>7 DEF CutBack
  <2>4. QED
    BY <2>2, <2>3
<1>3. CASE FindForkPoint
  <2>1. pc = "fork" /\ \A l \in pass.suspect + 1 .. Checkpoint : ~Agreed(l)
    BY <1>3 DEF FindForkPoint, CutBack
  <2>2. CASE pass.suspect > 0 /\ ~Agreed(pass.suspect)
    <3>1. pass' = [pass EXCEPT !.suspect = @ - 1]
      BY <1>3, <2>2 DEF FindForkPoint
    <3>2. pass'.suspect = pass.suspect - 1 /\ pass.suspect \in Int
      BY <1>1, <3>1 DEF Pass
    <3>3. \A l \in pass'.suspect + 1 .. Checkpoint : l = pass.suspect \/ l \in pass.suspect + 1 .. Checkpoint
      BY <1>1, <3>2
    <3>4. \A l \in pass'.suspect + 1 .. Checkpoint : ~Agreed(l)
      BY <2>1, <2>2, <3>3
    <3>5. QED
      BY <1>1, <3>4 DEF CutBack
  <2>3. CASE ~(pass.suspect > 0 /\ ~Agreed(pass.suspect))
    <3>1. pass' = pass
      BY <1>3, <2>3 DEF FindForkPoint
    <3>2. QED
      BY <1>1, <2>1, <3>1 DEF CutBack
  <2>4. QED
    BY <2>2, <2>3
<1>4. CASE VerifyConfirmationWindow
  <2>1. CASE Stale = {}
    BY <1>4, <2>1 DEF VerifyConfirmationWindow, CutBack
  <2>2. CASE Stale # {}
    <3>1. PICK l \in Stale : pass' = [pass EXCEPT !.suspect = l, !.verifying = TRUE]
      BY <1>4, <2>2 DEF VerifyConfirmationWindow
    <3>2. pass'.suspect = l
      BY <1>1, <3>1 DEF Pass
    <3>3. l \in Ledger /\ l \in Held /\ ~Agreed(l)
      BY DEF Stale, Reexamined, Agreed, Held
    <3>4. ASSUME NEW k \in l + 1 .. Checkpoint, Agreed(k) PROVE FALSE
      <4>1. k \in l..Checkpoint /\ l <= k
        BY <1>1, <3>3 DEF Ledger
      <4>2. k \in Held
        BY <3>3, <4>1 DEF StoreFollows, Unbroken
      <4>3. Agreed(l)
        BY <3>3, <3>4, <4>1, <4>2 DEF StoreFollows, OneBranch
      <4>4. QED
        BY <3>3, <4>3
    <3>5. QED
      BY <1>1, <3>2, <3>4 DEF CutBack
  <2>3. QED
    BY <2>1, <2>2
<1>5. QED
  BY <1>2, <1>3, <1>4

(* A window of one.                                                        *)
LEMMA OpenSingle ==
    ASSUME Following, TypeOK, NEW c \in Nat, OpenWindow(c)
    PROVE  Single' /\ CutBack'
<1>1. CASE c <= pass.latest
  <2>1. pc' = "events" /\ pass' = [NoPass EXCEPT !.oldest = pass.oldest, !.latest = pass.latest,
                                 !.start = c, !.after = <<c, 0>>, !.end = WindowEnd(c)]
    BY <1>1 DEF OpenWindow
  <2>2. WindowEnd(c) = c
    BY <1>1 DEF WindowEnd, LesserOf, Following
  <2>3. NoPass \in Pass
    BY NoPassType
  <2> HIDE DEF NoPass
  <2>4. pass'.start = c /\ pass'.end = c
    BY <2>1, <2>2, <2>3 DEF Pass
  <2>5. QED
    BY <2>1, <2>4 DEF Single, CutBack
<1>2. CASE ~(c <= pass.latest)
  BY <1>2 DEF OpenWindow, Single, InPass, CutBack
<1>3. QED
  BY <1>1, <1>2

LEMMA PageSingle ==
    ASSUME TypeOK, Single, FetchEvents \/ FetchHeaders
    PROVE  Single' /\ CutBack'
<1>1. pass \in Pass /\ pass.start = pass.end
  BY DEF TypeOK, Single, InPass, FetchEvents, FetchHeaders
<1>2. CASE FetchEvents
  <2>1. pc' \in {"events", "headers"}
    BY <1>2 DEF FetchEvents
  <2> DEFINE page == GetEvents(pass.after, pass.end, PageSize, ContractIds)
             got  == pass.got \cup {Fetched(e) : e \in {f \in page : f.ok}}
  <2>2. \/ pass' = [pass EXCEPT !.got = got, !.after = <<0, 0>>, !.wanted = Touched(got)]
        \/ \E last \in page : pass' = [pass EXCEPT !.got = got, !.after = last.id]
    BY <1>2 DEF FetchEvents
  <2> HIDE DEF page, got
  <2>3. pass'.start = pass.start /\ pass'.end = pass.end
    BY <1>1, <2>2 DEF Pass
  <2>4. QED
    BY <1>1, <2>1, <2>3 DEF Single, CutBack
<1>3. CASE FetchHeaders
  <2>1. pc' \in {"headers", "detect"}
    BY <1>3 DEF FetchHeaders
  <2> DEFINE hs == [l \in Ledger |-> IF l \in FirstRun(pass.wanted) \cap Served THEN Header(l)
                                     ELSE pass.headers[l]]
             left == pass.wanted \ FirstRun(pass.wanted)
  <2>2. pass' = [pass EXCEPT !.headers = hs, !.wanted = left]
    BY <1>3 DEF FetchHeaders
  <2> HIDE DEF hs, left
  <2>3. pass'.start = pass.start /\ pass'.end = pass.end
    BY <1>1, <2>2 DEF Pass
  <2>4. QED
    BY <1>1, <2>1, <2>3 DEF Single, CutBack
<1>4. QED
  BY <1>2, <1>3

(* Outside a rewind, and at its end, the window in flight is the node's.   *)
LEMMA PassFollows ==
    ASSUME Following, TypeOK, TypeOK', IInv, AnchorInv, FollowInv, IngestStep \/ Abort
    PROVE  Rewinding' \/ PassGap'
<1>1. Spared /\ NothingEvicted /\ WindowAhead /\ Single /\ oldest = 1 /\ Checkpoint \in Int
      /\ First \in Nat /\ First > 0
  <2>1. Checkpoint \in Int /\ First \in Nat /\ First > 0
    BY DEF TypeOK, Checkpoint, NoCheckpoint, First
  <2>2. QED
    BY <2>1 DEF Following, Settled, Spared, NothingEvicted, AnchorInv, FollowInv, IInv
<1>2. CASE Sleep \/ Abort \/ LedgerGap \/ RefuseEvicted
  BY <1>2, PassGapOutside DEF Sleep, Abort, LedgerGap, RefuseEvicted
<1>3. CASE ReadRange
  <2>1. pc' = "resume" /\ pass'.latest = Tip /\ pass'.oldest = oldest
        /\ Tip' = Tip /\ oldest' = oldest
    <3>1. NoPass \in Pass
      BY NoPassType
    <3> HIDE DEF NoPass
    <3>2. QED
      BY <1>3, <3>1 DEF ReadRange, Pass, chainVars, Tip
  <2>2. Tip \in Nat
    BY DEF Tip, TypeOK, ChainTypeOK
  <2>3. QED
    BY <2>1, <2>2 DEF PassGap, PassTrue, PassFull, PassLate, InPass
<1>4. CASE Resume
  <2>1. PassGap
    BY <1>4 DEF Resume, FollowInv, Rewinding
  <2>2. QED
    BY <1>1, <1>4, <2>1, ResumeGap
<1>5. CASE ResumeAfterRewind
  <2>1. /\ OpenWindow(ResumeLedger) /\ UNCHANGED chainVars /\ Checkpoint' = Checkpoint
        /\ pass.latest <= Tip
    BY <1>5 DEF ResumeAfterRewind, storeVars, Checkpoint, AnchorInv
  <2>2. ResumeLedger = IF Checkpoint' = NoCheckpoint THEN First ELSE Checkpoint' + 1
    BY <1>1, <2>1 DEF ResumeLedger, First, NothingEvicted, Spared, Following, Settled
  <2>3. ResumeLedger \in Nat /\ ResumeLedger > 0
    BY <1>1, <2>1, <2>2 DEF TypeOK, Checkpoint, NoCheckpoint
  <2>4. oldest <= ResumeLedger
    BY <1>1, <2>3
  <2>5. QED
    BY <2>1, <2>2, <2>3, <2>4, OpenWindowGap
<1>6. CASE FetchEvents
  <2>1. PassGap
    BY <1>6 DEF FetchEvents, FollowInv, Rewinding
  <2>2. QED
    BY <1>1, <1>6, <2>1, FetchEventsGap
<1>7. CASE FetchHeaders
  <2>1. PassGap
    BY <1>7 DEF FetchHeaders, FollowInv, Rewinding
  <2>2. QED
    BY <1>7, <2>1, FetchHeadersGap
<1>8. CASE DetectReorg
  <2>1. pc = "detect" /\ InPass /\ PassGap
    BY <1>8 DEF DetectReorg, InPass, FollowInv, Rewinding
  <2>2. CASE Conflicts = {}
    <3>1. pc' = "append" /\ pass' = pass /\ UNCHANGED <<chainVars, storeVars, pruneTo>>
      BY <1>8, <2>2 DEF DetectReorg
    <3>2. /\ InPass' /\ Tip' = Tip /\ oldest' = oldest /\ Checkpoint' = Checkpoint
          /\ \A l : Due(l)' = Due(l)
          /\ \A l : Header(l)' = Header(l)
          /\ \A e : Genuine(e)' = Genuine(e)
      BY <3>1 DEF chainVars, storeVars, Tip, Checkpoint, Due, Genuine, EventsOf, Mine, Header, InPass
    <3>3. QED
      BY <2>1, <3>1, <3>2 DEF PassGap, PassTrue, PassFull, PassLate
  <2>3. CASE Conflicts # {}
    BY <1>8, <2>3 DEF DetectReorg, Rewinding
  <2>4. QED
    BY <2>2, <2>3
<1>9. CASE VerifyConfirmationWindow
  BY <1>9, PassGapOutside DEF VerifyConfirmationWindow, Rewinding
<1>10. CASE AppendWindow
  <2> SUFFICES ASSUME NEW c, c = pass.end PROVE PassGap'
    OBVIOUS
  <2>1. PassGap /\ StoreFollows
    BY <1>10 DEF AppendWindow, FollowInv, Rewinding
  <2>2. c \in 1..Tip /\ Checkpoint' = c /\ UNCHANGED chainVars
    BY <1>1, <1>10, <2>1, NextLedger
  <2>3. pass.latest <= Tip /\ OpenWindow(c + 1)
    BY <1>10 DEF AppendWindow, AnchorInv
  <2>4. c + 1 \in Nat /\ oldest <= c + 1 /\ c + 1 = IF Checkpoint' = NoCheckpoint THEN First ELSE Checkpoint' + 1
    BY <1>1, <2>2 DEF NoCheckpoint
  <2>5. QED
    BY <2>2, <2>3, <2>4, OpenWindowGap
<1>11. CASE FindForkPoint \/ RollbackTo \/ RewriteCheckpoint
  BY <1>11, PassGapOutside DEF FindForkPoint, RollbackTo, RewriteCheckpoint, Rewinding
<1>12. QED
  BY <1>2, <1>3, <1>4, <1>5, <1>6, <1>7, <1>8, <1>9, <1>10, <1>11 DEF IngestStep

LEMMA FollowInit == Following /\ Init => FollowInv
<1> SUFFICES ASSUME Following, Init PROVE FollowInv
  OBVIOUS
<1>1. Held = {} /\ Checkpoint = -1 /\ pc = "idle" /\ Tip = 0 /\ epoch = 0
  BY DEF Init, ChainInit, Held, NoHeaders, Checkpoint, NoCheckpoint, Tip, Following, Settled
<1>2. StoreFollows
  BY <1>1 DEF StoreFollows, Unbroken, Dated, OneBranch, First
<1>3. PassGap
  BY <1>1 DEF PassGap, PassTrue, PassFull, PassLate, InPass
<1>4. QED
  BY <1>1, <1>2, <1>3 DEF FollowInv, CutBack, Single, InPass

(* What a pass does to the store, and to the aim of a rewind.              *)
LEMMA PipelineFollows ==
    ASSUME Following, TypeOK, TypeOK', IInv, AnchorInv, FollowInv, IngestStep \/ Abort
    PROVE  StoreFollows' /\ CutBack' /\ Single'
<1>1. /\ StoreFollows /\ CutBack /\ Single /\ (Rewinding \/ PassGap) /\ oldest = 1
      /\ UNCHANGED chainVars
  BY ChainStays DEF FollowInv, AnchorInv
<1>2. ASSUME UNCHANGED storeVars PROVE StoreFollows'
  <2>1. UNCHANGED <<events, ledgers, oldest>> /\ Checkpoint' = Checkpoint
    BY <1>1, <1>2 DEF storeVars, chainVars, Checkpoint
  <2>2. QED
    BY <1>1, <2>1, StoreFollowsKept
<1>3. CASE ReadRange \/ RefuseEvicted \/ LedgerGap \/ Sleep \/ Abort
  BY <1>2, <1>3 DEF ReadRange, RefuseEvicted, LedgerGap, Sleep, Abort, CutBack, Single, InPass
<1>4. CASE Resume \/ ResumeAfterRewind
  <2>1. ResumeLedger \in Nat /\ OpenWindow(ResumeLedger)
    BY <1>4, ResumeAhead DEF Resume, ResumeAfterRewind
  <2>2. UNCHANGED storeVars
    BY <1>4 DEF Resume, ResumeAfterRewind
  <2>3. QED
    BY <1>2, <2>1, <2>2, OpenSingle
<1>5. CASE FetchEvents \/ FetchHeaders
  BY <1>1, <1>2, <1>5, PageSingle DEF FetchEvents, FetchHeaders
<1>6. CASE DetectReorg \/ FindForkPoint \/ VerifyConfirmationWindow
  <2>1. CutBack'
    BY <1>1, <1>6, CutBackStep
  <2>2. UNCHANGED storeVars
    BY <1>6 DEF DetectReorg, FindForkPoint, VerifyConfirmationWindow
  <2>3. Single'
    <3>1. CASE DetectReorg /\ Conflicts = {}
      BY <1>1, <3>1 DEF DetectReorg, Single, InPass
    <3>2. CASE pc' \in {"fork", "rollback", "synced"}
      BY <3>2 DEF Single, InPass
    <3>3. QED
      BY <1>6, <3>1, <3>2 DEF DetectReorg, FindForkPoint, VerifyConfirmationWindow
  <2>4. QED
    BY <1>2, <2>1, <2>2, <2>3
<1>7. CASE RollbackTo
  <2>1. StoreFollows'
    BY <1>1, <1>7, RollbackFollows
  <2>2. pc' = "recheckpoint"
    BY <1>7 DEF RollbackTo
  <2>3. QED
    BY <2>1, <2>2 DEF CutBack, Single, InPass
<1>8. CASE RewriteCheckpoint
  <2>1. Checkpoint' = Checkpoint
    BY <1>8 DEF RewriteCheckpoint, Checkpoint, IInv, RewindsDown, TypeOK
  <2>2. UNCHANGED <<events, ledgers>> /\ pc' \in {"idle", "reresume"}
    BY <1>8 DEF RewriteCheckpoint
  <2>3. StoreFollows'
    BY <1>1, <2>1, <2>2, StoreFollowsKept DEF chainVars
  <2>4. QED
    BY <2>2, <2>3 DEF CutBack, Single, InPass
<1>9. CASE AppendWindow
  <2>1. PassGap
    BY <1>1, <1>9 DEF AppendWindow, Rewinding
  <2>2. StoreFollows'
    BY <1>1, <1>9, <2>1, AppendFollows
  <2>3. OpenWindow(pass.end + 1) /\ pass.end + 1 \in Nat
    BY <1>9 DEF AppendWindow, TypeOK, Pass
  <2>4. QED
    BY <2>2, <2>3, OpenSingle
<1>10. QED
  BY <1>3, <1>4, <1>5, <1>6, <1>7, <1>8, <1>9 DEF IngestStep

LEMMA FollowStep ==
    ASSUME Following
    PROVE  TypeOK /\ TypeOK' /\ IInv /\ AnchorInv /\ FollowInv /\ [Next]_vars => FollowInv'
<1> SUFFICES ASSUME TypeOK, TypeOK', IInv, AnchorInv, FollowInv, [Next]_vars PROVE FollowInv'
  OBVIOUS
<1>1. /\ StoreFollows /\ CutBack /\ Single /\ (Rewinding \/ PassGap) /\ oldest = 1 /\ pruneTo = 0
      /\ WindowAhead
  BY DEF FollowInv, AnchorInv, IInv
<1>2. CASE IngestStep \/ Abort
  BY <1>2, PassFollows, PipelineFollows DEF FollowInv
<1>3. CASE PruneRead \/ PruneDelete \/ Evict
  BY <1>1, <1>3 DEF PruneRead, PruneDelete, Evict, Following, Settled
<1>4. CASE (Close \/ Reorg \/ UNCHANGED vars) /\ (Elsewhere \/ UNCHANGED vars)
  <2>1. UNCHANGED <<storeVars, pc, pass>> /\ Checkpoint' = Checkpoint
    BY <1>4 DEF Elsewhere, vars, storeVars, localVars, Checkpoint
  <2>2. UNCHANGED <<events, ledgers, checkpoints, oldest>> /\ (Close \/ Reorg \/ UNCHANGED chainVars)
    BY <1>4, <2>1 DEF storeVars, Close, Reorg, AppendLedger, ReorgFrom, vars, chainVars
  <2>3. StoreFollows' /\ \A l \in Held : Agreed(l)' => Agreed(l)
    BY <1>1, <2>1, <2>2, StoreFollowsKept
  <2>4. CutBack'
    <3> SUFFICES ASSUME pc \in {"fork", "rollback"}, NEW l \in pass.suspect + 1 .. Checkpoint, Agreed(l)'
                 PROVE  FALSE
      BY <2>1 DEF CutBack
    <3>1. ~Agreed(l)
      BY <1>1 DEF CutBack
    <3>2. l \in Held
      <4>1. pass.suspect \in Nat /\ Checkpoint \in {-1} \cup 0..MaxLedger
        BY DEF TypeOK, Pass, Checkpoint, NoCheckpoint
      <4>2. l \in Ledger
        BY <4>1 DEF Ledger
      <4>3. QED
        BY <2>2, <4>2 DEF Agreed, Held
    <3>3. QED
      BY <2>3, <3>1, <3>2
  <2>5. Single'
    BY <1>1, <2>1 DEF Single, InPass
  <2>6. CASE Close \/ UNCHANGED chainVars
    <3>1. Grown
      BY <2>6, Grows
    <3>2. Rewinding' \/ PassGap'
      BY <1>1, <2>1, <2>2, <3>1, PassGapKept DEF Rewinding
    <3>3. QED
      BY <2>3, <2>4, <2>5, <3>2 DEF FollowInv
  <2>7. CASE Reorg
    <3>1. pc' = "idle"
      BY <2>1, <2>7 DEF Reorg, Following, Settled
    <3>2. QED
      BY <2>3, <2>4, <2>5, <3>1, PassGapOutside DEF FollowInv
  <2>8. QED
    BY <2>2, <2>6, <2>7
<1>5. QED
  BY <1>2, <1>3, <1>4 DEF Next

(* Always, by the type, the links and the anchor of the checkpoint.        *)
LEMMA Follows ==
    ASSUME Following
    PROVE  Spec => [](TypeOK /\ IInv /\ AnchorInv /\ FollowInv)
<1>1. Init => AnchorInv /\ FollowInv
  BY AnchorInit, FollowInit DEF Following
<1>2. TypeOK /\ TypeOK' /\ IInv /\ AnchorInv /\ [Next]_vars => AnchorInv'
  BY AnchorStep DEF Following
<1>3. TypeOK /\ TypeOK' /\ IInv /\ AnchorInv /\ FollowInv /\ [Next]_vars => FollowInv'
  BY FollowStep
<1>4. QED
  BY <1>1, <1>2, <1>3, TypeCorrect, Inductive, PTL DEF Spec

(* When a pass ends with its confirmation window verified and the node has *)
(* reached the checkpoint again, the archive is the node's chain up to it: *)
(* the window takes in the checkpoint's own ledger, and one ledger that    *)
(* the node agrees about answers for all before it.  An empty confirmation *)
(* window leaves that ledger out, and commits of several ledgers leave     *)
(* parent links unchecked between those whose headers are stored.          *)
THEOREM SyncedIsMirrored ==
    ASSUME FirstSequence = 1, EvictPoints = {}, Retention = 0, ReorgPoints \subseteq {"idle"},
           WindowSize = 1, ConfirmationWindow > 0
    PROVE  Spec => MirrorsWhenSynced
<1>1. Following
  BY DEF Following, Settled
<1> DEFINE Mirrored == pc = "verify" /\ pc' = "synced" /\ Checkpoint <= Tip
                         => \A l \in First..Checkpoint : ExactAt(l)
<1>2. ASSUME TypeOK, IInv, AnchorInv, FollowInv, [Next]_vars PROVE [Mirrored]_vars
  <2> SUFFICES ASSUME Next, pc = "verify", pc' = "synced", Checkpoint <= Tip,
                      NEW l \in First..Checkpoint
               PROVE  ExactAt(l)
    BY <1>2
  <2>1. Stale = {}
    <3>1. VerifyConfirmationWindow
      BY DEF Next, IngestStep, ReadRange, Resume, RefuseEvicted, ResumeAfterRewind, FetchEvents,
             FetchHeaders, DetectReorg, FindForkPoint, RollbackTo, RewriteCheckpoint, AppendWindow,
             LedgerGap, Sleep, Abort, PruneRead, PruneDelete, Elsewhere, localVars
    <3>2. QED
      BY <3>1 DEF VerifyConfirmationWindow
  <2>2. /\ Checkpoint \in Int /\ Tip \in Int /\ Tip <= MaxLedger /\ oldest = 1
        /\ l <= Checkpoint /\ Checkpoint \in First..Checkpoint /\ Checkpoint \in Ledger
    <3>1. First \in Nat /\ First > 0
      BY DEF First
    <3>2. Checkpoint \in Int /\ Tip \in Int /\ Tip <= MaxLedger /\ oldest = 1
      BY <1>2 DEF TypeOK, ChainTypeOK, Tip, Checkpoint, NoCheckpoint, AnchorInv
    <3>3. QED
      BY <3>1, <3>2 DEF Ledger
  <2>3. Unbroken /\ OneBranch /\ StoredUpToCheckpoint
    BY <1>2 DEF FollowInv, StoreFollows, IInv
  <2>4. Checkpoint \in Held /\ l \in Held
    BY <2>2, <2>3 DEF Unbroken
  <2>5. Checkpoint \in Reexamined
    <3>1. IsGreatest(Checkpoint, Held)
      BY <2>3, <2>4 DEF IsGreatest, StoredUpToCheckpoint
    <3>2. Checkpoint - ConfirmationWindow < Checkpoint
      BY <2>2
    <3>3. QED
      BY <2>2, <2>4, <3>1, <3>2 DEF Reexamined
  <2>6. Checkpoint \in Served
    BY <2>2 DEF Served, Ledger
  <2>7. Agreed(Checkpoint)
    BY <2>1, <2>4, <2>5, <2>6 DEF Stale, Agreed, Held
  <2>8. Agreed(l)
    BY <2>2, <2>3, <2>4, <2>7 DEF OneBranch
  <2>9. QED
    BY <2>3, <2>4, <2>8 DEF OneBranch
<1>3. Spec => [](TypeOK /\ IInv /\ AnchorInv /\ FollowInv)
  BY <1>1, Follows
<1>4. QED
  BY <1>2, <1>3, PTL DEF Spec, MirrorsWhenSynced

(* The ledgers archived, from the first.                                   *)
Height == IF Checkpoint = NoCheckpoint THEN 0 ELSE Checkpoint

LEMMA ArchivedIs ==
    ASSUME TypeOK
    PROVE  /\ Height \in Nat /\ Len(Archived) = Height /\ DOMAIN Archived = 1..Height
           /\ Archived = [l \in 1..Height |->
                            [hash |-> ledgers[l].hash,
                             events |-> {Fetched(e) : e \in {f \in events : f.id[1] = l}}]]
<1>1. Height \in Nat /\ 1..Checkpoint = 1..Height
  <2>1. Checkpoint \in Nat \cup {NoCheckpoint} /\ NoCheckpoint = -1
    BY DEF TypeOK, Checkpoint, NoCheckpoint
  <2>2. QED
    BY <2>1 DEF Height
<1>2. Archived = [l \in 1..Height |->
                            [hash |-> ledgers[l].hash,
                             events |-> {Fetched(e) : e \in {f \in events : f.id[1] = l}}]]
  BY <1>1 DEF Archived
<1>3. DOMAIN Archived = 1..Height
  BY <1>2
<1>4. Len(Archived) = Height
  BY <1>1, <1>2, <1>3
<1>5. QED
  BY <1>1, <1>2, <1>3, <1>4

(* A commit extends the archive, by one ledger.                            *)
LEMMA AppendExtends ==
    ASSUME Following, StartLedger <= 1, ContractIds = {}, TypeOK, TypeOK', IInv, AnchorInv,
           StoreFollows, Single, PassGap, AppendWindow
    PROVE  Contract!Extend
<1> SUFFICES ASSUME NEW c, c = pass.end PROVE Contract!Extend
  OBVIOUS
<1>1. /\ c \in 1..Tip /\ c \in Ledger /\ Checkpoint' = c /\ c = Height + 1
      /\ ledgers' = [ledgers EXCEPT ![c] = Header(c)]
      /\ \A k \in 1 .. c - 1 : Agreed(k)
      /\ ExactAt(c)'
      /\ \A e \in events' : e \in events \/ e.id[1] = c
      /\ events \subseteq events'
      /\ UNCHANGED chainVars
  <2>1. /\ c \in 1..Tip /\ c \in Ledger /\ Checkpoint' = c
        /\ c = IF Checkpoint = NoCheckpoint THEN First ELSE Checkpoint + 1
        /\ ledgers' = [ledgers EXCEPT ![c] = Header(c)]
        /\ \A k \in Held : k < c /\ Agreed(k)
        /\ ExactAt(c)'
        /\ \A e \in events' : e \in events \/ e.id[1] = c
        /\ events \subseteq events'
        /\ UNCHANGED chainVars
    BY NextLedger
  <2>2. First = 1 /\ Checkpoint \in Int
    BY DEF First, Following, Settled, TypeOK, Checkpoint, NoCheckpoint
  <2>3. c = Height + 1
    BY <2>1, <2>2 DEF Height
  <2>4. \A k \in 1 .. c - 1 : k \in Held
    <3>1. CASE Checkpoint = NoCheckpoint
      BY <2>1, <2>2, <3>1
    <3>2. CASE Checkpoint # NoCheckpoint
      BY <2>1, <2>2, <3>2 DEF StoreFollows, Unbroken
    <3>3. QED
      BY <3>1, <3>2
  <2>5. QED
    BY <2>1, <2>3, <2>4
<1>2. /\ Tip' = Tip /\ chain' = chain /\ Tip \in Nat /\ Contract!Tip = Tip
      /\ \A l : EventsOf(l)' = EventsOf(l)
  BY <1>1 DEF chainVars, Tip, EventsOf, TypeOK, ChainTypeOK, Contract!Tip
<1>3. /\ Height \in Nat /\ Len(Archived) = Height /\ DOMAIN Archived = 1..Height
      /\ \A l \in 1..Height :
           Archived[l] = [hash |-> ledgers[l].hash,
                          events |-> {Fetched(e) : e \in {f \in events : f.id[1] = l}}]
  <2> HIDE DEF Height
  <2>1. QED
    BY ArchivedIs
<1>4. Archived' = [l \in 1..c |->
                     [hash |-> ledgers'[l].hash,
                      events |-> {Fetched(e) : e \in {f \in events' : f.id[1] = l}}]]
  BY <1>1 DEF Archived
<1> HIDE DEF Height
<1>5. \A l \in DOMAIN Archived : Contract!OnChain(l)
  <2> SUFFICES ASSUME NEW l \in 1..Height PROVE l <= Tip /\ Archived[l].hash = chain[l].hash
    BY <1>2, <1>3 DEF Contract!OnChain
  <2>1. l \in 1 .. c - 1 /\ l <= Tip
    BY <1>1, <1>2, <1>3
  <2>2. chain[l].hash = ledgers[l].hash
    BY <1>1, <2>1 DEF Agreed
  <2>3. QED
    BY <1>3, <2>1, <2>2
<1>6. Contract!Content(c) = [hash |-> ledgers'[c].hash,
                             events |-> {Fetched(e) : e \in {f \in events' : f.id[1] = c}}]
  <2>1. ledgers'[c].hash = chain[c].hash
    BY <1>1 DEF Header, TypeOK
  <2>2. {Fetched(e) : e \in {f \in events' : f.id[1] = c}} =
        {Fetched(e) : e \in {f \in EventsOf(c) : f.ok}}
    BY <1>1, <1>2 DEF ExactAt, Mine, Selected
  <2>3. Contract!EventsOf(c) = EventsOf(c)
    BY DEF EventsOf, Contract!EventsOf
  <2>4. QED
    BY <2>1, <2>2, <2>3 DEF Contract!Content, Fetched
<1>7. ASSUME NEW l \in 1..Height
      PROVE  Archived[l] = [hash |-> ledgers'[l].hash,
                            events |-> {Fetched(e) : e \in {f \in events' : f.id[1] = l}}]
  <2>1. l # c /\ ledgers'[l] = ledgers[l]
    <3>1. l # c /\ l \in Ledger
      BY <1>1, <1>3 DEF Ledger
    <3>2. QED
      BY <1>1, <3>1 DEF TypeOK
  <2>2. {f \in events' : f.id[1] = l} = {f \in events : f.id[1] = l}
    BY <1>1, <2>1
  <2>3. QED
    BY <1>3, <2>1, <2>2
<1>8. Archived' = [l \in 1..c |-> IF l <= Len(Archived) THEN Archived[l] ELSE Contract!Content(l)]
  <2>1. ASSUME NEW l \in 1..c
        PROVE  Archived'[l] = IF l <= Len(Archived) THEN Archived[l] ELSE Contract!Content(l)
    <3>1. l \in 1..Height \/ (l = c /\ ~(l <= Height))
      BY <1>1, <1>3
    <3>2. Archived'[l] = [hash |-> ledgers'[l].hash,
                          events |-> {Fetched(e) : e \in {f \in events' : f.id[1] = l}}]
      BY <1>4
    <3>3. CASE l \in 1..Height
      BY <1>3, <1>7, <3>2, <3>3
    <3>4. CASE l = c /\ ~(l <= Height)
      BY <1>3, <1>6, <3>2, <3>4
    <3>5. QED
      BY <3>1, <3>3, <3>4
  <2>2. DOMAIN Archived' = 1..c /\ Archived' = [l \in 1..c |-> Archived'[l]]
    BY <1>4
  <2>3. QED
    BY <2>1, <2>2
<1>9. c \in Len(Archived) + 1 .. Contract!Tip
  BY <1>1, <1>2, <1>3
<1>10. QED
  BY <1>1, <1>5, <1>8, <1>9 DEF Contract!Extend, chainVars, Contract!chainVars

(* A rollback cuts the archive back to what the node still has, if it does *)
(* anything.                                                               *)
LEMMA RollbackTruncates ==
    ASSUME FirstSequence = 1, StartLedger <= 1,
           TypeOK, TypeOK', IInv, AnchorInv, StoreFollows, CutBack, RollbackTo
    PROVE  Contract!Truncate \/ UNCHANGED <<chainVars, Archived>>
<1> SUFFICES ASSUME NEW n, n = pass.suspect PROVE Contract!Truncate \/ UNCHANGED <<chainVars, Archived>>
  OBVIOUS
<1>1. /\ UNCHANGED chainVars
      /\ n \in 0..MaxLedger /\ n <= Checkpoint /\ Checkpoint' = n
      /\ events' = {e \in events : e.id[1] <= n}
      /\ \A l \in Ledger : l <= n => ledgers'[l] = ledgers[l]
  BY RollbackFollows
<1>2. /\ Checkpoint \in 0..MaxLedger /\ Height = Checkpoint /\ Tip \in Nat /\ Contract!Tip = Tip
      /\ oldest = 1
  <2>1. Checkpoint \in {-1} \cup 0..MaxLedger /\ Tip \in Nat /\ oldest = 1
    BY DEF TypeOK, ChainTypeOK, Tip, Checkpoint, NoCheckpoint, AnchorInv
  <2>2. QED
    BY <1>1, <2>1 DEF Height, Contract!Tip, Tip, NoCheckpoint
<1>3. /\ Height \in Nat /\ Len(Archived) = Height /\ DOMAIN Archived = 1..Height
      /\ \A l \in 1..Height :
           Archived[l] = [hash |-> ledgers[l].hash,
                          events |-> {Fetched(e) : e \in {f \in events : f.id[1] = l}}]
  <2> HIDE DEF Height
  <2>1. QED
    BY ArchivedIs
<1>4. Archived' = [l \in 1..n |->
                     [hash |-> ledgers'[l].hash,
                      events |-> {Fetched(e) : e \in {f \in events' : f.id[1] = l}}]]
  BY <1>1 DEF Archived
<1> HIDE DEF Height
<1>5. \A l \in 1..n : Archived'[l] = Archived[l]
  <2> SUFFICES ASSUME NEW l \in 1..n PROVE Archived'[l] = Archived[l]
    OBVIOUS
  <2>1. l \in 1..Height /\ ledgers'[l] = ledgers[l]
    BY <1>1, <1>2 DEF Ledger
  <2>2. {f \in events' : f.id[1] = l} = {f \in events : f.id[1] = l}
    BY <1>1
  <2>3. QED
    BY <1>3, <1>4, <2>1, <2>2
<1>6. \A l \in n + 1 .. Len(Archived) : ~Contract!OnChain(l)
  <2> SUFFICES ASSUME NEW l \in n + 1 .. Checkpoint, l <= Tip, Archived[l].hash = chain[l].hash
               PROVE  FALSE
    BY <1>2, <1>3 DEF Contract!OnChain
  <2>1. l \in 1..Checkpoint /\ l \in 1..Height /\ l \in Ledger
    BY <1>1, <1>2 DEF Ledger
  <2>2. l \in Held /\ ~Agreed(l)
    <3>1. First = 1
      BY DEF First
    <3>2. QED
      BY <2>1, <3>1 DEF StoreFollows, Unbroken, CutBack, RollbackTo
  <2>3. l \in Served
    BY <1>2, <2>1 DEF Served
  <2>4. Archived[l].hash = ledgers[l].hash
    BY <1>3, <2>1
  <2>5. QED
    BY <2>2, <2>3, <2>4 DEF Agreed, Held
<1>7. DOMAIN Archived' = 1..n /\ Archived' = [l \in 1..n |-> Archived[l]]
  <2>1. DOMAIN Archived' = 1..n /\ Archived' = [l \in 1..n |-> Archived'[l]]
    BY <1>4
  <2>2. QED
    BY <1>5, <2>1
<1>8. CASE n = Height
  <2>1. Archived = [l \in 1..Height |-> Archived[l]]
    BY ArchivedIs
  <2>2. QED
    BY <1>1, <1>7, <1>8, <2>1
<1>9. CASE n # Height
  <2>1. n \in 0 .. Len(Archived) - 1
    BY <1>1, <1>2, <1>3, <1>9
  <2>2. SubSeq(Archived, 1, n) = [l \in 1..n |-> Archived[l]]
    BY <1>3, <2>1
  <2>3. QED
    BY <1>1, <1>6, <1>7, <2>1, <2>2 DEF Contract!Truncate, chainVars, Contract!chainVars
<1>10. QED
  BY <1>8, <1>9

(* With every ledger a window of its own, and a node that keeps all its    *)
(* ledgers and rewrites them between passes only, ingestion implements the *)
(* archive it promises: a prefix of one branch, which grows only along a   *)
(* node that agrees about all of it and gives up only ledgers that the     *)
(* node no longer has, for any pages, confirmation window and faults.      *)
THEOREM IngestionIsAnArchive ==
    ASSUME FirstSequence = 1, EvictPoints = {}, Retention = 0, ReorgPoints \subseteq {"idle"},
           WindowSize = 1, StartLedger <= 1, ContractIds = {}
    PROVE  Spec => ImplementsArchive
<1>1. Following
  BY DEF Following, Settled
<1>2. ASSUME Init PROVE Contract!Init
  <2>1. Contract!ChainInit
    BY <1>2 DEF Init, ChainInit, Contract!ChainInit, Contract!NoHash, NoHash
  <2>2. Archived = << >>
    <3>1. 1..Checkpoint = {}
      BY <1>2 DEF Init, Checkpoint, NoCheckpoint
    <3>2. QED
      BY <3>1 DEF Archived
  <2>3. QED
    BY <2>1, <2>2 DEF Contract!Init
<1>3. ASSUME TypeOK, TypeOK', IInv, AnchorInv, FollowInv, [Next]_vars
      PROVE  [Contract!Next]_Contract!vars
  <2>1. StoreFollows /\ CutBack /\ Single /\ (Rewinding \/ PassGap) /\ oldest = 1 /\ pruneTo = 0
    BY <1>3 DEF FollowInv, AnchorInv
  <2>2. CASE AppendWindow
    <3>1. PassGap
      BY <2>1, <2>2 DEF AppendWindow, Rewinding
    <3>2. QED
      BY <1>1, <1>3, <2>1, <2>2, <3>1, AppendExtends DEF Contract!Next
  <2>3. CASE RollbackTo
    BY <1>3, <2>1, <2>3, RollbackTruncates
       DEF Contract!Next, chainVars, Contract!vars, Contract!chainVars
  <2>4. UNCHANGED <<chainVars, events, ledgers, Checkpoint>> => UNCHANGED Contract!vars
    BY DEF chainVars, Archived, Contract!vars, Contract!chainVars
  <2>5. CASE RewriteCheckpoint
    <3>1. Checkpoint' = Checkpoint
      BY <1>3, <2>5 DEF RewriteCheckpoint, Checkpoint, IInv, RewindsDown, TypeOK
    <3>2. QED
      BY <2>4, <2>5, <3>1 DEF RewriteCheckpoint
  <2>6. CASE UNCHANGED <<chainVars, storeVars>>
    BY <2>4, <2>6 DEF storeVars, Checkpoint
  <2>7. CASE PruneRead \/ PruneDelete \/ Evict
    BY <2>1, <2>7 DEF PruneRead, PruneDelete, Evict
  <2>8. CASE (Close \/ Reorg) /\ Elsewhere
    <3>1. Archived' = Archived
      BY <2>8 DEF Elsewhere, storeVars, Archived, Checkpoint
    <3>2. Close => \E body \in Bodies : Contract!AppendLedger(body)
      BY DEF Close, AppendLedger, Contract!AppendLedger, Tip, Contract!Tip, NoHash, Contract!NoHash
    <3>3. Reorg => \E s \in Contract!Ledger : Contract!ReorgFrom(s)
      BY DEF Reorg, ReorgFrom, Contract!ReorgFrom, Tip, Contract!Tip, Ledger, Contract!Ledger
    <3>4. QED
      BY <2>8, <3>1, <3>2, <3>3 DEF Contract!Next, Contract!Network
  <2>9. UNCHANGED <<chainVars, storeVars>> \/ AppendWindow \/ RollbackTo \/ RewriteCheckpoint
        \/ PruneRead \/ PruneDelete \/ Evict \/ ((Close \/ Reorg) /\ Elsewhere)
    <3>1. ASSUME IngestStep \/ Abort
          PROVE  UNCHANGED <<chainVars, storeVars>> \/ AppendWindow \/ RollbackTo
                 \/ RewriteCheckpoint
      BY <3>1 DEF IngestStep, ReadRange, Resume, RefuseEvicted, ResumeAfterRewind, FetchEvents,
                  FetchHeaders, DetectReorg, FindForkPoint, LedgerGap,
                  VerifyConfirmationWindow, Sleep, Abort
    <3>2. UNCHANGED vars => UNCHANGED <<chainVars, storeVars>>
      BY DEF vars, chainVars, storeVars
    <3>3. QED
      BY <1>3, <3>1, <3>2 DEF Next
  <2>10. QED
    BY <2>2, <2>3, <2>5, <2>6, <2>7, <2>8, <2>9
<1>4. Spec => [](TypeOK /\ IInv /\ AnchorInv /\ FollowInv)
  BY <1>1, Follows
<1>5. QED
  BY <1>2, <1>3, <1>4, PTL DEF Spec, ImplementsArchive, Contract!Spec

=============================================================================
