------------------------- MODULE SharedStoreProofs -------------------------
(***************************************************************************)
(* Two pipelines under two names on one database, for every window, page,  *)
(* contract set and number of faults: until history is rewritten, neither  *)
(* checkpoint promises more than is stored.                                *)
(*                                                                         *)
(* Each pipeline is the one of IngestProofs, whose own step keeps Sharing  *)
(* and only Adds to the store; what is left to show is that the adding of  *)
(* one leaves the Sharing of the other true.                               *)
(***************************************************************************)
EXTENDS SharedStore, TLAPS

PA == INSTANCE IngestProofs WITH Name <- NameA, ContractIds <- ContractsA, pc <- pcA,
                                 pass <- passA, Retention <- 0, EvictPoints <- {}
PB == INSTANCE IngestProofs WITH Name <- NameB, ContractIds <- ContractsB, pc <- pcB,
                                 pass <- passB, Retention <- 0, EvictPoints <- {}

USE ChainAssumption, BodiesAssumption, SharedAssumption

----------------------------------------------------------------------------
(* The proofs are about the modules PA and PB, the system about A and B:   *)
(* the definitions are the same.                                           *)

LEMMA SameValuesA ==
    /\ A!None = PA!None /\ A!NoHeaders = PA!NoHeaders /\ A!NoPass = PA!NoPass
    /\ A!PC = PA!PC /\ A!Ledger = PA!Ledger /\ A!NoCheckpoint = PA!NoCheckpoint
    /\ A!Tip = PA!Tip /\ A!Served = PA!Served
    /\ A!Checkpoint = PA!Checkpoint /\ A!Held = PA!Held
    /\ A!ResumeLedger = PA!ResumeLedger
BY DEF A!None, A!NoHeaders, A!NoPass, A!PC, A!Ledger, A!NoCheckpoint, A!Tip, A!Served,
       A!Checkpoint, A!Held, A!ResumeLedger, A!NoHash,
       PA!None, PA!NoHeaders, PA!NoPass, PA!PC, PA!Ledger, PA!NoCheckpoint, PA!Tip, PA!Served,
       PA!Checkpoint, PA!Held, PA!ResumeLedger, PA!NoHash

LEMMA SamePageA ==
    ASSUME NEW page, NEW got, NEW after, NEW end, NEW x, NEW y
    PROVE  /\ A!GetEvents(after, end, PageSize, ContractsA) =
              PA!GetEvents(after, end, PageSize, ContractsA)
           /\ A!LastPage(page) = PA!LastPage(page)
           /\ A!Touched(got) = PA!Touched(got)
           /\ A!Fetched(x) = PA!Fetched(x)
           /\ A!Before(x, y) = PA!Before(x, y)
           /\ A!FirstRun(got) = PA!FirstRun(got)
           /\ A!Header(x) = PA!Header(x)
<1>1. \A S : A!Cardinality(S) = PA!Cardinality(S)
  BY DEF A!Cardinality, PA!Cardinality
<1>2. \A l : A!EventsOf(l) = PA!EventsOf(l)
  BY DEF A!EventsOf, PA!EventsOf
<1>3. A!GetEvents(after, end, PageSize, ContractsA) =
      PA!GetEvents(after, end, PageSize, ContractsA)
  BY <1>1, <1>2
     DEF A!GetEvents, PA!GetEvents, A!Selected, PA!Selected, A!Before, PA!Before,
         A!Served, PA!Served, A!Tip, PA!Tip
<1>4. A!LastPage(page) = PA!LastPage(page)
  BY <1>1 DEF A!LastPage, PA!LastPage
<1>5. /\ A!Touched(got) = PA!Touched(got) /\ A!Fetched(x) = PA!Fetched(x)
      /\ A!Before(x, y) = PA!Before(x, y) /\ A!Header(x) = PA!Header(x)
  BY DEF A!Touched, PA!Touched, A!Fetched, PA!Fetched, A!Before, PA!Before,
         A!Header, PA!Header
<1>6. A!FirstRun(got) = PA!FirstRun(got)
  BY DEF A!FirstRun, PA!FirstRun
<1>7. QED
  BY <1>3, <1>4, <1>5, <1>6

LEMMA SameOpenA == ASSUME NEW c PROVE A!OpenWindow(c) <=> PA!OpenWindow(c)
BY SameValuesA DEF A!OpenWindow, PA!OpenWindow, A!WindowEnd, PA!WindowEnd,
                   A!LesserOf, PA!LesserOf

LEMMA SameFetchEventsA == A!FetchEvents => PA!FetchEvents
<1> SUFFICES ASSUME A!FetchEvents PROVE PA!FetchEvents
  OBVIOUS
<1> DEFINE page == A!GetEvents(passA.after, passA.end, PageSize, ContractsA)
           got == passA.got \cup {A!Fetched(e) : e \in {f \in page : f.ok}}
           pageP == PA!GetEvents(passA.after, passA.end, PageSize, ContractsA)
           gotP == passA.got \cup {PA!Fetched(e) : e \in {f \in pageP : f.ok}}
<1>1. page = pageP
  BY SamePageA
<1>2. got = gotP
  BY <1>1, SamePageA
<1>3. /\ pcA = "events"
      /\ IF A!LastPage(page)
         THEN /\ pcA' = "headers"
              /\ passA' = [passA EXCEPT !.got = got, !.after = <<0, 0>>, !.wanted = A!Touched(got)]
         ELSE \E last \in page :
                  /\ \A e \in page : ~A!Before(last.id, e.id)
                  /\ passA' = [passA EXCEPT !.got = got, !.after = last.id]
                  /\ UNCHANGED pcA
      /\ UNCHANGED <<A!chainVars, A!storeVars, pruneTo, faults>>
  BY DEF A!FetchEvents
<1> HIDE DEF page, got
<1>4. /\ pcA = "events"
      /\ IF PA!LastPage(page)
         THEN /\ pcA' = "headers"
              /\ passA' = [passA EXCEPT !.got = got, !.after = <<0, 0>>, !.wanted = PA!Touched(got)]
         ELSE \E last \in page :
                  /\ \A e \in page : ~PA!Before(last.id, e.id)
                  /\ passA' = [passA EXCEPT !.got = got, !.after = last.id]
                  /\ UNCHANGED pcA
      /\ UNCHANGED <<PA!chainVars, PA!storeVars, pruneTo, faults>>
  BY <1>3, SamePageA DEF A!chainVars, PA!chainVars, A!storeVars, PA!storeVars
<1> HIDE DEF pageP, gotP
<1>5. /\ pcA = "events"
      /\ IF PA!LastPage(pageP)
         THEN /\ pcA' = "headers"
              /\ passA' = [passA EXCEPT !.got = gotP, !.after = <<0, 0>>, !.wanted = PA!Touched(gotP)]
         ELSE \E last \in pageP :
                  /\ \A e \in pageP : ~PA!Before(last.id, e.id)
                  /\ passA' = [passA EXCEPT !.got = gotP, !.after = last.id]
                  /\ UNCHANGED pcA
      /\ UNCHANGED <<PA!chainVars, PA!storeVars, pruneTo, faults>>
  BY <1>1, <1>2, <1>4
<1>6. QED
  BY <1>5 DEF PA!FetchEvents, pageP, gotP
LEMMA SameFetchHeadersA == A!FetchHeaders => PA!FetchHeaders
<1> SUFFICES ASSUME A!FetchHeaders PROVE PA!FetchHeaders
  OBVIOUS
<1>1. A!FirstRun(passA.wanted) = PA!FirstRun(passA.wanted)
  BY SamePageA
<1>2. \A l : A!Header(l) = PA!Header(l)
  BY SamePageA
<1>3. QED
  BY <1>1, <1>2, SameValuesA
     DEF A!FetchHeaders, PA!FetchHeaders, A!chainVars, PA!chainVars, A!storeVars, PA!storeVars

LEMMA SameCommitA == A!AppendWindow => PA!AppendWindow
BY SameOpenA, SameValuesA
   DEF A!AppendWindow, PA!AppendWindow, A!HeadersComplete, PA!HeadersComplete,
       A!chainVars, PA!chainVars

LEMMA SameRewindA ==
    /\ A!DetectReorg => PA!DetectReorg
    /\ A!FindForkPoint => PA!FindForkPoint
    /\ A!RollbackTo => PA!RollbackTo
    /\ A!RewriteCheckpoint => PA!RewriteCheckpoint
    /\ A!VerifyConfirmationWindow => PA!VerifyConfirmationWindow
<1> USE DEF A!chainVars, PA!chainVars, A!storeVars, PA!storeVars
<1>1. \A l : (A!Rewritten(l) <=> PA!Rewritten(l)) /\ (A!Unlinked(l) <=> PA!Unlinked(l))
  BY SameValuesA DEF A!Rewritten, PA!Rewritten, A!Unlinked, PA!Unlinked
<1>2. A!Conflicts = PA!Conflicts
  BY <1>1, SameValuesA DEF A!Conflicts, PA!Conflicts
<1>3. \A x, S : A!IsLeast(x, S) <=> PA!IsLeast(x, S)
  BY DEF A!IsLeast, PA!IsLeast
<1>4. A!DetectReorg => PA!DetectReorg
  BY <1>1, <1>2, <1>3, SameValuesA DEF A!DetectReorg, PA!DetectReorg
<1>5. A!FindForkPoint => PA!FindForkPoint
  BY SameValuesA DEF A!FindForkPoint, PA!FindForkPoint, A!Agreed, PA!Agreed
<1>6. A!RollbackTo => PA!RollbackTo
  BY SameValuesA DEF A!RollbackTo, PA!RollbackTo, A!EventsUpTo, PA!EventsUpTo, A!LedgersUpTo,
                     PA!LedgersUpTo, A!Clamped, PA!Clamped, A!LesserOf, PA!LesserOf
<1>7. A!RewriteCheckpoint => PA!RewriteCheckpoint
  BY SameValuesA DEF A!RewriteCheckpoint, PA!RewriteCheckpoint
<1>8. A!Stale = PA!Stale
  <2>1. A!Reexamined = PA!Reexamined
    BY SameValuesA DEF A!Reexamined, PA!Reexamined, A!IsGreatest, PA!IsGreatest
  <2>2. QED
    BY <2>1, SameValuesA DEF A!Stale, PA!Stale
<1>9. A!VerifyConfirmationWindow => PA!VerifyConfirmationWindow
  BY <1>3, <1>8 DEF A!VerifyConfirmationWindow, PA!VerifyConfirmationWindow
<1>10. QED
  BY <1>4, <1>5, <1>6, <1>7, <1>9

LEMMA SameStepA == A!IngestStep \/ A!Abort => PA!IngestStep \/ PA!Abort
<1> USE DEF A!chainVars, PA!chainVars, A!storeVars, PA!storeVars
<1>1. A!ReadRange => PA!ReadRange
  BY SameValuesA DEF A!ReadRange, PA!ReadRange
<1>2. A!Resume \/ A!ResumeAfterRewind => PA!Resume \/ PA!ResumeAfterRewind
  BY SameOpenA, SameValuesA
     DEF A!Resume, PA!Resume, A!ResumeAfterRewind, PA!ResumeAfterRewind
<1>3. A!RefuseEvicted \/ A!Sleep \/ A!Abort => PA!RefuseEvicted \/ PA!Sleep \/ PA!Abort
  BY SameValuesA DEF A!RefuseEvicted, PA!RefuseEvicted, A!Sleep, PA!Sleep, A!Abort, PA!Abort
<1>4. A!LedgerGap => PA!LedgerGap
  BY SameValuesA DEF A!LedgerGap, PA!LedgerGap, A!HeadersComplete, PA!HeadersComplete
<1>5. QED
  BY <1>1, <1>2, <1>3, <1>4, SameFetchEventsA, SameFetchHeadersA, SameCommitA, SameRewindA
     DEF A!IngestStep, PA!IngestStep

(* Where the system starts, and the property it is to have.                *)
LEMMA SameEndsA == (A!Init => PA!Init) /\ (PA!NoGaps => A!NoGaps)
<1>1. A!Init => PA!Init
  BY SameValuesA DEF A!Init, PA!Init, A!ChainInit, PA!ChainInit, A!NoHash, PA!NoHash
<1>2. \A l : A!ExactAt(l) <=> PA!ExactAt(l)
  <2>1. \A l : A!EventsOf(l) = PA!EventsOf(l)
    BY DEF A!EventsOf, PA!EventsOf
  <2>2. QED
    BY <2>1 DEF A!ExactAt, PA!ExactAt, A!Fetched, PA!Fetched, A!Mine, PA!Mine,
                A!Selected, PA!Selected
<1>3. PA!NoGaps => A!NoGaps
  BY <1>2, SameValuesA DEF A!NoGaps, PA!NoGaps, A!First, PA!First, A!Unpruned, PA!Unpruned
<1>4. QED
  BY <1>1, <1>3

(* The same of B.                                                          *)
LEMMA SameValuesB ==
    /\ B!None = PB!None /\ B!NoHeaders = PB!NoHeaders /\ B!NoPass = PB!NoPass
    /\ B!PC = PB!PC /\ B!Ledger = PB!Ledger /\ B!NoCheckpoint = PB!NoCheckpoint
    /\ B!Tip = PB!Tip /\ B!Served = PB!Served
    /\ B!Checkpoint = PB!Checkpoint /\ B!Held = PB!Held
    /\ B!ResumeLedger = PB!ResumeLedger
BY DEF B!None, B!NoHeaders, B!NoPass, B!PC, B!Ledger, B!NoCheckpoint, B!Tip, B!Served,
       B!Checkpoint, B!Held, B!ResumeLedger, B!NoHash,
       PB!None, PB!NoHeaders, PB!NoPass, PB!PC, PB!Ledger, PB!NoCheckpoint, PB!Tip, PB!Served,
       PB!Checkpoint, PB!Held, PB!ResumeLedger, PB!NoHash

LEMMA SamePageB ==
    ASSUME NEW page, NEW got, NEW after, NEW end, NEW x, NEW y
    PROVE  /\ B!GetEvents(after, end, PageSize, ContractsB) =
              PB!GetEvents(after, end, PageSize, ContractsB)
           /\ B!LastPage(page) = PB!LastPage(page)
           /\ B!Touched(got) = PB!Touched(got)
           /\ B!Fetched(x) = PB!Fetched(x)
           /\ B!Before(x, y) = PB!Before(x, y)
           /\ B!FirstRun(got) = PB!FirstRun(got)
           /\ B!Header(x) = PB!Header(x)
<1>1. \A S : B!Cardinality(S) = PB!Cardinality(S)
  BY DEF B!Cardinality, PB!Cardinality
<1>2. \A l : B!EventsOf(l) = PB!EventsOf(l)
  BY DEF B!EventsOf, PB!EventsOf
<1>3. B!GetEvents(after, end, PageSize, ContractsB) =
      PB!GetEvents(after, end, PageSize, ContractsB)
  BY <1>1, <1>2
     DEF B!GetEvents, PB!GetEvents, B!Selected, PB!Selected, B!Before, PB!Before,
         B!Served, PB!Served, B!Tip, PB!Tip
<1>4. B!LastPage(page) = PB!LastPage(page)
  BY <1>1 DEF B!LastPage, PB!LastPage
<1>5. /\ B!Touched(got) = PB!Touched(got) /\ B!Fetched(x) = PB!Fetched(x)
      /\ B!Before(x, y) = PB!Before(x, y) /\ B!Header(x) = PB!Header(x)
  BY DEF B!Touched, PB!Touched, B!Fetched, PB!Fetched, B!Before, PB!Before,
         B!Header, PB!Header
<1>6. B!FirstRun(got) = PB!FirstRun(got)
  BY DEF B!FirstRun, PB!FirstRun
<1>7. QED
  BY <1>3, <1>4, <1>5, <1>6

LEMMA SameOpenB == ASSUME NEW c PROVE B!OpenWindow(c) <=> PB!OpenWindow(c)
BY SameValuesB DEF B!OpenWindow, PB!OpenWindow, B!WindowEnd, PB!WindowEnd,
                   B!LesserOf, PB!LesserOf

LEMMA SameFetchEventsB == B!FetchEvents => PB!FetchEvents
<1> SUFFICES ASSUME B!FetchEvents PROVE PB!FetchEvents
  OBVIOUS
<1> DEFINE page == B!GetEvents(passB.after, passB.end, PageSize, ContractsB)
           got == passB.got \cup {B!Fetched(e) : e \in {f \in page : f.ok}}
           pageP == PB!GetEvents(passB.after, passB.end, PageSize, ContractsB)
           gotP == passB.got \cup {PB!Fetched(e) : e \in {f \in pageP : f.ok}}
<1>1. page = pageP
  BY SamePageB
<1>2. got = gotP
  BY <1>1, SamePageB
<1>3. /\ pcB = "events"
      /\ IF B!LastPage(page)
         THEN /\ pcB' = "headers"
              /\ passB' = [passB EXCEPT !.got = got, !.after = <<0, 0>>, !.wanted = B!Touched(got)]
         ELSE \E last \in page :
                  /\ \A e \in page : ~B!Before(last.id, e.id)
                  /\ passB' = [passB EXCEPT !.got = got, !.after = last.id]
                  /\ UNCHANGED pcB
      /\ UNCHANGED <<B!chainVars, B!storeVars, pruneTo, faults>>
  BY DEF B!FetchEvents
<1> HIDE DEF page, got
<1>4. /\ pcB = "events"
      /\ IF PB!LastPage(page)
         THEN /\ pcB' = "headers"
              /\ passB' = [passB EXCEPT !.got = got, !.after = <<0, 0>>, !.wanted = PB!Touched(got)]
         ELSE \E last \in page :
                  /\ \A e \in page : ~PB!Before(last.id, e.id)
                  /\ passB' = [passB EXCEPT !.got = got, !.after = last.id]
                  /\ UNCHANGED pcB
      /\ UNCHANGED <<PB!chainVars, PB!storeVars, pruneTo, faults>>
  BY <1>3, SamePageB DEF B!chainVars, PB!chainVars, B!storeVars, PB!storeVars
<1> HIDE DEF pageP, gotP
<1>5. /\ pcB = "events"
      /\ IF PB!LastPage(pageP)
         THEN /\ pcB' = "headers"
              /\ passB' = [passB EXCEPT !.got = gotP, !.after = <<0, 0>>, !.wanted = PB!Touched(gotP)]
         ELSE \E last \in pageP :
                  /\ \A e \in pageP : ~PB!Before(last.id, e.id)
                  /\ passB' = [passB EXCEPT !.got = gotP, !.after = last.id]
                  /\ UNCHANGED pcB
      /\ UNCHANGED <<PB!chainVars, PB!storeVars, pruneTo, faults>>
  BY <1>1, <1>2, <1>4
<1>6. QED
  BY <1>5 DEF PB!FetchEvents, pageP, gotP
LEMMA SameFetchHeadersB == B!FetchHeaders => PB!FetchHeaders
<1> SUFFICES ASSUME B!FetchHeaders PROVE PB!FetchHeaders
  OBVIOUS
<1>1. B!FirstRun(passB.wanted) = PB!FirstRun(passB.wanted)
  BY SamePageB
<1>2. \A l : B!Header(l) = PB!Header(l)
  BY SamePageB
<1>3. QED
  BY <1>1, <1>2, SameValuesB
     DEF B!FetchHeaders, PB!FetchHeaders, B!chainVars, PB!chainVars, B!storeVars, PB!storeVars

LEMMA SameCommitB == B!AppendWindow => PB!AppendWindow
BY SameOpenB, SameValuesB
   DEF B!AppendWindow, PB!AppendWindow, B!HeadersComplete, PB!HeadersComplete,
       B!chainVars, PB!chainVars

LEMMA SameRewindB ==
    /\ B!DetectReorg => PB!DetectReorg
    /\ B!FindForkPoint => PB!FindForkPoint
    /\ B!RollbackTo => PB!RollbackTo
    /\ B!RewriteCheckpoint => PB!RewriteCheckpoint
    /\ B!VerifyConfirmationWindow => PB!VerifyConfirmationWindow
<1> USE DEF B!chainVars, PB!chainVars, B!storeVars, PB!storeVars
<1>1. \A l : (B!Rewritten(l) <=> PB!Rewritten(l)) /\ (B!Unlinked(l) <=> PB!Unlinked(l))
  BY SameValuesB DEF B!Rewritten, PB!Rewritten, B!Unlinked, PB!Unlinked
<1>2. B!Conflicts = PB!Conflicts
  BY <1>1, SameValuesB DEF B!Conflicts, PB!Conflicts
<1>3. \A x, S : B!IsLeast(x, S) <=> PB!IsLeast(x, S)
  BY DEF B!IsLeast, PB!IsLeast
<1>4. B!DetectReorg => PB!DetectReorg
  BY <1>1, <1>2, <1>3, SameValuesB DEF B!DetectReorg, PB!DetectReorg
<1>5. B!FindForkPoint => PB!FindForkPoint
  BY SameValuesB DEF B!FindForkPoint, PB!FindForkPoint, B!Agreed, PB!Agreed
<1>6. B!RollbackTo => PB!RollbackTo
  BY SameValuesB DEF B!RollbackTo, PB!RollbackTo, B!EventsUpTo, PB!EventsUpTo, B!LedgersUpTo,
                     PB!LedgersUpTo, B!Clamped, PB!Clamped, B!LesserOf, PB!LesserOf
<1>7. B!RewriteCheckpoint => PB!RewriteCheckpoint
  BY SameValuesB DEF B!RewriteCheckpoint, PB!RewriteCheckpoint
<1>8. B!Stale = PB!Stale
  <2>1. B!Reexamined = PB!Reexamined
    BY SameValuesB DEF B!Reexamined, PB!Reexamined, B!IsGreatest, PB!IsGreatest
  <2>2. QED
    BY <2>1, SameValuesB DEF B!Stale, PB!Stale
<1>9. B!VerifyConfirmationWindow => PB!VerifyConfirmationWindow
  BY <1>3, <1>8 DEF B!VerifyConfirmationWindow, PB!VerifyConfirmationWindow
<1>10. QED
  BY <1>4, <1>5, <1>6, <1>7, <1>9

LEMMA SameStepB == B!IngestStep \/ B!Abort => PB!IngestStep \/ PB!Abort
<1> USE DEF B!chainVars, PB!chainVars, B!storeVars, PB!storeVars
<1>1. B!ReadRange => PB!ReadRange
  BY SameValuesB DEF B!ReadRange, PB!ReadRange
<1>2. B!Resume \/ B!ResumeAfterRewind => PB!Resume \/ PB!ResumeAfterRewind
  BY SameOpenB, SameValuesB
     DEF B!Resume, PB!Resume, B!ResumeAfterRewind, PB!ResumeAfterRewind
<1>3. B!RefuseEvicted \/ B!Sleep \/ B!Abort => PB!RefuseEvicted \/ PB!Sleep \/ PB!Abort
  BY SameValuesB DEF B!RefuseEvicted, PB!RefuseEvicted, B!Sleep, PB!Sleep, B!Abort, PB!Abort
<1>4. B!LedgerGap => PB!LedgerGap
  BY SameValuesB DEF B!LedgerGap, PB!LedgerGap, B!HeadersComplete, PB!HeadersComplete
<1>5. QED
  BY <1>1, <1>2, <1>3, <1>4, SameFetchEventsB, SameFetchHeadersB, SameCommitB, SameRewindB
     DEF B!IngestStep, PB!IngestStep

(* Where the system starts, and the property it is to have.                *)
LEMMA SameEndsB == (B!Init => PB!Init) /\ (PB!NoGaps => B!NoGaps)
<1>1. B!Init => PB!Init
  BY SameValuesB DEF B!Init, PB!Init, B!ChainInit, PB!ChainInit, B!NoHash, PB!NoHash
<1>2. \A l : B!ExactAt(l) <=> PB!ExactAt(l)
  <2>1. \A l : B!EventsOf(l) = PB!EventsOf(l)
    BY DEF B!EventsOf, PB!EventsOf
  <2>2. QED
    BY <2>1 DEF B!ExactAt, PB!ExactAt, B!Fetched, PB!Fetched, B!Mine, PB!Mine,
                B!Selected, PB!Selected
<1>3. PB!NoGaps => B!NoGaps
  BY <1>2, SameValuesB DEF B!NoGaps, PB!NoGaps, B!First, PB!First, B!Unpruned, PB!Unpruned
<1>4. QED
  BY <1>1, <1>3

----------------------------------------------------------------------------
(* One step of each kind.                                                  *)

Kept == PA!TypeOK /\ PB!TypeOK /\ PA!Sharing /\ PB!Sharing

(* What both say of the database, and what one says of the types of it.    *)
LEMMA OneStore ==
    /\ PA!Held = PB!Held
    /\ PA!StoreTrue <=> PB!StoreTrue
    /\ PA!TypeOK /\ PB!TypeOK => \A n \in Names : checkpoints[n] \in {-1} \cup 0..MaxLedger
<1>1. PA!Held = PB!Held
  BY DEF PA!Held, PB!Held, PA!Ledger, PB!Ledger, PA!None, PB!None, PA!NoHash, PB!NoHash
<1>2. \A e : PA!Genuine(e) <=> PB!Genuine(e)
  <2>1. \A l : PA!EventsOf(l) = PB!EventsOf(l)
    BY DEF PA!EventsOf, PB!EventsOf
  <2>2. QED
    BY <2>1 DEF PA!Genuine, PB!Genuine, PA!Fetched, PB!Fetched, PA!Ledger, PB!Ledger,
                PA!Tip, PB!Tip
<1>3. PA!StoreTrue <=> PB!StoreTrue
  BY <1>1, <1>2 DEF PA!StoreTrue, PB!StoreTrue, PA!Header, PB!Header, PA!Tip, PB!Tip
<1>4. PA!TypeOK /\ PB!TypeOK => \A n \in Names : checkpoints[n] \in {-1} \cup 0..MaxLedger
  BY DEF PA!TypeOK, PA!NoCheckpoint
<1>5. QED
  BY <1>1, <1>3, <1>4

LEMMA TypeCarries ==
    /\ PA!TypeOK' /\ PB!TypeOK /\ UNCHANGED <<pcB, passB>> => PB!TypeOK'
    /\ PB!TypeOK' /\ PA!TypeOK /\ UNCHANGED <<pcA, passA>> => PA!TypeOK'
<1> USE DEF PA!TypeOK, PB!TypeOK, PA!ChainTypeOK, PB!ChainTypeOK, PA!Block, PB!Block, PA!Hash,
            PB!Hash, PA!NoHash, PB!NoHash, PA!Ledger, PB!Ledger, PA!StoredEvent, PB!StoredEvent,
            PA!EventId, PB!EventId, PA!HeaderRecord, PB!HeaderRecord, PA!None, PB!None,
            PA!NoCheckpoint, PB!NoCheckpoint
<1>1. PA!TypeOK' /\ PB!TypeOK /\ UNCHANGED <<pcB, passB>> => PB!TypeOK'
  OBVIOUS
<1>2. PB!TypeOK' /\ PA!TypeOK /\ UNCHANGED <<pcA, passA>> => PA!TypeOK'
  OBVIOUS
<1>3. QED
  BY <1>1, <1>2

LEMMA Assumed == PA!IngestAssumption /\ PB!IngestAssumption /\ PA!Spared /\ PB!Spared
<1>1. ReorgPoints \subseteq PA!PC /\ ReorgPoints \subseteq PB!PC
  BY DEF A!PC, PA!PC, PB!PC
<1>2. PA!IngestAssumption
  BY <1>1 DEF PA!IngestAssumption
<1>3. PB!IngestAssumption
  BY <1>1 DEF PB!IngestAssumption
<1>4. PA!Spared /\ PB!Spared
  BY DEF PA!Spared, PB!Spared
<1>5. QED
  BY <1>2, <1>3, <1>4

LEMMA KeptByA == NameA # NameB /\ Kept /\ StepA => Kept'
<1> SUFFICES ASSUME NameA # NameB, Kept, StepA PROVE Kept'
  OBVIOUS
<1>1. PA!IngestStep \/ PA!Abort
  BY SameStepA DEF StepA
<1>2. PA!TypeOK'
  BY <1>1, PA!TypeStep, Assumed DEF Kept, PA!Next
<1>3. PB!TypeOK'
  BY <1>2, TypeCarries DEF Kept, StepA
<1>4. UNCHANGED <<chain, oldest, epoch>>
  BY <1>1, PA!ChainStays, Assumed DEF PA!chainVars
<1>5. CASE epoch # 0
  BY <1>2, <1>3, <1>4, <1>5 DEF Kept, PA!Sharing, PB!Sharing
<1>6. CASE epoch = 0
  <2>1. PA!Sharing' /\ PA!Adds
    BY <1>1, <1>2, <1>6, PA!SharingStep, Assumed DEF Kept
  <2>2. PB!Checkpoint' = PB!Checkpoint
    BY <2>1 DEF PA!Adds, PB!Checkpoint
  <2>3. PB!Held \subseteq PB!Held' /\ events \subseteq events' /\ pruneTo' = pruneTo
    <3>1. (PA!Held = PB!Held)'
      BY OneStore, PTL
    <3>2. QED
      BY <2>1, <3>1, OneStore DEF PA!Adds
  <2>4. PB!StoreTrue'
    <3>1. PA!StoreTrue'
      BY <1>4, <1>6, <2>1 DEF PA!Sharing, PA!StoreGap
    <3>2. (PA!StoreTrue <=> PB!StoreTrue)'
      BY OneStore, PTL
    <3>3. QED
      BY <3>1, <3>2
  <2>5. UNCHANGED <<PB!chainVars, pruneTo, pcB, passB>>
    BY <1>4, <2>3 DEF StepA, PB!chainVars
  <2>6. PB!Sharing'
    BY <1>3, <1>6, <2>2, <2>3, <2>4, <2>5, PB!SharingKept, Assumed DEF Kept
  <2>7. QED
    BY <1>2, <1>3, <2>1, <2>6 DEF Kept
<1>7. QED
  BY <1>5, <1>6

LEMMA KeptByB == NameA # NameB /\ Kept /\ StepB => Kept'
<1> SUFFICES ASSUME NameA # NameB, Kept, StepB PROVE Kept'
  OBVIOUS
<1>1. PB!IngestStep \/ PB!Abort
  BY SameStepB DEF StepB
<1>2. PB!TypeOK'
  BY <1>1, PB!TypeStep, Assumed DEF Kept, PB!Next
<1>3. PA!TypeOK'
  BY <1>2, TypeCarries DEF Kept, StepB
<1>4. UNCHANGED <<chain, oldest, epoch>>
  BY <1>1, PB!ChainStays, Assumed DEF PB!chainVars
<1>5. CASE epoch # 0
  BY <1>2, <1>3, <1>4, <1>5 DEF Kept, PB!Sharing, PA!Sharing
<1>6. CASE epoch = 0
  <2>1. PB!Sharing' /\ PB!Adds
    BY <1>1, <1>2, <1>6, PB!SharingStep, Assumed DEF Kept
  <2>2. PA!Checkpoint' = PA!Checkpoint
    BY <2>1 DEF PB!Adds, PA!Checkpoint
  <2>3. PA!Held \subseteq PA!Held' /\ events \subseteq events' /\ pruneTo' = pruneTo
    <3>1. (PA!Held = PB!Held)'
      BY OneStore, PTL
    <3>2. QED
      BY <2>1, <3>1, OneStore DEF PB!Adds
  <2>4. PA!StoreTrue'
    <3>1. PB!StoreTrue'
      BY <1>4, <1>6, <2>1 DEF PB!Sharing, PB!StoreGap
    <3>2. (PB!StoreTrue <=> PA!StoreTrue)'
      BY OneStore, PTL
    <3>3. QED
      BY <3>1, <3>2
  <2>5. UNCHANGED <<PA!chainVars, pruneTo, pcA, passA>>
    BY <1>4, <2>3 DEF StepB, PA!chainVars
  <2>6. PA!Sharing'
    BY <1>3, <1>6, <2>2, <2>3, <2>4, <2>5, PA!SharingKept, Assumed DEF Kept
  <2>7. QED
    BY <1>2, <1>3, <2>1, <2>6 DEF Kept
<1>7. QED
  BY <1>5, <1>6

LEMMA KeptByNode == Kept /\ Network => Kept'
<1> SUFFICES ASSUME Kept, Network PROVE Kept'
  OBVIOUS
<1>1. (PA!Close \/ PA!Reorg) /\ (PB!Close \/ PB!Reorg)
  <2> USE DEF Tip, PA!Tip, PB!Tip, NoHash, PA!NoHash, PB!NoHash, Ledger, PA!Ledger, PB!Ledger
  <2>1. CASE \E body \in Bodies : AppendLedger(body)
    BY <2>1 DEF AppendLedger, PA!AppendLedger, PB!AppendLedger, PA!Close, PB!Close
  <2>2. CASE pcA \in ReorgPoints /\ pcB \in ReorgPoints /\ \E s \in Ledger : ReorgFrom(s)
    BY <2>2 DEF ReorgFrom, PA!ReorgFrom, PB!ReorgFrom, PA!Reorg, PB!Reorg
  <2>3. QED
    BY <2>1, <2>2 DEF Network
<1>2. /\ UNCHANGED <<PA!storeVars, PA!localVars, pruneTo, faults>>
      /\ UNCHANGED <<PB!storeVars, PB!localVars, pruneTo, faults>>
  BY DEF Network, PA!storeVars, PA!localVars, PB!storeVars, PB!localVars
<1>3. PA!TypeOK' /\ PB!TypeOK'
  BY <1>1, <1>2, PA!TypeStep, PB!TypeStep, Assumed
     DEF Kept, PA!Next, PB!Next, PA!Elsewhere, PB!Elsewhere
<1>4. PA!Sharing' /\ PB!Sharing'
  BY <1>1, <1>2, <1>3, PA!SharingNode, PB!SharingNode, Assumed DEF Kept
<1>5. QED
  BY <1>3, <1>4 DEF Kept

LEMMA KeptAlways == NameA # NameB /\ Kept /\ [Next]_vars => Kept'
<1> SUFFICES ASSUME NameA # NameB, Kept, UNCHANGED vars PROVE Kept'
  BY KeptByA, KeptByB, KeptByNode DEF Next
<1>1. /\ UNCHANGED PA!chainVars /\ UNCHANGED <<PA!storeVars, PA!localVars, pruneTo>>
      /\ UNCHANGED PB!chainVars /\ UNCHANGED <<PB!storeVars, PB!localVars, pruneTo>>
  BY DEF vars, PA!chainVars, PA!storeVars, PA!localVars, PB!chainVars, PB!storeVars, PB!localVars
<1>2. PA!TypeOK' /\ PB!TypeOK'
  BY PA!TypeStep, PB!TypeStep, Assumed DEF Kept, vars, PA!vars, PB!vars
<1>3. PA!Sharing' /\ PB!Sharing'
  BY <1>1, <1>2, PA!SharingNode, PB!SharingNode, Assumed DEF Kept
<1>4. QED
  BY <1>2, <1>3 DEF Kept

----------------------------------------------------------------------------
(* Two pipelines under two names share a database without making each      *)
(* other's checkpoint a lie: whatever their windows, pages, contracts and  *)
(* faults, and however their transactions interleave, every ledger up to   *)
(* each checkpoint has all the events that pipeline asked for, until       *)
(* history is rewritten.  Under one name it is not so: one ingester's      *)
(* checkpoint is then the other's.                                         *)
THEOREM NeitherHasGaps ==
    ASSUME NameA # NameB
    PROVE  Spec => []NoGapsForEither
<1>1. Init => Kept
  BY SameEndsA, SameEndsB, PA!TypeInit, PB!TypeInit, PA!SharingInit, PB!SharingInit, Assumed
     DEF Init, Kept
<1>2. Kept /\ [Next]_vars => Kept'
  BY KeptAlways
<1>3. Kept => NoGapsForEither
  BY SameEndsA, SameEndsB, PA!SharingExact, PB!SharingExact, Assumed DEF Kept, NoGapsForEither
<1>4. QED
  BY <1>1, <1>2, <1>3, PTL DEF Spec

=============================================================================
