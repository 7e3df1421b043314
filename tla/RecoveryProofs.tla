--------------------------- MODULE RecoveryProofs ---------------------------
(***************************************************************************)
(* What the Recovery module promises for every value of its constants:     *)
(*  - until history is rewritten, whatever pages a source serves, however  *)
(*    old the digests, and whatever fails, crashes or is resumed, a        *)
(*    session has consumed exactly the archive's history up to its cursor  *)
(*    (HistoryApplied), and all of it when it verifies, unless the source  *)
(*    both withholds and caches (TailNoticed);                             *)
(*  - an honest source is refused at most over a final page                *)
(*    (HonestPagesTaken), and a verdict against the session is explained   *)
(*    by what lies beyond its cursor (DisagreementExplained);              *)
(*  - the balance it carries is the fold of the events it has consumed,    *)
(*    also while history is rewritten (BalanceIsFold).                     *)
(* Behind all of it stand facts about stretches of history, and about the  *)
(* fold, whose induction is over sets of cursors (UpTo).                   *)
(***************************************************************************)
EXTENDS Recovery, TLAPS, SequenceTheorems, FiniteSetTheorems, WellFoundedInduction

USE RecoveryAssumption

----------------------------------------------------------------------------
(* The inductive invariant.                                                *)

Blocks(s) == {s[i] : i \in DOMAIN s}
IsSeq(s)  == s \in Seq(Blocks(s))

(* The archive is a prefix of the chain.                                   *)
Behind ==
    /\ IsSeq(chain) /\ IsSeq(archive)
    /\ Len(chain) <= MaxLedger
    /\ Len(archive) <= Len(chain)
    /\ \A l \in 1..Len(archive) : archive[l] = chain[l]

(* What a state has consumed, and what a digest commits to, is a stretch   *)
(* of the archive's history; a digest may be of an archive as it was.      *)
Consumed(ledgers, s) ==
    /\ s.last \in 0..Len(ledgers)
    /\ s.applied = EventsOf(ledgers, 0, s.last)

Honest(ledgers, d) ==
    \E n \in 0..Len(ledgers) : d.events = EventsOf(ledgers, d.after, n)

States  == Consumed(archive, state) /\ Consumed(archive, saved)
Digests == \A d \in cache : Honest(archive, d)

DigestInHand ==
    pc \in {"publish", "check", "replay"} => Honest(archive, digest) /\ digest.after = state.last

PageInHand ==
    /\ \A e \in page.events : e.cursor \in 1..MaxLedger
    /\ pc = "replay" => page.events = digest.events /\ page.events # {}

IInv == epoch = 0 /\ Behind /\ States /\ Digests /\ DigestInHand /\ PageInHand

----------------------------------------------------------------------------
(* Facts about sequences of ledgers and about greatest elements.           *)

(* A bounded set of numbers that is not empty has a greatest element.      *)
LEMMA Greatest ==
    ASSUME NEW n \in Nat, NEW S \in SUBSET (1..n), S # {}
    PROVE  \E g \in S : \A x \in S : x <= g
<1> DEFINE R == {ss \in Nat \X Nat : ss[1] < ss[2]}
           D == {n - x : x \in S}
<1>1. D \subseteq Nat /\ D # {}
  <2>1. \A x \in S : n - x \in Nat
    OBVIOUS
  <2>2. QED
    BY <2>1
<1>2. PICK d \in D : \A y \in D : ~(<<y, d>> \in R)
  <2>1. IsWellFoundedOn(R, Nat)
    BY NatLessThanWellFounded DEF OpToRel
  <2> HIDE DEF R, D
  <2>2. QED
    BY <2>1, <1>1, WFMin
<1>3. \A y \in D : ~(y < d)
  <2> SUFFICES ASSUME NEW y \in D, y < d PROVE FALSE
    OBVIOUS
  <2>1. <<y, d>> \in R
    BY <1>1
  <2>2. QED
    BY <1>2, <2>1
<1>4. PICK g \in S : d = n - g
  OBVIOUS
<1>5. \A x \in S : x <= g
  <2> SUFFICES ASSUME NEW x \in S PROVE x <= g
    OBVIOUS
  <2>1. n - x \in D /\ x \in Int /\ g \in Int
    OBVIOUS
  <2>2. ~(n - x < n - g)
    BY <2>1, <1>3, <1>4
  <2>3. QED
    BY <2>1, <2>2
<1>6. QED
  BY <1>5

(* A sequence over any set is a sequence over its own elements.            *)
LEMMA SeqIsSeq ==
    ASSUME NEW S, NEW s \in Seq(S)
    PROVE  IsSeq(s) /\ Len(s) \in Nat /\ DOMAIN s = 1..Len(s)
<1>1. Len(s) \in Nat /\ DOMAIN s = 1..Len(s)
  BY LenProperties
<1>2. s \in [1..Len(s) -> Blocks(s)]
  <2>1. s = [i \in 1..Len(s) |-> s[i]]
    BY LenProperties
  <2>2. \A i \in 1..Len(s) : s[i] \in Blocks(s)
    BY <1>1 DEF Blocks
  <2>3. QED
    BY <2>1, <2>2
<1>3. QED
  BY <1>1, <1>2, SeqDef DEF IsSeq

(* A ledger appended, and nothing before it changed.                       *)
LEMMA AppendIsSeq ==
    ASSUME NEW s, IsSeq(s), NEW b
    PROVE  /\ IsSeq(Append(s, b)) /\ Len(Append(s, b)) = Len(s) + 1
           /\ \A i \in 1..Len(s) : Append(s, b)[i] = s[i]
<1> DEFINE T == Blocks(s) \cup {b}
<1>1. s \in Seq(T)
  BY SeqMonotonic DEF IsSeq
<1> HIDE DEF T
<1>2. /\ Append(s, b) \in Seq(T) /\ Len(Append(s, b)) = Len(s) + 1
      /\ \A i \in 1..Len(s) : Append(s, b)[i] = s[i]
  <2>1. b \in T
    BY DEF T
  <2>2. QED
    BY <1>1, <2>1, AppendProperties
<1>3. QED
  BY <1>2, SeqIsSeq

(* A prefix of a sequence of ledgers.                                      *)
LEMMA PrefixIsSeq ==
    ASSUME NEW s, IsSeq(s), NEW n \in 0..Len(s)
    PROVE  /\ IsSeq(SubSeq(s, 1, n)) /\ Len(SubSeq(s, 1, n)) = n
           /\ \A i \in 1..n : SubSeq(s, 1, n)[i] = s[i]
<1>1. Len(s) \in Nat /\ DOMAIN s = 1..Len(s)
  BY SeqIsSeq DEF IsSeq
<1>2. \A i \in 1..n : s[i] \in Blocks(s)
  BY <1>1 DEF Blocks
<1>3. /\ SubSeq(s, 1, n) \in Seq(Blocks(s))
      /\ Len(SubSeq(s, 1, n)) = IF 1 <= n THEN n - 1 + 1 ELSE 0
      /\ \A i \in 1..n - 1 + 1 : SubSeq(s, 1, n)[i] = s[1 + i - 1]
  BY <1>1, <1>2, SubSeqProperties
<1>4. Len(SubSeq(s, 1, n)) = n
  BY <1>1, <1>3
<1>5. \A i \in 1..n : SubSeq(s, 1, n)[i] = s[i]
  BY <1>1, <1>3
<1>6. QED
  BY <1>3, <1>4, <1>5, SeqIsSeq

----------------------------------------------------------------------------
(* Facts about stretches of history.                                       *)

(* The cursor of an event is its ledger's.                                 *)
LEMMA EventCursor ==
    ASSUME NEW s, IsSeq(s), NEW a, NEW b, NEW e \in EventsOf(s, a, b)
    PROVE  e.cursor \in 1..Len(s) /\ a < e.cursor /\ e.cursor <= b
<1>1. DOMAIN s = 1..Len(s)
  BY SeqIsSeq DEF IsSeq
<1>2. QED
  BY <1>1 DEF EventsOf

(* History already archived does not change while the archive grows.       *)
LEMMA HistoryKept ==
    ASSUME NEW s, IsSeq(s), NEW t, IsSeq(t), Len(s) <= Len(t),
           \A i \in 1..Len(s) : t[i] = s[i],
           NEW a, NEW n \in 0..Len(s)
    PROVE  EventsOf(t, a, n) = EventsOf(s, a, n)
<1>1. DOMAIN s = 1..Len(s) /\ DOMAIN t = 1..Len(t) /\ Len(s) \in Nat /\ Len(t) \in Nat
  BY SeqIsSeq DEF IsSeq
<1> DEFINE In(u) == {k \in DOMAIN u : a < k /\ k <= n /\ u[k].entry # Nothing}
<1>2. In(t) = In(s) /\ \A k \in In(s) : t[k] = s[k]
  BY <1>1
<1>3. QED
  BY <1>2 DEF EventsOf

(* Two stretches that meet are one.                                        *)
LEMMA StretchesJoin ==
    ASSUME NEW s, IsSeq(s), NEW a \in Nat, NEW b \in Nat, a <= b
    PROVE  EventsOf(s, 0, a) \cup EventsOf(s, a, b) = EventsOf(s, 0, b)
<1>1. DOMAIN s = 1..Len(s) /\ Len(s) \in Nat
  BY SeqIsSeq DEF IsSeq
<1> DEFINE In(x, y) == {k \in DOMAIN s : x < k /\ k <= y /\ s[k].entry # Nothing}
<1>2. In(0, a) \cup In(a, b) = In(0, b)
  BY <1>1
<1>3. QED
  BY <1>2 DEF EventsOf

(* A stretch ends with the archive, wherever it was asked to end.          *)
LEMMA StretchEnds ==
    ASSUME NEW s, IsSeq(s), NEW a, NEW to \in Nat
    PROVE  \E n \in 0..Len(s) : EventsOf(s, a, to) = EventsOf(s, a, n)
<1>1. DOMAIN s = 1..Len(s) /\ Len(s) \in Nat
  BY SeqIsSeq DEF IsSeq
<1>2. CASE to <= Len(s)
  BY <1>1, <1>2
<1>3. CASE ~(to <= Len(s))
  <2> DEFINE In(y) == {k \in DOMAIN s : a < k /\ k <= y /\ s[k].entry # Nothing}
  <2>1. In(to) = In(Len(s))
    BY <1>1, <1>3
  <2>2. EventsOf(s, a, to) = EventsOf(s, a, Len(s))
    BY <2>1 DEF EventsOf
  <2>3. QED
    BY <1>1, <2>2
<1>4. QED
  BY <1>2, <1>3

(* The last cursor of a set of events is one of theirs.                    *)
LEMMA LastOfIsLast ==
    ASSUME NEW E, E # {}, \A e \in E : e.cursor \in 1..MaxLedger
    PROVE  /\ \E e \in E : e.cursor = LastOf(E)
           /\ \A e \in E : e.cursor <= LastOf(E)
           /\ LastOf(E) \in 1..MaxLedger
<1> DEFINE C == {e.cursor : e \in E}
<1>1. C \in SUBSET (1..MaxLedger) /\ C # {} /\ MaxLedger \in Nat
  OBVIOUS
<1>2. \E g \in C : \A x \in C : x <= g
  <2> HIDE DEF C
  <2>1. QED
    BY <1>1, Greatest
<1>3. \E g \in C : \A e \in E : e.cursor <= g
  BY <1>2
<1>4. LastOf(E) \in C /\ \A e \in E : e.cursor <= LastOf(E)
  BY <1>3 DEF LastOf
<1>5. QED
  BY <1>1, <1>4

(* Nothing of a stretch lies beyond the last event of it.                  *)
LEMMA StretchToLast ==
    ASSUME NEW s, IsSeq(s), Len(s) <= MaxLedger, NEW a \in Nat, NEW n \in 0..Len(s),
           EventsOf(s, a, n) # {}
    PROVE  LET L == LastOf(EventsOf(s, a, n))
           IN  L \in 1..Len(s) /\ a < L /\ EventsOf(s, a, n) = EventsOf(s, a, L)
<1> DEFINE E == EventsOf(s, a, n)
           L == LastOf(E)
<1>1. DOMAIN s = 1..Len(s) /\ Len(s) \in Nat
  BY SeqIsSeq DEF IsSeq
<1>2. \A e \in E : e.cursor \in 1..Len(s) /\ a < e.cursor /\ e.cursor <= n
  BY EventCursor
<1>3. /\ \E e \in E : e.cursor = L
      /\ \A e \in E : e.cursor <= L
      /\ L \in 1..MaxLedger
  <2>1. E # {} /\ \A e \in E : e.cursor \in 1..MaxLedger
    BY <1>1, <1>2
  <2> HIDE DEF E
  <2>2. QED
    BY <2>1, LastOfIsLast
<1>4. L \in 1..Len(s) /\ a < L /\ L <= n
  BY <1>2, <1>3
<1> HIDE DEF L
<1>5. E = EventsOf(s, a, L)
  <2> DEFINE In(y) == {k \in DOMAIN s : a < k /\ k <= y /\ s[k].entry # Nothing}
  <2>1. ASSUME NEW k \in In(n) PROVE k <= L
    <3> DEFINE r == [cursor |-> k, branch |-> s[k].branch,
                     delta |-> s[k].entry.delta, amount |-> s[k].entry.amount]
    <3>1. r \in E /\ r.cursor = k
      BY DEF EventsOf
    <3>2. QED
      BY <1>3, <3>1
  <2>2. In(n) = In(L)
    BY <1>1, <1>4, <2>1
  <2> HIDE DEF E
  <2>3. EventsOf(s, a, n) = EventsOf(s, a, L)
    BY <2>2 DEF EventsOf
  <2>4. QED
    BY <2>3 DEF E
<1>6. QED
  BY <1>4, <1>5 DEF L

----------------------------------------------------------------------------
(* The invariant holds initially.                                          *)
LEMMA InitIInv == Init => IInv
<1> SUFFICES ASSUME Init PROVE IInv
  OBVIOUS
<1>1. /\ chain = << >> /\ archive = << >> /\ epoch = 0 /\ cache = {} /\ pc = "idle"
      /\ state = initialState /\ saved = initialState /\ page = NoPage
  BY DEF Init
<1>2. IsSeq(<< >>) /\ Len(<< >>) = 0 /\ DOMAIN << >> = {}
  BY DEF IsSeq, Blocks
<1>3. Consumed(<< >>, initialState)
  BY <1>2 DEF Consumed, initialState, EventsOf
<1>4. QED
  BY <1>1, <1>2, <1>3
     DEF IInv, Behind, States, Digests, DigestInHand, PageInHand, NoPage

(* What was true of the archive's history stays true while it only grows.  *)
LEMMA GrowthKeeps ==
    ASSUME NEW s, IsSeq(s), NEW t, IsSeq(t), Len(s) <= Len(t),
           \A i \in 1..Len(s) : t[i] = s[i]
    PROVE  /\ \A c : Consumed(s, c) => Consumed(t, c)
           /\ \A d : Honest(s, d) => Honest(t, d)
<1>1. Len(s) \in Nat /\ Len(t) \in Nat
  BY SeqIsSeq DEF IsSeq
<1>2. \A a : \A n \in 0..Len(s) : n \in 0..Len(t) /\ EventsOf(t, a, n) = EventsOf(s, a, n)
  BY <1>1, HistoryKept
<1>3. ASSUME NEW c, Consumed(s, c) PROVE Consumed(t, c)
  BY <1>2, <1>3 DEF Consumed
<1>4. ASSUME NEW d, Honest(s, d) PROVE Honest(t, d)
  <2>1. PICK n \in 0..Len(s) : d.events = EventsOf(s, d.after, n)
    BY <1>4 DEF Honest
  <2>2. n \in 0..Len(t) /\ d.events = EventsOf(t, d.after, n)
    BY <1>2, <2>1
  <2>3. QED
    BY <2>2 DEF Honest
<1>5. QED
  BY <1>3, <1>4

(* Until a reorg, the network and the ingestion only add: what a session   *)
(* holds is as true after such a step as it was before.                    *)
LEMMA NetworkStep ==
    ASSUME IInv, epoch' = 0, Close \/ Reorg \/ Ingest \/ Rollback
    PROVE  IInv'
<1> USE DEF IInv, Behind
<1>1. Len(chain) \in Nat /\ Len(archive) \in Nat
  BY SeqIsSeq DEF IsSeq
<1>2. ~Reorg
  BY DEF Reorg
<1>3. ~Rollback
  <2> SUFFICES ASSUME Rollback PROVE FALSE
    OBVIOUS
  <2>1. PICK n \in 0 .. Len(archive) - 1 : ~OnChain(n + 1)
    BY DEF Rollback
  <2>2. QED
    BY <1>1, <2>1 DEF OnChain
<1>4. CASE Close
  <2>1. PICK b : chain' = Append(chain, b)
    BY <1>4 DEF Close
  <2>2. /\ IsSeq(chain') /\ Len(chain') = Len(chain) + 1
        /\ \A i \in 1..Len(chain) : chain'[i] = chain[i]
    BY <2>1, AppendIsSeq
  <2>3. UNCHANGED <<epoch, archive, cache, pc, state, saved, page, digest>> /\ Len(chain) < MaxLedger
    BY <1>4 DEF Close, session
  <2>4. Behind'
    <3>1. archive' = archive /\ IsSeq(archive')
      BY <2>3
    <3>2. Len(chain') <= MaxLedger /\ Len(archive') <= Len(chain')
      BY <1>1, <2>2, <2>3
    <3>3. \A l \in 1..Len(archive') : archive'[l] = chain'[l]
      BY <1>1, <2>2, <3>1
    <3>4. QED
      BY <2>2, <3>1, <3>2, <3>3
  <2>5. QED
    BY <2>3, <2>4 DEF States, Digests, DigestInHand, PageInHand
<1>5. CASE Ingest
  <2>1. /\ archive' = SubSeq(chain, 1, Len(archive) + 1) /\ Len(archive) < Len(chain)
        /\ UNCHANGED <<chain, epoch, cache, pc, state, saved, page, digest>>
    BY <1>5 DEF Ingest, session
  <2>2. /\ IsSeq(archive') /\ Len(archive') = Len(archive) + 1
        /\ \A i \in 1 .. Len(archive) + 1 : archive'[i] = chain[i]
    <3>1. Len(archive) + 1 \in 0..Len(chain)
      BY <1>1, <2>1
    <3>2. QED
      BY <2>1, <3>1, PrefixIsSeq
  <2>3. Behind'
    BY <1>1, <2>1, <2>2 DEF IsSeq, Blocks
  <2>4. Len(archive) <= Len(archive') /\ \A i \in 1..Len(archive) : archive'[i] = archive[i]
    BY <1>1, <2>2
  <2>5. /\ \A c : Consumed(archive, c) => Consumed(archive', c)
        /\ \A d : Honest(archive, d) => Honest(archive', d)
    BY <2>2, <2>4, GrowthKeeps
  <2>6. States'
    BY <2>1, <2>5 DEF States
  <2>7. Digests'
    BY <2>1, <2>5 DEF Digests
  <2>8. DigestInHand' /\ PageInHand'
    BY <2>1, <2>5 DEF DigestInHand, PageInHand
  <2>9. QED
    BY <2>1, <2>3, <2>6, <2>7, <2>8
<1>6. QED
  BY <1>2, <1>3, <1>4, <1>5

----------------------------------------------------------------------------
(* The session's own steps leave the network alone.                        *)
LEMMA StillBehind ==
    ASSUME Behind, UNCHANGED network
    PROVE  Behind'
BY DEF Behind, network, IsSeq, Blocks

(* A page, withheld from or not, holds events of the archive.              *)
LEMMA PageStep == ASSUME IInv, FetchPage PROVE IInv'
<1>1. /\ UNCHANGED <<network, cache, state, saved, digest>> /\ pc' = "digest"
      /\ page' \in Served(state.last)
  BY DEF FetchPage
<1>2. page'.events \subseteq EventsOf(archive, state.last, CURSOR_MAX)
  <2>1. Page(state.last).events \subseteq EventsOf(archive, state.last, CURSOR_MAX)
    BY DEF Page
  <2>2. page'.events \subseteq Page(state.last).events
    BY <1>1 DEF Served
  <2>3. QED
    BY <2>1, <2>2
<1>3. \A e \in page'.events : e.cursor \in 1..MaxLedger
  <2>1. Len(archive) \in Nat /\ Len(chain) \in Nat /\ Len(archive) <= MaxLedger
    BY SeqIsSeq DEF IInv, Behind, IsSeq
  <2>2. \A e \in EventsOf(archive, state.last, CURSOR_MAX) : e.cursor \in 1..Len(archive)
    BY EventCursor DEF IInv, Behind
  <2>3. QED
    BY <1>2, <2>1, <2>2
<1>4. QED
  BY <1>1, <1>3, StillBehind
     DEF IInv, network, States, Digests, DigestInHand, PageInHand

(* A digest is of the archive as it is, or, cached, as it was.             *)
LEMMA DigestStep == ASSUME IInv, DigestHit \/ DigestMiss PROVE IInv'
<1>1. /\ UNCHANGED <<network, cache, state, saved, page>> /\ pc' \in {"check", "publish"}
  BY DEF DigestHit, DigestMiss
<1>2. Honest(archive, digest') /\ digest'.after = state.last
  <2>1. CASE DigestHit
    BY <2>1 DEF DigestHit, Cached, IInv, Digests
  <2>2. CASE DigestMiss
    <3>1. digest' = RangeDigest(state.last, UpperBound)
      BY <2>2 DEF DigestMiss
    <3>2. UpperBound \in Nat
      <4>1. CASE page.hasMore /\ page.events # {}
        <5>1. LastOf(page.events) \in 1..MaxLedger
          BY <4>1, LastOfIsLast DEF IInv, PageInHand
        <5>2. QED
          BY <4>1, <5>1 DEF UpperBound
      <4>2. CASE ~(page.hasMore /\ page.events # {})
        BY <4>2 DEF UpperBound, CURSOR_MAX
      <4>3. QED
        BY <4>1, <4>2
    <3>3. \E n \in 0..Len(archive) :
            EventsOf(archive, state.last, UpperBound) = EventsOf(archive, state.last, n)
      BY <3>2, StretchEnds DEF IInv, Behind
    <3>4. QED
      BY <3>1, <3>3 DEF Honest, RangeDigest
  <2>3. QED
    BY <2>1, <2>2
<1>3. QED
  BY <1>1, <1>2, StillBehind
     DEF IInv, network, States, Digests, DigestInHand, PageInHand

(* The cache only ever holds digests that were once right.                 *)
LEMMA CacheStep ==
    ASSUME IInv,
           PublishDigest \/ \E after \in Cursor, to \in 1..CURSOR_MAX : Expire(after, to)
    PROVE  IInv'
<1>1. CASE PublishDigest
  <2>1. /\ UNCHANGED <<network, state, saved, page, digest>> /\ pc = "publish" /\ pc' = "check"
        /\ \A d \in cache' : d \in cache \/ d = digest
    BY <1>1 DEF PublishDigest
  <2>2. QED
    BY <2>1, StillBehind DEF IInv, network, States, Digests, DigestInHand, PageInHand
<1>2. CASE \E after \in Cursor, to \in 1..CURSOR_MAX : Expire(after, to)
  <2>1. UNCHANGED <<network, pc, state, saved, page, digest>> /\ cache' \subseteq cache
    BY <1>2 DEF Expire, session
  <2>2. QED
    BY <2>1, StillBehind DEF IInv, network, States, Digests, DigestInHand, PageInHand
<1>3. QED
  BY <1>1, <1>2

(* A page that matches its digest goes on to replay.                       *)
LEMMA CheckStep == ASSUME IInv, CheckPage PROVE IInv'
<1>1. /\ UNCHANGED <<network, cache, state, saved, page, digest>>
      /\ pc = "check" /\ page.events = digest.events
      /\ pc' = IF page.events = {} THEN "verify" ELSE "replay"
  BY DEF CheckPage, Matches
<1>2. QED
  BY <1>1, StillBehind DEF IInv, network, States, Digests, DigestInHand, PageInHand

(* The heart of it: what is replayed is a stretch of the archive's history *)
(* that starts where the state ends, and the state then ends where the     *)
(* stretch does.                                                           *)
LEMMA ReplayStep == ASSUME IInv, ReplayPage PROVE IInv'
<1>1. /\ UNCHANGED <<network, cache, saved>> /\ page' = NoPage
      /\ pc = "replay" /\ pc' \in {"page", "verify"} /\ state' = Replayed
  BY DEF ReplayPage
<1>2. /\ page.events = digest.events /\ page.events # {} /\ digest.after = state.last
      /\ Honest(archive, digest)
  BY <1>1 DEF IInv, DigestInHand, PageInHand
<1>3. PICK n \in 0..Len(archive) : page.events = EventsOf(archive, state.last, n)
  BY <1>2 DEF Honest
<1>4. /\ Len(archive) \in Nat /\ Len(archive) <= MaxLedger /\ IsSeq(archive)
      /\ state.last \in Nat /\ state.applied = EventsOf(archive, 0, state.last)
  <2>1. Len(archive) \in Nat /\ Len(chain) \in Nat
    BY SeqIsSeq DEF IInv, Behind, IsSeq
  <2>2. QED
    BY <2>1 DEF IInv, Behind, States, Consumed
<1> DEFINE L == LastOf(page.events)
<1>5. /\ L \in 1..Len(archive) /\ state.last < L
      /\ page.events = EventsOf(archive, state.last, L)
  BY <1>2, <1>3, <1>4, StretchToLast
<1>6. state.applied \cup page.events = EventsOf(archive, 0, L)
  <2> HIDE DEF L
  <2>1. L \in Nat /\ state.last <= L
    BY <1>4, <1>5
  <2>2. EventsOf(archive, 0, state.last) \cup EventsOf(archive, state.last, L)
          = EventsOf(archive, 0, L)
    BY <1>4, <2>1, StretchesJoin
  <2>3. QED
    BY <1>4, <1>5, <2>2
<1>7. Consumed(archive, state')
  <2>1. state'.last = L /\ state'.applied = state.applied \cup page.events
    BY <1>1 DEF Replayed
  <2>2. L \in 0..Len(archive)
    BY <1>4, <1>5
  <2>3. QED
    BY <1>6, <2>1, <2>2 DEF Consumed
<1>8. QED
  BY <1>1, <1>7, StillBehind
     DEF IInv, network, States, Digests, DigestInHand, PageInHand, NoPage

(* A sync that ends, well or not, keeps its state or falls back to none.   *)
LEMMA EndStep ==
    ASSUME IInv,
           RefusePage \/ RefuseReplay \/ Judge \/ FailSync \/ Crash \/ FailRequest
    PROVE  IInv'
<1>1. /\ UNCHANGED <<network, cache, saved>>
      /\ state' \in {state, initialState}
      /\ \/ UNCHANGED page /\ pc' = pc /\ pc \in {"page", "digest"}
         \/ page' = NoPage /\ pc' = "idle"
  BY DEF RefusePage, RefuseReplay, Judge, FailSync, Crash, FailRequest, End
<1>2. Consumed(archive, initialState)
  <2>1. Len(archive) \in Nat /\ DOMAIN archive = 1..Len(archive)
    BY SeqIsSeq DEF IInv, Behind, IsSeq
  <2>2. EventsOf(archive, 0, 0) = {}
    BY <2>1 DEF EventsOf
  <2>3. QED
    BY <2>1, <2>2 DEF Consumed, initialState
<1>3. States'
  BY <1>1, <1>2 DEF IInv, States, network
<1>4. PageInHand'
  BY <1>1 DEF IInv, PageInHand, NoPage
<1>5. QED
  BY <1>1, <1>3, <1>4, StillBehind DEF IInv, network, Digests, DigestInHand

(* Starting, reading the chain and storing a checkpoint forge nothing.     *)
LEMMA QuietStep ==
    ASSUME IInv, Start \/ ReadBalance \/ ReadLedger \/ ReadStatus \/ SaveCheckpoint
    PROVE  IInv'
<1>1. /\ UNCHANGED <<network, cache, page, digest>>
      /\ state' \in {state, saved} /\ saved' \in {state, saved}
      /\ pc' \in {"page", "verify", "idle"}
  BY DEF Start, ReadBalance, ReadLedger, ReadStatus, SaveCheckpoint
<1>2. QED
  BY <1>1, StillBehind DEF IInv, network, States, Digests, DigestInHand, PageInHand

----------------------------------------------------------------------------
Unforked == epoch \in Nat /\ (epoch = 0 => IInv)

(* Whatever the step, what was forged in no state is forged in none after. *)
LEMMA StepUnforked == ASSUME Unforked, [Next]_vars PROVE Unforked' /\ epoch <= epoch'
<1>1. epoch' = epoch \/ epoch' = epoch + 1
  <2>1. Next => epoch' = epoch \/ epoch' = epoch + 1
    BY DEF Next, Close, Reorg, Ingest, Rollback, Expire, Start, Request, FetchPage,
           DigestHit, DigestMiss, PublishDigest, Decide, CheckPage, RefusePage,
           ReplayPage, RefuseReplay, Verify, ReadBalance, ReadLedger, ReadStatus,
           Judge, SaveCheckpoint, FailRequest, FailSync, Crash, network
  <2>2. QED
    BY <2>1 DEF vars
<1>2. ASSUME epoch' = 0 PROVE IInv'
  <2> USE <1>1, <1>2
  <2>0. IInv
    BY DEF Unforked
  <2>1. CASE Close \/ Reorg \/ Ingest \/ Rollback
    BY <2>0, <2>1, NetworkStep
  <2>2. CASE \E after \in Cursor, to \in 1..CURSOR_MAX : Expire(after, to)
    BY <2>0, <2>2, CacheStep
  <2>3. CASE Request
    BY <2>0, <2>3, PageStep, DigestStep, CacheStep DEF Request
  <2>4. CASE Decide
    BY <2>0, <2>4, CheckStep, ReplayStep, EndStep DEF Decide
  <2>5. CASE Verify
    BY <2>0, <2>5, QuietStep, EndStep DEF Verify
  <2>6. CASE Start \/ SaveCheckpoint
    BY <2>0, <2>6, QuietStep
  <2>7. CASE FailRequest \/ FailSync \/ Crash
    BY <2>0, <2>7, EndStep
  <2>8. CASE UNCHANGED vars
    BY <2>0, <2>8 DEF vars, network, session, IInv, Behind, States, Digests,
                      DigestInHand, PageInHand, IsSeq, Blocks, Consumed, Honest
  <2>9. QED
    BY <2>1, <2>2, <2>3, <2>4, <2>5, <2>6, <2>7, <2>8 DEF Next
<1>3. QED
  BY <1>1, <1>2 DEF Unforked

(* Until history is rewritten, whatever a source withholds, however old    *)
(* the digests it serves, and whatever fails, crashes or is resumed, a     *)
(* session's state and the wallet's checkpoint have consumed exactly the   *)
(* archive's history up to their cursors (sync() with replay's fold).      *)
THEOREM HistoryApplied == Spec => []AppliedIsHistory
<1>1. Init => Unforked
  BY InitIInv DEF Init, Unforked
<1>2. Unforked /\ [Next]_vars => Unforked'
  BY StepUnforked
<1>3. Unforked => AppliedIsHistory
  BY DEF Unforked, IInv, States, Consumed, AppliedIsHistory
<1>4. QED
  BY <1>1, <1>2, <1>3, PTL DEF Spec

----------------------------------------------------------------------------
(* Nothing withheld: a session at its verification has all that the        *)
(* archive held when the last page was asked for.                          *)

(* A stretch is finite, and so is every part of it.                        *)
LEMMA StretchFinite ==
    ASSUME NEW s, IsSeq(s), NEW a \in Nat, NEW b \in Nat, NEW E \in SUBSET EventsOf(s, a, b)
    PROVE  IsFiniteSet(E)
<1> DEFINE r(k) == [cursor |-> k, branch |-> s[k].branch,
                    delta |-> s[k].entry.delta, amount |-> s[k].entry.amount]
           f == [k \in 1..Len(s) |-> r(k)]
<1>1. DOMAIN s = 1..Len(s) /\ Len(s) \in Nat
  BY SeqIsSeq DEF IsSeq
<1>2. \A e \in E : \E k \in 1..Len(s) : f[k] = e
  BY <1>1 DEF EventsOf
<1>3. IsFiniteSet(1..Len(s))
  BY <1>1, FS_Interval
<1> DEFINE D == {k \in 1..Len(s) : f[k] \in E}
           g == [k \in D |-> f[k]]
<1>4. IsFiniteSet(D)
  BY <1>3, FS_Subset
<1>5. g \in Surjection(D, E)
  <2>1. g \in [D -> E]
    OBVIOUS
  <2>2. \A e \in E : \E k \in D : g[k] = e
    BY <1>2
  <2> HIDE DEF g, D
  <2>3. QED
    BY <2>1, <2>2 DEF Surjection
<1> HIDE DEF g, D
<1>6. QED
  BY <1>4, <1>5, FS_Surjection

(* A set of events that is not empty has a first one.                      *)
LEMMA FirstEvent ==
    ASSUME NEW E, E # {}, \A e \in E : e.cursor \in 1..MaxLedger
    PROVE  \E e \in E : \A f \in E : e.cursor <= f.cursor
<1> DEFINE C == {MaxLedger + 1 - e.cursor : e \in E}
<1>1. C \in SUBSET (1..MaxLedger) /\ C # {} /\ MaxLedger \in Nat
  OBVIOUS
<1>2. \E g \in C : \A x \in C : x <= g
  <2> HIDE DEF C
  <2>1. QED
    BY <1>1, Greatest
<1>3. PICK e \in E : \A f \in E : MaxLedger + 1 - f.cursor <= MaxLedger + 1 - e.cursor
  BY <1>2
<1>4. \A f \in E : e.cursor <= f.cursor
  <2> SUFFICES ASSUME NEW f \in E PROVE e.cursor <= f.cursor
    OBVIOUS
  <2>1. e.cursor \in Int /\ f.cursor \in Int
    OBVIOUS
  <2>2. QED
    BY <1>3, <2>1
<1>5. QED
  BY <1>4

(* What page() answers: a first part of the history after the cursor, all  *)
(* of it on the final page, and something of it while more remains.        *)
LEMMA WholePages ==
    ASSUME Behind, NEW a \in Nat
    PROVE  LET p == Page(a)
               H == EventsOf(archive, a, CURSOR_MAX)
           IN  /\ p.events \subseteq H
               /\ ~p.hasMore => p.events = H
               /\ p.hasMore => p.events # {}
               /\ p.events = {} => H = {}
               /\ \A e \in p.events, f \in H : f.cursor < e.cursor => f \in p.events
<1> DEFINE p == Page(a)
           H == EventsOf(archive, a, CURSOR_MAX)
           Before(e) == {f \in H : f.cursor < e.cursor}
<1>0. /\ IsSeq(archive) /\ Len(archive) \in Nat /\ Len(archive) <= MaxLedger
      /\ CURSOR_MAX \in Nat /\ PageSize \in Nat \ {0}
  <2>1. Len(archive) \in Nat /\ Len(chain) \in Nat
    BY SeqIsSeq DEF Behind, IsSeq
  <2>2. QED
    BY <2>1 DEF Behind, CURSOR_MAX
<1>1. \A e \in H : e.cursor \in 1..MaxLedger
  BY <1>0, EventCursor
<1>2. \A S \in SUBSET H : IsFiniteSet(S) /\ Cardinality(S) \in Nat
  BY <1>0, StretchFinite, FS_CardinalityType
<1>3. /\ p.events = {e \in H : Cardinality(Before(e)) < PageSize}
      /\ p.hasMore <=> Cardinality(H) > PageSize
  BY DEF Page
<1> HIDE DEF p, H
<1>4. \A e \in p.events, f \in H : f.cursor < e.cursor => f \in p.events
  <2> SUFFICES ASSUME NEW e \in p.events, NEW f \in H, f.cursor < e.cursor
               PROVE  f \in p.events
    OBVIOUS
  <2>1. e \in H /\ e.cursor \in Int /\ f.cursor \in Int
    BY <1>1, <1>3
  <2>2. Before(f) \subseteq Before(e)
    BY <1>1, <2>1
  <2>3. Before(e) \in SUBSET H /\ Before(f) \in SUBSET H
    OBVIOUS
  <2>4. Cardinality(Before(f)) <= Cardinality(Before(e))
    BY <1>2, <2>2, <2>3, FS_Subset
  <2>5. Cardinality(Before(e)) < PageSize
    BY <1>3
  <2>6. Cardinality(Before(f)) < PageSize
    BY <1>0, <1>2, <2>3, <2>4, <2>5
  <2>7. QED
    BY <1>3, <2>6
<1>5. H # {} => p.events # {}
  <2> SUFFICES ASSUME H # {} PROVE p.events # {}
    OBVIOUS
  <2>1. PICK e \in H : \A f \in H : e.cursor <= f.cursor
    BY <1>1, FirstEvent
  <2>2. Before(e) = {}
    BY <1>1, <2>1
  <2>3. Cardinality(Before(e)) = 0
    BY <2>2, FS_EmptySet
  <2>4. e \in p.events
    BY <1>0, <1>3, <2>3
  <2>5. QED
    BY <2>4
<1>6. p.hasMore => H # {}
  <2>1. H = {} => Cardinality(H) = 0
    BY FS_EmptySet
  <2>2. QED
    BY <1>0, <1>3, <2>1
<1>7. ~p.hasMore => p.events = H
  <2> SUFFICES ASSUME ~p.hasMore, NEW e \in H PROVE e \in p.events
    BY <1>3
  <2>1. Cardinality(H) <= PageSize
    BY <1>0, <1>2, <1>3
  <2>2. Before(e) \in SUBSET H /\ e \notin Before(e)
    BY <1>1
  <2>3. Cardinality(Before(e)) < Cardinality(H)
    <3> DEFINE B == Before(e)
    <3>1. B # H /\ B \in SUBSET H /\ IsFiniteSet(H)
      BY <1>2, <2>2
    <3>2. Cardinality(B) \in Nat /\ Cardinality(H) \in Nat
      BY <1>2, <3>1
    <3> HIDE DEF B
    <3>3. /\ Cardinality(B) <= Cardinality(H)
          /\ Cardinality(H) = Cardinality(B) => H = B
      BY <3>1, FS_Subset
    <3>4. Cardinality(B) < Cardinality(H)
      BY <3>1, <3>2, <3>3
    <3>5. QED
      BY <3>4 DEF B
  <2>4. Cardinality(Before(e)) < PageSize
    BY <1>0, <1>2, <2>1, <2>2, <2>3
  <2>5. QED
    BY <1>3, <2>4
<1>8. QED
  BY <1>3, <1>4, <1>5, <1>6, <1>7 DEF p, H

----------------------------------------------------------------------------
(* What a page in hand was asked of, and what its digest then covers.      *)

OfPage == {"digest", "publish", "check", "replay"}

(* A digest of a closed range is right for good.                           *)
ClosedRight(d) ==
    d.to # CURSOR_MAX => d.to \in 0..Len(archive) /\ d.events = EventsOf(archive, d.after, d.to)

Asked == asked \in 0..Len(archive)

ClosedDigests ==
    /\ \A d \in cache : ClosedRight(d)
    /\ pc \in {"publish", "check"} => ClosedRight(digest) /\ digest.to = UpperBound

PageAsked == pc \in OfPage => page.events \subseteq EventsOf(archive, state.last, asked)

Uncached ==
    ~Caching =>
        /\ cache = {} /\ pc # "publish"
        /\ pc = "check" /\ digest.to = CURSOR_MAX =>
             EventsOf(archive, state.last, asked) \subseteq digest.events

HonestPage ==
    ~Withholding /\ pc \in OfPage =>
        /\ ~page.hasMore => EventsOf(archive, state.last, asked) \subseteq page.events
        /\ page.hasMore => /\ page.events # {}
                           /\ page.events = EventsOf(archive, state.last, LastOf(page.events))

(* A final page that is replayed, and then the state, reaches to the end   *)
(* of the archive as it was asked for.                                     *)
Reaches ==
    ~(Caching /\ Withholding) =>
        /\ pc = "replay" /\ ~page.hasMore => EventsOf(archive, state.last, asked) \subseteq page.events
        /\ pc = "verify" => EventsOf(archive, 0, asked) \subseteq state.applied

Underway == pc # "idle" => outcome = "none"

TailInv == Asked /\ ClosedDigests /\ PageAsked /\ Uncached /\ HonestPage /\ Reaches /\ Underway

(* The archive ends below the open range's bound.                          *)
LEMMA ArchiveEnds ==
    ASSUME Behind
    PROVE  /\ IsSeq(archive) /\ Len(archive) \in 0..MaxLedger
           /\ CURSOR_MAX \in Nat /\ MaxLedger < CURSOR_MAX
           /\ \A a : EventsOf(archive, a, CURSOR_MAX) = EventsOf(archive, a, Len(archive))
           /\ \A a : \A n \in 0..Len(archive) :
                EventsOf(archive, a, n) \subseteq EventsOf(archive, a, CURSOR_MAX)
<1>1. /\ IsSeq(archive) /\ Len(archive) \in 0..MaxLedger /\ DOMAIN archive = 1..Len(archive)
      /\ CURSOR_MAX \in Nat /\ MaxLedger < CURSOR_MAX
  <2>1. Len(archive) \in Nat /\ Len(chain) \in Nat /\ DOMAIN archive = 1..Len(archive)
    BY SeqIsSeq DEF Behind, IsSeq
  <2>2. QED
    BY <2>1 DEF Behind, CURSOR_MAX
<1> DEFINE In(a, n) == {k \in DOMAIN archive : a < k /\ k <= n /\ archive[k].entry # Nothing}
<1>2. \A a : In(a, CURSOR_MAX) = In(a, Len(archive))
  BY <1>1
<1>3. \A a : \A n \in 0..Len(archive) : In(a, n) \subseteq In(a, CURSOR_MAX)
  BY <1>1
<1>4. QED
  BY <1>1, <1>2, <1>3 DEF EventsOf

(* The archive grew: every stretch up to where it ended is what it was.    *)
LEMMA TailNetwork ==
    ASSUME IInv, TailInv, IInv', Close \/ Reorg \/ Ingest \/ Rollback
    PROVE  TailInv'
<1>1. UNCHANGED <<cache, pc, state, saved, page, digest, asked, outcome>>
  BY DEF Close, Reorg, Ingest, Rollback, session
<1>2. IsSeq(archive) /\ IsSeq(archive') /\ Len(archive) \in Nat /\ Len(archive') \in Nat
  BY ArchiveEnds, SeqIsSeq DEF IInv, Behind, IsSeq
<1>3. Len(archive) <= Len(archive') /\ \A i \in 1..Len(archive) : archive'[i] = archive[i]
  <2>1. ~Reorg
    BY DEF Reorg, IInv
  <2>2. ~Rollback
    <3> SUFFICES ASSUME Rollback PROVE FALSE
      OBVIOUS
    <3>1. PICK n \in 0 .. Len(archive) - 1 : ~OnChain(n + 1)
      BY DEF Rollback
    <3>2. Len(chain) \in Nat
      BY SeqIsSeq DEF IInv, Behind, IsSeq
    <3>3. QED
      BY <1>2, <3>1, <3>2 DEF OnChain, IInv, Behind
  <2>3. CASE Close
    BY <1>2, <2>3 DEF Close
  <2>4. CASE Ingest
    <3>1. archive' = SubSeq(chain, 1, Len(archive) + 1) /\ Len(archive) < Len(chain) /\ chain' = chain
      BY <2>4 DEF Ingest
    <3>2. IsSeq(chain) /\ Len(chain) \in Nat /\ Len(archive) + 1 \in 0..Len(chain)
      BY <1>2, <3>1, SeqIsSeq DEF IInv, Behind, IsSeq
    <3>3. Len(archive') = Len(archive) + 1 /\ \A i \in 1 .. Len(archive) + 1 : archive'[i] = chain[i]
      BY <3>1, <3>2, PrefixIsSeq
    <3>4. QED
      BY <1>2, <3>3 DEF IInv, Behind
  <2>5. QED
    BY <2>1, <2>2, <2>3, <2>4
<1>4. \A a : \A n \in 0..Len(archive) :
        n \in 0..Len(archive') /\ EventsOf(archive', a, n) = EventsOf(archive, a, n)
  BY <1>2, <1>3, HistoryKept
<1>5. Asked' /\ PageAsked' /\ Uncached' /\ Reaches' /\ Underway'
  BY <1>1, <1>4 DEF TailInv, Asked, PageAsked, Uncached, Reaches, Underway
<1>6. ClosedDigests'
  <2>1. \A d : ClosedRight(d) => ClosedRight(d)'
    BY <1>4 DEF ClosedRight
  <2>2. UpperBound' = UpperBound
    BY <1>1 DEF UpperBound
  <2>3. QED
    BY <1>1, <2>1, <2>2 DEF TailInv, ClosedDigests, ClosedRight
<1>7. HonestPage'
  <2> SUFFICES ASSUME ~Withholding, pc \in OfPage, page.hasMore
               PROVE  page.events = EventsOf(archive', state.last, LastOf(page.events))
    BY <1>1, <1>4 DEF HonestPage, TailInv, Asked
  <2>1. page.events # {} /\ page.events = EventsOf(archive, state.last, LastOf(page.events))
    BY DEF TailInv, HonestPage
  <2>2. LastOf(page.events) \in 0..Len(archive)
    <3>1. \A e \in page.events : e.cursor \in 1..Len(archive)
      BY <1>2, EventCursor DEF TailInv, PageAsked
    <3>2. \E e \in page.events : e.cursor = LastOf(page.events)
      BY <2>1, LastOfIsLast DEF IInv, PageInHand
    <3>3. QED
      BY <1>2, <3>1, <3>2
  <2>3. QED
    BY <1>4, <2>1, <2>2
<1>8. QED
  BY <1>5, <1>6, <1>7 DEF TailInv

(* A page is asked of the archive as it stands.                            *)
LEMMA TailPage == ASSUME IInv, TailInv, FetchPage PROVE TailInv'
<1>1. /\ UNCHANGED <<archive, cache, state, outcome>> /\ pc = "page" /\ pc' = "digest"
      /\ page' \in Served(state.last) /\ asked' = Len(archive)
  BY DEF FetchPage, network
<1>2. state.last \in Nat
  BY ArchiveEnds DEF IInv, States, Consumed
<1> DEFINE p == Page(state.last)
           H == EventsOf(archive, state.last, CURSOR_MAX)
<1>3. /\ p.events \subseteq H
      /\ ~p.hasMore => p.events = H
      /\ p.hasMore => p.events # {}
      /\ \A e \in p.events, f \in H : f.cursor < e.cursor => f \in p.events
  BY <1>2, WholePages DEF IInv
<1>4. /\ IsSeq(archive) /\ Len(archive) \in 0..MaxLedger
      /\ H = EventsOf(archive, state.last, asked')
  BY <1>1, ArchiveEnds DEF IInv
<1>5. page'.events \subseteq p.events /\ (~Withholding => page' = p)
  BY <1>1 DEF Served
<1>6. Asked'
  BY <1>1, <1>4 DEF Asked
<1>7. ClosedDigests' /\ Uncached' /\ Reaches' /\ Underway'
  BY <1>1 DEF TailInv, ClosedDigests, ClosedRight, Uncached, Reaches, Underway
<1>8. PageAsked'
  BY <1>1, <1>3, <1>4, <1>5 DEF PageAsked
<1>9. HonestPage'
  <2> SUFFICES ASSUME ~Withholding
               PROVE  /\ ~p.hasMore => H \subseteq p.events
                      /\ p.hasMore => /\ p.events # {}
                                      /\ p.events = EventsOf(archive, state.last, LastOf(p.events))
    BY <1>1, <1>4, <1>5 DEF HonestPage
  <2> SUFFICES ASSUME p.hasMore
               PROVE  p.events = EventsOf(archive, state.last, LastOf(p.events))
    BY <1>3
  <2> DEFINE L == LastOf(p.events)
  <2>1. \A e \in H : e.cursor \in 1..Len(archive)
    BY <1>4, EventCursor
  <2>2. /\ \E e \in p.events : e.cursor = L
        /\ \A e \in p.events : e.cursor <= L
        /\ L \in 1..MaxLedger
    <3>1. p.events # {} /\ \A e \in p.events : e.cursor \in 1..MaxLedger
      BY <1>3, <1>4, <2>1
    <3> HIDE DEF p
    <3>2. QED
      BY <3>1, LastOfIsLast
  <2>3. \A e \in H : e.cursor <= L => e \in p.events
    <3> SUFFICES ASSUME NEW e \in H, e.cursor <= L PROVE e \in p.events
      OBVIOUS
    <3>1. PICK f \in p.events : f.cursor = L
      BY <2>2
    <3>2. CASE e.cursor < L
      BY <1>3, <3>1, <3>2
    <3>3. CASE e.cursor = L
      <4>1. f \in H /\ f.cursor = e.cursor
        BY <1>3, <3>1, <3>3
      <4>2. f = e
        BY <4>1 DEF EventsOf
      <4>3. QED
        BY <4>2
    <3>4. QED
      BY <1>4, <2>1, <2>2, <3>2, <3>3
  <2> HIDE DEF p, L
  <2>4. EventsOf(archive, state.last, L) = {e \in H : e.cursor <= L}
    <3>1. DOMAIN archive = 1..Len(archive) /\ MaxLedger < CURSOR_MAX /\ CURSOR_MAX = MaxLedger + 1
      BY <1>4, SeqIsSeq DEF IsSeq, CURSOR_MAX
    <3>2. QED
      BY <1>4, <2>2, <3>1 DEF EventsOf
  <2>5. p.events = {e \in H : e.cursor <= L}
    BY <1>3, <2>2, <2>3
  <2>6. QED
    BY <2>4, <2>5 DEF L
<1>10. QED
  BY <1>6, <1>7, <1>8, <1>9 DEF TailInv

(* A closed range lies within the archive, and an open one beyond it.      *)
LEMMA RangeAsked ==
    ASSUME IInv, TailInv, pc \in OfPage
    PROVE  /\ UpperBound \in 0..Len(archive) \/ UpperBound = CURSOR_MAX
           /\ UpperBound = CURSOR_MAX => ~page.hasMore \/ page.events = {}
<1>1. IsSeq(archive) /\ Len(archive) \in 0..MaxLedger /\ MaxLedger < CURSOR_MAX /\ CURSOR_MAX \in Nat
  BY ArchiveEnds DEF IInv
<1>2. CASE page.hasMore /\ page.events # {}
  <2>1. UpperBound = LastOf(page.events)
    BY <1>2 DEF UpperBound
  <2>2. \A e \in page.events : e.cursor \in 1..Len(archive)
    BY <1>1, EventCursor DEF TailInv, PageAsked
  <2>3. \E e \in page.events : e.cursor = LastOf(page.events)
    BY <1>2, LastOfIsLast DEF IInv, PageInHand
  <2>4. QED
    BY <1>1, <2>1, <2>2, <2>3
<1>3. CASE ~(page.hasMore /\ page.events # {})
  BY <1>3 DEF UpperBound
<1>4. QED
  BY <1>2, <1>3

(* Without a cache a digest of the open range is of the whole archive.     *)
LEMMA TailDigest == ASSUME IInv, TailInv, DigestHit \/ DigestMiss PROVE TailInv'
<1>1. /\ UNCHANGED <<archive, cache, state, page, asked, outcome>>
      /\ pc = "digest" /\ pc' \in {"check", "publish"}
  BY DEF DigestHit, DigestMiss, network
<1>2. UpperBound' = UpperBound
  BY <1>1 DEF UpperBound
<1>3. digest'.to = UpperBound
  BY DEF DigestHit, DigestMiss, Cached, RangeDigest
<1>4. UpperBound # CURSOR_MAX => UpperBound \in 0..Len(archive)
  BY <1>1, RangeAsked DEF OfPage
<1>5. ClosedRight(digest)'
  <2>1. CASE DigestHit
    BY <1>1, <2>1 DEF DigestHit, Cached, TailInv, ClosedDigests, ClosedRight
  <2>2. CASE DigestMiss
    <3>1. digest' = RangeDigest(state.last, UpperBound)
      BY <2>2 DEF DigestMiss
    <3>2. QED
      BY <1>1, <1>4, <3>1 DEF ClosedRight, RangeDigest
  <2>3. QED
    BY <2>1, <2>2
<1>6. ClosedDigests'
  BY <1>1, <1>2, <1>3, <1>5 DEF TailInv, ClosedDigests, ClosedRight
<1>7. Uncached'
  <2> SUFFICES ASSUME ~Caching
               PROVE  /\ cache = {} /\ pc' = "check"
                      /\ digest'.to = CURSOR_MAX =>
                           EventsOf(archive, state.last, asked) \subseteq digest'.events
    BY <1>1 DEF Uncached
  <2>1. cache = {}
    BY DEF TailInv, Uncached
  <2>2. /\ digest' = RangeDigest(state.last, UpperBound) /\ pc' = "check"
    BY <2>1 DEF DigestHit, DigestMiss, Cached
  <2>3. EventsOf(archive, state.last, asked) \subseteq EventsOf(archive, state.last, CURSOR_MAX)
    BY ArchiveEnds DEF TailInv, Asked, IInv
  <2>4. QED
    BY <2>1, <2>2, <2>3 DEF RangeDigest
<1>8. Asked' /\ PageAsked' /\ HonestPage' /\ Reaches' /\ Underway'
  BY <1>1 DEF TailInv, Asked, PageAsked, HonestPage, Reaches, Underway, OfPage
<1>9. QED
  BY <1>6, <1>7, <1>8 DEF TailInv

(* What is published was computed, and what expires was there.             *)
LEMMA TailCache ==
    ASSUME IInv, TailInv,
           PublishDigest \/ \E after \in Cursor, to \in 1..CURSOR_MAX : Expire(after, to)
    PROVE  TailInv'
<1>1. /\ UNCHANGED <<archive, state, page, digest, asked, outcome>>
      /\ \A d \in cache' : d \in cache \/ (pc = "publish" /\ d = digest)
      /\ \/ pc = "publish" /\ pc' = "check"
         \/ pc' = pc
      /\ pc = "publish" \/ cache' \subseteq cache
  BY DEF PublishDigest, Expire, session, network
<1>2. ClosedDigests'
  <2>1. UpperBound' = UpperBound
    BY <1>1 DEF UpperBound
  <2>2. QED
    BY <1>1, <2>1 DEF TailInv, ClosedDigests, ClosedRight
<1>3. Uncached'
  BY <1>1 DEF TailInv, Uncached
<1>4. Asked' /\ PageAsked' /\ HonestPage' /\ Reaches' /\ Underway'
  BY <1>1 DEF TailInv, Asked, PageAsked, HonestPage, Reaches, Underway, OfPage
<1>5. QED
  BY <1>2, <1>3, <1>4 DEF TailInv

(* A page that matches its digest and is the last one reaches as far as    *)
(* the archive did, because the digest does or because the page does.      *)
LEMMA TailCheck == ASSUME IInv, TailInv, CheckPage PROVE TailInv'
<1>1. /\ UNCHANGED <<archive, cache, state, page, digest, asked, outcome>>
      /\ pc = "check" /\ page.events = digest.events
      /\ pc' = IF page.events = {} THEN "verify" ELSE "replay"
  BY DEF CheckPage, Matches, network
<1>2. ASSUME ~(Caching /\ Withholding), ~page.hasMore \/ page.events = {}
      PROVE  EventsOf(archive, state.last, asked) \subseteq page.events
  <2>1. CASE ~Caching
    <3>1. digest.to = CURSOR_MAX
      BY <1>1, <1>2 DEF TailInv, ClosedDigests, UpperBound
    <3>2. QED
      BY <1>1, <2>1, <3>1 DEF TailInv, Uncached
  <2>2. CASE ~Withholding
    BY <1>1, <1>2, <2>2 DEF TailInv, HonestPage, OfPage
  <2>3. QED
    BY <1>2, <2>1, <2>2
<1>3. Reaches'
  <2> SUFFICES ASSUME ~(Caching /\ Withholding)
               PROVE  /\ page.events # {} /\ ~page.hasMore =>
                           EventsOf(archive, state.last, asked) \subseteq page.events
                      /\ page.events = {} => EventsOf(archive, 0, asked) \subseteq state.applied
    BY <1>1 DEF Reaches
  <2>1. ASSUME page.events = {} PROVE EventsOf(archive, 0, asked) \subseteq state.applied
    <3>1. EventsOf(archive, state.last, asked) = {}
      BY <1>2, <2>1
    <3>2. state.applied = EventsOf(archive, 0, state.last)
      BY DEF IInv, States, Consumed
    <3>3. state.last \in Int /\ asked \in Int /\ DOMAIN archive = 1..Len(archive) /\ Len(archive) \in Nat
      BY ArchiveEnds, SeqIsSeq DEF IInv, Behind, IsSeq, States, Consumed, TailInv, Asked
    <3> HIDE DEF IInv, TailInv
    <3>4. \A k \in DOMAIN archive : k <= asked /\ archive[k].entry # Nothing => k <= state.last
      <4> SUFFICES ASSUME NEW k \in DOMAIN archive, k <= asked, archive[k].entry # Nothing,
                          ~(k <= state.last)
                   PROVE  FALSE
        OBVIOUS
      <4>1. state.last < k
        BY <3>3
      <4>2. QED
        BY <3>1, <4>1 DEF EventsOf
    <3>5. QED
      BY <3>2, <3>3, <3>4 DEF EventsOf
  <2>2. QED
    BY <1>2, <2>1
<1>4. Asked' /\ PageAsked' /\ HonestPage' /\ Uncached' /\ ClosedDigests' /\ Underway'
  BY <1>1 DEF TailInv, Asked, PageAsked, HonestPage, Underway, OfPage, Uncached, ClosedDigests, ClosedRight
<1>5. QED
  BY <1>3, <1>4 DEF TailInv

(* Once the last page is replayed the state reaches as far as it did.      *)
LEMMA TailReplay == ASSUME IInv, TailInv, ReplayPage PROVE TailInv'
<1>1. /\ UNCHANGED <<archive, cache, asked, outcome>> /\ pc = "replay"
      /\ pc' = IF page.hasMore THEN "page" ELSE "verify"
      /\ state'.applied = state.applied \cup page.events
  BY DEF ReplayPage, Replayed, network
<1>2. Reaches'
  <2> SUFFICES ASSUME ~(Caching /\ Withholding), ~page.hasMore
               PROVE  EventsOf(archive, 0, asked) \subseteq state.applied \cup page.events
    BY <1>1 DEF Reaches
  <2>1. EventsOf(archive, state.last, asked) \subseteq page.events
    BY <1>1 DEF TailInv, Reaches
  <2>2. /\ state.applied = EventsOf(archive, 0, state.last)
        /\ state.last \in Nat /\ asked \in Nat /\ DOMAIN archive = 1..Len(archive) /\ Len(archive) \in Nat
    BY ArchiveEnds, SeqIsSeq DEF IInv, Behind, IsSeq, States, Consumed, TailInv, Asked
  <2> HIDE DEF IInv, TailInv
  <2>3. EventsOf(archive, 0, asked)
          \subseteq EventsOf(archive, 0, state.last) \cup EventsOf(archive, state.last, asked)
    BY <2>2 DEF EventsOf
  <2>4. QED
    BY <2>1, <2>2, <2>3
<1>3. Asked' /\ PageAsked' /\ HonestPage' /\ Uncached' /\ ClosedDigests' /\ Underway'
  BY <1>1 DEF TailInv, Asked, PageAsked, HonestPage, Underway, OfPage, Uncached, ClosedDigests, ClosedRight
<1>4. QED
  BY <1>2, <1>3 DEF TailInv

(* Everything else a session does ends it, starts it, or only reads.       *)
LEMMA TailRest ==
    ASSUME IInv, TailInv,
           \/ Start \/ ReadBalance \/ ReadLedger \/ ReadStatus \/ SaveCheckpoint
           \/ RefusePage \/ RefuseReplay \/ Judge \/ FailSync \/ Crash \/ FailRequest
    PROVE  TailInv'
<1>1. UNCHANGED <<archive, cache>>
  BY DEF Start, ReadBalance, ReadLedger, ReadStatus, SaveCheckpoint, RefusePage, RefuseReplay,
         Judge, FailSync, Crash, FailRequest, network
<1>2. \/ pc' = "idle" /\ asked' = 0
      \/ pc' = "page" /\ asked' = asked /\ outcome' = "none"
      \/ UNCHANGED <<pc, state, page, digest, asked, outcome>>
  BY DEF Start, ReadBalance, ReadLedger, ReadStatus, SaveCheckpoint, RefusePage, RefuseReplay,
         Judge, FailSync, Crash, FailRequest, End
<1>3. Len(archive) \in Nat
  BY ArchiveEnds DEF IInv
<1>4. CASE pc' = "idle" /\ asked' = 0
  BY <1>1, <1>3, <1>4 DEF TailInv, Asked, PageAsked, HonestPage, Underway, OfPage, Uncached,
                          ClosedDigests, ClosedRight, Reaches
<1>5. CASE pc' = "page" /\ asked' = asked /\ outcome' = "none"
  BY <1>1, <1>5 DEF TailInv, Asked, PageAsked, HonestPage, Underway, OfPage, Uncached,
                    ClosedDigests, ClosedRight, Reaches
<1>6. CASE UNCHANGED <<pc, state, page, digest, asked, outcome>>
  BY <1>1, <1>6 DEF TailInv, Asked, PageAsked, HonestPage, Underway, OfPage, Uncached,
                    ClosedDigests, ClosedRight, Reaches, UpperBound
<1>7. QED
  BY <1>2, <1>4, <1>5, <1>6

Gathered == epoch \in 0..MaxEpoch /\ Unforked /\ (epoch = 0 => TailInv)

LEMMA InitGathered == Init => Gathered
<1> SUFFICES ASSUME Init PROVE Gathered
  OBVIOUS
<1>1. /\ epoch = 0 /\ archive = << >> /\ cache = {} /\ pc = "idle" /\ asked = 0
  BY DEF Init
<1>2. Len(<< >>) = 0
  OBVIOUS
<1>3. QED
  BY <1>1, <1>2, InitIInv
     DEF Gathered, Unforked, TailInv, Asked, PageAsked, HonestPage, Underway, OfPage, Uncached,
         ClosedDigests, Reaches

(* Every step of the network, of the endpoints and of the session.         *)
LEMMA StepGathered == ASSUME Gathered, [Next]_vars PROVE Gathered'
<1>1. Unforked' /\ epoch \in Nat /\ epoch <= epoch'
  BY StepUnforked DEF Gathered, Unforked
<1>2. epoch' \in 0..MaxEpoch
  <2>1. Next => epoch' = epoch \/ (epoch < MaxEpoch /\ epoch' = epoch + 1)
    BY DEF Next, Close, Reorg, Ingest, Rollback, Expire, Start, Request, FetchPage,
           DigestHit, DigestMiss, PublishDigest, Decide, CheckPage, RefusePage,
           ReplayPage, RefuseReplay, Verify, ReadBalance, ReadLedger, ReadStatus,
           Judge, SaveCheckpoint, FailRequest, FailSync, Crash, network
  <2>2. QED
    BY <1>1, <2>1 DEF vars, Gathered
<1>3. ASSUME epoch' = 0 PROVE TailInv'
  <2> USE <1>1, <1>3
  <2>0. IInv /\ TailInv /\ IInv'
    BY DEF Gathered, Unforked
  <2>1. CASE Close \/ Reorg \/ Ingest \/ Rollback
    BY <2>0, <2>1, TailNetwork
  <2>2. CASE \E after \in Cursor, to \in 1..CURSOR_MAX : Expire(after, to)
    BY <2>0, <2>2, TailCache
  <2>3. CASE Request
    BY <2>0, <2>3, TailPage, TailDigest, TailCache DEF Request
  <2>4. CASE Decide
    BY <2>0, <2>4, TailCheck, TailReplay, TailRest DEF Decide
  <2>5. CASE Verify
    BY <2>0, <2>5, TailRest DEF Verify
  <2>6. CASE Start \/ SaveCheckpoint
    BY <2>0, <2>6, TailRest
  <2>7. CASE FailRequest \/ FailSync \/ Crash
    BY <2>0, <2>7, TailRest
  <2>8. CASE UNCHANGED vars
    BY <2>0, <2>8 DEF vars, network, session, TailInv, Asked, PageAsked, HonestPage, Underway,
                      OfPage, Uncached, ClosedDigests, ClosedRight, Reaches, UpperBound
  <2>9. QED
    BY <2>1, <2>2, <2>3, <2>4, <2>5, <2>6, <2>7, <2>8 DEF Next
<1>4. QED
  BY <1>1, <1>2, <1>3 DEF Gathered

LEMMA AlwaysGathered == Spec => []Gathered
<1>1. Gathered /\ [Next]_vars => Gathered'
  BY StepGathered
<1>2. QED
  BY InitGathered, <1>1, PTL DEF Spec

(* "Which is what makes a withheld tail visible" (sync()'s open range):    *)
(* until history is rewritten, a session at its verification has consumed  *)
(* all that the archive held when its last page was asked for, whatever    *)
(* the source withholds, if digests are computed for it; and whatever the  *)
(* digest cache answers, if pages are honest.  Of a source that withholds  *)
(* behind a cache neither holds.                                           *)
THEOREM TailNoticed == ASSUME ~(Caching /\ Withholding) PROVE Spec => []NothingWithheld
<1>1. Gathered => NothingWithheld
  BY DEF Gathered, TailInv, Reaches, NothingWithheld
<1>2. QED
  BY <1>1, AlwaysGathered, PTL

(* An honest source is refused at most over a final page (sync() choosing  *)
(* the range, verifyEventIntegrity()): a closed range never disagrees with *)
(* its digest, whoever cached it and whenever, while history stands.       *)
THEOREM HonestPagesTaken == ASSUME ~Withholding, MaxEpoch = 0 PROVE Spec => OnlyFinalPagesRefused
<1>1. ASSUME Gathered, [Next]_vars,
             pc = "check", outcome' = "INTEGRITY_FAILURE"
      PROVE  ~page.hasMore
  <2>1. epoch = 0 /\ IInv /\ TailInv
    BY <1>1 DEF Gathered, Unforked
  <2>2. RefusePage
    <3>1. outcome = "none"
      BY <1>1, <2>1 DEF TailInv, Underway
    <3>2. outcome' # outcome
      BY <1>1, <3>1
    <3>3. Next
      BY <1>1, <3>2 DEF vars
    <3>4. QED
      BY <1>1, <3>2, <3>3
         DEF Next, Close, Reorg, Ingest, Rollback, Expire, Start, Request, FetchPage,
             DigestHit, DigestMiss, PublishDigest, Decide, CheckPage,
             ReplayPage, RefuseReplay, Verify, ReadBalance, ReadLedger, ReadStatus,
             Judge, SaveCheckpoint, FailRequest, FailSync, Crash, End, session
  <2> SUFFICES ASSUME page.hasMore PROVE FALSE
    OBVIOUS
  <2>3. page.events # {} /\ page.events = EventsOf(archive, state.last, LastOf(page.events))
    BY <1>1, <2>1 DEF TailInv, HonestPage, OfPage
  <2>4. UpperBound = LastOf(page.events) /\ digest.to = UpperBound /\ ClosedRight(digest)
    BY <1>1, <2>1, <2>3 DEF UpperBound, TailInv, ClosedDigests
  <2>5. UpperBound # CURSOR_MAX
    BY <1>1, <2>1, <2>3, RangeAsked DEF OfPage
  <2>6. digest.after = state.last
    BY <1>1, <2>1 DEF IInv, DigestInHand
  <2>7. page.events = digest.events
    BY <2>3, <2>4, <2>5, <2>6 DEF ClosedRight
  <2>8. QED
    BY <2>2, <2>7 DEF RefusePage, Matches
<1>2. Gathered /\ [Next]_vars =>
        [pc = "check" /\ outcome' = "INTEGRITY_FAILURE" => ~page.hasMore]_vars
  BY <1>1
<1>3. QED
  BY <1>2, AlwaysGathered, PTL DEF Spec, OnlyFinalPagesRefused

----------------------------------------------------------------------------
(* The replay fold.                                                        *)

(* Induction up to a bound, over a set of numbers.                         *)
LEMMA UpTo ==
    ASSUME NEW lo \in Nat, NEW hi \in Nat, NEW S, lo \in S,
           \A c \in lo + 1 .. hi : c - 1 \in S => c \in S
    PROVE  lo..hi \subseteq S
<1> DEFINE R == {ss \in Nat \X Nat : ss[1] < ss[2]}
           B == (lo..hi) \ S
<1> SUFFICES ASSUME B # {} PROVE FALSE
  OBVIOUS
<1>1. B \subseteq Nat
  OBVIOUS
<1>2. PICK m \in B : \A y \in B : ~(<<y, m>> \in R)
  <2>1. IsWellFoundedOn(R, Nat)
    BY NatLessThanWellFounded DEF OpToRel
  <2> HIDE DEF R, B
  <2>2. QED
    BY <2>1, <1>1, WFMin
<1>3. m \in Nat /\ m # lo /\ m \in lo + 1 .. hi /\ m - 1 \in lo..hi /\ m - 1 \in Nat
  OBVIOUS
<1>4. m - 1 \notin B
  <2> SUFFICES ASSUME m - 1 \in B PROVE FALSE
    OBVIOUS
  <2>1. <<m - 1, m>> \in R
    BY <1>3
  <2>2. QED
    BY <1>2, <2>1
<1>5. QED
  BY <1>3, <1>4

(* What one cursor does to the balance.                                    *)
At(x, c, E) ==
    IF \E e \in E : e.cursor = c THEN AfterEvent(x, CHOOSE e \in E : e.cursor = c) ELSE x

FoldsTo(f, n, v, E) == f = [c \in 0..n |-> IF c = 0 THEN v ELSE At(f[c - 1], c, E)]

(* The recursive definition defines something: a fold up to each cursor    *)
(* extends the fold up to the one before it.                               *)
LEMMA FoldExists == ASSUME NEW v, NEW E PROVE \E f : FoldsTo(f, MaxLedger, v, E)
<1> DEFINE S == {n \in 0..MaxLedger : \E f : FoldsTo(f, n, v, E)}
<1>1. 0 \in S
  <2> DEFINE f == [c \in 0..0 |-> v]
  <2>1. f = [c \in 0..0 |-> IF c = 0 THEN v ELSE At(f[c - 1], c, E)]
    OBVIOUS
  <2>2. FoldsTo(f, 0, v, E)
    BY <2>1 DEF FoldsTo
  <2>3. QED
    BY <2>2
<1>2. ASSUME NEW n \in 0 + 1 .. MaxLedger, n - 1 \in S PROVE n \in S
  <2>1. PICK g : FoldsTo(g, n - 1, v, E)
    BY <1>2
  <2> DEFINE f == [c \in 0..n |-> IF c = n THEN At(g[n - 1], n, E) ELSE g[c]]
  <2>2. DOMAIN g = 0 .. n - 1 /\ \A c \in 0 .. n - 1 : g[c] = IF c = 0 THEN v ELSE At(g[c - 1], c, E)
    BY <2>1 DEF FoldsTo
  <2>3. ASSUME NEW c \in 0..n PROVE f[c] = IF c = 0 THEN v ELSE At(f[c - 1], c, E)
    <3>1. CASE c = n
      BY <3>1
    <3>2. CASE c # n
      <4>1. c \in 0 .. n - 1 /\ f[c] = g[c] /\ (c # 0 => f[c - 1] = g[c - 1])
        BY <3>2
      <4>2. QED
        BY <2>2, <4>1
    <3>3. QED
      BY <3>1, <3>2
  <2>4. FoldsTo(f, n, v, E)
    BY <2>3 DEF FoldsTo
  <2>5. QED
    BY <2>4
<1> HIDE DEF S
<1>3. 0..MaxLedger \subseteq S
  BY <1>1, <1>2, UpTo
<1>4. MaxLedger \in S
  BY <1>3
<1>5. QED
  BY <1>4 DEF S

(* The balance after each cursor, from the balance before it.              *)
LEMMA ValuesUnfold ==
    ASSUME NEW v, NEW E
    PROVE  /\ Values(v, E)[0] = v
           /\ \A c \in 1..MaxLedger : Values(v, E)[c] = At(Values(v, E)[c - 1], c, E)
<1>1. Values(v, E) = CHOOSE f : FoldsTo(f, MaxLedger, v, E)
  BY DEF Values, FoldsTo, At
<1>2. FoldsTo(Values(v, E), MaxLedger, v, E)
  BY <1>1, FoldExists
<1>3. QED
  BY <1>2 DEF FoldsTo

(* Between two cursors both sets hold the same events.                     *)
SameBetween(E, F, lo, hi) ==
    \A c \in lo + 1 .. hi : {e \in E : e.cursor = c} = {e \in F : e.cursor = c}

(* Two folds that meet at a cursor and find the same events after it agree *)
(* from there on.                                                          *)
LEMMA FoldsAgree ==
    ASSUME NEW v, NEW E, NEW w, NEW F, NEW lo \in Nat, NEW hi \in lo..MaxLedger,
           Values(v, E)[lo] = Values(w, F)[lo], SameBetween(E, F, lo, hi)
    PROVE  Values(v, E)[hi] = Values(w, F)[hi]
<1> DEFINE S == {c \in lo..hi : Values(v, E)[c] = Values(w, F)[c]}
<1>1. ASSUME NEW c \in lo + 1 .. hi, c - 1 \in S PROVE c \in S
  <2> DEFINE x == Values(v, E)[c - 1]
  <2>1. c \in 1..MaxLedger
    OBVIOUS
  <2>2. Values(v, E)[c] = At(x, c, E) /\ Values(w, F)[c] = At(x, c, F)
    BY <1>1, <2>1, ValuesUnfold
  <2> HIDE DEF x
  <2>3. {e \in E : e.cursor = c} = {e \in F : e.cursor = c}
    BY DEF SameBetween
  <2>4. (CHOOSE e \in E : e.cursor = c) = CHOOSE e \in F : e.cursor = c
    <3>1. \A e : (e \in E /\ e.cursor = c) <=> (e \in F /\ e.cursor = c)
      BY <2>3
    <3>2. QED
      BY <3>1
  <2>5. At(x, c, E) = At(x, c, F)
    BY <2>3, <2>4 DEF At
  <2>6. QED
    BY <2>2, <2>5
<1>2. lo \in S
  OBVIOUS
<1>3. hi \in Nat /\ hi \in lo..hi
  OBVIOUS
<1> HIDE DEF S
<1>4. lo..hi \subseteq S
  BY <1>1, <1>2, <1>3, UpTo
<1>5. hi \in S
  BY <1>3, <1>4
<1>6. QED
  BY <1>5 DEF S

(* Where there are no events the balance stays.                            *)
LEMMA FoldStays ==
    ASSUME NEW v, NEW E, NEW lo \in Nat, NEW hi \in lo..MaxLedger,
           \A e \in E : e.cursor \notin lo + 1 .. hi
    PROVE  Values(v, E)[hi] = Values(v, E)[lo]
<1> DEFINE S == {c \in lo..hi : Values(v, E)[c] = Values(v, E)[lo]}
<1>1. ASSUME NEW c \in lo + 1 .. hi, c - 1 \in S PROVE c \in S
  <2>1. c \in 1..MaxLedger
    OBVIOUS
  <2>2. Values(v, E)[c] = Values(v, E)[c - 1]
    BY <2>1, ValuesUnfold DEF At
  <2>3. QED
    BY <1>1, <2>2
<1>2. lo \in S
  OBVIOUS
<1>3. hi \in Nat /\ hi \in lo..hi
  OBVIOUS
<1> HIDE DEF S
<1>4. lo..hi \subseteq S
  BY <1>1, <1>2, <1>3, UpTo
<1>5. hi \in S
  BY <1>3, <1>4
<1>6. QED
  BY <1>5 DEF S

(* The events of A come up to the cursor L, those of B after it.           *)
Splits(A, B, L) ==
    /\ L \in 0..MaxLedger
    /\ \A e \in A : e.cursor \in 1..L
    /\ \A e \in B : e.cursor \in L + 1 .. MaxLedger

(* Folding a page over the balance of the events before it is folding all  *)
(* of them.                                                                *)
LEMMA FoldsCompose ==
    ASSUME NEW x, NEW A, NEW B, NEW L, Splits(A, B, L)
    PROVE  Values(Values(x, A)[MaxLedger], B)[MaxLedger] = Values(x, A \cup B)[MaxLedger]
<1> USE DEF Splits
<1> DEFINE v == Values(x, A)[MaxLedger]
<1>1. v = Values(x, A)[L]
  BY FoldStays
<1>2. Values(x, A)[L] = Values(x, A \cup B)[L]
  <2>1. SameBetween(A, A \cup B, 0, L)
    BY DEF SameBetween
  <2>2. Values(x, A)[0] = Values(x, A \cup B)[0]
    BY ValuesUnfold
  <2>3. QED
    BY <2>1, <2>2, FoldsAgree
<1> HIDE DEF v
<1>3. Values(v, B)[L] = v
  <2>1. Values(v, B)[0] = v
    BY ValuesUnfold
  <2>2. \A e \in B : e.cursor \notin 0 + 1 .. L
    OBVIOUS
  <2>3. Values(v, B)[L] = Values(v, B)[0]
    BY <2>2, FoldStays
  <2>4. QED
    BY <2>1, <2>3
<1>4. SameBetween(B, A \cup B, L, MaxLedger)
  BY DEF SameBetween
<1>5. Values(v, B)[MaxLedger] = Values(x, A \cup B)[MaxLedger]
  <2>1. Values(v, B)[L] = Values(x, A \cup B)[L]
    BY <1>1, <1>2, <1>3
  <2>2. QED
    BY <1>4, <2>1, FoldsAgree
<1>6. QED
  BY <1>5 DEF v

----------------------------------------------------------------------------
(* The balance a state carries is the fold of the events it has consumed,  *)
(* also while history is rewritten under it.                               *)

(* One event per cursor.                                                   *)
Apart(E) == \A e, f \in E : e.cursor = f.cursor => e = f

Folded(s) ==
    /\ s.last \in 0..MaxLedger
    /\ s.value = Values(0, s.applied)[MaxLedger]
    /\ \A e \in s.applied : e.cursor \in 1..s.last
    /\ Apart(s.applied)
    /\ s.applied = {} <=> s.last = 0

FoldInv ==
    /\ IsSeq(chain) /\ IsSeq(archive) /\ Len(chain) <= MaxLedger /\ Len(archive) <= MaxLedger
    /\ Folded(state) /\ Folded(saved)
    /\ pc \in OfPage => /\ Apart(page.events)
                        /\ \A e \in page.events : e.cursor \in state.last + 1 .. MaxLedger
    /\ pc = "replay" => page.events # {}

LEMMA NothingFolded == Folded(initialState)
<1>1. Values(0, {})[MaxLedger] = Values(0, {})[0]
  BY FoldStays
<1>2. Values(0, {})[0] = 0
  BY ValuesUnfold
<1>3. QED
  BY <1>1, <1>2 DEF Folded, initialState, Apart

(* The archive holds one event per ledger, and so does every part of it.   *)
LEMMA FoldPage == ASSUME FoldInv, FetchPage PROVE FoldInv'
<1>1. /\ UNCHANGED <<chain, archive, state, saved>> /\ pc' = "digest"
      /\ page' \in Served(state.last)
  BY DEF FetchPage, network
<1>2. page'.events \subseteq EventsOf(archive, state.last, CURSOR_MAX)
  <2>1. Page(state.last).events \subseteq EventsOf(archive, state.last, CURSOR_MAX)
    BY DEF Page
  <2>2. page'.events \subseteq Page(state.last).events
    BY <1>1 DEF Served
  <2>3. QED
    BY <2>1, <2>2
<1>3. Len(archive) \in Nat /\ state.last \in 0..MaxLedger
  BY SeqIsSeq DEF FoldInv, IsSeq, Folded
<1>4. \A e \in page'.events : e.cursor \in 1..Len(archive) /\ state.last < e.cursor
  BY <1>2, EventCursor DEF FoldInv
<1>5. \A e \in page'.events : e.cursor \in state.last + 1 .. MaxLedger
  BY <1>3, <1>4 DEF FoldInv
<1>6. Apart(page'.events)
  BY <1>2 DEF Apart, EventsOf
<1>7. QED
  BY <1>1, <1>5, <1>6 DEF FoldInv, Folded, OfPage, IsSeq, Blocks

(* A page folded over the state is the fold of both.                       *)
LEMMA FoldReplay == ASSUME FoldInv, ReplayPage PROVE FoldInv'
<1>1. /\ UNCHANGED <<chain, archive, saved>> /\ pc = "replay" /\ pc' \in {"page", "verify"}
      /\ state' = Replayed
  BY DEF ReplayPage, network
<1> DEFINE A == state.applied
           B == page.events
           L == state.last
           M == LastOf(B)
<1>2. /\ L \in 0..MaxLedger /\ state.value = Values(0, A)[MaxLedger]
      /\ \A e \in A : e.cursor \in 1..L
      /\ Apart(A)
  BY DEF FoldInv, Folded
<1>3. Apart(B) /\ B # {} /\ \A e \in B : e.cursor \in L + 1 .. MaxLedger
  BY <1>1 DEF FoldInv, OfPage
<1>4. /\ state'.last = M /\ state'.applied = A \cup B
      /\ state'.value = Values(state.value, B)[MaxLedger]
  BY <1>1 DEF Replayed
<1> HIDE DEF A, B, L, M
<1>5. state'.value = Values(0, A \cup B)[MaxLedger]
  <2>1. Splits(A, B, L)
    BY <1>2, <1>3 DEF Splits
  <2>2. Values(Values(0, A)[MaxLedger], B)[MaxLedger] = Values(0, A \cup B)[MaxLedger]
    BY <2>1, FoldsCompose
  <2>3. QED
    BY <1>2, <1>4, <2>2
<1>6. /\ \E e \in B : e.cursor = M
      /\ \A e \in B : e.cursor <= M
      /\ M \in 1..MaxLedger
  <2>1. \A e \in B : e.cursor \in 1..MaxLedger
    BY <1>2, <1>3
  <2>2. QED
    BY <1>3, <2>1, LastOfIsLast DEF M
<1>7. L < M
  BY <1>2, <1>3, <1>6
<1>8. Apart(A \cup B)
  <2> SUFFICES ASSUME NEW e \in A \cup B, NEW f \in A \cup B, e.cursor = f.cursor PROVE e = f
    BY DEF Apart
  <2>1. CASE e \in A /\ f \in A
    BY <1>2, <2>1 DEF Apart
  <2>2. CASE e \in B /\ f \in B
    BY <1>3, <2>2 DEF Apart
  <2>3. QED
    BY <1>2, <1>3, <2>1, <2>2
<1>9. \A e \in A \cup B : e.cursor \in 1..M
  BY <1>2, <1>3, <1>6, <1>7
<1>10. Folded(state')
  BY <1>3, <1>4, <1>5, <1>6, <1>8, <1>9 DEF Folded
<1>11. QED
  BY <1>1, <1>10 DEF FoldInv, Folded, OfPage, IsSeq, Blocks

(* The network moves under the session, by ledgers or back by any number.  *)
LEMMA FoldNetwork == ASSUME FoldInv, Close \/ Reorg \/ Ingest \/ Rollback PROVE FoldInv'
<1>1. UNCHANGED <<pc, state, saved, page>>
  BY DEF Close, Reorg, Ingest, Rollback, session
<1>2. Len(chain) \in Nat /\ Len(archive) \in Nat /\ IsSeq(chain) /\ IsSeq(archive)
  BY SeqIsSeq DEF FoldInv, IsSeq
<1>3. /\ IsSeq(chain') /\ Len(chain') <= MaxLedger
      /\ IsSeq(archive') /\ Len(archive') <= MaxLedger
  <2>1. CASE Close
    <3>1. PICK b : chain' = Append(chain, b)
      BY <2>1 DEF Close
    <3>2. Len(chain) < MaxLedger /\ archive' = archive
      BY <2>1 DEF Close
    <3>3. IsSeq(chain') /\ Len(chain') = Len(chain) + 1
      BY <1>2, <3>1, AppendIsSeq
    <3>4. QED
      BY <1>2, <3>2, <3>3 DEF FoldInv, IsSeq, Blocks
  <2>2. CASE Reorg
    <3>1. PICK n \in 0 .. Len(chain) - 1 : chain' = SubSeq(chain, 1, n)
      BY <2>2 DEF Reorg
    <3>2. archive' = archive
      BY <2>2 DEF Reorg
    <3>3. n \in 0..Len(chain)
      BY <1>2, <3>1
    <3>4. IsSeq(chain') /\ Len(chain') = n
      BY <1>2, <3>1, <3>3, PrefixIsSeq
    <3>5. n <= MaxLedger
      BY <1>2, <3>3 DEF FoldInv
    <3>6. QED
      BY <3>2, <3>4, <3>5 DEF FoldInv, IsSeq, Blocks
  <2>3. CASE Ingest
    <3>1. /\ Len(archive) < Len(chain) /\ chain' = chain
          /\ archive' = SubSeq(chain, 1, Len(archive) + 1)
      BY <2>3 DEF Ingest
    <3>2. Len(archive) + 1 \in 0..Len(chain)
      BY <1>2, <3>1
    <3>3. IsSeq(archive') /\ Len(archive') = Len(archive) + 1
      BY <1>2, <3>1, <3>2, PrefixIsSeq
    <3>4. QED
      BY <1>2, <3>1, <3>3 DEF FoldInv, IsSeq, Blocks
  <2>4. CASE Rollback
    <3>1. PICK n \in 0 .. Len(archive) - 1 : archive' = SubSeq(archive, 1, n)
      BY <2>4 DEF Rollback
    <3>2. chain' = chain
      BY <2>4 DEF Rollback
    <3>3. n \in 0..Len(archive)
      BY <1>2, <3>1
    <3>4. IsSeq(archive') /\ Len(archive') = n
      BY <1>2, <3>1, <3>3, PrefixIsSeq
    <3>5. n <= MaxLedger
      BY <1>2, <3>3 DEF FoldInv
    <3>6. QED
      BY <3>2, <3>4, <3>5 DEF FoldInv, IsSeq, Blocks
  <2>5. QED
    BY <2>1, <2>2, <2>3, <2>4
<1>4. QED
  BY <1>1, <1>3 DEF FoldInv, Folded, OfPage

(* Every other step leaves state and page as they are, or drops the page.  *)
LEMMA FoldRest ==
    ASSUME FoldInv,
           \/ \E after \in Cursor, to \in 1..CURSOR_MAX : Expire(after, to)
           \/ Start \/ DigestHit \/ DigestMiss \/ PublishDigest \/ CheckPage
           \/ ReadBalance \/ ReadLedger \/ ReadStatus \/ SaveCheckpoint
           \/ RefusePage \/ RefuseReplay \/ Judge \/ FailSync \/ Crash \/ FailRequest
           \/ UNCHANGED vars
    PROVE  FoldInv'
<1>1. UNCHANGED <<chain, archive>>
  BY DEF Start, DigestHit, DigestMiss, PublishDigest, CheckPage, ReadBalance, ReadLedger,
         ReadStatus, SaveCheckpoint, RefusePage, RefuseReplay, Judge, FailSync, Crash,
         FailRequest, Expire, network, vars
<1>2. /\ state' \in {state, saved, initialState} /\ saved' \in {state, saved}
      /\ \/ pc' \notin OfPage
         \/ UNCHANGED <<state, page>> /\ pc \in OfPage /\ (pc' = "replay" => pc = "replay" \/ page.events # {})
  BY DEF Start, DigestHit, DigestMiss, PublishDigest, CheckPage, ReadBalance, ReadLedger,
         ReadStatus, SaveCheckpoint, RefusePage, RefuseReplay, Judge, FailSync, Crash,
         FailRequest, Expire, End, OfPage, session, vars
<1>3. Folded(state') /\ Folded(saved')
  BY <1>2, NothingFolded DEF FoldInv
<1>4. pc' \in OfPage => /\ Apart(page'.events)
                        /\ \A e \in page'.events : e.cursor \in state'.last + 1 .. MaxLedger
  BY <1>2 DEF FoldInv
<1>5. pc' = "replay" => page'.events # {}
  BY <1>2 DEF FoldInv, OfPage
<1>6. QED
  BY <1>1, <1>3, <1>4, <1>5 DEF FoldInv, Folded, IsSeq, Blocks

(* Events apart are as many as their cursors.                              *)
LEMMA ApartCounted ==
    ASSUME NEW E, Apart(E), \A e \in E : e.cursor \in 1..MaxLedger
    PROVE  Cardinality({e.cursor : e \in E}) = Cardinality(E)
<1> DEFINE C == {e.cursor : e \in E}
           g == [c \in C |-> CHOOSE e \in E : e.cursor = c]
<1>1. IsFiniteSet(C)
  <2>1. C \in SUBSET (1..MaxLedger) /\ 1 \in Int /\ MaxLedger \in Int
    OBVIOUS
  <2>2. IsFiniteSet(1..MaxLedger)
    BY <2>1, FS_Interval
  <2> HIDE DEF C
  <2>3. QED
    BY <2>1, <2>2, FS_Subset
<1>2. \A c \in C : g[c] \in E /\ g[c].cursor = c
  OBVIOUS
<1>3. \A e \in E : e.cursor \in C /\ g[e.cursor] = e
  BY <1>2 DEF Apart
<1>4. g \in [C -> E]
  BY <1>2
<1> HIDE DEF g, C
<1>5. g \in Bijection(C, E)
  <2>1. \A c, d \in C : g[c] = g[d] => c = d
    BY <1>2
  <2>2. \A e \in E : \E c \in C : g[c] = e
    BY <1>3
  <2>3. QED
    BY <1>4, <2>1, <2>2 DEF Bijection, Injection, Surjection, IsInjective
<1>6. Cardinality(E) = Cardinality(C)
  BY <1>1, <1>5, FS_Bijection DEF ExistsBijection
<1>7. QED
  BY <1>6 DEF C

(* The balance and the commitment a state carries are of the same events,  *)
(* one per cursor (replayEvents(), RecoverySession.sync()): no event is    *)
(* folded twice or lost between pages, failed syncs and checkpoints, also  *)
(* while the archive is rolled back under the session.                     *)
THEOREM BalanceIsFold == Spec => []ValueIsFold
<1>1. Init => FoldInv
  <2> SUFFICES ASSUME Init PROVE FoldInv
    OBVIOUS
  <2>1. chain = << >> /\ archive = << >> /\ pc = "idle" /\ state = initialState /\ saved = initialState
    BY DEF Init
  <2>2. IsSeq(<< >>) /\ Len(<< >>) = 0
    BY DEF IsSeq, Blocks
  <2>3. QED
    BY <2>1, <2>2, NothingFolded DEF FoldInv, OfPage
<1>2. FoldInv /\ [Next]_vars => FoldInv'
  BY FoldPage, FoldReplay, FoldNetwork, FoldRest DEF Next, Request, Decide, Verify
<1>3. FoldInv => ValueIsFold
  <2> SUFFICES ASSUME FoldInv, NEW s \in {state, saved}
               PROVE  /\ s.value = Values(0, s.applied)[MaxLedger]
                      /\ Cardinality({e.cursor : e \in s.applied}) = Cardinality(s.applied)
                      /\ s.applied = {} <=> s.last = 0
    BY DEF ValueIsFold
  <2>1. Folded(s)
    BY DEF FoldInv
  <2>2. \A e \in s.applied : e.cursor \in 1..MaxLedger
    BY <2>1 DEF Folded
  <2>3. Cardinality({e.cursor : e \in s.applied}) = Cardinality(s.applied)
    BY <2>1, <2>2, ApartCounted DEF Folded
  <2>4. QED
    BY <2>1, <2>3 DEF Folded
<1>4. QED
  BY <1>1, <1>2, <1>3, PTL DEF Spec

----------------------------------------------------------------------------
(* A verdict is explained by what lies beyond the session's cursor.        *)

(* The balance after each ledger of the chain.                             *)
Run(ledgers) == Values(0, EventsOf(ledgers, 0, CURSOR_MAX))

(* What the contract guarantees of its history: a replaced balance is the  *)
(* one there was, debits are covered, and a credit comes first.            *)
Sound(ledgers) ==
    /\ \A n \in 0..Len(ledgers) : Run(ledgers)[n] \in Nat
    /\ \A n \in 1..Len(ledgers) : ledgers[n].entry # Nothing =>
         /\ ledgers[n].entry.amount \in Nat
         /\ ledgers[n].entry.delta = "replace" => ledgers[n].entry.amount = Run(ledgers)[n - 1]
         /\ \E k \in 1..n : ledgers[k].entry # Nothing /\ ledgers[k].entry.delta = "credit"

(* The balance that was read is the chain's after some ledger beyond the   *)
(* session's cursor.                                                       *)
BalanceRead ==
    /\ "balance" \in DOMAIN reads
    /\ pc # "verify" => reads = NoReads
    /\ \/ reads.balance = Unread
       \/ reads.balance = Absent /\ state.applied = {}
       \/ \E k \in state.last .. Len(chain) : reads.balance = Run(chain)[k]

VerdictInv == Sound(chain) /\ BalanceRead

(* An event of a ledger is what the ledger holds.                          *)
LEMMA EventAt ==
    ASSUME NEW s, IsSeq(s), Len(s) <= MaxLedger, NEW n \in 1..Len(s)
    PROVE  {e \in EventsOf(s, 0, CURSOR_MAX) : e.cursor = n} =
             IF s[n].entry = Nothing THEN {}
             ELSE {[cursor |-> n, branch |-> s[n].branch,
                    delta |-> s[n].entry.delta, amount |-> s[n].entry.amount]}
<1>1. DOMAIN s = 1..Len(s) /\ Len(s) \in Nat /\ n <= CURSOR_MAX /\ 0 < n
  BY SeqIsSeq DEF IsSeq, CURSOR_MAX
<1>2. QED
  BY <1>1 DEF EventsOf

(* The balance after a ledger, from the balance before it.                 *)
LEMMA RunUnfold ==
    ASSUME NEW s, IsSeq(s), Len(s) <= MaxLedger
    PROVE  /\ Run(s)[0] = 0
           /\ \A n \in 1..Len(s) :
                /\ s[n].entry = Nothing => Run(s)[n] = Run(s)[n - 1]
                /\ s[n].entry # Nothing => Run(s)[n] = AfterEvent(Run(s)[n - 1], s[n].entry)
<1>1. Run(s)[0] = 0
  BY ValuesUnfold DEF Run
<1>2. ASSUME NEW n \in 1..Len(s)
      PROVE  /\ s[n].entry = Nothing => Run(s)[n] = Run(s)[n - 1]
             /\ s[n].entry # Nothing => Run(s)[n] = AfterEvent(Run(s)[n - 1], s[n].entry)
  <2> DEFINE E == EventsOf(s, 0, CURSOR_MAX)
             x == Run(s)[n - 1]
             r == [cursor |-> n, branch |-> s[n].branch,
                   delta |-> s[n].entry.delta, amount |-> s[n].entry.amount]
  <2>1. n \in 1..MaxLedger
    BY SeqIsSeq DEF IsSeq
  <2>2. Run(s)[n] = At(x, n, E)
    BY <2>1, ValuesUnfold DEF Run
  <2>3. {e \in E : e.cursor = n} = IF s[n].entry = Nothing THEN {} ELSE {r}
    BY EventAt
  <2>4. AfterEvent(x, r) = AfterEvent(x, s[n].entry)
    BY DEF AfterEvent
  <2> HIDE DEF E, x, r
  <2>5. CASE s[n].entry = Nothing
    <3>1. ~\E e \in E : e.cursor = n
      BY <2>3, <2>5
    <3>2. QED
      BY <2>2, <2>5, <3>1 DEF At, x
  <2>6. CASE s[n].entry # Nothing
    <3>1. \A e : (e \in E /\ e.cursor = n) <=> e = r
      BY <2>3, <2>6
    <3>2. (\E e \in E : e.cursor = n) /\ (CHOOSE e \in E : e.cursor = n) = r
      BY <3>1
    <3>3. Run(s)[n] = AfterEvent(x, r)
      BY <2>2, <3>2 DEF At
    <3>4. QED
      BY <2>4, <2>6, <3>3 DEF x
  <2>7. QED
    BY <2>5, <2>6
<1>3. QED
  BY <1>1, <1>2

(* What two chains share, they have run to the same balances.              *)
LEMMA RunShared ==
    ASSUME NEW s, IsSeq(s), Len(s) <= MaxLedger, NEW t, IsSeq(t), Len(t) <= MaxLedger,
           NEW n \in 0..Len(s), n <= Len(t), \A i \in 1..n : t[i] = s[i]
    PROVE  Run(t)[n] = Run(s)[n]
<1>1. Len(s) \in Nat /\ Len(t) \in Nat
  BY SeqIsSeq DEF IsSeq
<1> DEFINE E == EventsOf(s, 0, CURSOR_MAX)
           F == EventsOf(t, 0, CURSOR_MAX)
<1>2. \A c \in 1..n : {e \in F : e.cursor = c} = {e \in E : e.cursor = c}
  <2> SUFFICES ASSUME NEW c \in 1..n
               PROVE  {e \in F : e.cursor = c} = {e \in E : e.cursor = c}
    OBVIOUS
  <2>1. c \in 1..Len(s) /\ c \in 1..Len(t) /\ t[c] = s[c]
    BY <1>1
  <2>2. QED
    BY <2>1, EventAt
<1>3. Run(s)[0] = 0 /\ Run(t)[0] = 0
  BY RunUnfold
<1>4. SameBetween(E, F, 0, n)
  BY <1>2 DEF SameBetween
<1> HIDE DEF E, F
<1>5. Values(0, F)[0] = Values(0, E)[0]
  BY <1>3 DEF Run, E, F
<1>6. n \in 0..MaxLedger /\ 0 \in Nat
  BY <1>1
<1>7. Values(0, E)[n] = Values(0, F)[n]
  BY <1>4, <1>5, <1>6, FoldsAgree
<1>8. QED
  BY <1>7 DEF Run, E, F

(* Without a debit the balance never falls, without a credit never rises.  *)
LEMMA Monotone ==
    ASSUME NEW s, IsSeq(s), Len(s) <= MaxLedger, Sound(s),
           NEW lo \in 0..Len(s), NEW hi \in lo..Len(s)
    PROVE  /\ \/ Run(s)[lo] <= Run(s)[hi]
              \/ \E e \in EventsOf(s, lo, CURSOR_MAX) : e.delta = "debit"
           /\ \/ Run(s)[hi] <= Run(s)[lo]
              \/ \E e \in EventsOf(s, lo, CURSOR_MAX) : e.delta = "credit"
<1>1. Len(s) \in Nat /\ DOMAIN s = 1..Len(s)
  BY SeqIsSeq DEF IsSeq
<1> DEFINE Debit == \E e \in EventsOf(s, lo, CURSOR_MAX) : e.delta = "debit"
           Credit == \E e \in EventsOf(s, lo, CURSOR_MAX) : e.delta = "credit"
           S == {c \in lo..hi : /\ Run(s)[lo] <= Run(s)[c] \/ Debit
                                /\ Run(s)[c] <= Run(s)[lo] \/ Credit}
<1>2. \A c \in 0..Len(s) : Run(s)[c] \in Nat
  BY DEF Sound
<1>3. lo \in S
  BY <1>1, <1>2
<1>4. ASSUME NEW c \in lo + 1 .. hi, c - 1 \in S PROVE c \in S
  <2>1. c \in 1..Len(s) /\ lo < c /\ c <= CURSOR_MAX
    BY <1>1 DEF CURSOR_MAX
  <2>2. PICK x \in Nat, y \in Nat, z \in Nat : x = Run(s)[c - 1] /\ y = Run(s)[c] /\ z = Run(s)[lo]
    BY <1>1, <1>2, <2>1
  <2> DEFINE r == [cursor |-> c, branch |-> s[c].branch,
                   delta |-> s[c].entry.delta, amount |-> s[c].entry.amount]
  <2>3. s[c].entry # Nothing => r \in EventsOf(s, lo, CURSOR_MAX)
    BY <1>1, <2>1 DEF EventsOf
  <2>4. \/ y = x
        \/ x <= y /\ Credit
        \/ y <= x /\ Debit
    <3>1. CASE s[c].entry = Nothing
      BY <2>1, <2>2, <3>1, RunUnfold
    <3>2. CASE s[c].entry # Nothing
      <4>1. y = AfterEvent(x, s[c].entry)
        BY <2>1, <2>2, <3>2, RunUnfold
      <4>2. /\ s[c].entry.amount \in Nat
            /\ s[c].entry.delta = "replace" => s[c].entry.amount = x
        BY <2>1, <2>2, <3>2 DEF Sound
      <4> HIDE DEF Debit, Credit
      <4>3. PICK a \in Nat : a = s[c].entry.amount
        BY <4>2
      <4>4. CASE s[c].entry.delta = "credit"
        <5>1. Credit
          BY <2>3, <3>2, <4>4 DEF Credit
        <5>2. y = x + a
          BY <4>3, <4>1, <4>4 DEF AfterEvent
        <5>3. x <= y
          BY <5>2
        <5>4. QED
          BY <5>1, <5>3
      <4>5. CASE s[c].entry.delta = "debit"
        <5>1. Debit
          BY <2>3, <3>2, <4>5 DEF Debit
        <5>2. y = x - a
          BY <4>3, <4>1, <4>5 DEF AfterEvent
        <5>3. y <= x
          BY <5>2
        <5>4. QED
          BY <5>1, <5>3
      <4>6. CASE s[c].entry.delta \notin {"credit", "debit"}
        BY <4>1, <4>2, <4>6 DEF AfterEvent
      <4>7. QED
        BY <4>4, <4>5, <4>6
    <3>3. QED
      BY <3>1, <3>2
  <2> HIDE DEF Debit, Credit
  <2>5. (z <= x \/ Debit) /\ (x <= z \/ Credit)
    BY <1>4, <2>2
  <2>6. (z <= y \/ Debit) /\ (y <= z \/ Credit)
    BY <2>4, <2>5
  <2>7. QED
    BY <2>2, <2>6
<1>5. lo..hi \subseteq S
  <2> HIDE DEF S
  <2>1. lo \in Nat /\ hi \in Nat
    BY <1>1
  <2>2. QED
    BY <1>3, <1>4, <2>1, UpTo
<1>6. hi \in S
  BY <1>1, <1>5
<1>7. QED
  BY <1>6

(* The balance of a chain is the one after its last ledger.                *)
LEMMA BalanceIsRun ==
    ASSUME NEW s, IsSeq(s), Len(s) <= MaxLedger
    PROVE  Balance(s) = Run(s)[Len(s)]
<1> DEFINE E == EventsOf(s, 0, CURSOR_MAX)
<1>1. \A e \in E : e.cursor \in 1..Len(s)
  BY EventCursor
<1>2. Len(s) \in Nat /\ MaxLedger \in Len(s)..MaxLedger
  BY SeqIsSeq DEF IsSeq
<1>3. \A e \in E : e.cursor \notin Len(s) + 1 .. MaxLedger
  BY <1>1, <1>2
<1> HIDE DEF E
<1>4. Values(0, E)[MaxLedger] = Values(0, E)[Len(s)]
  BY <1>2, <1>3, FoldStays
<1>5. QED
  BY <1>4 DEF Balance, Run, E

(* An account with any history has been credited.                          *)
LEMMA CreditFirst ==
    ASSUME Behind, Sound(chain), NEW n \in 1..Len(chain), chain[n].entry # Nothing
    PROVE  Balanced
<1>1. PICK k \in 1..n : chain[k].entry # Nothing /\ chain[k].entry.delta = "credit"
  BY DEF Sound
<1>2. /\ DOMAIN chain = 1..Len(chain) /\ Len(chain) \in Nat /\ k \in DOMAIN chain
      /\ 0 < k /\ k <= CURSOR_MAX
  BY SeqIsSeq DEF Behind, IsSeq, CURSOR_MAX
<1> DEFINE r == [cursor |-> k, branch |-> chain[k].branch,
                 delta |-> chain[k].entry.delta, amount |-> chain[k].entry.amount]
<1>3. r \in EventsOf(chain, 0, CURSOR_MAX)
  BY <1>1, <1>2 DEF EventsOf
<1>4. QED
  BY <1>1, <1>3 DEF Balanced

(* What the contract lets a ledger do to the balance.                      *)
LEMMA SoundClose == ASSUME Behind, Behind', Sound(chain), Close PROVE Sound(chain')
<1>1. PICK e \in Entries : chain' = Append(chain, [branch |-> epoch, entry |-> e])
  BY DEF Close
<1> DEFINE m == Len(chain) + 1
<1>2. /\ IsSeq(chain) /\ IsSeq(chain') /\ Len(chain) \in Nat /\ Len(chain') = m
      /\ m <= MaxLedger /\ Len(chain) <= MaxLedger
      /\ \A i \in 1..Len(chain) : chain'[i] = chain[i]
  BY <1>1, AppendIsSeq, SeqIsSeq DEF Behind, IsSeq, Close
<1>3. chain'[m].entry = e
  <2>1. chain'[m] = [branch |-> epoch, entry |-> e]
    BY <1>1, <1>2 DEF IsSeq
  <2>2. QED
    BY <2>1
<1>4. \A n \in 0..Len(chain) : Run(chain')[n] = Run(chain)[n]
  <2> SUFFICES ASSUME NEW n \in 0..Len(chain) PROVE Run(chain')[n] = Run(chain)[n]
    OBVIOUS
  <2>1. n <= Len(chain') /\ \A i \in 1..n : chain'[i] = chain[i]
    BY <1>2
  <2>2. QED
    BY <1>2, <2>1, RunShared
<1>5. \A n \in 1..Len(chain) : chain'[n].entry # Nothing =>
         /\ chain'[n].entry.amount \in Nat
         /\ chain'[n].entry.delta = "replace" => chain'[n].entry.amount = Run(chain')[n - 1]
         /\ \E k \in 1..n : chain'[k].entry # Nothing /\ chain'[k].entry.delta = "credit"
  <2> SUFFICES ASSUME NEW n \in 1..Len(chain), chain'[n].entry # Nothing
               PROVE  /\ chain'[n].entry.amount \in Nat
                      /\ chain'[n].entry.delta = "replace" => chain'[n].entry.amount = Run(chain')[n - 1]
                      /\ \E k \in 1..n : chain'[k].entry # Nothing /\ chain'[k].entry.delta = "credit"
    OBVIOUS
  <2>1. chain'[n] = chain[n] /\ n - 1 \in 0..Len(chain) /\ \A k \in 1..n : chain'[k] = chain[k]
    BY <1>2
  <2>2. QED
    BY <1>4, <2>1 DEF Sound
<1>6. PICK x \in Nat : x = Run(chain)[Len(chain)]
  BY <1>2 DEF Sound
<1>7. Balance(chain) = x
  BY <1>2, <1>6, BalanceIsRun
<1>8. Run(chain')[m] = IF e = Nothing THEN x ELSE AfterEvent(x, e)
  <2>1. m \in 1..Len(chain') /\ m - 1 = Len(chain) /\ Len(chain) \in 0..Len(chain)
    BY <1>2
  <2>2. Run(chain')[m - 1] = x
    BY <1>4, <1>6, <2>1
  <2>3. QED
    BY <1>2, <1>3, <2>1, <2>2, RunUnfold
<1>9. /\ Run(chain')[m] \in Nat
      /\ e # Nothing => /\ e.amount \in Nat /\ (e.delta = "replace" => e.amount = x)
                        /\ e.delta = "credit" \/ Balanced
  <2>1. CASE e = Nothing
    BY <1>8, <2>1
  <2>2. CASE e # Nothing
    <3>1. /\ e \in [delta: Deltas, amount: Amounts \cup {0, Balance(chain)}]
          /\ CASE e.delta = "credit"  -> e.amount \in Amounts
               [] e.delta = "debit"   -> Balanced /\ e.amount \in Amounts /\ e.amount <= Balance(chain)
               [] e.delta = "replace" -> Balanced /\ e.amount = Balance(chain)
               [] e.delta = "none"    -> Balanced /\ e.amount = 0
      BY <2>2 DEF Entries
    <3>2. e.delta \in {"credit", "debit", "replace", "none"} /\ e.amount \in Nat
      BY <1>7, <3>1
    <3>3. CASE e.delta = "credit"
      BY <1>8, <2>2, <3>2, <3>3 DEF AfterEvent
    <3>4. CASE e.delta = "debit"
      <4>1. e.amount <= x /\ Balanced
        BY <1>7, <3>1, <3>4
      <4>2. Run(chain')[m] = x - e.amount
        BY <1>8, <2>2, <3>4 DEF AfterEvent
      <4>3. QED
        BY <3>2, <3>4, <4>1, <4>2
    <3>5. CASE e.delta = "replace"
      BY <1>7, <1>8, <2>2, <3>1, <3>2, <3>5 DEF AfterEvent
    <3>6. CASE e.delta = "none"
      BY <1>7, <1>8, <2>2, <3>1, <3>2, <3>6 DEF AfterEvent
    <3>7. QED
      BY <3>2, <3>3, <3>4, <3>5, <3>6
  <2>3. QED
    BY <2>1, <2>2
<1>10. e # Nothing => \E k \in 1..m : chain'[k].entry # Nothing /\ chain'[k].entry.delta = "credit"
  <2> SUFFICES ASSUME e # Nothing, e.delta # "credit"
               PROVE  \E k \in 1..m : chain'[k].entry # Nothing /\ chain'[k].entry.delta = "credit"
    BY <1>2, <1>3
  <2>1. Balanced
    BY <1>9
  <2>2. PICK f \in EventsOf(chain, 0, CURSOR_MAX) : f.delta = "credit"
    BY <2>1 DEF Balanced
  <2>3. DOMAIN chain = 1..Len(chain)
    BY <1>2, SeqIsSeq DEF IsSeq
  <2>4. PICK k \in 1..Len(chain) : chain[k].entry # Nothing /\ chain[k].entry.delta = "credit"
    BY <2>2, <2>3 DEF EventsOf
  <2>5. QED
    BY <1>2, <2>4
<1>11. \A n \in 0..m : n \in 0..Len(chain) \/ n = m
  BY <1>2
<1>12. \A n \in 1..m : n \in 1..Len(chain) \/ n = m
  BY <1>2
<1>13. m - 1 = Len(chain) /\ Run(chain')[m - 1] = x
  BY <1>2, <1>4, <1>6
<1> HIDE DEF m
<1>14. \A n \in 0..m : Run(chain')[n] \in Nat
  BY <1>4, <1>9, <1>11 DEF Sound
<1>15. \A n \in 1..m : chain'[n].entry # Nothing =>
         /\ chain'[n].entry.amount \in Nat
         /\ chain'[n].entry.delta = "replace" => chain'[n].entry.amount = Run(chain')[n - 1]
         /\ \E k \in 1..n : chain'[k].entry # Nothing /\ chain'[k].entry.delta = "credit"
  BY <1>3, <1>5, <1>9, <1>10, <1>12, <1>13
<1>16. QED
  BY <1>2, <1>14, <1>15 DEF Sound

(* The network's ledgers do not move the balance that was read.            *)
LEMMA VerdictNetwork ==
    ASSUME IInv, IInv', VerdictInv, Close \/ Reorg \/ Ingest \/ Rollback
    PROVE  VerdictInv'
<1>1. UNCHANGED <<pc, state, reads>> /\ ~Reorg
  BY DEF Close, Reorg, Ingest, Rollback, session, IInv
<1>2. Sound(chain)'
  <2>1. CASE Close
    BY <2>1, SoundClose DEF IInv, VerdictInv
  <2>2. CASE ~Close
    <3>1. chain' = chain
      BY <1>1, <2>2 DEF Ingest, Rollback
    <3>2. QED
      BY <3>1 DEF VerdictInv
  <2>3. QED
    BY <2>1, <2>2
<1>3. /\ IsSeq(chain) /\ IsSeq(chain') /\ Len(chain) \in Nat /\ Len(chain') \in Nat
      /\ Len(chain) <= MaxLedger /\ Len(chain') <= MaxLedger
  BY SeqIsSeq DEF IInv, Behind, IsSeq
<1>4. Len(chain) <= Len(chain') /\ \A i \in 1..Len(chain) : chain'[i] = chain[i]
  <2>1. CASE Close
    BY <1>3, <2>1, AppendIsSeq DEF Close
  <2>2. CASE ~Close
    BY <1>1, <1>3, <2>2 DEF Ingest, Rollback
  <2>3. QED
    BY <2>1, <2>2
<1>5. \A k \in 0..Len(chain) : k \in 0..Len(chain') /\ Run(chain')[k] = Run(chain)[k]
  <2> SUFFICES ASSUME NEW k \in 0..Len(chain)
               PROVE  k \in 0..Len(chain') /\ Run(chain')[k] = Run(chain)[k]
    OBVIOUS
  <2>1. k <= Len(chain') /\ \A i \in 1..k : chain'[i] = chain[i]
    BY <1>3, <1>4
  <2>2. QED
    BY <1>3, <2>1, RunShared
<1>6. state.last \in Nat
  BY ArchiveEnds DEF IInv, States, Consumed
<1>7. ASSUME NEW k \in state.last .. Len(chain), reads.balance = Run(chain)[k]
      PROVE  k \in state.last .. Len(chain') /\ reads.balance = Run(chain')[k]
  BY <1>3, <1>5, <1>6, <1>7
<1>8. BalanceRead'
  BY <1>1, <1>7 DEF VerdictInv, BalanceRead
<1>9. QED
  BY <1>2, <1>8 DEF VerdictInv

(* The balance read is the chain's as it stands, and an account that has   *)
(* none has no history.                                                    *)
LEMMA VerdictRead == ASSUME IInv, VerdictInv, ReadBalance PROVE VerdictInv'
<1>1. /\ UNCHANGED <<chain, state, pc>> /\ pc = "verify"
      /\ reads' = [reads EXCEPT !.balance = ChainBalance]
  BY DEF ReadBalance, network
<1>2. reads'.balance = ChainBalance /\ "balance" \in DOMAIN reads'
  BY <1>1 DEF VerdictInv, BalanceRead
<1>3. /\ IsSeq(chain) /\ Len(chain) \in Nat /\ Len(chain) <= MaxLedger
      /\ Len(archive) \in Nat /\ Len(archive) <= Len(chain)
      /\ state.last \in 0..Len(archive) /\ state.applied = EventsOf(archive, 0, state.last)
  BY SeqIsSeq DEF IInv, Behind, IsSeq, States, Consumed
<1>4. CASE Balanced
  <2>1. reads'.balance = Run(chain)[Len(chain)]
    BY <1>2, <1>3, <1>4, BalanceIsRun DEF ChainBalance
  <2>2. Len(chain) \in state.last .. Len(chain)
    BY <1>3
  <2>3. BalanceRead'
    BY <1>1, <1>2, <2>1, <2>2 DEF BalanceRead
  <2>4. QED
    BY <1>1, <2>3 DEF VerdictInv
<1>5. CASE ~Balanced
  <2>1. state.applied = {}
    <3> SUFFICES ASSUME NEW e \in EventsOf(archive, 0, state.last) PROVE FALSE
      BY <1>3
    <3>1. DOMAIN archive = 1..Len(archive)
      BY SeqIsSeq DEF IInv, Behind, IsSeq
    <3>2. PICK n \in 1..Len(archive) : archive[n].entry # Nothing
      BY <3>1 DEF EventsOf
    <3>3. n \in 1..Len(chain) /\ chain[n].entry # Nothing
      BY <1>3, <3>2 DEF IInv, Behind
    <3>4. QED
      BY <1>5, <3>3, CreditFirst DEF IInv, VerdictInv
  <2>2. reads'.balance = Absent
    BY <1>2, <1>5 DEF ChainBalance
  <2>3. BalanceRead'
    BY <1>1, <1>2, <2>1, <2>2 DEF BalanceRead
  <2>4. QED
    BY <1>1, <2>3 DEF VerdictInv
<1>6. QED
  BY <1>4, <1>5

(* No other step of the session touches the balance that was read while it *)
(* is being verified.                                                      *)
LEMMA VerdictRest ==
    ASSUME IInv, VerdictInv,
           \/ \E after \in Cursor, to \in 1..CURSOR_MAX : Expire(after, to)
           \/ Start \/ FetchPage \/ DigestHit \/ DigestMiss \/ PublishDigest
           \/ CheckPage \/ ReplayPage \/ ReadLedger \/ ReadStatus \/ SaveCheckpoint
           \/ RefusePage \/ RefuseReplay \/ Judge \/ FailSync \/ Crash \/ FailRequest
           \/ UNCHANGED vars
    PROVE  VerdictInv'
<1>1. chain' = chain
  BY DEF Expire, Start, FetchPage, DigestHit, DigestMiss, PublishDigest, CheckPage, ReplayPage,
         ReadLedger, ReadStatus, SaveCheckpoint, RefusePage, RefuseReplay, Judge, FailSync,
         Crash, FailRequest, network, vars
<1>2. \/ reads' = NoReads
      \/ pc = "verify" /\ UNCHANGED <<pc, state>>
         /\ \/ UNCHANGED reads
            \/ \E x : reads' = [reads EXCEPT !.ledger = x]
            \/ \E x : reads' = [reads EXCEPT !.status = x]
  <2>1. CASE pc = "verify"
    BY <2>1
       DEF Expire, Start, FetchPage, DigestHit, DigestMiss, PublishDigest, CheckPage, ReplayPage,
           ReadLedger, ReadStatus, SaveCheckpoint, RefusePage, RefuseReplay, Judge, FailSync,
           Crash, FailRequest, End, session, vars
  <2>2. CASE pc # "verify"
    <3>1. reads = NoReads
      BY <2>2 DEF VerdictInv, BalanceRead
    <3>2. reads' \in {reads, NoReads}
      BY <2>2
         DEF Expire, Start, FetchPage, DigestHit, DigestMiss, PublishDigest, CheckPage,
             ReplayPage, ReadLedger, ReadStatus, SaveCheckpoint, RefusePage, RefuseReplay,
             Judge, FailSync, Crash, FailRequest, End, session, vars
    <3>3. QED
      BY <3>1, <3>2
  <2>3. QED
    BY <2>1, <2>2
<1>3. CASE reads' = NoReads
  <2>1. reads'.balance = Unread /\ "balance" \in DOMAIN reads'
    BY <1>3 DEF NoReads
  <2>2. QED
    BY <1>1, <1>3, <2>1 DEF VerdictInv, BalanceRead
<1>4. CASE pc = "verify" /\ UNCHANGED <<pc, state, reads>>
  BY <1>1, <1>4 DEF VerdictInv, BalanceRead
<1>5. CASE /\ pc = "verify" /\ UNCHANGED <<pc, state>>
           /\ \/ \E x : reads' = [reads EXCEPT !.ledger = x]
              \/ \E x : reads' = [reads EXCEPT !.status = x]
  <2>1. reads'.balance = reads.balance /\ "balance" \in DOMAIN reads'
    BY <1>5 DEF VerdictInv, BalanceRead
  <2>2. QED
    BY <1>1, <1>5, <2>1 DEF VerdictInv, BalanceRead
<1>6. QED
  BY <1>2, <1>3, <1>4, <1>5

Followed == Gathered /\ FoldInv /\ (epoch = 0 => VerdictInv)

LEMMA StepFollowed == ASSUME Followed, [Next]_vars PROVE Followed'
<1>1. Gathered' /\ epoch \in Nat /\ epoch <= epoch' /\ epoch' \in Nat
  BY StepGathered, StepUnforked DEF Followed, Gathered, Unforked
<1>2. FoldInv'
  BY FoldPage, FoldReplay, FoldNetwork, FoldRest DEF Followed, Next, Request, Decide, Verify
<1>3. ASSUME epoch' = 0 PROVE VerdictInv'
  <2>1. epoch = 0 /\ IInv /\ IInv' /\ VerdictInv
    BY <1>1, <1>3 DEF Followed, Gathered, Unforked
  <2>2. QED
    BY <2>1, VerdictNetwork, VerdictRead, VerdictRest DEF Next, Request, Decide, Verify
<1>4. QED
  BY <1>1, <1>2, <1>3 DEF Followed

LEMMA InitFollowed == Init => Followed
<1> SUFFICES ASSUME Init PROVE Followed
  OBVIOUS
<1>1. /\ chain = << >> /\ archive = << >> /\ pc = "idle" /\ state = initialState
      /\ saved = initialState /\ reads = NoReads
  BY DEF Init
<1>2. IsSeq(<< >>) /\ Len(<< >>) = 0 /\ Len(<< >>) <= MaxLedger
  BY DEF IsSeq, Blocks
<1>3. FoldInv
  BY <1>1, <1>2, NothingFolded DEF FoldInv, OfPage
<1>4. Run(<< >>)[0] = 0
  BY <1>2, RunUnfold
<1>5. Sound(<< >>)
  BY <1>2, <1>4 DEF Sound
<1>6. VerdictInv
  BY <1>1, <1>5 DEF VerdictInv, BalanceRead, NoReads
<1>7. QED
  BY <1>3, <1>6, InitGathered DEF Followed

(* What a session has replayed is the chain's balance at its cursor.       *)
LEMMA BalanceHeld ==
    ASSUME IInv, FoldInv
    PROVE  state.last \in 0..Len(chain) /\ state.value = Run(chain)[state.last]
<1>1. /\ IsSeq(chain) /\ Len(chain) \in Nat /\ Len(chain) <= MaxLedger /\ IsSeq(archive)
      /\ Len(archive) \in Nat /\ Len(archive) <= Len(chain)
      /\ state.last \in 0..Len(archive) /\ state.applied = EventsOf(archive, 0, state.last)
  BY SeqIsSeq DEF IInv, Behind, IsSeq, States, Consumed
<1>2. state.value = Values(0, state.applied)[MaxLedger] /\ \A e \in state.applied : e.cursor \in 1..state.last
  BY DEF FoldInv, Folded
<1> DEFINE L == state.last
           A == state.applied
           E == EventsOf(chain, 0, CURSOR_MAX)
<1>3. L \in 0..MaxLedger /\ MaxLedger \in L..MaxLedger
  BY <1>1
<1>4. Values(0, A)[MaxLedger] = Values(0, A)[L]
  <2>1. \A e \in A : e.cursor \notin L + 1 .. MaxLedger
    BY <1>1, <1>2
  <2> HIDE DEF L, A
  <2>2. QED
    BY <1>3, <2>1, FoldStays
<1>5. A = EventsOf(chain, 0, L)
  <2>1. \A i \in 1..Len(archive) : chain[i] = archive[i]
    BY DEF IInv, Behind
  <2>2. QED
    BY <1>1, <2>1, HistoryKept
<1>6. A = {e \in E : e.cursor <= L}
  <2>1. DOMAIN chain = 1..Len(chain) /\ L \in 0..MaxLedger /\ CURSOR_MAX = MaxLedger + 1
    BY <1>1, <1>3, SeqIsSeq DEF IsSeq, CURSOR_MAX
  <2> HIDE DEF L, A
  <2>2. QED
    BY <1>5, <2>1 DEF EventsOf
<1>7. SameBetween(A, E, 0, L)
  <2>1. \A e \in E : e.cursor \in Int
    BY <1>1, EventCursor
  <2> HIDE DEF L, A, E
  <2>2. QED
    BY <1>3, <1>6, <2>1 DEF SameBetween
<1>8. Values(0, A)[0] = Values(0, E)[0]
  BY ValuesUnfold
<1>9. Values(0, A)[L] = Values(0, E)[L]
  <2> HIDE DEF L, A, E
  <2>1. QED
    BY <1>3, <1>7, <1>8, FoldsAgree
<1>10. QED
  BY <1>1, <1>2, <1>4, <1>9 DEF Run

(* A session that disagrees with the chain is behind it (verify()): that   *)
(* the chain holds less is a debit, that it holds more a credit, beyond    *)
(* the session's cursor, in whatever order the three reads were answered   *)
(* while the chain moved on.                                               *)
THEOREM DisagreementExplained == Spec => VerdictsExplained
<1> DEFINE Ahead == {e.delta : e \in EventsOf(chain, state.last, CURSOR_MAX)}
<1>1. ASSUME Followed, [Next]_vars, pc = "verify", epoch = 0
      PROVE  /\ outcome' = "BALANCE_MISMATCH" => "debit" \in Ahead
             /\ outcome' = "MISSING_EVENTS" => "credit" \in Ahead
  <2>1. IInv /\ TailInv /\ FoldInv /\ VerdictInv
    BY <1>1 DEF Followed, Gathered, Unforked
  <2> SUFFICES ASSUME outcome' \in {"BALANCE_MISMATCH", "MISSING_EVENTS"}
               PROVE  /\ outcome' = "BALANCE_MISMATCH" => "debit" \in Ahead
                      /\ outcome' = "MISSING_EVENTS" => "credit" \in Ahead
    OBVIOUS
  <2>2. Judge
    <3>1. outcome = "none"
      BY <1>1, <2>1 DEF TailInv, Underway
    <3>2. outcome' # outcome
      BY <3>1
    <3>3. Next
      BY <1>1, <3>2 DEF vars
    <3>4. QED
      BY <1>1, <3>2, <3>3
         DEF Next, Close, Reorg, Ingest, Rollback, Expire, Start, Request, FetchPage,
             DigestHit, DigestMiss, PublishDigest, Decide, CheckPage, RefusePage,
             ReplayPage, RefuseReplay, Verify, ReadBalance, ReadLedger, ReadStatus,
             SaveCheckpoint, FailRequest, FailSync, Crash, End, session
  <2>3. outcome' = Verdict /\ reads.balance # Unread
    BY <2>2 DEF Judge, End
  <2>4. state.last \in 0..Len(chain) /\ state.value = Run(chain)[state.last]
    BY <2>1, BalanceHeld
  <2>5. IsSeq(chain) /\ Len(chain) <= MaxLedger /\ Len(chain) \in Nat /\ Sound(chain)
    BY <2>1, SeqIsSeq DEF IInv, Behind, IsSeq, VerdictInv
  <2>6. CASE reads.balance = Absent /\ state.applied = {}
    BY <2>3, <2>6 DEF Verdict
  <2>7. CASE \E k \in state.last .. Len(chain) : reads.balance = Run(chain)[k]
    <3>1. PICK k \in state.last .. Len(chain) : reads.balance = Run(chain)[k]
      BY <2>7
    <3>2. PICK b \in Nat, v \in Nat : b = reads.balance /\ v = state.value
      BY <2>4, <2>5, <3>1 DEF Sound
    <3>3. b # Absent
      BY <3>2 DEF Absent
    <3>4. /\ outcome' = "BALANCE_MISMATCH" => b < v
          /\ outcome' = "MISSING_EVENTS" => b > v
      BY <2>3, <3>2, <3>3 DEF Verdict
    <3>5. /\ \/ v <= b
             \/ \E e \in EventsOf(chain, state.last, CURSOR_MAX) : e.delta = "debit"
          /\ \/ b <= v
             \/ \E e \in EventsOf(chain, state.last, CURSOR_MAX) : e.delta = "credit"
      BY <2>4, <2>5, <3>1, <3>2, Monotone
    <3>6. QED
      BY <3>2, <3>4, <3>5
  <2>8. QED
    BY <2>1, <2>3, <2>6, <2>7 DEF VerdictInv, BalanceRead
<1>2. Followed /\ [Next]_vars =>
        [pc = "verify" /\ epoch = 0 =>
           LET ahead == {e.delta : e \in EventsOf(chain, state.last, CURSOR_MAX)}
           IN  /\ outcome' = "BALANCE_MISMATCH" => "debit" \in ahead
               /\ outcome' = "MISSING_EVENTS" => "credit" \in ahead]_vars
  BY <1>1
<1>3. Followed /\ [Next]_vars => Followed'
  BY StepFollowed
<1>4. QED
  BY <1>2, <1>3, InitFollowed, PTL DEF Spec, VerdictsExplained
=============================================================================
