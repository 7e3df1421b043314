--------------------------- MODULE ServicesProofs ---------------------------
(***************************************************************************)
(* What the services promise for every value of the constants: any number  *)
(* of requests in progress, of sessions, clients, builds and instances, any*)
(* ranges, times to live, cache sizes and limits, and whatever becomes of  *)
(* the archive and of Redis meanwhile.                                     *)
(***************************************************************************)
EXTENDS Services, TLAPS, SequenceTheorems, FiniteSetTheorems

USE ServedArchiveAssumption, ApiAssumption

----------------------------------------------------------------------------
(* The handlers, and a step of one of them.                                *)
IsHandlers == handler = [h \in Handlers |-> handler[h]]

Moves(h, l) == handler' = [handler EXCEPT ![h] = l]

----------------------------------------------------------------------------
(* The invariant.  Nothing that was committed before instant t is missing  *)
(* from version v of the archive; a cached digest is that good for the     *)
(* instant its entry tells, and a call in progress for one it has not been *)
(* asked after.                                                            *)

Since(v, t) ==
    /\ v \in 0..Version /\ t <= now
    /\ v < Version => changedAt[v + 1] >= t

Commitment == [request: Digests, asOf: Nat, age: Nat]
Entry == [key: {CacheKey(q) : q \in Digests}, digest: Commitment, expiresAt: Nat]

EntryOk(e) ==
    /\ e.key = CacheKey(e.digest.request)
    /\ Since(e.digest.asOf, e.expiresAt - TtlOf(e.digest.request) - e.digest.age)

Fresh(l) ==
    /\ l.digest.asOf \in 0..Version
    /\ l.digest.asOf < Version =>
         changedAt[l.digest.asOf + 1] > l.asked - TtlOf(l.digest.request) - l.digest.age

CallOk(l) ==
    /\ l.at \in {"get", "events", "set", "send"} => l.asked \in Nat /\ l.asked <= now
    /\ l.at \in {"get", "events"} => l.request \in Digests
    /\ l.at = "events" /\ l.asOf # -1 =>
         l.asOf \in Nat /\ l.readAt \in Nat /\ l.asked <= l.readAt /\ Since(l.asOf, l.readAt)
    /\ l.at = "set" =>
         /\ l.digest \in Commitment /\ l.since \in Nat /\ l.since <= now
         /\ l.asked <= l.since - l.digest.age /\ Since(l.digest.asOf, l.since - l.digest.age)
    /\ l.at = "send" =>
         /\ l.request \in Digests /\ l.digest \in Commitment
         /\ CacheKey(l.request) = CacheKey(l.digest.request) /\ Fresh(l)

ApiTypes ==
    /\ IsHandlers
    /\ now \in Nat /\ changedAt \in Seq(Nat)

GoodEntries == {e \in Entry : EntryOk(e)}

ApiInv ==
    /\ ApiTypes
    /\ entries \in Seq(GoodEntries)
    /\ \A h \in Handlers : CallOk(handler[h])

(* A key tells the range, and with it the time to live.                    *)
LEMMA KeyTellsRange ==
    ASSUME NEW p \in Digests, NEW q \in Digests, CacheKey(p) = CacheKey(q)
    PROVE  /\ p.exclusive = q.exclusive /\ p.from = q.from /\ p.to = q.to
           /\ TtlOf(p) = TtlOf(q)
BY DEF CacheKey, KeyOf, TtlOf

(* Every name is written with a piece at least, so that a key of two pieces*)
(* was joined of one and one.                                              *)
LEMMA KeyTellsNames ==
    ASSUME NEW p \in Digests, NEW q \in Digests, CacheKey(p) = CacheKey(q), OfOnePiece(q)
    PROVE  SameName(p.account, q.account) /\ SameName(p.contract, q.contract)
<1>1. /\ p.account \in Name /\ p.contract \in Name /\ q.account \in Name /\ q.contract \in Name
  BY DigestsAssumption
<1>2. ASSUME NEW n \in Name
      PROVE  /\ Written(n) \in Name /\ Len(Written(n)) \in Nat /\ Len(Written(n)) >= 1
  <2>1. CASE n = Unnamed
    <3>1. Everybody \in Seq(Pieces) /\ Len(Everybody) = 1
      BY DigestsAssumption DEF Everybody
    <3>2. Written(n) = Everybody
      BY <2>1 DEF Written
    <3>3. QED
      BY <3>1, <3>2 DEF Name
  <2>2. CASE n # Unnamed
    BY <2>2, EmptySeq, LenProperties DEF Written, Unnamed, Name
  <2>3. QED
    BY <2>1, <2>2
<1>3. Written(p.account) \o Written(p.contract) = Written(q.account) \o Written(q.contract)
  BY DEF CacheKey, KeyOf
<1>4. ASSUME NEW a \in Name, NEW b \in Name, Written(a) = Written(b)
      PROVE  SameName(a, b)
  BY <1>4 DEF Written, SameName
<1>5. Written(p.account) = Written(q.account) /\ Written(p.contract) = Written(q.contract)
  <2>1. PICK a, b, c, d : /\ a = Written(p.account) /\ b = Written(p.contract)
                          /\ c = Written(q.account) /\ d = Written(q.contract)
    OBVIOUS
  <2>2. /\ a \in Seq(Pieces) /\ b \in Seq(Pieces) /\ c \in Seq(Pieces) /\ d \in Seq(Pieces)
        /\ Len(a) >= 1 /\ Len(b) >= 1 /\ Len(a) \in Nat /\ Len(b) \in Nat
    BY <1>1, <1>2, <2>1 DEF Name
  <2>3. a \o b = c \o d /\ Len(c) = 1 /\ Len(d) = 1
    BY <1>3, <2>1 DEF OfOnePiece
  <2>4. Len(a) = 1 /\ Len(b) = 1
    <3>1. Len(a \o b) = Len(a) + Len(b) /\ Len(c \o d) = Len(c) + Len(d)
      BY <2>2, ConcatProperties
    <3>2. QED
      BY <2>2, <2>3, <3>1
  <2>5. a[1] = c[1] /\ b[1] = d[1]
    <3>1. /\ (a \o b)[1] = a[1] /\ (a \o b)[2] = b[1]
          /\ (c \o d)[1] = c[1] /\ (c \o d)[2] = d[1]
      BY <2>2, <2>3, <2>4, ConcatProperties
    <3>2. QED
      BY <2>3, <3>1
  <2>6. a = c /\ b = d
    BY <2>2, <2>3, <2>4, <2>5, SeqEqual
  <2>7. QED
    BY <2>1, <2>6
<1>6. QED
  BY <1>1, <1>4, <1>5

LEMMA TtlPositive == \A q : TtlOf(q) \in Nat /\ TtlOf(q) >= 1
BY DEF TtlOf, ApiAssumption

----------------------------------------------------------------------------
(* Time passes and the archive changes.                                    *)

LEMMA ChangeTime ==
    ASSUME NEW s \in Seq(Nat), NEW v \in Nat, v < Len(s)
    PROVE  s[v + 1] \in Nat
<1>1. v + 1 \in 1..Len(s)
  OBVIOUS
<1>2. QED
  BY <1>1

LEMMA SinceKept ==
    ASSUME ApiTypes, now' \in Nat, now' >= now, changedAt' \in {changedAt, Append(changedAt, now)},
           NEW v, NEW t \in Int, Since(v, t)
    PROVE  Since(v, t)'
<1>1. CASE changedAt' = changedAt
  BY <1>1 DEF Since, Version, ApiTypes
<1>2. CASE changedAt' = Append(changedAt, now)
  <2>1. /\ Len(changedAt') = Len(changedAt) + 1 /\ Len(changedAt) \in Nat
        /\ changedAt'[Len(changedAt) + 1] = now
        /\ \A k \in 1..Len(changedAt) : changedAt'[k] = changedAt[k]
    BY <1>2, AppendProperties DEF ApiTypes
  <2>2. v \in 0..Len(changedAt) /\ t <= now /\ (v < Len(changedAt) => changedAt[v + 1] >= t)
    BY DEF Since, Version
  <2>3. v < Len(changedAt') => changedAt'[v + 1] >= t
    <3>1. CASE v = Len(changedAt)
      BY <2>1, <2>2, <3>1 DEF ApiTypes
    <3>2. CASE v < Len(changedAt)
      BY <2>1, <2>2, <3>2
    <3>3. QED
      BY <2>1, <2>2, <3>1, <3>2
  <2>4. v \in 0..Len(changedAt') /\ t <= now'
    BY <2>1, <2>2 DEF ApiTypes
  <2>5. QED
    BY <2>3, <2>4 DEF Since, Version
<1>3. QED
  BY <1>1, <1>2

(* What is good for an instant is good for every one before.               *)
LEMMA SinceEarlier ==
    ASSUME ApiTypes, NEW v, NEW t \in Int, NEW u \in Int, u <= t, Since(v, t)
    PROVE  Since(v, u)
<1>1. v < Version => changedAt[v + 1] \in Nat
  BY DEF Since, Version, ApiTypes
<1>2. QED
  BY <1>1 DEF Since, ApiTypes

(* A call that will be answered with what is good for the instant before   *)
(* the one that would be too old.                                          *)
LEMMA FreshIsSince ==
    ASSUME ApiTypes, NEW l, l.digest \in Commitment, l.asked \in Nat, l.asked <= now
    PROVE  Fresh(l) <=> Since(l.digest.asOf, l.asked - TtlOf(l.digest.request) - l.digest.age + 1)
<1> DEFINE v == l.digest.asOf
           u == l.asked - TtlOf(l.digest.request) - l.digest.age
<1>1. v \in Nat /\ u \in Int /\ u + 1 <= now
  <2>1. v \in Nat /\ l.digest.age \in Nat
    BY DEF Commitment
  <2>2. TtlOf(l.digest.request) \in Nat /\ TtlOf(l.digest.request) >= 1
    BY TtlPositive
  <2>3. now \in Nat
    BY DEF ApiTypes
  <2>4. QED
    BY <2>1, <2>2, <2>3
<1>2. v < Version => changedAt[v + 1] \in Nat
  <2>1. changedAt \in Seq(Nat)
    BY DEF ApiTypes
  <2> HIDE DEF v
  <2>2. QED
    BY <1>1, <2>1, ChangeTime DEF Version
<1>3. QED
  BY <1>1, <1>2 DEF Fresh, Since

LEMMA CallKept ==
    ASSUME ApiTypes, now' \in Nat, now' >= now, changedAt' \in {changedAt, Append(changedAt, now)},
           ApiTypes', NEW l, CallOk(l)
    PROVE  CallOk(l)'
<1>1. l.at \in {"get", "events", "set", "send"} => l.asked \in Nat /\ l.asked <= now'
  BY DEF CallOk, ApiTypes
<1>2. l.at = "events" /\ l.asOf # -1 => Since(l.asOf, l.readAt)'
  BY SinceKept DEF CallOk
<1>3. l.at = "set" => Since(l.digest.asOf, l.since - l.digest.age)' /\ l.since <= now'
  <2>1. l.at = "set" => l.since - l.digest.age \in Int
    BY DEF CallOk, Commitment
  <2>2. QED
    BY <2>1, SinceKept DEF CallOk, ApiTypes
<1>4. l.at = "send" => Fresh(l)'
  <2> SUFFICES ASSUME l.at = "send" PROVE Fresh(l)'
    OBVIOUS
  <2> DEFINE u == l.asked - TtlOf(l.digest.request) - l.digest.age + 1
  <2>1. l.digest \in Commitment /\ l.asked \in Nat /\ l.asked <= now /\ Fresh(l)
    BY DEF CallOk
  <2>2. u \in Int
    BY <2>1, TtlPositive DEF Commitment
  <2>3. Since(l.digest.asOf, u)
    BY <2>1, FreshIsSince
  <2>4. Since(l.digest.asOf, u)'
    BY <2>2, <2>3, SinceKept
  <2>5. /\ l.digest.asOf \in Nat /\ (l.digest.asOf < Version' => changedAt'[l.digest.asOf + 1] \in Nat)
        /\ l.asked \in Nat /\ TtlOf(l.digest.request) \in Nat /\ l.digest.age \in Nat
    <3>1. l.digest.asOf \in Nat /\ l.digest.age \in Nat
      BY <2>1 DEF Commitment
    <3>2. changedAt' \in Seq(Nat)
      BY DEF ApiTypes
    <3>3. l.digest.asOf < Version' => changedAt'[l.digest.asOf + 1] \in Nat
      BY <3>1, <3>2, ChangeTime DEF Version
    <3>4. QED
      BY <2>1, <3>1, <3>3, TtlPositive
  <2>6. l.digest.asOf \in 0..Version' /\ (l.digest.asOf < Version' => changedAt'[l.digest.asOf + 1] >= u)
    BY <2>4 DEF Since
  <2>7. QED
    BY <2>5, <2>6 DEF Fresh
<1>5. QED
  <2>1. l.at = "events" /\ l.asOf # -1 =>
          l.asOf \in Nat /\ l.readAt \in Nat /\ l.asked <= l.readAt /\ Since(l.asOf, l.readAt)'
    BY <1>2 DEF CallOk
  <2>2. l.at = "set" =>
          /\ l.digest \in Commitment /\ l.since \in Nat /\ l.since <= now'
          /\ l.asked <= l.since - l.digest.age /\ Since(l.digest.asOf, l.since - l.digest.age)'
    BY <1>3 DEF CallOk
  <2>3. l.at = "send" =>
          /\ l.request \in Digests /\ l.digest \in Commitment
          /\ CacheKey(l.request) = CacheKey(l.digest.request) /\ Fresh(l)'
    BY <1>4 DEF CallOk
  <2>4. l.at \in {"get", "events"} => l.request \in Digests
    BY DEF CallOk
  <2>5. QED
    BY <1>1, <2>1, <2>2, <2>3, <2>4 DEF CallOk, Commitment

LEMMA EntryKept ==
    ASSUME ApiTypes, now' \in Nat, now' >= now, changedAt' \in {changedAt, Append(changedAt, now)},
           NEW e \in Entry, EntryOk(e)
    PROVE  EntryOk(e)'
<1>1. e.expiresAt - TtlOf(e.digest.request) - e.digest.age \in Int
  BY TtlPositive DEF Entry, Commitment
<1>2. QED
  BY <1>1, SinceKept DEF EntryOk, CacheKey, TtlOf

LEMMA TimeStep ==
    ASSUME ApiInv, now' \in Nat, now' >= now, changedAt' \in {changedAt, Append(changedAt, now)},
           UNCHANGED <<handler, entries>>
    PROVE  ApiInv'
<1>1. ApiTypes'
  <2>1. changedAt' \in Seq(Nat)
    <3>1. changedAt \in Seq(Nat) /\ now \in Nat
      BY DEF ApiInv, ApiTypes
    <3>2. Append(changedAt, now) \in Seq(Nat)
      BY <3>1, AppendProperties
    <3>3. QED
      BY <3>1, <3>2
  <2>2. QED
    BY <2>1 DEF ApiInv, ApiTypes, IsHandlers
<1>2. GoodEntries \subseteq GoodEntries'
  <2> SUFFICES ASSUME NEW e \in GoodEntries PROVE e \in Entry' /\ EntryOk(e)'
    BY DEF GoodEntries
  <2>1. EntryOk(e)'
    BY EntryKept DEF ApiInv, GoodEntries
  <2>2. QED
    BY <2>1 DEF GoodEntries, Entry, Commitment, CacheKey
<1>3. entries' \in Seq(GoodEntries')
  <2> HIDE DEF GoodEntries
  <2>1. entries \in Seq(GoodEntries)
    BY DEF ApiInv
  <2>2. QED
    BY <1>2, <2>1
<1>4. ASSUME NEW h \in Handlers PROVE CallOk(handler[h])'
  <2>1. PICK l : l = handler[h]
    OBVIOUS
  <2>2. CallOk(l)'
    BY <1>1, <2>1, CallKept DEF ApiInv
  <2>3. QED
    BY <2>1, <2>2 DEF CallOk, Fresh, Since
<1>5. QED
  BY <1>1, <1>3, <1>4 DEF ApiInv

----------------------------------------------------------------------------
(* The cache.                                                              *)

LEMMA AfterGetKeeps ==
    ASSUME NEW S, entries \in Seq(S), NEW q
    PROVE  AfterGet(q) \in Seq(S)
<1>1. CASE backend # "memory" \/ Kept(q) = {}
  BY <1>1 DEF AfterGet
<1>2. CASE ~(backend # "memory" \/ Kept(q) = {})
  <2> DEFINE i == CHOOSE i \in Kept(q) : TRUE
             rest == SubSeq(entries, 1, i - 1) \o SubSeq(entries, i + 1, Len(entries))
  <2>1. i \in 1..Len(entries) /\ Len(entries) \in Nat
    BY <1>2 DEF Kept
  <2>2. SubSeq(entries, 1, i - 1) \in Seq(S) /\ SubSeq(entries, i + 1, Len(entries)) \in Seq(S)
    <3>1. ASSUME NEW m \in Int, NEW n \in Int, m >= 1, n <= Len(entries)
          PROVE  SubSeq(entries, m, n) \in Seq(S)
      <4>1. \A k \in m..n : entries[k] \in S
        BY <3>1, <2>1
      <4>2. QED
        BY <4>1, SubSeqProperties
    <3>2. i - 1 \in Int /\ i + 1 \in Int
      BY <2>1
    <3>3. i - 1 <= Len(entries) /\ i + 1 >= 1 /\ Len(entries) \in Int
      BY <2>1
    <3> HIDE DEF i
    <3>4. QED
      BY <3>1, <3>2, <3>3
  <2>3. rest \in Seq(S)
    BY <2>2, ConcatProperties
  <2>4. entries[i] \in S
    BY <2>1
  <2>5. AfterGet(q) = IF i \in Live(q) THEN Append(rest, entries[i]) ELSE rest
    BY <1>2 DEF AfterGet
  <2> HIDE DEF rest, i
  <2>6. QED
    BY <2>3, <2>4, <2>5, AppendProperties
<1>3. QED
  BY <1>1, <1>2

LEMMA AfterSetKeeps ==
    ASSUME NEW S, entries \in Seq(S), NEW q, NEW d,
           [key |-> CacheKey(q), digest |-> d, expiresAt |-> now + TtlOf(q)] \in S
    PROVE  AfterSet(q, d) \in Seq(S)
<1> DEFINE entry == [key |-> CacheKey(q), digest |-> d, expiresAt |-> now + TtlOf(q)]
<1>1. Evicted \in Seq(S)
  <2>1. Len(entries) >= MaxEntries => entries # <<>>
    BY DEF ApiAssumption
  <2>2. QED
    BY <2>1, HeadTailProperties DEF Evicted
<1>2. CASE Kept(q) = {}
  <2>1. AfterSet(q, d) = Append(Evicted, entry)
    BY <1>2 DEF AfterSet
  <2> HIDE DEF entry
  <2>2. QED
    BY <1>1, <2>1, AppendProperties DEF entry
<1>3. CASE Kept(q) # {}
  <2>1. AfterSet(q, d) = [i \in DOMAIN entries |-> IF i \in Kept(q) THEN entry ELSE entries[i]]
    BY <1>3 DEF AfterSet
  <2>2. QED
    BY <2>1
<1>4. QED
  BY <1>2, <1>3

(* What is found for a request has its key, and is good for one made now.  *)
LEMMA GotOk ==
    ASSUME ApiInv, NEW q \in Digests, NEW asked \in Nat, asked <= now
    PROVE  CallOk(Got(q, asked))
<1>1. CASE Live(q) = {}
  BY <1>1 DEF Got, Reading, CallOk
<1>2. CASE Live(q) # {}
  <2> DEFINE i == CHOOSE i \in Live(q) : TRUE
             e == entries[i]
             d == e.digest
  <2>1. i \in DOMAIN entries /\ e.key = CacheKey(q) /\ e.expiresAt > now
    BY <1>2 DEF Live, Kept
  <2>2. e \in GoodEntries
    <3>1. entries \in Seq(GoodEntries)
      BY DEF ApiInv
    <3> HIDE DEF GoodEntries
    <3>2. QED
      BY <2>1, <3>1
  <2>3. e \in Entry /\ EntryOk(e) /\ d \in Commitment
    BY <2>2 DEF GoodEntries, Entry
  <2>4. d.request \in Digests /\ CacheKey(q) = CacheKey(d.request) /\ TtlOf(d.request) = TtlOf(q)
    BY <2>1, <2>3, KeyTellsRange DEF EntryOk, Commitment
  <2>5. Got(q, asked) = Send(q, asked, d)
    BY <1>2 DEF Got
  <2> HIDE DEF e, i
  <2>6. Since(d.asOf, asked - TtlOf(q) - d.age + 1)
    <3>1. /\ e.expiresAt - TtlOf(q) - d.age \in Int
          /\ asked - TtlOf(q) - d.age + 1 \in Int
          /\ asked - TtlOf(q) - d.age + 1 <= e.expiresAt - TtlOf(q) - d.age
      <4>1. e.expiresAt \in Nat /\ d.age \in Nat /\ now \in Nat /\ TtlOf(q) \in Nat
        BY <2>3, TtlPositive DEF Entry, Commitment, ApiInv, ApiTypes
      <4>2. QED
        BY <2>1, <4>1
    <3>2. QED
      BY <2>3, <2>4, <3>1, SinceEarlier DEF EntryOk, ApiInv
  <2> DEFINE l == Send(q, asked, d)
  <2>7. l.at = "send" /\ l.request = q /\ l.asked = asked /\ l.digest = d
    BY DEF Send
  <2>8. Fresh(l)
    BY <2>3, <2>4, <2>6, <2>7, FreshIsSince DEF ApiInv
  <2>9. QED
    BY <2>3, <2>4, <2>5, <2>7, <2>8 DEF CallOk
<1>3. QED
  BY <1>1, <1>2

----------------------------------------------------------------------------
(* The steps.                                                              *)

LEMMA CallMoves ==
    ASSUME ApiInv, UNCHANGED <<now, changedAt>>, entries' \in Seq(GoodEntries),
           NEW h \in Handlers, NEW l, Moves(h, l), CallOk(l)
    PROVE  ApiInv'
<1>1. ApiTypes' /\ handler'[h] = l /\ \A g \in Handlers \ {h} : handler'[g] = handler[g]
  BY DEF ApiInv, ApiTypes, IsHandlers, Moves
<1>2. GoodEntries' = GoodEntries
  BY DEF GoodEntries, Entry, Commitment, EntryOk, Since, Version, CacheKey, TtlOf
<1>3. ASSUME NEW g \in Handlers PROVE CallOk(handler[g])'
  <2>1. PICK k : k = handler'[g]
    OBVIOUS
  <2>2. CallOk(k)
    BY <1>1, <2>1 DEF ApiInv
  <2>3. CallOk(k)'
    BY <2>2 DEF CallOk, Fresh, Since, Version, Commitment, TtlOf
  <2>4. QED
    BY <2>1, <2>3
<1>4. QED
  BY <1>1, <1>2, <1>3 DEF ApiInv

LEMMA IdleOk == CallOk(Idle)
BY DEF CallOk, Idle

(* A digest that has just been computed, or has just reached Redis.        *)
LEMMA CachedOk ==
    ASSUME ApiInv, NEW d \in Commitment, NEW asked \in Nat, asked <= now - d.age,
           Since(d.asOf, now - d.age)
    PROVE  /\ [key |-> CacheKey(d.request), digest |-> d, expiresAt |-> now + TtlOf(d.request)] \in GoodEntries
           /\ CallOk(Send(d.request, asked, d))
<1>1. /\ d.request \in Digests /\ d.age \in Nat /\ now \in Nat
      /\ TtlOf(d.request) \in Nat /\ TtlOf(d.request) >= 1
  BY TtlPositive DEF Commitment, ApiInv, ApiTypes
<1>2. [key |-> CacheKey(d.request), digest |-> d, expiresAt |-> now + TtlOf(d.request)] \in GoodEntries
  <2> DEFINE e == [key |-> CacheKey(d.request), digest |-> d, expiresAt |-> now + TtlOf(d.request)]
  <2>1. e \in Entry
    BY <1>1 DEF Entry
  <2>2. e.expiresAt - TtlOf(e.digest.request) - e.digest.age = now - d.age
    BY <1>1
  <2>3. EntryOk(e)
    BY <2>2 DEF EntryOk
  <2>4. QED
    BY <2>1, <2>3 DEF GoodEntries
<1>3. CallOk(Send(d.request, asked, d))
  <2> DEFINE l == Send(d.request, asked, d)
  <2>1. l.at = "send" /\ l.request = d.request /\ l.asked = asked /\ l.digest = d
    BY DEF Send
  <2>2. asked <= now /\ now - d.age \in Int
    BY <1>1
  <2>3. asked - TtlOf(d.request) - d.age + 1 \in Int /\ asked - TtlOf(d.request) - d.age + 1 <= now - d.age
    BY <1>1
  <2>4. Since(d.asOf, asked - TtlOf(d.request) - d.age + 1)
    BY <2>2, <2>3, SinceEarlier DEF ApiInv
  <2>5. Fresh(l)
    BY <2>1, <2>2, <2>4, FreshIsSince DEF ApiInv
  <2>6. QED
    BY <1>1, <2>1, <2>2, <2>5 DEF CallOk
<1>4. QED
  BY <1>2, <1>3

LEMMA GetDigestStep ==
    ASSUME ApiInv, NEW h \in Handlers, NEW c, NEW q \in Digests, GetDigest(h, c, q)
    PROVE  ApiInv'
<1>0. entries \in Seq(GoodEntries) /\ now \in Nat
  BY DEF ApiInv, ApiTypes
<1>1. CASE Receive(h, Got(q, now)) /\ entries' = AfterGet(q)
  <2>1. PICK l : l = Got(q, now)
    OBVIOUS
  <2>2. CallOk(l)
    BY <1>0, <2>1, GotOk
  <2>3. entries' \in Seq(GoodEntries)
    BY <1>0, <1>1, AfterGetKeeps
  <2>4. QED
    BY <1>1, <2>1, <2>2, <2>3, CallMoves DEF Receive, Moves
<1>2. CASE Receive(h, [at |-> "get", request |-> q, asked |-> now]) /\ UNCHANGED entries
  <2>1. PICK l : l = [at |-> "get", request |-> q, asked |-> now]
    OBVIOUS
  <2>2. CallOk(l)
    BY <1>0, <2>1 DEF CallOk
  <2>3. QED
    BY <1>0, <1>2, <2>1, <2>2, CallMoves DEF Receive, Moves
<1>3. CASE Receive(h, Idle) /\ UNCHANGED entries
  BY <1>0, <1>3, IdleOk, CallMoves DEF Receive, Moves, Idle
<1>4. QED
  BY <1>1, <1>2, <1>3 DEF GetDigest

LEMMA SetDigestStep ==
    ASSUME ApiInv, NEW h \in Handlers, SetDigest(h)
    PROVE  ApiInv'
<1>0. entries \in Seq(GoodEntries) /\ now \in Nat /\ Version \in Nat
  BY DEF ApiInv, ApiTypes, Version
<1>1. PICK l : l = handler[h]
  OBVIOUS
<1>2. l.at = "events" /\ CallOk(l)
  BY <1>1 DEF ApiInv, SetDigest
<1>3. PICK d : d = Computed(l)
  OBVIOUS
<1>4. d \in Commitment /\ d.request = l.request
  <2> DEFINE asOf == IF l.asOf = -1 THEN Version ELSE l.asOf
             age == IF l.asOf = -1 THEN 0 ELSE now - l.readAt
  <2>1. l.request \in Digests
    BY <1>2 DEF CallOk
  <2>2. l.asOf # -1 => l.asOf \in Nat /\ l.readAt \in Nat /\ l.readAt <= now
    BY <1>2 DEF CallOk, Since
  <2>3. asOf \in Nat /\ age \in Nat
    BY <1>0, <2>2
  <2>4. d = [request |-> l.request, asOf |-> asOf, age |-> age]
    BY <1>3 DEF Computed
  <2> HIDE DEF asOf, age
  <2>5. QED
    BY <2>1, <2>3, <2>4 DEF Commitment
<1>5. l.asked \in Nat /\ l.asked <= now - d.age /\ Since(d.asOf, now - d.age)
  <2>1. CASE l.asOf = -1
    BY <1>0, <1>2, <1>3, <2>1 DEF Computed, CallOk, Since
  <2>2. CASE l.asOf # -1
    <3>1. d.asOf = l.asOf /\ d.age = now - l.readAt /\ l.readAt \in Nat
      BY <1>2, <1>3, <2>2 DEF Computed, CallOk
    <3>2. now - d.age = l.readAt
      BY <1>0, <3>1
    <3>3. QED
      BY <1>2, <2>2, <3>1, <3>2 DEF CallOk
  <2>3. QED
    BY <2>1, <2>2
<1>6. CASE entries' = AfterSet(l.request, d) /\ Resume(h, Send(l.request, l.asked, d))
  <2>1. PICK m : m = Send(d.request, l.asked, d)
    OBVIOUS
  <2>2. CallOk(m) /\ [key |-> CacheKey(d.request), digest |-> d, expiresAt |-> now + TtlOf(d.request)] \in GoodEntries
    BY <1>4, <1>5, <2>1, CachedOk
  <2>3. entries' \in Seq(GoodEntries)
    BY <1>0, <1>4, <1>6, <2>2, AfterSetKeeps
  <2>4. QED
    BY <1>4, <1>6, <2>1, <2>2, <2>3, CallMoves DEF Resume, Moves
<1>7. CASE Resume(h, [at |-> "set", asked |-> l.asked, digest |-> d, since |-> now]) /\ UNCHANGED entries
  <2>1. PICK m : m = [at |-> "set", asked |-> l.asked, digest |-> d, since |-> now]
    OBVIOUS
  <2>2. CallOk(m)
    BY <1>0, <1>2, <1>4, <1>5, <2>1 DEF CallOk
  <2>3. QED
    BY <1>0, <1>7, <2>1, <2>2, CallMoves DEF Resume, Moves
<1>8. CASE Resume(h, Idle) /\ UNCHANGED entries
  BY <1>0, <1>8, IdleOk, CallMoves DEF Resume, Moves, Idle
<1>9. QED
  BY <1>1, <1>3, <1>6, <1>7, <1>8 DEF SetDigest

LEMMA SetInRedisStep ==
    ASSUME ApiInv, NEW h \in Handlers, SetInRedis(h)
    PROVE  ApiInv'
<1>0. entries \in Seq(GoodEntries) /\ now \in Nat
  BY DEF ApiInv, ApiTypes
<1>1. PICK l : l = handler[h]
  OBVIOUS
<1>2. l.at = "set" /\ CallOk(l)
  BY <1>1 DEF ApiInv, SetInRedis
<1>3. PICK d : d = [l.digest EXCEPT !.age = @ + now - l.since]
  OBVIOUS
<1>4. /\ l.digest \in Commitment /\ l.since \in Nat /\ l.since <= now /\ l.asked \in Nat
      /\ l.asked <= l.since - l.digest.age /\ Since(l.digest.asOf, l.since - l.digest.age)
  BY <1>2 DEF CallOk
<1>5. /\ d \in Commitment /\ d.request = l.digest.request /\ d.asOf = l.digest.asOf
      /\ d.age = l.digest.age + now - l.since
  <2>1. l.digest.age \in Nat /\ l.digest.age + now - l.since \in Nat
    BY <1>0, <1>4 DEF Commitment
  <2>2. QED
    BY <1>3, <1>4, <2>1 DEF Commitment
<1>6. now - d.age = l.since - l.digest.age
  BY <1>0, <1>4, <1>5 DEF Commitment
<1>7. PICK m : m = Send(d.request, l.asked, d)
  OBVIOUS
<1>8. CallOk(m) /\ [key |-> CacheKey(d.request), digest |-> d, expiresAt |-> now + TtlOf(d.request)] \in GoodEntries
  BY <1>4, <1>5, <1>6, <1>7, CachedOk
<1>9. entries' = AfterSet(d.request, d) /\ Resume(h, m)
  BY <1>1, <1>3, <1>7 DEF SetInRedis
<1>10. entries' \in Seq(GoodEntries)
  BY <1>0, <1>8, <1>9, AfterSetKeeps
<1>11. QED
  BY <1>8, <1>9, <1>10, CallMoves DEF Resume, Moves

LEMMA ArchiveStep ==
    ASSUME ApiInv, ApiNext
    PROVE  ApiInv'
<1>0. entries \in Seq(GoodEntries) /\ now \in Nat
  BY DEF ApiInv, ApiTypes
<1>1. ASSUME NEW h \in Handlers, NEW c \in Clients,
             \/ RateLimited(h, c) \/ ReadRoute(h, c)
             \/ \E q \in Digests : GetDigest(h, c, q)
      PROVE  ApiInv'
  <2>1. CASE RateLimited(h, c) \/ ReadRoute(h, c)
    BY <1>0, <2>1, IdleOk, CallMoves DEF RateLimited, ReadRoute, Receive, Moves, Idle
  <2>2. QED
    BY <1>1, <2>1, GetDigestStep
<1>2. ASSUME NEW h \in Handlers, GetFromRedis(h) PROVE ApiInv'
  <2>1. PICK l : l = Got(handler[h].request, handler[h].asked)
    OBVIOUS
  <2>2. handler[h].request \in Digests /\ handler[h].asked \in Nat /\ handler[h].asked <= now
    BY <1>2 DEF GetFromRedis, ApiInv, CallOk
  <2>3. CallOk(l)
    BY <2>1, <2>2, GotOk
  <2>4. QED
    BY <1>0, <1>2, <2>1, <2>3, CallMoves DEF GetFromRedis, Resume, Moves, apiVars
<1>3. ASSUME NEW h \in Handlers, ReadPage(h) PROVE ApiInv'
  <2>1. PICK l : l = Reading(handler[h].request, handler[h].asked, Version, now)
    OBVIOUS
  <2>2. handler[h].request \in Digests /\ handler[h].asked \in Nat /\ handler[h].asked <= now
    BY <1>3 DEF ReadPage, ApiInv, CallOk
  <2>3. Version \in Nat /\ Since(Version, now)
    BY <1>0 DEF ApiInv, ApiTypes, Since, Version
  <2>4. CallOk(l)
    BY <1>0, <2>1, <2>2, <2>3 DEF CallOk, Reading
  <2>5. QED
    BY <1>0, <1>3, <2>1, <2>4, CallMoves DEF ReadPage, Resume, Moves, apiVars
<1>4. ASSUME NEW h \in Handlers, SendDigest(h) \/ Fail(h) PROVE ApiInv'
  BY <1>0, <1>4, IdleOk, CallMoves DEF SendDigest, Fail, Resume, Moves, apiVars, Idle
<1>5. CASE LoseRedis
  <2>1. UNCHANGED <<now, changedAt, handler>> /\ entries' \in Seq(GoodEntries)
    BY <1>5 DEF LoseRedis
  <2>2. GoodEntries' = GoodEntries
    BY <2>1 DEF GoodEntries, Entry, Commitment, EntryOk, Since, Version, CacheKey, TtlOf
  <2>3. \A h \in Handlers : CallOk(handler[h])'
    BY <2>1 DEF ApiInv, CallOk, Fresh, Since, Version, Commitment, TtlOf
  <2>4. QED
    BY <2>1, <2>2, <2>3 DEF ApiInv, ApiTypes, IsHandlers
<1>6. QED
  BY <1>1, <1>2, <1>3, <1>4, <1>5, SetDigestStep, SetInRedisStep DEF ApiNext

(* The calls of the coordination service hold no digests.                  *)
ServerCalls == {"idle", "summary", "count", "open", "ledger", "reported", "finish"}

LEMMA ServerMoves ==
    ASSUME ServerNext
    PROVE  /\ UNCHANGED <<now, changedAt>>
           /\ \E h \in Handlers : \E l : Moves(h, l) /\ l.at \in ServerCalls
<1> USE DEF Receive, Resume, Moves, ServerCalls
<1>1. PICK h \in Handlers :
        \/ Post(h) \/ ReadSummary(h) \/ CountExpected(h) \/ Open(h) \/ Refuse(h)
        \/ GetStatus(h) \/ Report(h) \/ CountReported(h) \/ Finish(h) \/ AbandonCall(h)
  BY DEF ServerNext
<1> DEFINE Call == UNCHANGED <<now, changedAt>> /\ \E l : Moves(h, l) /\ l.at \in ServerCalls
<1>2. CASE Post(h) \/ GetStatus(h)
  <2>1. \A from : [at |-> "summary", from |-> from].at \in ServerCalls
    OBVIOUS
  <2>2. \A i, c : [at |-> "ledger", id |-> i, cursor |-> c].at \in ServerCalls
    OBVIOUS
  <2>3. QED
    BY <1>2, <2>1, <2>2 DEF Post, GetStatus
<1>3. CASE ReadSummary(h)
  <2>1. PICK l : l = [at |-> "count", from |-> handler[h].from, last |-> size]
    OBVIOUS
  <2>2. l.at \in ServerCalls
    BY <2>1
  <2>3. QED
    BY <1>3, <2>1, <2>2 DEF ReadSummary
<1>4. CASE CountExpected(h)
  <2>1. PICK l : l = [at |-> "open", from |-> handler[h].from, last |-> handler[h].last,
                  count |-> Cardinality({c \in 1..size : c > handler[h].from})]
    OBVIOUS
  <2>2. l.at \in ServerCalls
    BY <2>1
  <2>3. QED
    BY <1>4, <2>1, <2>2 DEF CountExpected
<1>5. CASE Report(h)
  <2>1. PICK l : l = [at |-> "reported", id |-> handler[h].id, cursor |-> handler[h].cursor]
    OBVIOUS
  <2>2. l.at \in ServerCalls
    BY <2>1
  <2>3. QED
    BY <1>5, <2>1, <2>2 DEF Report
<1>6. CASE CountReported(h)
  <2>1. PICK l : l = [at |-> "finish", id |-> handler[h].id, cursor |-> handler[h].cursor,
                  count |-> Cardinality({c \in 1..size : c <= handler[h].cursor})]
    OBVIOUS
  <2>2. l.at \in ServerCalls
    BY <2>1
  <2>3. QED
    BY <1>6, <2>1, <2>2 DEF CountReported
<1>7. CASE Open(h) \/ Refuse(h) \/ Finish(h) \/ AbandonCall(h)
  BY <1>7 DEF Open, Refuse, Finish, AbandonCall, Idle
<1>8. QED
  BY <1>1, <1>2, <1>3, <1>4, <1>5, <1>6, <1>7

LEMMA ApiStep == ApiInv /\ [Next]_vars => ApiInv'
<1> SUFFICES ASSUME ApiInv, [Next]_vars PROVE ApiInv'
  OBVIOUS
<1>0. entries \in Seq(GoodEntries) /\ now \in Nat
  BY DEF ApiInv, ApiTypes
<1>1. CASE Served
  <2>1. now' \in Nat /\ now' >= now /\ changedAt' \in {changedAt, Append(changedAt, now)}
    BY <1>0, <1>1 DEF Served, Ingest, Rollback, Tick, Change
  <2>2. UNCHANGED <<handler, entries>>
    BY <1>1 DEF Served, Ingest, Rollback, Tick, Change, apiVars
  <2>3. QED
    BY <2>1, <2>2, TimeStep
<1>2. CASE Archive
  BY <1>2, ArchiveStep DEF Archive
<1>3. CASE Coordination
  <2>1. PICK h \in Handlers : \E l : Moves(h, l) /\ l.at \in ServerCalls
    BY <1>3, ServerMoves DEF Coordination
  <2>2. PICK l : Moves(h, l) /\ l.at \in ServerCalls
    BY <2>1
  <2>3. CallOk(l)
    BY <2>2 DEF CallOk, ServerCalls
  <2>4. QED
    BY <1>0, <1>3, <2>2, <2>3, ServerMoves, CallMoves DEF Coordination, apiVars
<1>4. CASE StartUp \/ UNCHANGED vars
  <2>1. UNCHANGED <<handler, entries, now, changedAt>>
    BY <1>4 DEF StartUp, vars, archiveVars, apiVars
  <2>2. QED
    BY <1>0, <2>1, TimeStep
<1>5. QED
  BY <1>1, <1>2, <1>3, <1>4 DEF Next

LEMMA ApiKept == Spec => []ApiInv
<1>1. Init => ApiInv
  <2> SUFFICES ASSUME ServedInit, ApiInit PROVE ApiInv
    BY DEF Init
  <2>1. ApiTypes /\ entries \in Seq(GoodEntries)
    BY DEF ServedInit, ApiInit, ApiTypes, IsHandlers
  <2>2. \A h \in Handlers : CallOk(handler[h])
    BY IdleOk DEF ServedInit
  <2>3. QED
    BY <2>1, <2>2 DEF ApiInv
<1>2. QED
  BY <1>1, ApiStep, PTL DEF Spec

(* A digest answers for the range it was asked for, and for the account and*)
(* the contract when those have no colon, "*" taken for none: the keys that*)
(* cacheKey joins (IntegrityService) tell no more.                         *)
THEOREM DigestsKept == Spec => []EachItsOwnDigest
<1>1. ApiInv => EachItsOwnDigest
  <2> SUFFICES ASSUME ApiInv, NEW h \in Handlers, Answering(h)
               PROVE  LET asked == handler[h].request
                          given == handler[h].digest.request
                      IN  /\ given.exclusive = asked.exclusive
                          /\ given.from = asked.from /\ given.to = asked.to
                          /\ OfOnePiece(asked) => /\ SameName(given.account, asked.account)
                                                  /\ SameName(given.contract, asked.contract)
    BY DEF EachItsOwnDigest
  <2>1. PICK asked, given : asked = handler[h].request /\ given = handler[h].digest.request
    OBVIOUS
  <2>2. asked \in Digests /\ given \in Digests /\ CacheKey(asked) = CacheKey(given)
    BY <2>1 DEF ApiInv, CallOk, Answering, Commitment
  <2>3. QED
    BY <2>1, <2>2, KeyTellsRange, KeyTellsNames
<1>2. QED
  BY <1>1, ApiKept, PTL

(* An answer reflects all that was committed a time to live before it was  *)
(* asked for, but for the time the digest took (digest, MemoryCache).      *)
THEOREM AnswersFresh == Spec => []DigestsFresh
<1>1. ApiInv => DigestsFresh
  <2> SUFFICES ASSUME ApiInv, NEW h \in Handlers, Answering(h)
               PROVE  Fresh(handler[h]) /\ TtlOf(handler[h].request) = TtlOf(handler[h].digest.request)
    BY DEF DigestsFresh, Fresh
  <2>1. CallOk(handler[h])
    BY DEF ApiInv
  <2>2. QED
    BY <2>1, KeyTellsRange DEF CallOk, Answering, Commitment
<1>2. QED
  BY <1>1, ApiKept, PTL

----------------------------------------------------------------------------
(* The limiter.  Of the last requests of a client that were let in, those  *)
(* of the current window are the last ones, as many as were counted; a     *)
(* window's worth further back they are a window old when this one starts. *)

CountedIn(used) == IF used <= PerMinute THEN used ELSE PerMinute

Windowed(start, used, times) ==
    /\ Len(times) <= 2 * PerMinute + 1 /\ CountedIn(used) <= Len(times)
    /\ \A i \in 1..Len(times) :
         /\ i > Len(times) - CountedIn(used) => times[i] >= start
         /\ i <= Len(times) - CountedIn(used) => times[i] <= start
         /\ i <= Len(times) - CountedIn(used) - PerMinute => times[i] + WindowMs <= start
    /\ Spaced(times)

UpTo(times, t) == \A i \in 1..Len(times) : times[i] <= t

LimiterTypes ==
    /\ now \in Nat /\ limiter \in [start: Nat, used: [Clients -> Nat]] /\ limiter.start <= now
    /\ admitted \in [Clients -> Seq(Nat)]

Accounted(l, c) == UpTo(admitted[c], now) /\ Windowed(l.start, l.used[c], admitted[c])

LimiterInv == PerMinute > 0 => LimiterTypes /\ \A c \in Clients : Accounted(limiter, c)

(* The new request comes last; the oldest one may go.                      *)
Latest(b, times, t, gone) ==
    /\ b \in Seq(Nat) /\ Len(b) = Len(times) + 1 - gone /\ Len(b) <= 2 * PerMinute + 1
    /\ gone = 1 => Len(times) = 2 * PerMinute + 1
    /\ \A i \in 1 .. Len(b) - 1 : b[i] = times[i + gone]
    /\ b[Len(b)] = t

LEMMA LastOfAppend ==
    ASSUME NEW times \in Seq(Nat), NEW t \in Nat, Len(times) <= 2 * PerMinute + 1
    PROVE  \E gone \in {0, 1} : Latest(LastOf(Append(times, t)), times, t, gone)
<1> DEFINE a == Append(times, t)
<1>1. /\ a \in Seq(Nat) /\ a # <<>> /\ Len(a) = Len(times) + 1 /\ a[Len(times) + 1] = t
      /\ \A i \in 1..Len(times) : a[i] = times[i]
  BY AppendProperties
<1>2. Len(times) \in Nat /\ PerMinute \in Nat
  BY DEF ApiAssumption
<1> HIDE DEF a
<1>3. CASE Len(a) > 2 * PerMinute + 1
  <2>1. /\ Tail(a) \in Seq(Nat) /\ Len(Tail(a)) = Len(times)
        /\ \A i \in 1..Len(times) : Tail(a)[i] = a[i + 1]
    BY <1>1, <1>2, HeadTailProperties
  <2>2. LastOf(a) = Tail(a) /\ Len(times) = 2 * PerMinute + 1
    BY <1>1, <1>2, <1>3 DEF LastOf
  <2>3. \A i \in 1 .. Len(times) - 1 : Tail(a)[i] = times[i + 1]
    <3> SUFFICES ASSUME NEW i \in 1 .. Len(times) - 1 PROVE Tail(a)[i] = times[i + 1]
      OBVIOUS
    <3>1. i \in 1..Len(times) /\ i + 1 \in 1..Len(times)
      BY <1>2
    <3>2. QED
      BY <1>1, <2>1, <3>1
  <2>4. Tail(a)[Len(times)] = t
    <3>1. Len(times) \in 1..Len(times)
      BY <1>2, <2>2
    <3>2. QED
      BY <1>1, <2>1, <3>1
  <2>5. PICK b : b = Tail(a)
    OBVIOUS
  <2>6. b \in Seq(Nat) /\ Len(b) = Len(times) /\ b[Len(times)] = t
    BY <2>1, <2>4, <2>5
  <2>7. \A i \in 1 .. Len(times) - 1 : b[i] = times[i + 1]
    BY <2>3, <2>5
  <2>8. Len(b) = Len(times) + 1 - 1 /\ Len(b) <= 2 * PerMinute + 1
    BY <1>2, <2>2, <2>6
  <2>9. Latest(b, times, t, 1)
    BY <2>2, <2>6, <2>7, <2>8 DEF Latest
  <2>10. QED
    BY <2>2, <2>5, <2>9 DEF a
<1>4. CASE ~(Len(a) > 2 * PerMinute + 1)
  <2>1. LastOf(a) = a /\ Len(a) <= 2 * PerMinute + 1
    BY <1>1, <1>2, <1>4 DEF LastOf
  <2>2. Latest(LastOf(a), times, t, 0)
    BY <1>1, <1>2, <2>1 DEF Latest
  <2>3. QED
    BY <2>2 DEF a
<1>5. QED
  BY <1>3, <1>4

(* One more request is let in.                                             *)
LEMMA LetIn ==
    ASSUME PerMinute > 0, NEW times \in Seq(Nat), NEW start \in Nat, NEW used \in Nat, NEW t \in Nat,
           Windowed(start, used, times), UpTo(times, t), used < PerMinute, t >= start
    PROVE  /\ LastOf(Append(times, t)) \in Seq(Nat)
           /\ Windowed(start, used + 1, LastOf(Append(times, t)))
           /\ UpTo(LastOf(Append(times, t)), t)
<1>0. PerMinute \in Nat /\ Len(times) \in Nat /\ WindowMs \in Nat
  BY DEF ApiAssumption
<1>1. /\ Len(times) <= 2 * PerMinute + 1 /\ used <= Len(times)
      /\ \A i \in 1..Len(times) :
           /\ i > Len(times) - used => times[i] >= start
           /\ i <= Len(times) - used => times[i] <= start
           /\ i <= Len(times) - used - PerMinute => times[i] + WindowMs <= start
  BY <1>0 DEF Windowed, CountedIn
<1>2. PICK b : b = LastOf(Append(times, t))
  OBVIOUS
<1>3. PICK gone \in {0, 1} : Latest(b, times, t, gone)
  BY <1>1, <1>2, LastOfAppend
<1>4. b \in Seq(Nat) /\ Len(b) \in Nat /\ Len(b) = Len(times) + 1 - gone /\ b[Len(b)] = t
  BY <1>3 DEF Latest
<1>5. CountedIn(used + 1) = used + 1 /\ used + 1 <= Len(b) /\ Len(b) <= 2 * PerMinute + 1
  <2>1. CountedIn(used + 1) = used + 1
    BY <1>0 DEF CountedIn
  <2>2. Len(b) <= 2 * PerMinute + 1 /\ (gone = 1 => Len(times) = 2 * PerMinute + 1) /\ gone \in {0, 1}
    BY <1>3 DEF Latest
  <2>3. Len(b) = Len(times) + 1 - gone /\ Len(times) \in Nat /\ used <= Len(times)
    BY <1>0, <1>1, <1>4
  <2>4. CASE gone = 0
    BY <2>1, <2>2, <2>3, <2>4
  <2>5. CASE gone = 1
    BY <1>0, <2>1, <2>2, <2>3, <2>5
  <2>6. QED
    BY <2>2, <2>4, <2>5
<1>6. ASSUME NEW i \in 1..Len(b)
      PROVE  /\ i > Len(b) - (used + 1) => b[i] >= start
             /\ i <= Len(b) - (used + 1) => b[i] <= start
             /\ i <= Len(b) - (used + 1) - PerMinute => b[i] + WindowMs <= start
             /\ b[i] <= t
  <2>1. CASE i = Len(b)
    <3>1. b[i] = t /\ ~(i <= Len(b) - (used + 1)) /\ ~(i <= Len(b) - (used + 1) - PerMinute)
      BY <1>0, <1>4, <2>1
    <3>2. QED
      BY <3>1
  <2>2. CASE i < Len(b)
    <3>1. PICK n \in Nat, m \in Nat : n = Len(times) /\ m = Len(b)
      BY <1>0, <1>4
    <3>2. m = n + 1 - gone /\ i \in 1..m /\ i < m /\ gone \in 0..1
      BY <1>4, <2>2, <3>1
    <3>3. i \in 1 .. m - 1 /\ i + gone \in 1..n
      BY <3>2
    <3>4. i \in 1 .. Len(b) - 1 /\ i + gone \in 1..Len(times)
      BY <3>1, <3>3
    <3>5. PICK j \in 1..Len(times) : j = i + gone
      BY <3>4
    <3>6. b[i] = times[j]
      BY <1>3, <3>4, <3>5 DEF Latest
    <3>7. /\ i > m - (used + 1) => j > n - used
          /\ i <= m - (used + 1) => j <= n - used
          /\ i <= m - (used + 1) - PerMinute => j <= n - used - PerMinute
      BY <1>0, <3>2, <3>5
    <3>8. /\ i > Len(b) - (used + 1) => j > Len(times) - used
          /\ i <= Len(b) - (used + 1) => j <= Len(times) - used
          /\ i <= Len(b) - (used + 1) - PerMinute => j <= Len(times) - used - PerMinute
      BY <3>1, <3>7
    <3>9. times[j] <= t
      BY DEF UpTo
    <3>10. QED
      BY <1>1, <3>6, <3>8, <3>9
  <2>3. i \in 1..Len(b) /\ Len(b) \in Nat
    BY <1>4
  <2>4. i = Len(b) \/ i < Len(b)
    BY <2>3
  <2>5. QED
    BY <2>1, <2>2, <2>4
<1>7. Spaced(b)
  <2> SUFFICES ASSUME Len(b) = 2 * PerMinute + 1 PROVE b[Len(b)] - b[1] >= WindowMs
    BY DEF Spaced
  <2>1. 1 \in 1..Len(b) /\ 1 <= Len(b) - (used + 1) - PerMinute
    BY <1>0, <1>4
  <2>2. b[1] + WindowMs <= start /\ b[1] \in Nat
    BY <1>4, <1>6, <2>1
  <2>3. QED
    BY <1>0, <1>4, <2>2
<1>8. Windowed(start, used + 1, b)
  BY <1>5, <1>6, <1>7 DEF Windowed
<1>9. UpTo(b, t)
  BY <1>6 DEF UpTo
<1>10. QED
  BY <1>2, <1>4, <1>8, <1>9

(* A new window starts, and what was counted is forgotten.                 *)
LEMMA WindowOpens ==
    ASSUME NEW times \in Seq(Nat), NEW start \in Nat, NEW used \in Nat, NEW t \in Nat,
           Windowed(start, used, times), UpTo(times, t), t >= start + WindowMs
    PROVE  Windowed(t, 0, times)
<1>0. PerMinute \in Nat /\ Len(times) \in Nat /\ WindowMs \in Nat
  BY DEF ApiAssumption
<1>1. CountedIn(0) = 0 /\ CountedIn(used) \in 0..PerMinute
  BY <1>0 DEF CountedIn
<1>2. ASSUME NEW i \in 1..Len(times), i <= Len(times) - PerMinute PROVE times[i] + WindowMs <= t
  <2>1. times[i] \in Nat
    OBVIOUS
  <2>2. PICK n \in Nat, m \in 0..PerMinute : n = Len(times) /\ m = CountedIn(used)
    BY <1>0, <1>1
  <2>3. i \in Nat /\ i <= n - PerMinute
    BY <1>2, <2>2
  <2>4. i <= n - m
    BY <1>0, <2>2, <2>3
  <2>5. i <= Len(times) - CountedIn(used) /\ times[i] \in Nat
    BY <2>1, <2>2, <2>4
  <2>6. times[i] <= start
    BY <2>5 DEF Windowed
  <2>7. QED
    BY <1>0, <2>5, <2>6
<1>3. Len(times) <= 2 * PerMinute + 1 /\ Spaced(times)
  BY DEF Windowed
<1>4. QED
  BY <1>0, <1>1, <1>2, <1>3 DEF Windowed, UpTo

(* The next request is counted: but for it, everybody is accounted for.    *)
LEMMA CountedOk ==
    ASSUME PerMinute > 0, LimiterInv, NEW c \in Clients, NEW l, l = Counted(c)
    PROVE  /\ l \in [start: Nat, used: [Clients -> Nat]] /\ l.start <= now /\ l.used[c] > 0
           /\ \A d \in Clients \ {c} : Accounted(l, d)
           /\ Windowed(l.start, l.used[c] - 1, admitted[c])
           /\ l.used[c] > 1 => now - l.start < WindowMs
<1>0. /\ now \in Nat /\ limiter.start \in Nat /\ limiter.used \in [Clients -> Nat] /\ limiter.start <= now
      /\ WindowMs \in Nat
  BY DEF LimiterInv, LimiterTypes, ApiAssumption
<1>1. \A d \in Clients : /\ UpTo(admitted[d], now) /\ admitted[d] \in Seq(Nat) /\ limiter.used[d] \in Nat
                          /\ Windowed(limiter.start, limiter.used[d], admitted[d])
  BY DEF LimiterInv, LimiterTypes, Accounted
<1>2. CASE WindowOver
  <2>1. l = [start |-> now, used |-> [d \in Clients |-> IF d = c THEN 1 ELSE 0]]
    BY <1>2 DEF Counted
  <2>2. now >= limiter.start + WindowMs
    BY <1>0, <1>2 DEF WindowOver
  <2>3. \A d \in Clients : Windowed(now, 0, admitted[d])
    BY <1>0, <1>1, <2>2, WindowOpens
  <2>4. l.start = now /\ l.used[c] = 1 /\ \A d \in Clients \ {c} : l.used[d] = 0
    BY <2>1
  <2>5. l \in [start: Nat, used: [Clients -> Nat]]
    BY <1>0, <2>1
  <2>6. l.used[c] - 1 = 0
    BY <2>4
  <2>7. \A d \in Clients \ {c} : Accounted(l, d)
    BY <1>1, <2>3, <2>4 DEF Accounted
  <2>8. QED
    BY <1>0, <2>3, <2>4, <2>5, <2>6, <2>7
<1>3. CASE ~WindowOver
  <2>1. l = [limiter EXCEPT !.used[c] = @ + 1]
    BY <1>3 DEF Counted
  <2>2. limiter \in [start: Nat, used: [Clients -> Nat]]
    BY DEF LimiterInv, LimiterTypes
  <2>3. /\ l.start = limiter.start /\ l.used[c] = limiter.used[c] + 1
        /\ \A d \in Clients \ {c} : l.used[d] = limiter.used[d]
    BY <2>1, <2>2
  <2>4. l \in [start: Nat, used: [Clients -> Nat]]
    BY <2>1, <2>2
  <2>5. l.used[c] - 1 = limiter.used[c] /\ l.used[c] > 0
    BY <1>1, <2>3
  <2>6. \A d \in Clients \ {c} : Accounted(l, d)
    BY <1>1, <2>3 DEF Accounted
  <2>7. now - l.start < WindowMs
    BY <1>0, <1>3, <2>3 DEF WindowOver
  <2>8. QED
    BY <1>0, <1>1, <2>3, <2>4, <2>5, <2>6, <2>7
<1>4. QED
  BY <1>2, <1>3

(* A request passes.                                                       *)
LEMMA CheckStep ==
    ASSUME LimiterInv, NEW c \in Clients, Check(c), now' = now
    PROVE  LimiterInv'
<1> SUFFICES ASSUME PerMinute > 0 PROVE LimiterTypes' /\ \A d \in Clients : Accounted(limiter, d)'
  BY DEF LimiterInv
<1>0. PerMinute \in Nat /\ now \in Nat /\ admitted \in [Clients -> Seq(Nat)] /\ UpTo(admitted[c], now)
  BY DEF LimiterInv, LimiterTypes, Accounted, ApiAssumption
<1>1. PICK l : l = Counted(c)
  OBVIOUS
<1>2. limiter' = l /\ l.used[c] <= PerMinute
  BY <1>0, <1>1 DEF Check
<1>3. /\ l \in [start: Nat, used: [Clients -> Nat]] /\ l.start <= now /\ l.used[c] > 0
      /\ \A d \in Clients \ {c} : Accounted(l, d)
      /\ Windowed(l.start, l.used[c] - 1, admitted[c])
  BY <1>1, CountedOk
<1>4. PICK times : times = LastOf(Append(admitted[c], now))
  OBVIOUS
<1>5. times \in Seq(Nat) /\ Windowed(l.start, l.used[c], times) /\ UpTo(times, now)
  <2>1. PICK n \in Nat : l.used[c] = n + 1
    <3>1. l.used[c] \in Nat \ {0} /\ l.used[c] - 1 \in Nat
      BY <1>3
    <3>2. QED
      BY <3>1
  <2>2. l.used[c] - 1 = n /\ n < PerMinute /\ l.start \in Nat /\ admitted[c] \in Seq(Nat)
    BY <1>0, <1>2, <1>3, <2>1
  <2>3. Windowed(l.start, n, admitted[c])
    BY <1>3, <2>2
  <2>4. now >= l.start
    BY <1>0, <1>3, <2>2
  <2>5. QED
    BY <1>0, <1>4, <2>1, <2>2, <2>3, <2>4, LetIn
<1>6. admitted' = [admitted EXCEPT ![c] = times]
  BY <1>0, <1>4 DEF Check
<1>7. admitted' \in [Clients -> Seq(Nat)] /\ admitted'[c] = times /\ \A d \in Clients \ {c} : admitted'[d] = admitted[d]
  BY <1>0, <1>5, <1>6
<1>8. LimiterTypes'
  BY <1>0, <1>2, <1>3, <1>7 DEF LimiterTypes
<1>9. ASSUME NEW d \in Clients PROVE Accounted(limiter, d)'
  <2>1. CASE d = c
    BY <1>2, <1>5, <1>7, <2>1 DEF Accounted, UpTo, Windowed, CountedIn, Spaced
  <2>2. CASE d # c
    BY <1>2, <1>3, <1>7, <2>2 DEF Accounted, UpTo, Windowed, CountedIn, Spaced
  <2>3. QED
    BY <2>1, <2>2
<1>10. QED
  BY <1>8, <1>9

(* A request is refused: a window's worth was let in during this window.   *)
LEMMA RefusedStep ==
    ASSUME LimiterInv, NEW h \in Handlers, NEW c \in Clients, RateLimited(h, c)
    PROVE  /\ LimiterInv'
           /\ Len(admitted[c]) >= PerMinute
           /\ now - admitted[c][Len(admitted[c]) - PerMinute + 1] < WindowMs
<1>1. PICK l : l = Counted(c)
  OBVIOUS
<1>2. PerMinute > 0 /\ limiter' = l /\ l.used[c] > PerMinute /\ UNCHANGED <<admitted, now>>
  BY <1>1 DEF RateLimited, Receive
<1>3. /\ l \in [start: Nat, used: [Clients -> Nat]] /\ l.start <= now /\ l.used[c] > 0
      /\ \A d \in Clients \ {c} : Accounted(l, d)
      /\ Windowed(l.start, l.used[c] - 1, admitted[c])
      /\ l.used[c] > 1 => now - l.start < WindowMs
  BY <1>1, <1>2, CountedOk
<1>4. /\ PerMinute \in Nat /\ WindowMs \in Nat /\ now \in Nat /\ admitted \in [Clients -> Seq(Nat)]
      /\ UpTo(admitted[c], now) /\ l.used[c] \in Nat /\ l.start \in Nat
  BY <1>2, <1>3 DEF LimiterInv, LimiterTypes, Accounted, ApiAssumption
<1>5. CountedIn(l.used[c] - 1) = PerMinute /\ CountedIn(l.used[c]) = PerMinute
  BY <1>2, <1>4 DEF CountedIn
<1>6. Windowed(l.start, l.used[c], admitted[c])
  BY <1>3, <1>5 DEF Windowed
<1>7. \A d \in Clients : Accounted(l, d)
  BY <1>3, <1>4, <1>6 DEF Accounted
<1>8. LimiterInv'
  <2>1. LimiterTypes'
    BY <1>2, <1>3, <1>4 DEF LimiterTypes
  <2>2. ASSUME NEW d \in Clients PROVE Accounted(limiter, d)'
    <3>1. Accounted(l, d) /\ limiter' = l /\ admitted' = admitted /\ now' = now
      BY <1>2, <1>7
    <3>2. QED
      BY <3>1 DEF Accounted, UpTo, Windowed, CountedIn, Spaced
  <2>3. QED
    BY <2>1, <2>2 DEF LimiterInv
<1>9. Len(admitted[c]) \in Nat /\ Len(admitted[c]) >= PerMinute
  BY <1>4, <1>5, <1>6 DEF Windowed
<1>10. PICK i \in 1..Len(admitted[c]) : i = Len(admitted[c]) - PerMinute + 1
  <2>1. PICK n \in Nat : n = Len(admitted[c]) /\ n >= PerMinute
    BY <1>9
  <2>2. n - PerMinute + 1 \in 1..n
    BY <1>2, <1>4, <2>1
  <2>3. QED
    BY <2>1, <2>2
<1>11. admitted[c][i] >= l.start /\ admitted[c][i] \in Nat
  <2>1. Len(admitted[c]) - PerMinute \in Int
    BY <1>4, <1>9
  <2>2. i > Len(admitted[c]) - CountedIn(l.used[c])
    BY <1>5, <1>10, <2>1
  <2>3. admitted[c][i] >= l.start
    BY <1>6, <2>2 DEF Windowed
  <2>4. admitted[c] \in Seq(Nat)
    BY <1>4
  <2>5. admitted[c][i] \in Nat
    BY <1>10, <2>4
  <2>6. QED
    BY <2>3, <2>5
<1>12. now - l.start < WindowMs
  <2>1. l.used[c] > 1
    BY <1>2, <1>4
  <2>2. QED
    BY <1>3, <2>1
<1>13. PICK x \in Nat : x = admitted[c][i]
  BY <1>11
<1>14. now - x < WindowMs
  <2>1. x >= l.start
    BY <1>11, <1>13
  <2>2. now \in Nat /\ l.start \in Nat /\ WindowMs \in Nat
    BY <1>4
  <2>3. QED
    BY <1>12, <2>1, <2>2
<1>15. now - admitted[c][Len(admitted[c]) - PerMinute + 1] < WindowMs
  BY <1>10, <1>13, <1>14
<1>16. QED
  BY <1>8, <1>9, <1>15

(* Everything else leaves the limiter alone, while time may pass.          *)
LEMMA LimiterStill ==
    ASSUME LimiterInv, UNCHANGED <<limiter, admitted>>, PerMinute > 0 => now' \in Nat /\ now' >= now
    PROVE  LimiterInv'
<1> SUFFICES ASSUME PerMinute > 0 PROVE LimiterTypes' /\ \A c \in Clients : Accounted(limiter, c)'
  BY DEF LimiterInv
<1>1. LimiterTypes /\ now' \in Nat /\ now' >= now
  BY DEF LimiterInv
<1>2. LimiterTypes'
  BY <1>1 DEF LimiterTypes
<1>3. ASSUME NEW c \in Clients PROVE Accounted(limiter, c)'
  <2>1. admitted[c] \in Seq(Nat) /\ UpTo(admitted[c], now) /\ Windowed(limiter.start, limiter.used[c], admitted[c])
    BY <1>1 DEF LimiterInv, LimiterTypes, Accounted
  <2>2. UpTo(admitted[c], now')
    <3> SUFFICES ASSUME NEW i \in 1..Len(admitted[c]) PROVE admitted[c][i] <= now'
      BY DEF UpTo
    <3>1. admitted[c][i] <= now /\ admitted[c][i] \in Nat /\ now \in Nat
      BY <1>1, <2>1 DEF UpTo, LimiterTypes
    <3>2. QED
      BY <1>1, <3>1
  <2>3. QED
    BY <2>1, <2>2 DEF Accounted, UpTo, Windowed, CountedIn, Spaced
<1>4. QED
  BY <1>2, <1>3

LEMMA LimiterStep == LimiterInv /\ [Next]_vars => LimiterInv'
<1> SUFFICES ASSUME LimiterInv, [Next]_vars PROVE LimiterInv'
  OBVIOUS
<1>0. PerMinute > 0 => now \in Nat
  BY DEF LimiterInv, LimiterTypes
<1>1. CASE Served
  BY <1>0, <1>1, LimiterStill DEF Served, Ingest, Rollback, Tick, Change, apiVars
<1>2. CASE Archive
  <2>1. CASE LoseRedis
    BY <1>0, <2>1, LimiterStill DEF LoseRedis
  <2>2. ASSUME NEW h \in Handlers, NEW c \in Clients, ReadRoute(h, c) \/ \E q \in Digests : GetDigest(h, c, q)
        PROVE  LimiterInv'
    <3>1. Check(c) /\ now' = now
      BY <2>2 DEF ReadRoute, GetDigest, Receive
    <3>2. QED
      BY <3>1, CheckStep
  <2>3. ASSUME NEW h \in Handlers,
               GetFromRedis(h) \/ ReadPage(h) \/ SetDigest(h) \/ SetInRedis(h) \/ SendDigest(h) \/ Fail(h)
        PROVE  LimiterInv'
    <3>1. UNCHANGED <<limiter, admitted, now>>
      BY <2>3 DEF GetFromRedis, ReadPage, SetDigest, SetInRedis, SendDigest, Fail, Resume, apiVars
    <3>2. QED
      BY <1>0, <3>1, LimiterStill
  <2>4. QED
    BY <1>2, <2>1, <2>2, <2>3, RefusedStep DEF Archive, ApiNext
<1>3. CASE Coordination
  BY <1>0, <1>3, ServerMoves, LimiterStill DEF Coordination, apiVars
<1>4. CASE StartUp \/ UNCHANGED vars
  BY <1>0, <1>4, LimiterStill DEF StartUp, vars, archiveVars, apiVars
<1>5. QED
  BY <1>1, <1>2, <1>3, <1>4 DEF Next

(* Two windows' worth in a stretch as long as a window, and no refusal     *)
(* without a window's worth let in (the closure check of http.ts).         *)
THEOREM RateBounded == Spec => RateKept
<1>1. Init => LimiterInv
  <2> SUFFICES ASSUME ServedInit, ApiInit, PerMinute > 0
               PROVE  LimiterTypes /\ \A c \in Clients : Accounted(limiter, c)
    BY DEF Init, LimiterInv
  <2>1. LimiterTypes
    BY DEF ServedInit, ApiInit, LimiterTypes
  <2>2. \A c \in Clients : admitted[c] = <<>> /\ limiter.used[c] = 0 /\ limiter.start = 0
    BY DEF ServedInit, ApiInit
  <2>3. PerMinute \in Nat /\ CountedIn(0) = 0
    BY DEF CountedIn, ApiAssumption
  <2>4. Windowed(0, 0, <<>>) /\ UpTo(<<>>, now)
    BY <2>3 DEF Windowed, UpTo, Spaced
  <2>5. QED
    BY <2>1, <2>2, <2>4 DEF Accounted
<1>2. LimiterInv' => \A c \in Clients : Spaced(admitted'[c])
  BY DEF LimiterInv, Accounted, Windowed, Spaced
<1>3. LimiterInv => \A c \in Clients : HadItsShare(c) \/ \A h \in Handlers : ~RateLimited(h, c)
  BY RefusedStep DEF HadItsShare
<1>4. QED
  BY <1>1, <1>2, <1>3, LimiterStep, PTL DEF Spec, RateKept

USE ServerAssumption, MigrationsAssumption

----------------------------------------------------------------------------
(* Starting services.  An instance between BEGIN and COMMIT holds the lock,*)
(* alone, and has found everything below its migration applied; what it    *)
(* found not applied stays so until it commits.                            *)

InTransaction == {"check", "statements", "commit"}

StartTypes ==
    /\ applied \subseteq Versions
    /\ executed \in [Versions -> Nat]
    /\ starting \in [Instances -> [at: {"down", "create", "begin", "ready"} \cup InTransaction,
                                   migration: Nat, run: Nat]]

Recorded ==
    /\ \A m \in Versions : executed[m] = IF m \in applied THEN 1 ELSE 0
    /\ \A m \in applied : 1..m \subseteq applied

Progress(i) ==
    /\ starting[i].at \in InTransaction => lock = {i}
    /\ starting[i].at \in {"begin"} \cup InTransaction =>
         /\ starting[i].migration \in 1..Known[i]
         /\ 1 .. starting[i].migration - 1 \subseteq applied
    /\ At(i, "ready") => 1..Known[i] \subseteq applied
    /\ starting[i].at \in {"begin", "check"} => starting[i].run = 0
    /\ At(i, "statements") => starting[i].migration \notin applied
    /\ At(i, "commit") => (starting[i].run = 0 <=> starting[i].migration \in applied)

StartInv == StartTypes /\ Recorded /\ \A i \in Instances : Progress(i)

LEMMA VersionsOfInstance ==
    ASSUME NEW i \in Instances, NEW m \in 1..Known[i]
    PROVE  m \in Versions
BY DEF Versions

(* The turn after a migration that is applied, or the first.               *)
LEMMA NextTurn ==
    ASSUME NEW i \in Instances, NEW m \in Nat, m >= 1, m <= Known[i] + 1
    PROVE  /\ Turn(i, m) \in [at: {"begin", "ready"}, migration: Nat, run: Nat]
           /\ Turn(i, m).run = 0 /\ Turn(i, m).migration = m
           /\ Turn(i, m).at = "begin" => m \in 1..Known[i]
           /\ Turn(i, m).at = "ready" => 1..Known[i] \subseteq 1 .. m - 1
<1>1. Known[i] \in Nat
  BY DEF MigrationsAssumption
<1>2. QED
  BY <1>1 DEF Turn

(* A step of instance i that leaves the tables alone.                      *)
LEMMA OwnStep ==
    ASSUME StartInv, NEW i \in Instances,
           UNCHANGED <<applied, executed>>,
           starting' \in [Instances -> [at: {"down", "create", "begin", "ready"} \cup InTransaction,
                                        migration: Nat, run: Nat]],
           \A j \in Instances \ {i} : starting'[j] = starting[j],
           \A j \in Instances \ {i} : lock = {j} => lock' = {j},
           Progress(i)'
    PROVE  StartInv'
<1>1. ASSUME NEW j \in Instances \ {i} PROVE Progress(j)'
  <2>1. starting'[j] = starting[j] /\ (lock = {j} => lock' = {j}) /\ Progress(j)
    BY <1>1 DEF StartInv
  <2>2. QED
    BY <2>1 DEF Progress, At
<1>2. StartTypes' /\ Recorded'
  BY DEF StartInv, StartTypes, Recorded
<1>3. QED
  BY <1>1, <1>2 DEF StartInv

LEMMA MigrationStep ==
    ASSUME StartInv, NEW i \in Instances,
           \/ Start(i) \/ CreateTable(i) \/ Lock(i) \/ CheckApplied(i) \/ RunStatement(i)
           \/ RecordVersion(i) \/ CommitMigration(i) \/ Exit(i)
    PROVE  StartInv'
<1> USE DEF StartInv, StartTypes, InTransaction
<1>0. /\ Progress(i) /\ Known[i] \in Nat
      /\ starting[i] \in [at: {"down", "create", "begin", "ready"} \cup InTransaction,
                          migration: Nat, run: Nat]
  BY DEF MigrationsAssumption
<1>1. CASE Start(i)
  <2>1. Progress(i)'
    BY <1>1, <1>0 DEF Start, GoTo, Tables, At, Progress
  <2>2. QED
    BY <1>1, <2>1, OwnStep DEF Start, GoTo, Tables
<1>2. CASE CreateTable(i)
  <2>1. Turn(i, 1) \in [at: {"begin", "ready"}, migration: Nat, run: Nat]
    BY <1>0, NextTurn
  <2>2. Progress(i)'
    <3>1. starting'[i] = Turn(i, 1) /\ applied' = applied
      BY <1>2 DEF CreateTable, Tables
    <3>2. QED
      BY <3>1, <1>0, NextTurn DEF Progress, At
  <2>3. QED
    BY <1>2, <2>1, <2>2, OwnStep DEF CreateTable, Tables
<1>3. CASE Lock(i)
  <2>1. Progress(i)'
    BY <1>3, <1>0 DEF Lock, GoTo, Tables, At, Progress
  <2>2. QED
    BY <1>3, <2>1, OwnStep DEF Lock, GoTo, Tables
<1>4. CASE CheckApplied(i)
  <2>1. Progress(i)'
    BY <1>4, <1>0 DEF CheckApplied, GoTo, Tables, At, Progress
  <2>2. QED
    BY <1>4, <2>1, OwnStep DEF CheckApplied, GoTo, Tables
<1>5. CASE RunStatement(i)
  <2>1. Progress(i)'
    BY <1>5, <1>0 DEF RunStatement, Tables, At, Progress
  <2>2. QED
    BY <1>5, <2>1, OwnStep DEF RunStatement, Tables
<1>6. CASE RecordVersion(i)
  <2>1. Progress(i)'
    BY <1>6, <1>0 DEF RecordVersion, GoTo, Tables, At, Progress, MigrationsAssumption
  <2>2. QED
    BY <1>6, <2>1, OwnStep DEF RecordVersion, GoTo, Tables
<1>7. CASE Exit(i)
  <2>1. Progress(i)'
    BY <1>7, <1>0 DEF Exit, Down, Tables, At, Progress
  <2>2. Down \in [at: {"down"}, migration: Nat, run: Nat]
    BY DEF Down
  <2>3. QED
    BY <1>7, <2>1, <2>2, OwnStep DEF Exit, Tables
<1>8. CASE CommitMigration(i)
  <2> DEFINE m == starting[i].migration
  <2>1. /\ lock = {i} /\ m \in 1..Known[i] /\ m \in Versions /\ 1 .. m - 1 \subseteq applied
        /\ starting[i].run = 0 <=> m \in applied
    BY <1>8, <1>0, VersionsOfInstance DEF CommitMigration, Progress, At
  <2>2. applied' = applied \cup {m} /\ applied' \subseteq Versions
    BY <1>8, <2>1 DEF CommitMigration, Tables
  <2>3. executed' = IF m \in applied THEN executed ELSE [executed EXCEPT ![m] = @ + 1]
    BY <1>8, <2>1 DEF CommitMigration, Tables
  <2>4. Recorded' /\ executed' \in [Versions -> Nat]
    <3>1. executed' \in [Versions -> Nat]
      BY <2>1, <2>3
    <3>2. ASSUME NEW v \in Versions PROVE executed'[v] = IF v \in applied' THEN 1 ELSE 0
      <4>1. executed[v] = (IF v \in applied THEN 1 ELSE 0) /\ executed[m] = (IF m \in applied THEN 1 ELSE 0)
        BY <2>1 DEF Recorded
      <4>2. CASE m \in applied
        BY <4>1, <4>2, <2>2, <2>3
      <4>3. CASE m \notin applied
        BY <4>1, <4>3, <2>1, <2>2, <2>3
      <4>4. QED
        BY <4>2, <4>3
    <3>3. ASSUME NEW v \in applied' PROVE 1..v \subseteq applied'
      <4>1. m \in Nat /\ 1..m \subseteq (1 .. m - 1) \cup {m}
        BY <1>0, <2>1
      <4>2. v \in applied \/ v = m
        BY <2>2
      <4>3. CASE v \in applied
        BY <4>3, <2>2 DEF Recorded
      <4>4. CASE v = m
        BY <4>1, <4>4, <2>1, <2>2
      <4>5. QED
        BY <4>2, <4>3, <4>4
    <3>4. QED
      BY <3>1, <3>2, <3>3 DEF Recorded
  <2>5. starting' = [starting EXCEPT ![i] = Turn(i, m + 1)] /\ lock' = {}
    BY <1>8, <2>1 DEF CommitMigration
  <2>6. /\ Turn(i, m + 1) \in [at: {"begin", "ready"}, migration: Nat, run: Nat]
        /\ 1 .. m \subseteq applied'
    <3>1. m \in 1..Known[i] /\ m + 1 - 1 = m
      BY <2>1, <1>0
    <3>2. 1 .. m \subseteq (1 .. m - 1) \cup {m}
      BY <3>1
    <3>3. Turn(i, m + 1) \in [at: {"begin", "ready"}, migration: Nat, run: Nat]
      BY <3>1, <1>0, NextTurn
    <3>4. QED
      BY <3>2, <3>3, <2>1, <2>2
  <2>7. Progress(i)'
    <3>1. starting'[i] = Turn(i, m + 1)
      BY <2>5
    <3>2. QED
      BY <3>1, <1>0, <2>1, <2>6, NextTurn DEF Progress, At
  <2>8. ASSUME NEW j \in Instances \ {i} PROVE Progress(j)'
    <3>1. starting'[j] = starting[j] /\ Progress(j) /\ starting[j].at \notin InTransaction
      BY <2>1, <2>5 DEF Progress
    <3>2. QED
      BY <3>1, <2>2 DEF Progress, At
  <2>9. QED
    BY <2>2, <2>4, <2>5, <2>6, <2>7, <2>8
<1>9. QED
  BY <1>1, <1>2, <1>3, <1>4, <1>5, <1>6, <1>7, <1>8

(* Every migration is committed once, in order, by however many instances  *)
(* of whichever builds start, fail and start again at once (migrate).      *)
THEOREM MigratedInStep == Spec => []SchemaInStep
<1>1. Init => StartInv
  <2> SUFFICES ASSUME MigrationsInit PROVE StartInv
    BY DEF Init
  <2>1. \A m \in {} : 1..m \subseteq {}
    OBVIOUS
  <2>2. QED
    BY <2>1 DEF MigrationsInit, StartInv, StartTypes, Recorded, Progress, At, Down, InTransaction
<1>2. StartInv /\ [Next]_vars => StartInv'
  <2> SUFFICES ASSUME StartInv, [Next]_vars PROVE StartInv'
    OBVIOUS
  <2>1. CASE StartUp
    BY <2>1, MigrationStep DEF StartUp, MigrationsNext
  <2>2. CASE UNCHANGED migrationVars
    BY <2>2 DEF migrationVars, StartInv, StartTypes, Recorded, Progress, At
  <2>3. QED
    BY <2>1, <2>2 DEF Next, Served, Archive, Coordination, vars
<1>3. StartInv => SchemaInStep
  BY DEF StartInv, StartTypes, Recorded, Progress, SchemaInStep
<1>4. QED
  BY <1>1, <1>2, <1>3, PTL DEF Spec

----------------------------------------------------------------------------
(* Sessions.  A handler that has reported knows of a session that has heard*)
(* of its cursor.                                                          *)

(* handler is a function, and only one handler moves at a time.            *)
Session == [startedAt: Nat, from: Nat, toCursor: Nat, cursor: Nat, expected: Nat, reported: Nat,
            status: {"unopened", "pending", "in-progress", "complete"}]

SessionTypes ==
    /\ IsHandlers
    /\ size \in 0..MaxEvents /\ now \in Nat
    /\ live \subseteq Ids
    /\ session \in [Ids -> Session]
    /\ furthest \in [Ids -> Nat]

CallOf(l) ==
    /\ l.at \in {"summary", "count", "open"} => l.from \in Nat
    /\ l.at \in {"count", "open"} => l.last \in Nat
    /\ l.at = "open" => l.count \in Nat
    /\ l.at \in {"ledger", "reported", "finish"} => l.id \in Ids /\ l.cursor \in Nat
    /\ l.at \in {"reported", "finish"} => furthest[l.id] >= l.cursor
    /\ l.at = "finish" => l.count \in Nat

SessionInv ==
    /\ SessionTypes /\ SessionsBounded /\ CompletedByReport
    /\ \A h \in Handlers : CallOf(handler[h])

LEMMA CountedInNat ==
    ASSUME size \in 0..MaxEvents, NEW S \in SUBSET (1..size)
    PROVE  Cardinality(S) \in Nat
<1>1. IsFiniteSet(1..size)
  BY FS_Interval DEF ServedArchiveAssumption
<1>2. QED
  BY <1>1, FS_Subset, FS_CardinalityType

(* A handler that moves to a call in order leaves the others in order, as  *)
(* long as what they have reported is still known.                         *)
LEMMA CallsKept ==
    ASSUME SessionInv, NEW h \in Handlers, NEW l, Moves(h, l),
           furthest' \in [Ids -> Nat], \A i \in Ids : furthest'[i] >= furthest[i],
           CallOf(l)'
    PROVE  IsHandlers' /\ \A g \in Handlers : CallOf(handler[g])'
<1>1. IsHandlers' /\ handler'[h] = l
  BY DEF SessionInv, SessionTypes, IsHandlers, Moves
<1>2. ASSUME NEW g \in Handlers, g # h PROVE CallOf(handler[g])'
  <2>1. handler'[g] = handler[g] /\ CallOf(handler[g])
    BY <1>2 DEF SessionInv, SessionTypes, IsHandlers, Moves
  <2>2. furthest \in [Ids -> Nat]
    BY DEF SessionInv, SessionTypes
  <2>3. QED
    BY <2>1, <2>2 DEF CallOf
<1>3. QED
  BY <1>1, <1>2

(* A step that touches neither sessions nor reports.                       *)
LEMMA SessionsUntouched ==
    ASSUME SessionInv, NEW h \in Handlers, NEW l, Moves(h, l), UNCHANGED <<size, now, serverVars>>,
           CallOf(l)'
    PROVE  SessionInv'
<1>1. furthest' \in [Ids -> Nat] /\ \A i \in Ids : furthest'[i] >= furthest[i]
  BY DEF SessionInv, SessionTypes, serverVars
<1>2. IsHandlers' /\ \A g \in Handlers : CallOf(handler[g])'
  BY <1>1, CallsKept
<1>3. SessionTypes' /\ SessionsBounded' /\ CompletedByReport'
  BY <1>2 DEF SessionInv, SessionTypes, SessionsBounded, CompletedByReport, Opened, serverVars
<1>4. QED
  BY <1>2, <1>3 DEF SessionInv

LEMMA ReadStep ==
    ASSUME SessionInv, NEW h \in Handlers,
           \/ Post(h) \/ ReadSummary(h) \/ CountExpected(h)
           \/ GetStatus(h) \/ CountReported(h) \/ AbandonCall(h)
    PROVE  SessionInv'
<1> USE DEF Receive, Resume, Moves
<1>0. CallOf(handler[h]) /\ size \in Nat /\ SessionTypes
  BY DEF SessionInv, SessionTypes, ServedArchiveAssumption
<1>1. CASE Post(h)
  <2>1. PICK from \in Cursors \cup {Missing} : Receive(h, [at |-> "summary", from |-> from])
    BY <1>1 DEF Post
  <2>2. from \in Nat
    BY DEF Cursors, Missing, ServedArchiveAssumption
  <2>3. CallOf([at |-> "summary", from |-> from])'
    BY <2>2 DEF CallOf
  <2>4. QED
    BY <1>1, <2>1, <2>3, SessionsUntouched DEF Post
<1>2. CASE ReadSummary(h)
  <2>1. CallOf([at |-> "count", from |-> handler[h].from, last |-> size])'
    BY <1>0, <1>2 DEF ReadSummary, CallOf
  <2>2. QED
    BY <1>2, <2>1, SessionsUntouched DEF ReadSummary
<1>3. CASE CountExpected(h)
  <2>1. Cardinality({c \in 1..size : c > handler[h].from}) \in Nat
    BY <1>0, CountedInNat DEF SessionTypes
  <2>2. CallOf([at |-> "open", from |-> handler[h].from, last |-> handler[h].last,
                count |-> Cardinality({c \in 1..size : c > handler[h].from})])'
    BY <1>0, <1>3, <2>1 DEF CountExpected, CallOf
  <2>3. QED
    BY <1>3, <2>2, SessionsUntouched DEF CountExpected
<1>4. CASE GetStatus(h)
  <2>1. PICK i \in live, c \in Cursors \cup {CURSOR_MAX} :
            Receive(h, [at |-> "ledger", id |-> i, cursor |-> c])
    BY <1>4 DEF GetStatus
  <2>2. i \in Ids /\ c \in Nat
    BY <1>0 DEF SessionTypes, Cursors, CURSOR_MAX, ServedArchiveAssumption
  <2>3. CallOf([at |-> "ledger", id |-> i, cursor |-> c])'
    BY <2>2 DEF CallOf
  <2>4. QED
    BY <1>4, <2>1, <2>3, SessionsUntouched DEF GetStatus
<1>5. CASE CountReported(h)
  <2>1. Cardinality({c \in 1..size : c <= handler[h].cursor}) \in Nat
    BY <1>0, CountedInNat DEF SessionTypes
  <2>2. CallOf([at |-> "finish", id |-> handler[h].id, cursor |-> handler[h].cursor,
                count |-> Cardinality({c \in 1..size : c <= handler[h].cursor})])'
    BY <1>0, <1>5, <2>1 DEF CountReported, CallOf, serverVars
  <2>3. QED
    BY <1>5, <2>2, SessionsUntouched DEF CountReported
<1>6. CASE AbandonCall(h)
  <2>1. CallOf(Idle)'
    BY DEF CallOf, Idle
  <2>2. QED
    BY <1>6, <2>1, SessionsUntouched DEF AbandonCall
<1>7. QED
  BY <1>1, <1>2, <1>3, <1>4, <1>5, <1>6

LEMMA ReportStep ==
    ASSUME SessionInv, NEW h \in Handlers, Report(h)
    PROVE  SessionInv'
<1>a. PICK l : l = handler[h]
  OBVIOUS
<1> DEFINE id == l.id
           moved == [at |-> "reported", id |-> l.id, cursor |-> l.cursor]
<1>0. CallOf(l) /\ SessionTypes /\ l.at = "ledger" /\ id \in Ids /\ l.cursor \in Nat
  BY <1>a DEF SessionInv, Report, CallOf
<1>1. session' = [session EXCEPT ![id].cursor = l.cursor]
  BY <1>a DEF Report
<1>2. session' \in [Ids -> Session]
  BY <1>0, <1>1 DEF SessionTypes, Session
<1>3. \A i \in Ids : /\ session'[i].status = session[i].status
                      /\ session'[i].expected = session[i].expected
                      /\ session'[i].toCursor = session[i].toCursor
  BY <1>0, <1>1 DEF SessionTypes, Session
<1>4. /\ furthest' \in [Ids -> Nat]
      /\ \A i \in Ids : furthest'[i] >= furthest[i]
      /\ furthest'[id] >= l.cursor
  <2>1. furthest' = [furthest EXCEPT ![id] = GreaterOf(furthest[id], l.cursor)]
    BY <1>a DEF Report
  <2>2. /\ GreaterOf(furthest[id], l.cursor) \in Nat
        /\ GreaterOf(furthest[id], l.cursor) >= furthest[id]
        /\ GreaterOf(furthest[id], l.cursor) >= l.cursor
    BY <1>0 DEF GreaterOf, SessionTypes
  <2>3. QED
    BY <1>0, <2>1, <2>2 DEF SessionTypes
<1>5. Moves(h, moved)
  BY <1>a DEF Report, Resume, Moves
<1>6. moved.id = id /\ moved.cursor = l.cursor /\ moved.at = "reported"
  OBVIOUS
<1>7. CallOf(moved)'
  BY <1>0, <1>4, <1>6 DEF CallOf
<1>8. IsHandlers' /\ \A g \in Handlers : CallOf(handler[g])'
  BY <1>4, <1>5, <1>7, CallsKept
<1>9. SessionTypes' /\ SessionsBounded'
  BY <1>2, <1>4, <1>8 DEF SessionInv, SessionTypes, SessionsBounded, Report, Resume
<1>10. CompletedByReport'
  <2> SUFFICES ASSUME NEW i \in Ids, session'[i].status = "complete", session'[i].expected > 0
               PROVE  furthest'[i] >= session'[i].toCursor
    BY DEF CompletedByReport, Opened
  <2>1. furthest[i] >= session[i].toCursor
    BY <1>3 DEF SessionInv, CompletedByReport, Opened
  <2>2. furthest[i] \in Nat /\ furthest'[i] \in Nat /\ session[i].toCursor \in Nat
    BY <1>0, <1>4 DEF SessionTypes, Session
  <2>3. QED
    BY <1>3, <1>4, <2>1, <2>2
<1>11. QED
  BY <1>8, <1>9, <1>10 DEF SessionInv

LEMMA FinishStep ==
    ASSUME SessionInv, NEW h \in Handlers, Finish(h)
    PROVE  SessionInv'
<1> DEFINE l == handler[h]
           id == l.id
           told == IF Reached(l) THEN "complete" ELSE "in-progress"
<1>0. /\ CallOf(l) /\ SessionTypes /\ id \in Ids /\ l.cursor \in Nat /\ l.count \in Nat
      /\ furthest[id] >= l.cursor
  BY DEF SessionInv, Finish, CallOf
<1>1. session' = [session EXCEPT ![id].reported = l.count, ![id].status = told]
  BY DEF Finish
<1>2. session' \in [Ids -> Session]
  BY <1>0, <1>1 DEF SessionTypes, Session
<1>3. /\ \A i \in Ids : /\ session'[i].expected = session[i].expected
                         /\ session'[i].toCursor = session[i].toCursor
      /\ session'[id].status = told
      /\ \A i \in Ids \ {id} : session'[i].status = session[i].status
  BY <1>0, <1>1 DEF SessionTypes, Session
<1>4. furthest' = furthest /\ live' = live /\ size' = size /\ now' = now
  BY DEF Finish, Resume
<1>5. CallOf(Idle)'
  BY DEF CallOf, Idle
<1>6. IsHandlers' /\ \A g \in Handlers : CallOf(handler[g])'
  <2>1. Moves(h, Idle)
    BY DEF Finish, Resume, Moves
  <2>2. furthest' \in [Ids -> Nat] /\ \A i \in Ids : furthest'[i] >= furthest[i]
    BY <1>0, <1>4 DEF SessionTypes
  <2>3. QED
    BY <1>5, <2>1, <2>2, CallsKept
<1>7. SessionTypes' /\ SessionsBounded'
  BY <1>2, <1>4, <1>6 DEF SessionInv, SessionTypes, SessionsBounded
<1>8. CompletedByReport'
  <2> SUFFICES ASSUME NEW i \in Ids, session'[i].status = "complete", session'[i].expected > 0
               PROVE  furthest[i] >= session[i].toCursor
    BY <1>3, <1>4 DEF CompletedByReport, Opened
  <2>1. CASE i = id
    <3>1. l.cursor >= session[id].toCursor
      BY <1>3, <2>1 DEF Reached
    <3>2. furthest[id] \in Nat /\ session[id].toCursor \in Nat
      BY <1>0 DEF SessionTypes, Session
    <3>3. QED
      BY <1>0, <2>1, <3>1, <3>2
  <2>2. CASE i # id
    BY <1>3, <2>2 DEF SessionInv, CompletedByReport, Opened
  <2>3. QED
    BY <2>1, <2>2
<1>9. QED
  BY <1>6, <1>7, <1>8 DEF SessionInv

(* The limit is looked at with the sessions that are left, and nobody gets *)
(* between that look and the insertion.                                    *)
LEMMA OpenStep ==
    ASSUME SessionInv, NEW h \in Handlers, Open(h) \/ Refuse(h)
    PROVE  SessionInv'
<1>0. /\ CallOf(handler[h]) /\ SessionTypes /\ IsFiniteSet(live)
      /\ Cardinality(live) <= MaxSessions /\ Cardinality(live) \in Nat /\ MaxSessions \in Nat
  BY FS_Subset, FS_CardinalityType DEF SessionInv, SessionTypes, SessionsBounded, ServerAssumption
<1>1. /\ IsFiniteSet(live \ Expired) /\ Cardinality(live \ Expired) \in Nat
      /\ Cardinality(live \ Expired) <= Cardinality(live)
  BY <1>0, FS_Subset, FS_CardinalityType
<1>2. IsHandlers' /\ \A g \in Handlers : CallOf(handler[g])'
  <2>1. Moves(h, Idle) /\ CallOf(Idle)'
    BY DEF Open, Refuse, Resume, Moves, CallOf, Idle
  <2>2. furthest' \in [Ids -> Nat] /\ \A i \in Ids : furthest'[i] >= furthest[i]
    BY <1>0 DEF SessionTypes, Open, Refuse
  <2>3. QED
    BY <2>1, <2>2, CallsKept
<1>3. CASE Refuse(h)
  <2>1. SessionTypes' /\ SessionsBounded'
    BY <1>0, <1>1, <1>2, <1>3 DEF SessionTypes, SessionsBounded, Refuse, Resume
  <2>2. CompletedByReport'
    BY <1>3 DEF SessionInv, CompletedByReport, Opened, Refuse
  <2>3. QED
    BY <1>2, <2>1, <2>2 DEF SessionInv
<1>4. CASE Open(h)
  <2> DEFINE new == Opening(handler[h])
  <2>1. PICK i \in Ids \ Opened : /\ session' = [session EXCEPT ![i] = new]
                                  /\ live' = (live \ Expired) \cup {i}
    BY <1>4 DEF Open
  <2>2. new \in Session
    <3>1. /\ handler[h].from \in Nat /\ handler[h].last \in Nat /\ handler[h].count \in Nat
          /\ now \in Nat
      BY <1>0, <1>4 DEF Open, CallOf, SessionTypes
    <3>2. QED
      BY <3>1 DEF Opening, Session, CURSOR_MAX, ServedArchiveAssumption
  <2>3. SessionTypes'
    BY <1>0, <1>2, <1>4, <2>1, <2>2 DEF SessionTypes, Open, Resume
  <2>4. SessionsBounded'
    <3>1. Cardinality(live \ Expired) < MaxSessions
      BY <1>0, <1>1, <1>4 DEF Open, Full
    <3> DEFINE L == live \ Expired
    <3>2. Cardinality(L \cup {i}) <= Cardinality(L) + 1
      <4>0. IsFiniteSet(L) /\ Cardinality(L) \in Nat
        BY <1>1
      <4> HIDE DEF L
      <4>1. Cardinality(L \cup {i}) = IF i \in L THEN Cardinality(L) ELSE Cardinality(L) + 1
        BY <4>0, FS_AddElement
      <4>2. QED
        BY <4>0, <4>1
    <3>3. Cardinality((live \ Expired) \cup {i}) \in Nat
      BY <1>1, FS_AddElement, FS_CardinalityType
    <3>4. QED
      BY <1>0, <1>1, <2>1, <3>1, <3>2, <3>3 DEF SessionsBounded
  <2>5. CompletedByReport'
    <3> SUFFICES ASSUME NEW j \in Ids, session'[j].status = "complete", session'[j].expected > 0
                 PROVE  furthest'[j] >= session'[j].toCursor
      BY DEF CompletedByReport, Opened
    <3>1. j # i
      BY <1>0, <2>1 DEF SessionTypes, Opening
    <3>2. session'[j] = session[j] /\ furthest' = furthest
      BY <1>0, <1>4, <2>1, <3>1 DEF SessionTypes, Open
    <3>3. QED
      BY <3>2 DEF SessionInv, CompletedByReport, Opened
  <2>6. QED
    BY <1>2, <2>3, <2>4, <2>5 DEF SessionInv
<1>5. QED
  BY <1>3, <1>4

(* The archive's API knows nothing of sessions.                            *)
ApiCalls == {"idle", "get", "events", "set", "send"}

LEMMA ApiMoves ==
    ASSUME ApiNext
    PROVE  /\ UNCHANGED <<size, now>>
           /\ UNCHANGED handler \/ \E h \in Handlers : \E l : Moves(h, l) /\ l.at \in ApiCalls
<1> USE DEF Receive, Resume, Moves, ApiCalls
<1> DEFINE Call(h) == UNCHANGED <<size, now>> /\ \E l : Moves(h, l) /\ l.at \in ApiCalls
<1>1. Idle.at \in ApiCalls
  BY DEF Idle
<1>2. \A q, t : Got(q, t).at \in ApiCalls
  BY DEF Got, Send, Reading
<1>3. \A q, t, d : Send(q, t, d).at \in ApiCalls
  BY DEF Send
<1>4. ASSUME NEW h \in Handlers, NEW c \in Clients
      PROVE  /\ RateLimited(h, c) \/ ReadRoute(h, c) => Call(h)
             /\ \A q \in Digests : GetDigest(h, c, q) => Call(h)
  <2>1. RateLimited(h, c) \/ ReadRoute(h, c) => Call(h)
    BY <1>1 DEF RateLimited, ReadRoute
  <2>2. ASSUME NEW q \in Digests, GetDigest(h, c, q) PROVE Call(h)
    <3>1. Receive(h, Got(q, now)) => Call(h)
      <4>1. PICK l : l = Got(q, now)
        OBVIOUS
      <4>2. QED
        BY <1>2, <4>1
    <3>2. Receive(h, [at |-> "get", request |-> q, asked |-> now]) => Call(h)
      <4>1. PICK l : l = [at |-> "get", request |-> q, asked |-> now]
        OBVIOUS
      <4>2. l.at \in ApiCalls
        BY <4>1
      <4>3. QED
        BY <4>1, <4>2
    <3>3. QED
      BY <1>1, <2>2, <3>1, <3>2 DEF GetDigest
  <2>3. QED
    BY <2>1, <2>2
<1>5. ASSUME NEW h \in Handlers,
             GetFromRedis(h) \/ ReadPage(h) \/ SetDigest(h) \/ SetInRedis(h) \/ SendDigest(h) \/ Fail(h)
      PROVE  Call(h)
  <2>1. CASE GetFromRedis(h)
    <3>1. PICK l : l = Got(handler[h].request, handler[h].asked)
      OBVIOUS
    <3>2. QED
      BY <1>2, <2>1, <3>1 DEF GetFromRedis
  <2>2. CASE ReadPage(h)
    <3>1. PICK l : l = Reading(handler[h].request, handler[h].asked, Version, now)
      OBVIOUS
    <3>2. l.at = "events"
      BY <3>1 DEF Reading
    <3>3. QED
      BY <2>2, <3>1, <3>2 DEF ReadPage
  <2>3. CASE SetDigest(h)
    <3>1. \A d : [at |-> "set", asked |-> handler[h].asked, digest |-> d, since |-> now].at \in ApiCalls
      OBVIOUS
    <3>2. PICK d : d = Computed(handler[h])
      OBVIOUS
    <3>3. QED
      BY <1>1, <1>3, <2>3, <3>1, <3>2 DEF SetDigest
  <2>4. CASE SetInRedis(h)
    BY <1>3, <2>4 DEF SetInRedis
  <2>5. CASE SendDigest(h) \/ Fail(h)
    BY <1>1, <2>5 DEF SendDigest, Fail
  <2>6. QED
    BY <1>5, <2>1, <2>2, <2>3, <2>4, <2>5
<1>6. CASE LoseRedis
  BY <1>6 DEF LoseRedis
<1>7. QED
  BY <1>4, <1>5, <1>6 DEF ApiNext

LEMMA SessionStep == SessionInv /\ [Next]_vars => SessionInv'
<1> SUFFICES ASSUME SessionInv, [Next]_vars PROVE SessionInv'
  OBVIOUS
<1>1. ASSUME UNCHANGED <<serverVars, handler>>, size' \in 0..MaxEvents, now' \in Nat
      PROVE  SessionInv'
  BY <1>1 DEF SessionInv, SessionTypes, SessionsBounded, CompletedByReport, Opened, IsHandlers,
              CallOf, serverVars
<1>2. CASE Served
  <2>1. size' \in 0..MaxEvents /\ now' \in Nat
    BY <1>2 DEF Served, Ingest, Rollback, Tick, Change, SessionInv, SessionTypes, ServedArchiveAssumption
  <2>2. QED
    BY <1>1, <1>2, <2>1 DEF Served, Ingest, Rollback, Tick, Change
<1>3. CASE Archive
  <2>1. CASE UNCHANGED handler
    BY <1>1, <1>3, <2>1, ApiMoves DEF Archive, SessionInv, SessionTypes
  <2>2. CASE \E h \in Handlers : \E l : Moves(h, l) /\ l.at \in ApiCalls
    <3>1. PICK h \in Handlers : \E l : Moves(h, l) /\ l.at \in ApiCalls
      BY <2>2
    <3>2. PICK l : Moves(h, l) /\ l.at \in ApiCalls
      BY <3>1
    <3>3. CallOf(l)'
      BY <3>2 DEF CallOf, ApiCalls
    <3>4. QED
      BY <1>3, <3>2, <3>3, ApiMoves, SessionsUntouched DEF Archive
  <2>3. QED
    BY <1>3, <2>1, <2>2, ApiMoves DEF Archive
<1>4. CASE Coordination
  BY <1>4, ReadStep, ReportStep, FinishStep, OpenStep DEF Coordination, ServerNext
<1>5. CASE StartUp \/ UNCHANGED vars
  BY <1>1, <1>5 DEF StartUp, vars, archiveVars, SessionInv, SessionTypes
<1>6. QED
  BY <1>2, <1>3, <1>4, <1>5 DEF Next

LEMMA SessionsKept == Spec => []SessionInv
<1>1. Init => SessionInv
  <2> SUFFICES ASSUME ServedInit, ServerInit PROVE SessionInv
    BY DEF Init
  <2>1. SessionTypes
    BY DEF ServedInit, ServerInit, SessionTypes, IsHandlers, Session, NoSession, Missing,
           ServedArchiveAssumption
  <2>2. SessionsBounded
    BY FS_EmptySet DEF ServerInit, SessionsBounded, ServerAssumption
  <2>3. CompletedByReport /\ \A h \in Handlers : CallOf(handler[h])
    BY DEF ServedInit, ServerInit, CompletedByReport, Opened, NoSession, CallOf, Idle
  <2>4. QED
    BY <2>1, <2>2, <2>3 DEF SessionInv
<1>2. QED
  BY <1>1, SessionStep, PTL DEF Spec

(* The session map never outgrows maxSessions, however many creations are  *)
(* between their awaits when the last place is taken (createSession).      *)
THEOREM SessionLimitKept == Spec => []SessionsBounded
<1>1. SessionInv => SessionsBounded
  BY DEF SessionInv
<1>2. QED
  BY <1>1, SessionsKept, PTL

(* A session that had something to fetch is complete only once its client  *)
(* has reported the end of its range, whatever calls overlap (handle).     *)
THEOREM CompletionReported == Spec => []CompletedByReport
<1>1. SessionInv => CompletedByReport
  BY DEF SessionInv
<1>2. QED
  BY <1>1, SessionsKept, PTL
=============================================================================
