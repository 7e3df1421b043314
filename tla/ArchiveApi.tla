----------------------------- MODULE ArchiveApi -----------------------------
(***************************************************************************)
(* The archive's HTTP API: the rate limiter every request passes, the      *)
(* routes that read the store, and the digests, which are read through a   *)
(* cache: Redis, or the map of the process.  Handlers interleave at their  *)
(* awaits, with each other and with ingestion.                             *)
(*                                                                         *)
(* A digest is represented by the request it was computed for, the version *)
(* of the archive its first page was read from, and how long ago that was  *)
(* when it was cached.  (That the pages of a stream fit together is        *)
(* PostgresStore's StreamComplete; that a call of Redis is rejected or has *)
(* its own reply, RedisCache's EachOwnReply.)  Requests that change nothing*)
(* (preflight, other methods, the API's description) are left out.         *)
(***************************************************************************)
EXTENDS ServedArchive

CONSTANTS
    Clients,            \* client addresses
    Pieces,             \* what may stand between two colons of a name
    Digests,            \* the digests asked for: [exclusive, from, to, account, contract]
    PerMinute,          \* ratePerMinute; 0 is no limit
    WindowMs,           \* the limiter's window
    OpenTtl, ClosedTtl, \* how long a digest is cached
    MaxEntries          \* maxEntries of the map

(* The name of an account or a contract, as the sequence of the pieces its *)
(* colons divide it into; no account or no contract at all is none.        *)
Name      == Seq(Pieces)
Unnamed   == <<>>
Everybody == <<"*">>

(* /digest takes no account and no exclusive bound, an account's no contract*)
Routed(q) == \/ q.account = Unnamed /\ ~q.exclusive
             \/ q.account # Unnamed /\ q.contract = Unnamed

ASSUME DigestsAssumption ==
    /\ "*" \in Pieces
    /\ Digests \subseteq [exclusive: BOOLEAN, from: Cursors \cup {0}, to: Cursors \cup {CURSOR_MAX},
                          account: Name, contract: Name]
    /\ \A q \in Digests : Routed(q)

ASSUME ApiAssumption ==
    /\ PerMinute \in Nat /\ WindowMs \in Nat \ {0}
    /\ OpenTtl \in Nat \ {0} /\ ClosedTtl \in Nat \ {0} /\ MaxEntries \in Nat \ {0}

VARIABLES
    limiter,      \* windowStart, and counts by client
    backend,      \* what createCache made: "memory", "redis", "lost" (its connection)
    entries,      \* the cache: [key, digest, expiresAt], in the order of the map
    admitted      \* history variable: when the last requests of each client were let in

apiVars == <<limiter, backend, entries, admitted>>

ApiInit ==
    /\ limiter = [start |-> now, used |-> [c \in Clients |-> 0]]
    /\ backend \in {"memory", "redis"}
    /\ entries = <<>>
    /\ admitted = [c \in Clients |-> <<>>]

----------------------------------------------------------------------------
(* http.ts.                                                                *)

(* A new window starts with the first request after the last one's end.    *)
WindowOver == now - limiter.start >= WindowMs

CountedFromZero(c) ==
    IF WindowOver
    THEN [start |-> now, used |-> [d \in Clients |-> 0]]
    ELSE [limiter EXCEPT !.used[c] = @ + 1]

Counted(c) ==
    IF WindowOver
    THEN [start |-> now, used |-> [d \in Clients |-> IF d = c THEN 1 ELSE 0]]
    ELSE [limiter EXCEPT !.used[c] = @ + 1]

(* One more than two windows let through.                                  *)
LastOf(times) == IF Len(times) > 2 * PerMinute + 1 THEN Tail(times) ELSE times

(* check(), when it lets a request of client c pass and when it throws.    *)
Check(c) ==
    /\ IF PerMinute = 0 THEN UNCHANGED limiter
       ELSE limiter' = Counted(c) /\ limiter'.used[c] <= PerMinute
    /\ admitted' = [admitted EXCEPT ![c] = LastOf(Append(@, now))]

RateLimited(h, c) ==
    /\ PerMinute > 0
    /\ limiter' = Counted(c) /\ limiter'.used[c] > PerMinute
    /\ Receive(h, Idle)
    /\ UNCHANGED <<backend, entries, admitted>>

----------------------------------------------------------------------------
(* cache.ts.                                                               *)

(* The key joins everything with colons, and a name that is not given is   *)
(* written "*".  A bound has no colon in it: it is a cursor.  A name is    *)
(* whatever the request has there, so two requests may have one key.       *)
Written(name) == IF name = Unnamed THEN Everybody ELSE name

KeyOf(q, names)   == [exclusive |-> q.exclusive, from |-> q.from, to |-> q.to, names |-> names]
KeyOfContract(q)  == KeyOf(q, Written(q.contract))
CacheKey(q)       == KeyOf(q, Written(q.account) \o Written(q.contract))

TtlOf(q) == IF q.to = CURSOR_MAX THEN OpenTtl ELSE ClosedTtl

Kept(q)         == {i \in DOMAIN entries : entries[i].key = CacheKey(q)}
LiveToTheEnd(q) == {i \in Kept(q) : entries[i].expiresAt >= now}
Live(q)         == {i \in Kept(q) : entries[i].expiresAt > now}

(* A hit moves to the end of the map, an expired entry goes.               *)
AfterGet(q) ==
    IF backend # "memory" \/ Kept(q) = {} THEN entries
    ELSE LET i    == CHOOSE i \in Kept(q) : TRUE
             rest == SubSeq(entries, 1, i - 1) \o SubSeq(entries, i + 1, Len(entries))
         IN  IF i \in Live(q) THEN Append(rest, entries[i]) ELSE rest

(* A new entry evicts the first of a full map; an old one keeps its place. *)
Evicted == IF backend = "memory" /\ Len(entries) >= MaxEntries THEN Tail(entries) ELSE entries

AfterSet(q, digest) ==
    LET entry == [key |-> CacheKey(q), digest |-> digest, expiresAt |-> now + TtlOf(q)]
    IN  IF Kept(q) = {} THEN Append(Evicted, entry)
        ELSE [i \in DOMAIN entries |-> IF i \in Kept(q) THEN entry ELSE entries[i]]

----------------------------------------------------------------------------
(* The other routes, known or not, change nothing after the limiter.       *)

ReadRoute(h, c) ==
    /\ Check(c)
    /\ Receive(h, Idle)
    /\ UNCHANGED <<backend, entries>>

----------------------------------------------------------------------------
(* digest() of integrity.ts, from one await to the next.  The map of the   *)
(* process is read and written by the call itself, Redis while it is       *)
(* awaited.                                                                *)

Send(q, asked, digest) == [at |-> "send", request |-> q, asked |-> asked, digest |-> digest]

Reading(q, asked, asOf, readAt) ==
    [at |-> "events", request |-> q, asked |-> asked, asOf |-> asOf, readAt |-> readAt]

Got(q, asked) ==
    IF Live(q) # {} THEN Send(q, asked, entries[CHOOSE i \in Live(q) : TRUE].digest)
    ELSE Reading(q, asked, -1, -1)

GetDigest(h, c, q) ==
    /\ Check(c)
    /\ \/ backend = "memory" /\ Receive(h, Got(q, now)) /\ entries' = AfterGet(q)
       \/ backend = "redis" /\ Receive(h, [at |-> "get", request |-> q, asked |-> now]) /\ UNCHANGED entries
       \/ backend = "lost" /\ Receive(h, Idle) /\ UNCHANGED entries
    /\ UNCHANGED backend

GetFromRedis(h) ==
    /\ handler[h].at = "get" /\ backend = "redis"
    /\ Resume(h, Got(handler[h].request, handler[h].asked))
    /\ UNCHANGED apiVars

(* A page of the stream that is not the last.                              *)
ReadPage(h) ==
    /\ handler[h].at = "events" /\ handler[h].asOf = -1
    /\ Resume(h, Reading(handler[h].request, handler[h].asked, Version, now))
    /\ UNCHANGED apiVars

(* The last page, or the only one: the digest is computed and cached.      *)
Computed(l) ==
    [request |-> l.request,
     asOf    |-> IF l.asOf = -1 THEN Version ELSE l.asOf,
     age     |-> IF l.asOf = -1 THEN 0 ELSE now - l.readAt]

SetDigest(h) ==
    /\ handler[h].at = "events"
    /\ LET l == handler[h]
           d == Computed(l)
       IN  \/ /\ backend = "memory"
              /\ entries' = AfterSet(l.request, d)
              /\ Resume(h, Send(l.request, l.asked, d))
           \/ /\ backend = "redis"
              /\ Resume(h, [at |-> "set", asked |-> l.asked, digest |-> d, since |-> now])
              /\ UNCHANGED entries
           \/ /\ backend = "lost"
              /\ Resume(h, Idle)
              /\ UNCHANGED entries
    /\ UNCHANGED <<limiter, backend, admitted>>

SetInRedis(h) ==
    /\ handler[h].at = "set" /\ backend = "redis"
    /\ LET d == [handler[h].digest EXCEPT !.age = @ + now - handler[h].since]
       IN  /\ entries' = AfterSet(d.request, d)
           /\ Resume(h, Send(d.request, handler[h].asked, d))
    /\ UNCHANGED <<limiter, backend, admitted>>

SendDigest(h) ==
    /\ handler[h].at = "send"
    /\ Resume(h, Idle)
    /\ UNCHANGED apiVars

(* A query of the stream fails, or a call of Redis is rejected.            *)
Fail(h) ==
    /\ \/ handler[h].at = "events"
       \/ handler[h].at \in {"get", "set"} /\ backend = "lost"
    /\ Resume(h, Idle)
    /\ UNCHANGED apiVars

(* The one connection to Redis is lost, and is not opened again.           *)
LoseRedis ==
    /\ backend = "redis"
    /\ backend' = "lost"
    /\ entries' = <<>>
    /\ UNCHANGED <<size, now, handler, made, changedAt, limiter, admitted>>

----------------------------------------------------------------------------
ApiNext ==
    \/ \E h \in Handlers :
         \/ /\ handler[h] = Idle
            /\ \E c \in Clients : \/ RateLimited(h, c) \/ ReadRoute(h, c)
                                  \/ \E q \in Digests : GetDigest(h, c, q)
         \/ GetFromRedis(h) \/ ReadPage(h) \/ SetDigest(h) \/ SetInRedis(h)
         \/ SendDigest(h) \/ Fail(h)
    \/ LoseRedis

----------------------------------------------------------------------------
Answering(h) == handler[h].at = "send"

(* A name the network could have given has no colon; "*" stands for none.  *)
OfOnePiece(q)  == Len(Written(q.account)) = 1 /\ Len(Written(q.contract)) = 1
SameName(a, b) == a = b \/ {a, b} = {Unnamed, Everybody}

(* A digest answers for the range it was asked for, whether the lower bound*)
(* is inclusive or exclusive, and for the account and the contract asked   *)
(* for when those have no colon, whoever computed it, for whichever names, *)
(* and wherever it was kept; but "*" is taken for no name, and no name for *)
(* "*" (cacheKey).                                                         *)
EachItsOwnDigest ==
    \A h \in Handlers : Answering(h) =>
        LET asked == handler[h].request
            given == handler[h].digest.request
        IN  /\ given.exclusive = asked.exclusive /\ given.from = asked.from /\ given.to = asked.to
            /\ OfOnePiece(asked) => /\ SameName(given.account, asked.account)
                                    /\ SameName(given.contract, asked.contract)

(* An answer reflects everything committed a TTL before it was asked for,  *)
(* and the time somebody took to compute and cache it: however requests    *)
(* overlap, and although the slower of two writes the older digest last.   *)
DigestsFresh ==
    \A h \in Handlers :
        Answering(h) /\ handler[h].digest.asOf < Version =>
            LET d == handler[h].digest
            IN  changedAt[d.asOf + 1] > handler[h].asked - TtlOf(handler[h].request) - d.age

(* The last requests of a client that were let in, when they are one more  *)
(* than two windows' worth, span a window.                                 *)
Spaced(times) ==
    PerMinute > 0 /\ Len(times) = 2 * PerMinute + 1
        => times[2 * PerMinute + 1] - times[1] >= WindowMs

(* A window's worth of a client's was let in within the last WindowMs.     *)
HadItsShare(c) ==
    /\ Len(admitted[c]) >= PerMinute
    /\ now - admitted[c][Len(admitted[c]) - PerMinute + 1] < WindowMs

(* No client gets more than two windows' worth of requests through in any  *)
(* stretch as long as a window, and one is refused only when it has had a  *)
(* window's worth through within the last WindowMs, whatever others do.    *)
RateKept ==
    [][/\ \A c \in Clients : Spaced(admitted'[c])
       /\ \A c \in Clients : HadItsShare(c) \/ \A h \in Handlers : ~RateLimited(h, c)]_<<made, admitted>>
=============================================================================
