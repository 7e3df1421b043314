------------------------------- MODULE Digest -------------------------------
(***************************************************************************)
(* The integrity digest of a range of events: the Merkle root an archive   *)
(* publishes, and the checks a client makes of what it was served.         *)
(* SHA-256 is taken to be injective and its two prefixes to separate its   *)
(* inputs: the hash of a leaf or of a node is the term it was computed     *)
(* from.  (Which bytes are hashed is modelled by the fields they bind.)    *)
(***************************************************************************)
EXTENDS Integers, Sequences, FiniteSets

CONSTANTS
    MaxCursor,    \* bound: cursors are 1..MaxCursor
    Payloads,     \* what replay reads of an event
    Raws,         \* adapter-specific encodings of one logical event
    MaxTampers    \* bound: how many times a provider tampers with a list

ASSUME DigestAssumption == MaxCursor \in Nat /\ MaxTampers \in Nat

VARIABLES
    held,        \* what the archive holds: a sequence in cursor order
    served,      \* what the client was served for the whole range
    published,   \* the digest it was given for that range
    tampers

digestVars == <<held, served, published, tampers>>

Cursors == 1..MaxCursor
Event   == [cursor: Cursors, payload: Payloads, raw: Raws]

----------------------------------------------------------------------------
(* What a digest binds, and what it deliberately does not.                 *)
canonicalCursor(e) == [cursor |-> e.cursor]
canonicalEventBytes(e) == [cursor |-> e.cursor, payload |-> e.payload]

eventLeafHash(e) == <<"leaf", canonicalEventBytes(e)>>
NodeHash(l, r)   == <<"node", l, r>>

(* One level up: neighbours are paired, an odd last node is promoted.      *)
Paired(level) ==
    [i \in 1 .. (Len(level) + 1) \div 2 |->
        IF 2 * i <= Len(level) THEN NodeHash(level[2 * i - 1], level[2 * i])
        ELSE level[2 * i - 1]]

merkleRoot(events) ==
    LET level[n \in 0..Len(events)] ==
            IF n = 0 THEN [i \in DOMAIN events |-> eventLeafHash(events[i])]
            ELSE IF Len(level[n - 1]) > 1 THEN Paired(level[n - 1]) ELSE level[n - 1]
    IN  IF events = << >> THEN <<"empty">> ELSE level[Len(events)][1]

(* The cursor of the last event; 0, which is no cursor, stands for null.   *)
lastCursorOf(events) == IF events = << >> THEN 0 ELSE events[Len(events)].cursor

computeRangeDigest(from, to, events) ==
    [fromCursor |-> from, toCursor |-> to, eventCount |-> Len(events),
     merkleRoot |-> merkleRoot(events),
     lastCursor |-> lastCursorOf(events)]

(* Every mismatch is reported.  "previous" is the cursor before, whether   *)
(* or not that one was out of place.                                       *)
OutOfRange(events, digest) ==
    {i \in DOMAIN events : \/ events[i].cursor < digest.fromCursor
                           \/ events[i].cursor > digest.toCursor}
RepeatedOnly(events) == {i \in 2..Len(events) : events[i].cursor = events[i - 1].cursor}
OutOfOrder(events)   == {i \in 2..Len(events) : events[i].cursor <= events[i - 1].cursor}

verifyAgainstDigest(events, digest) ==
    {<<"range", i>> : i \in OutOfRange(events, digest)} \cup
    {<<IF events[i].cursor = events[i - 1].cursor THEN "duplicate" ELSE "ordering", i>> :
        i \in OutOfOrder(events)} \cup
    {<<"count", 0>> : x \in {y \in {digest} : y.eventCount # Len(events)}} \cup
    {<<"root", 0>> : x \in {y \in {digest} : y.merkleRoot # merkleRoot(events)}}

----------------------------------------------------------------------------
(* An archive, and a provider between it and the client that may drop,     *)
(* repeat, swap, re-encode or alter what it serves, step by step, and may  *)
(* publish the archive's digest or one that agrees with what it serves.    *)

WithoutAt(s, i) == [k \in 1 .. Len(s) - 1 |-> IF k < i THEN s[k] ELSE s[k + 1]]

DigestInit ==
    /\ held \in {s \in UNION {[1..n -> Event] : n \in 0..MaxCursor} :
                    /\ \A i \in 2..Len(s) : s[i - 1].cursor < s[i].cursor
                    /\ \A i \in DOMAIN s : s[i].raw = CHOOSE r \in Raws : TRUE}
    /\ served = held
    /\ published = computeRangeDigest(1, MaxCursor, held)
    /\ tampers = 0

DropOne ==
    \E i \in DOMAIN served : served' = WithoutAt(served, i)

Repeat ==
    \E i \in DOMAIN served : served' = Append(served, served[i])

Swap ==
    \E i, j \in DOMAIN served :
        served' = [served EXCEPT ![i] = served[j], ![j] = served[i]]

Alter ==
    \E i \in DOMAIN served, e \in Event : served' = [served EXCEPT ![i] = e]

Tamper ==
    /\ tampers < MaxTampers
    /\ published = computeRangeDigest(1, MaxCursor, held)
    /\ DropOne \/ Repeat \/ Swap \/ Alter
    /\ tampers' = tampers + 1
    /\ UNCHANGED <<held, published>>

LieConsistently ==
    /\ served # held
    /\ \E from, to \in Cursors : published' = computeRangeDigest(from, to, served)
    /\ UNCHANGED <<held, served, tampers>>

DigestNext == Tamper \/ LieConsistently

DigestSpec == DigestInit /\ [][DigestNext]_digestVars

----------------------------------------------------------------------------
Replayable(events) == [i \in DOMAIN events |-> <<events[i].cursor, events[i].payload>>]

(* Against the archive's own digest, what passes is the archive's history: *)
(* whatever is dropped, repeated, swapped or altered is noticed, and an    *)
(* encoding that differs only in `raw` is not held against a provider.     *)
(* Nor does it take the count: the root alone determines the list, and no  *)
(* list of another shape has it, in particular not one with its tail       *)
(* repeated ("Promotion has no such ambiguity").                           *)
ExactlyTamperingIsNoticed ==
    /\ published = computeRangeDigest(1, MaxCursor, held) =>
         (verifyAgainstDigest(served, published) = {} <=> Replayable(served) = Replayable(held))
    /\ merkleRoot(served) = merkleRoot(held) => Replayable(served) = Replayable(held)

(* Even a provider that publishes a digest of its own lie cannot serve an  *)
(* event twice, out of order, or from outside the range it commits to.     *)
LiesAreStillHistories ==
    verifyAgainstDigest(served, published) = {} =>
        \A i, j \in DOMAIN served : i < j =>
            /\ served[i].cursor < served[j].cursor
            /\ published.fromCursor <= served[i].cursor
            /\ served[j].cursor <= published.toCursor
=============================================================================
