--------------------------- MODULE RecoveryServer ---------------------------
(***************************************************************************)
(* The recovery coordination service: sessions in memory, opened and       *)
(* reported on by handlers that interleave at their awaits of the store,   *)
(* while ingestion moves the archive.                                      *)
(*                                                                         *)
(* A session is an object; "live" are those in the map (a handler that has *)
(* looked one up keeps it after it has expired).  The archive's latest     *)
(* ledger, which the service only passes on, is left out.                  *)
(***************************************************************************)
EXTENDS ServedArchive

CONSTANTS
    Ids,           \* bound: the sessions that are ever opened
    MaxSessions,   \* maxSessions
    Ttl            \* sessionTtlMs

ASSUME ServerAssumption ==
    MaxSessions \in Nat /\ Ttl \in Nat /\ IsFiniteSet(Ids)

VARIABLES
    live,       \* this.sessions: the ids in the map
    session,    \* every session ever opened, by id
    furthest    \* history variable: the greatest cursor reported, by session

serverVars == <<live, session, furthest>>

Missing == 0   \* no cursor

NoSession == [startedAt |-> 0, from |-> Missing, toCursor |-> Missing, cursor |-> Missing,
              expected |-> 0, reported |-> 0, status |-> "unopened"]

ServerInit ==
    /\ live = {}
    /\ session = [i \in Ids |-> NoSession]
    /\ furthest = [i \in Ids |-> Missing]

Opened == {i \in Ids : session[i].status # "unopened"}
GreaterOf(a, b) == IF a >= b THEN a ELSE b

----------------------------------------------------------------------------
(* POST /recovery/session, from a cursor or from the beginning.            *)

Post(h) ==
    /\ \E from \in Cursors \cup {Missing} : Receive(h, [at |-> "summary", from |-> from])
    /\ UNCHANGED serverVars

ReadSummary(h) ==
    /\ handler[h].at = "summary"
    /\ Resume(h, [at |-> "count", from |-> handler[h].from, last |-> size])
    /\ UNCHANGED serverVars

CountExpected(h) ==
    /\ handler[h].at = "count"
    /\ Resume(h, [at |-> "open", from |-> handler[h].from, last |-> handler[h].last,
                  count |-> Cardinality({c \in 1..size : c > handler[h].from})])
    /\ UNCHANGED serverVars

Expired == {i \in live : session[i].startedAt < now - Ttl}

FullByOneMore == Cardinality(live \ Expired) > MaxSessions
Full == Cardinality(live \ Expired) >= MaxSessions

Opening(l) ==
    [startedAt |-> now,
     from      |-> IF l.from # Missing THEN l.from ELSE IF l.last # Missing THEN 1 ELSE CURSOR_MAX,
     toCursor  |-> IF l.last # Missing THEN l.last ELSE CURSOR_MAX,
     cursor    |-> l.from,
     expected  |-> l.count,
     reported  |-> 0,
     status    |-> IF l.count = 0 THEN "complete" ELSE "pending"]

(* expire(), the limit and the insertion run without an await in between.  *)
Open(h) ==
    /\ handler[h].at = "open"
    /\ ~Full
    /\ \E i \in Ids \ Opened :
         /\ session' = [session EXCEPT ![i] = Opening(handler[h])]
         /\ live' = (live \ Expired) \cup {i}
    /\ Resume(h, Idle)
    /\ UNCHANGED furthest

Refuse(h) ==
    /\ handler[h].at = "open"
    /\ Full
    /\ live' = live \ Expired
    /\ Resume(h, Idle)
    /\ UNCHANGED <<session, furthest>>

----------------------------------------------------------------------------
(* GET /recovery/status with a cursor the client has reached.  (Without    *)
(* one, nothing but the latest ledger changes.)                            *)

GetStatus(h) ==
    /\ \E i \in live, c \in Cursors \cup {CURSOR_MAX} :
         Receive(h, [at |-> "ledger", id |-> i, cursor |-> c])
    /\ UNCHANGED serverVars

Report(h) ==
    /\ handler[h].at = "ledger"
    /\ session' = [session EXCEPT ![handler[h].id].cursor = handler[h].cursor]
    /\ furthest' = [furthest EXCEPT ![handler[h].id] = GreaterOf(@, handler[h].cursor)]
    /\ Resume(h, [at |-> "reported", id |-> handler[h].id, cursor |-> handler[h].cursor])
    /\ UNCHANGED live

CountReported(h) ==
    /\ handler[h].at = "reported"
    /\ Resume(h, [at |-> "finish", id |-> handler[h].id, cursor |-> handler[h].cursor,
                  count |-> Cardinality({c \in 1..size : c <= handler[h].cursor})])
    /\ UNCHANGED serverVars

ReachedByCount(l) == l.count >= session[l.id].expected
Reached(l)        == l.cursor >= session[l.id].toCursor

Finish(h) ==
    /\ handler[h].at = "finish"
    /\ session' = [session EXCEPT ![handler[h].id].reported = handler[h].count,
                     ![handler[h].id].status = IF Reached(handler[h]) THEN "complete" ELSE "in-progress"]
    /\ Resume(h, Idle)
    /\ UNCHANGED <<live, furthest>>

(* A query of the store fails: 500, and what was written stays.            *)
AbandonCall(h) ==
    /\ handler[h].at \in {"summary", "count", "ledger", "reported"}
    /\ Resume(h, Idle)
    /\ UNCHANGED serverVars

----------------------------------------------------------------------------
ServerNext ==
    \E h \in Handlers :
        \/ Post(h) \/ ReadSummary(h) \/ CountExpected(h) \/ Open(h) \/ Refuse(h)
        \/ GetStatus(h) \/ Report(h) \/ CountReported(h) \/ Finish(h)
        \/ AbandonCall(h)

----------------------------------------------------------------------------
(* The map never outgrows its limit, however many creations are between    *)
(* their awaits when the last place is taken.                              *)
SessionsBounded == Cardinality(live) <= MaxSessions

(* A session that had something to fetch is complete only after the client *)
(* has reported reaching the end of the range it was given.                *)
CompletedByReport ==
    \A i \in Opened : session[i].status = "complete" /\ session[i].expected > 0
                        => furthest[i] >= session[i].toCursor
=============================================================================
