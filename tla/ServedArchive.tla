---------------------------- MODULE ServedArchive ----------------------------
(***************************************************************************)
(* What the two HTTP services have in common: the archive, which ingestion *)
(* moves between any two reads of a handler, the clock, and the requests in*)
(* progress, each a handler between two awaits of the store.               *)
(*                                                                         *)
(* One account's events, one per ledger: the archive holds those with      *)
(* cursors 1..size.                                                        *)
(***************************************************************************)
EXTENDS Integers, Sequences, FiniteSets

CONSTANTS
    MaxEvents,     \* bound: the events of the account
    FirstSize,     \* those the archive starts with
    MaxChanges,    \* bound: appends and rollbacks
    MaxTime,       \* bound: the clock
    Handlers,      \* bound: the requests in progress at one time
    MaxRequests    \* bound: the requests ever made

ASSUME ServedArchiveAssumption ==
    /\ MaxEvents \in Nat /\ FirstSize \in 0..MaxEvents /\ MaxChanges \in Nat /\ MaxTime \in Nat /\ MaxRequests \in Nat
    /\ IsFiniteSet(Handlers)

VARIABLES
    size,         \* events the archive holds
    now,          \* Date.now()
    handler,      \* the locals of each handler, and the await it is at
    made,         \* requests made
    changedAt     \* history variable: when each change of the archive was committed

CURSOR_MAX == MaxEvents + 1
Cursors    == 1..MaxEvents
Idle       == [at |-> "idle"]

(* The changes made so far number the states of the archive.               *)
Version == Len(changedAt)

ServedInit ==
    /\ size = FirstSize /\ now = 0 /\ changedAt = <<>>
    /\ handler = [h \in Handlers |-> Idle] /\ made = 0

Change(next) ==
    /\ Version < MaxChanges
    /\ size' = next
    /\ changedAt' = Append(changedAt, now)
    /\ UNCHANGED <<now, handler, made>>

Ingest   == size < MaxEvents /\ Change(size + 1)
Rollback == size > 0 /\ Change(size - 1)

Tick ==
    /\ now < MaxTime
    /\ now' = now + 1
    /\ UNCHANGED <<size, handler, made, changedAt>>

(* A request is received, and a handler runs to its next await, if any.    *)
Receive(h, locals) ==
    /\ handler[h] = Idle
    /\ made < MaxRequests
    /\ made' = made + 1
    /\ handler' = [handler EXCEPT ![h] = locals]
    /\ UNCHANGED <<size, now, changedAt>>

Resume(h, locals) ==
    /\ handler' = [handler EXCEPT ![h] = locals]
    /\ UNCHANGED <<size, now, made, changedAt>>
=============================================================================
