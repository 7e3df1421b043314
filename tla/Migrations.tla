----------------------------- MODULE Migrations -----------------------------
(***************************************************************************)
(* migrate() of the Postgres store, which every service runs when it       *)
(* starts: instances that start together, of builds that know more or fewer*)
(* migrations, and that die or fail at any query and are started again.    *)
(*                                                                         *)
(* Migrations are numbered in the order of MIGRATIONS.  A transaction that *)
(* does not commit leaves nothing of the statements it has run.            *)
(***************************************************************************)
EXTENDS Naturals, FiniteSets

CONSTANTS
    Instances,
    Known,         \* the length of MIGRATIONS in the build of each instance
    Statements,    \* the statements of a migration
    MaxStarts      \* bound: the starts of all instances

ASSUME MigrationsAssumption ==
    /\ IsFiniteSet(Instances) /\ Known \in [Instances -> Nat]
    /\ Statements \in Nat \ {0} /\ MaxStarts \in Nat

VARIABLES
    applied,    \* the rows of schema_migrations
    executed,   \* history variable: how often each migration's statements were committed
    starting,   \* each instance: the query it is at, its migration, statements run of it
    lock,       \* who holds the advisory lock
    starts      \* starts so far

migrationVars == <<applied, executed, starting, lock, starts>>

Versions == UNION {1..Known[i] : i \in Instances}
Down     == [at |-> "down", migration |-> 0, run |-> 0]
Turn(i, m) ==
    [at |-> IF m > Known[i] THEN "ready" ELSE "begin", migration |-> m, run |-> 0]

MigrationsInit ==
    /\ applied = {} /\ executed = [m \in Versions |-> 0]
    /\ starting = [i \in Instances |-> Down]
    /\ lock = {} /\ starts = 0

At(i, query)     == starting[i].at = query
GoTo(i, query)   == starting' = [starting EXCEPT ![i].at = query]
Tables           == <<applied, executed>>

Start(i) ==
    /\ At(i, "down") /\ starts < MaxStarts
    /\ starts' = starts + 1
    /\ GoTo(i, "create")
    /\ UNCHANGED <<Tables, lock>>

(* The table of versions is created outside any transaction.               *)
CreateTable(i) ==
    /\ At(i, "create")
    /\ starting' = [starting EXCEPT ![i] = Turn(i, 1)]
    /\ UNCHANGED <<Tables, lock, starts>>

(* BEGIN, and the advisory lock, held until the transaction ends.          *)
LockShared(i) ==
    /\ At(i, "begin")
    /\ lock' = lock \cup {i}
    /\ GoTo(i, "check")
    /\ UNCHANGED <<Tables, starts>>

Lock(i) ==
    /\ At(i, "begin")
    /\ lock = {}
    /\ lock' = {i}
    /\ GoTo(i, "check")
    /\ UNCHANGED <<Tables, starts>>

(* A statement of its own, which sees all that was committed by then.      *)
CheckApplied(i) ==
    /\ At(i, "check")
    /\ GoTo(i, IF starting[i].migration \in applied THEN "commit" ELSE "statements")
    /\ UNCHANGED <<Tables, lock, starts>>

RunStatement(i) ==
    /\ At(i, "statements") /\ starting[i].run < Statements
    /\ starting' = [starting EXCEPT ![i].run = @ + 1]
    /\ UNCHANGED <<Tables, lock, starts>>

(* INSERT INTO schema_migrations; a second row of a version would be an    *)
(* error, which Fail stands for.                                           *)
RecordVersion(i) ==
    /\ At(i, "statements") /\ starting[i].run = Statements
    /\ starting[i].migration \notin applied
    /\ GoTo(i, "commit")
    /\ UNCHANGED <<Tables, lock, starts>>

CommitMigration(i) ==
    /\ At(i, "commit")
    /\ IF starting[i].run = 0 THEN UNCHANGED Tables
       ELSE /\ applied' = applied \cup {starting[i].migration}
            /\ executed' = [executed EXCEPT ![starting[i].migration] = @ + 1]
    /\ lock' = lock \ {i}
    /\ starting' = [starting EXCEPT ![i] = Turn(i, starting[i].migration + 1)]
    /\ UNCHANGED starts

(* A query fails, or the process dies: ROLLBACK, and the service exits.    *)
Exit(i) ==
    /\ ~At(i, "down")
    /\ starting' = [starting EXCEPT ![i] = Down]
    /\ lock' = lock \ {i}
    /\ UNCHANGED <<Tables, starts>>

MigrationsNext ==
    \E i \in Instances :
        \/ Start(i) \/ CreateTable(i) \/ Lock(i) \/ CheckApplied(i) \/ RunStatement(i)
        \/ RecordVersion(i) \/ CommitMigration(i) \/ Exit(i)

----------------------------------------------------------------------------
(* However instances of different builds start together, die half way and  *)
(* start again: a version is recorded exactly when its statements have been*)
(* committed, once; versions follow their order; an instance that serves   *)
(* has all of its own; and none is about to record one that is recorded.   *)
SchemaInStep ==
    /\ \A m \in Versions : executed[m] = IF m \in applied THEN 1 ELSE 0
    /\ \A m \in applied : 1..m \subseteq applied
    /\ \A i \in Instances :
         /\ At(i, "ready") => 1..Known[i] \subseteq applied
         /\ At(i, "statements") => starting[i].migration \notin applied
=============================================================================
