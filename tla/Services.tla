------------------------------ MODULE Services ------------------------------
(***************************************************************************)
(* The services: both HTTP services over the archive that ingestion moves, *)
(* and the start of either, which brings the database's schema up to date. *)
(* None of the three reads what another writes, so they are taken one at a *)
(* time: "service" says which is explored.                                 *)
(***************************************************************************)
EXTENDS ArchiveApi, RecoveryServer, Migrations

VARIABLE service

archiveVars == <<size, now, handler, made, changedAt>>
vars == <<archiveVars, apiVars, serverVars, migrationVars, service>>

Init ==
    /\ ServedInit /\ ApiInit /\ ServerInit /\ MigrationsInit
    /\ service \in {"archive", "coordination", "start"}

(* The archive's API is told only which version of the archive it reads.   *)
Served ==
    /\ \/ service = "archive" /\ Change(size)
       \/ service = "coordination" /\ (Ingest \/ Rollback)
       \/ service # "start" /\ Tick
    /\ UNCHANGED <<apiVars, serverVars, migrationVars>>

Archive      == service = "archive" /\ ApiNext /\ UNCHANGED <<serverVars, migrationVars>>
Coordination == service = "coordination" /\ ServerNext /\ UNCHANGED <<apiVars, migrationVars>>
StartUp      == service = "start" /\ MigrationsNext /\ UNCHANGED <<archiveVars, apiVars, serverVars>>

Next ==
    /\ Served \/ Archive \/ Coordination \/ StartUp
    /\ UNCHANGED service

Spec == Init /\ [][Next]_vars
=============================================================================
