-------------------------- MODULE MCPostgresStore --------------------------
(***************************************************************************)
(* Values for the constants of PostgresStore.                              *)
(***************************************************************************)
EXTENDS PostgresStore

MCOwnRow == [s \in Writers |-> "primary"]
=============================================================================
