----------------------------- MODULE MCRecovery -----------------------------
(***************************************************************************)
(* Values for the constants of Recovery.                                   *)
(***************************************************************************)
EXTENDS Recovery

MCUnit     == {1}
MCInAndOut == {"credit", "debit"}
MCRollover == {"credit", "replace"}
=============================================================================
