------------------------------ MODULE MCIngest ------------------------------
(***************************************************************************)
(* Values for the constants of Ingest.                                     *)
(***************************************************************************)
EXTENDS Ingest

MCCall(ok)    == [contract |-> "c", ok |-> ok]
MCQuietOrBusy == {<< >>, <<MCCall(TRUE)>>}
MCFailing     == {<< >>, <<MCCall(FALSE), MCCall(TRUE)>>}
MCNever       == {}
MCBetween     == {"idle"}
MCAlways      == PC
MCMidWindow   == {"headers"}
=============================================================================
