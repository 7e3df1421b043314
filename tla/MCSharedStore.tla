--------------------------- MODULE MCSharedStore ---------------------------
(***************************************************************************)
(* Values for the constants of SharedStore.                                *)
(***************************************************************************)
EXTENDS SharedStore

MCCall(c)     == [contract |-> c, ok |-> TRUE]
MCEither      == {<<MCCall("a")>>, <<MCCall("b")>>}
MCBetween     == {"idle"}
=============================================================================
