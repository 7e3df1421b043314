----------------------------- MODULE MCServices -----------------------------
(***************************************************************************)
(* Values for the constants of Services.                                   *)
(***************************************************************************)
EXTENDS Services, TLC

CONSTANTS s1, s2, h1, h2, c1, c2

MCIds      == {s1, s2}
MCHandlers == {h1, h2}
MCClients  == {c1, c2}
MCSymmetry == Permutations(MCHandlers) \cup Permutations(MCClients)

MCKnown == [old |-> 1, new |-> 2]

Digest(exclusive, to, account, contract) ==
    [exclusive |-> exclusive, from |-> 1, to |-> to, account |-> account, contract |-> contract]

(* The whole archive's, an account's with either bound, a contract's of a  *)
(* closed range, and those of an account that is no account.               *)
MCDigests == {Digest(FALSE, CURSOR_MAX, Unnamed, Unnamed),
              Digest(FALSE, CURSOR_MAX, <<"a">>, Unnamed),
              Digest(TRUE, CURSOR_MAX, <<"a">>, Unnamed),
              Digest(FALSE, CURSOR_MAX, Everybody, Unnamed),
              Digest(FALSE, 1, Unnamed, <<"c">>)}
=============================================================================
