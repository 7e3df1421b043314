----------------------------- MODULE MCAmounts -----------------------------
(* Amounts of two base-three limbs and a search bound of three full-width  *)
(* additions.  The draws are far above the bound and, weighted and summed  *)
(* with any signs, never cancel.                                           *)
EXTENDS Amounts

MCValues == {1, 3, 8}
MCKeys   == {2, 3}
MCRandom == [n \in 1..MaxEvents |-> [i \in 1..LimbCount |-> 50 * 16 ^ (n - 1) * 4 ^ (i - 1)]]
=============================================================================
