----------------------------- MODULE MCAdapter -----------------------------
(* TOIDs of four by two slots, cursors whose last component holds exactly  *)
(* the largest event index fanned out, and events at these limits and      *)
(* beyond the last one.                                                    *)
EXTENDS Adapter

MCPositions ==
    {[tx |-> 1, op |-> 1, ordinal |-> 2], [tx |-> 1, op |-> 1, ordinal |-> 3],
     [tx |-> 1, op |-> 1, ordinal |-> 4], [tx |-> 3, op |-> 0, ordinal |-> 0]}

Shape(kind, from, to, success) ==
    [kind |-> kind, from |-> from, to |-> to, success |-> success]

MCShapes ==
    {Shape(kind, "a", NoAccount, TRUE) :
        kind \in {"opaque", "foreign", "malformed", "deposit", "rollover"}}
      \cup {Shape("transfer", "a", "b", TRUE), Shape("transfer", "b", "b", TRUE),
            Shape("transfer", "a", "b", FALSE)}
=============================================================================
