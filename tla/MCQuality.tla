----------------------------- MODULE MCQuality -----------------------------
(* Two calls, to one peer or to two.  The reports may come in any order: of *)
(* a connection that is idle, and of a fast one that loses one packet of a  *)
(* hundred.  The clock stands still between them.                           *)
EXTENDS Quality, TLC

CONSTANTS p1, p2

McReports ==
    {[bytes |-> 0,      lost |-> 0, received |-> 0,  rtt |-> 0],
     [bytes |-> 600000, lost |-> 1, received |-> 99, rtt |-> 50]}
McGaps == {0}
Symmetry == Permutations({p1, p2})
=============================================================================
