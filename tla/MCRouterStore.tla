--------------------------- MODULE MCRouterStore ---------------------------
(* Small instances of the store for TLC. *)
EXTENDS RouterRefinement, TLC

\* The counts a create request may bring, below and above zero.  (A new
\* channel of a replaced or toggled capacity starts at zero.)
AnyActive == {-1, 1}

Symmetry == Permutations(Agents) \cup Permutations(Tasks)
                \cup Permutations(Reservations)
=============================================================================
