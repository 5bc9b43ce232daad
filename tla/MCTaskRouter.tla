---------------------------- MODULE MCTaskRouter ----------------------------
(* Small instances of the handlers for TLC.  Reservation ids are numbers    *)
(* and are not interchangeable.                                             *)
EXTENDS TaskRouter, RouterRefinement, TLC

Symmetry == Permutations(Agents) \cup Permutations(Tasks)
                \cup Permutations(Callers)
=============================================================================
