----------------------------- MODULE MCPresence -----------------------------
(* Small instances of the presence service.                                *)
EXTENDS PresenceRelay, TLC

Symmetry == Permutations(Replicas) \cup Permutations(Conns)
=============================================================================
