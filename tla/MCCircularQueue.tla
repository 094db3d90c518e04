-------------------------- MODULE MCCircularQueue ---------------------------
(***************************************************************************)
(* Small instances of CircularQueue for TLC.                                *)
(***************************************************************************)
EXTENDS CircularQueue, TLC

Symmetry == Permutations(Threads) \cup Permutations(Values)

=============================================================================
