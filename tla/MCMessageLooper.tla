-------------------------- MODULE MCMessageLooper ---------------------------
(***************************************************************************)
(* Small instances of MessageLooper for TLC.                                *)
(***************************************************************************)
EXTENDS MessageLooper

CONSTANTS m1, m2, h1, h2, s1, s2, q1, q2

PlainOnly == {NoContent}

Symmetry == Permutations(Msgs) \cup Permutations(Senders)

=============================================================================
