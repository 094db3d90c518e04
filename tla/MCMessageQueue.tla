--------------------------- MODULE MCMessageQueue ---------------------------
(***************************************************************************)
(* Small instances of MessageQueue for TLC.                                 *)
(***************************************************************************)
EXTENDS MessageQueue

CONSTANTS m1, m2, m3, h1, h2, s1, s2, r1, cb1, p1

\* Two contents that the overloads of removeMessage tell apart: a plain
\* message and one with a runnable and a callback.
Plain == NoContent
Rich == [mWhat |-> 1, mArg1 |-> 0, mArg2 |-> 0,
         mCallback |-> r1, mHandleCallback |-> cb1]
PlainOnly == {Plain}
PlainAndRich == {Plain, Rich}

Negative1And1 == {-1, 1}

Symmetry == Permutations(Msgs) \cup Permutations(Handlers) \cup Permutations(Senders)

=============================================================================
