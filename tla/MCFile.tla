------------------------------- MODULE MCFile --------------------------------
EXTENDS File, TLC

\* Variables that hold Files are interchangeable.
Symmetry == Permutations(Objs)

=============================================================================
