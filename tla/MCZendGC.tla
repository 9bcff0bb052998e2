------------------------------ MODULE MCZendGC -------------------------------
EXTENDS ZendGC, TLC

\* Objects with a destructor, and those without, are interchangeable.
Symmetry == Permutations(Dtor) \cup Permutations(Nodes \ Dtor)
=============================================================================
