------------------------------ MODULE MCDataStore ------------------------------
EXTENDS DataStore, TLC

Symmetry == Permutations(Ptrs)

\* States that differ only in the request served last are explored once; every
\* step out of them is still checked.
WithoutRequest == <<memory, db, phase, saved, torn>>
=============================================================================
