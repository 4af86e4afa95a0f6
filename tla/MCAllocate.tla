----------------------------- MODULE MCAllocate -----------------------------
EXTENDS Allocate, TLC

\* Fillers are interchangeable: no definition of Allocate names one of them.
FillerSymmetry == Permutations(Fillers)
=============================================================================
