------------------------------- MODULE MCFiles ------------------------------
EXTENDS Files, TLC

\* Readers are interchangeable: no definition of Files names one of them.
ReaderSymmetry == Permutations(Readers)
=============================================================================
