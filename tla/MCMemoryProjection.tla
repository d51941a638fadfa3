------------------------- MODULE MCMemoryProjection -------------------------
EXTENDS MemoryProjection, TLC

\* Fingerprints and evidence are interchangeable.
Symmetry == Permutations(Fingerprints) \cup Permutations(Sources)
=============================================================================
