--------------------------- MODULE MCOutboxLease ---------------------------
(* Small instances of OutboxLease, one per worker discipline.              *)
EXTENDS OutboxLease, TLC

Symmetry == Permutations(Jobs) \cup Permutations(Workers)
=============================================================================
