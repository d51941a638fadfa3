SPECIFICATION Spec
CONSTANTS
  Jobs = {j1, j2}
  Workers = {w1, w2}
  Kinds = {"embed", "purge", "lifecycle"}
  MaxAttempts = 2
  BatchSize = 2
  Lease = 2
  RetryDelay = 1
  MaxCrashes = 1
SYMMETRY Symmetry
INVARIANTS
  LeaseFence
  NothingStranded
  EffectIffSucceeded
  AtLeastOnce
PROPERTY LeaseRespected
