SPECIFICATION FairSpec
CONSTANTS
  MemoryIds = {1, 2, 3}
  ConflictIds = {11, 12}
  Subjects = {"project"}
  ConfirmSubjects = {}
  Fingerprints = {f1, f2, f3}
  Sources = {v1, v2}
  Keys = {k1, k2}
  NoKey = NoKey
  f1 = f1
  f2 = f2
  f3 = f3
  v1 = v1
  v2 = v2
  k1 = k1
  k2 = k2
  r1 = r1
  r2 = r2
  r3 = r3
  r4 = r4
  Requests = {r1, r2, r3}
  Command <- DisputeCommand
  KeyOf <- DisputeKey
  InitialTables <- WithForgotten
  MaxAttempts = 4
INVARIANTS
  CommitFence
PROPERTY AllAnswered
