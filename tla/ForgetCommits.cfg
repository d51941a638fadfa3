SPECIFICATION Spec
CONSTANTS
  MemoryIds = {1, 2}
  ConflictIds = {11, 12}
  Subjects = {"persona", "project"}
  ConfirmSubjects = {"persona"}
  Fingerprints = {f1, f2}
  Sources = {v1, v2}
  MaxRevision = 3
INVARIANT LogicalForgetCommits
CHECK_DEADLOCK FALSE
