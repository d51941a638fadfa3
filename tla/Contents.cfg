SPECIFICATION Spec7
CONSTANTS
  Keys = {1}
  MaxAttempts = 2
  MaxRequests = 1
  MaxWork = 1
  MaxCrashes = 1
  MaxRestores = 2
  TornCrash = TRUE
  Release = 1
  Operators = {o1, o2}
  TargetIds = {t1, t2}
  k1 = k1
  k2 = k2
  Branches <- Histories
  Settings <- Anchorings
  RecoveryBudgets <- Recoveries
  Configs <- ImportConfigs
  ImportBudgets <- Imports
  c1 = c1
  c2 = c2
  hub = hub
  importer = importer
  Transport <- Transports
  Proposals <- Nominations
  Deciders = {d1, d2}
  Sections <- PackSections
  Size <- Sizes
  Attr <- Corpus
  Principal <- Reader
  Starts <- Reads
  Score <- Scores
  Weight <- Weights
INVARIANTS
  NoResurrection
  ErasedIsAccepted
  RecoveredAsAnchored
  ImportedOnce
  CompletionIsDue
  CandidatesAccounted
  PagesComplete
  AnswersAreTrue
  RebuiltExactly
CHECK_DEADLOCK FALSE
