SPECIFICATION Spec
CONSTANTS
  Calls = {c1, c2, c3, c4}
  Requests <- GetOrDryRun
  Config <- MCConfig
  ApprovedIds = {"ticket"}
  LoadedProfiles = {"alice"}
  MaxRequests = 2
  MaxConcurrent = 1
  Interval = 1
  MaxWait = 1
  MaxCrashes = 1
SYMMETRY CallSymmetry
INVARIANTS
  ReceiptBeforeSend
  BudgetCovers
  LongRunRate
  SentHasEvidence
  SlotConservation
  KillBoundsSends
