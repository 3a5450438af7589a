SPECIFICATION Spec
CONSTANTS
  Calls = {c1, c2}
  Requests <- OneRequest
  Config <- MCConfig
  ApprovedIds = {"ticket"}
  LoadedProfiles = {"alice"}
  MaxRequests = 2
  MaxConcurrent = 1
  Interval = 3
  MaxWait = 1
  MaxCrashes = 0
INVARIANTS
  EveryDecisionLogged
