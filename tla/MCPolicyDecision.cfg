SPECIFICATION Spec
CONSTANTS
  Documents <- MCDocuments
  Urls <- MCUrls
  Methods = {"GET", "POST", "DELETE"}
  Approvals = {"", "ticket", "expired"}
  ApprovedIds = {"ticket"}
INVARIANTS
  ScopeSound
  ScopeComplete
  NothingByDefault
  LoadedLimitsBind
