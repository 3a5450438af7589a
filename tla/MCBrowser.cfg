SPECIFICATION FairSpec
CONSTANTS
  Routes = {r1, r2, r3}
  PageRequests <- MCPageRequests
  Target <- PageUrl
  Profile = "alice"
  Config <- MCConfig
  LoadedProfiles = {"alice"}
  MaxRequests = 2
  MaxRecords = 2
  SlowRate = TRUE
INVARIANTS
  RecordAccounts
PROPERTIES
  PageKeepsBoundary
  RoutesAnswered
