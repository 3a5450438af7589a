SPECIFICATION FairProxySpec
CONSTANTS
  Calls = {c1, c2}
  Requests <- MCRequests
  Messages <- LiveMessages
  DefaultApproval = ""
  DefaultProfile = "alice"
  Config <- MCConfig
  ApprovedIds = {"ticket"}
  LoadedProfiles = {"alice"}
  MaxRequests = 2
  MaxConcurrent = 1
  Interval = 1
  MaxWait = 1
  MaxCrashes = 0
PROPERTIES
  EveryCallEnds
  WaitersHeedKill
  StalledClientsHarmless
