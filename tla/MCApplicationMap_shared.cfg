SPECIFICATION Spec
CONSTANTS
  Observations = {"o1", "o3", "cmd"}
  ProcessOf <- MCProcessOf
  EndpointOf <- MCEndpointOf
  Adds <- MCAdds
  FieldOrder <- MCFieldOrder
  MaxCrashes = 2
INVARIANTS
  ReturnedIsSaved
  NothingInvented
  OwnEndpointKept
PROPERTIES
  FileOnlyGrows
